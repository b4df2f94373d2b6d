SPECIFICATION Spec
CONSTANTS
  NumFiles = 2
  Capacity = 2
  MaxPackets = 4
  NonBlocking <- MCNonBlocking
INVARIANTS
  TypeOK
  InOrder
  EofAfterAll
  NoUseAfterFree
  NoPacketLeaked
  NoMissedWakeup
PROPERTIES
  Terminates
