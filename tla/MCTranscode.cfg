CONSTANTS
  NumFiles = 2
  NonBlocking <- MCNonBlocking
  MaxPackets = 3
  MaxAgain = 1
  DecDelay = 2
  EncDelay = 1
SPECIFICATION Spec
INVARIANT NoFrameAfterEof
INVARIANT WaitsOnlyForInput
PROPERTY ImplementsPipe
CHECK_DEADLOCK FALSE
