SPECIFICATION Spec
CONSTANTS
  Sizes = {"small", "large"}
  MaxFiles = 2
  MaxFrames = 2
  MaxFailed = 1
INVARIANTS
  WellFormed
  OneSize
  ClosesItsOwn
PROPERTIES
  FinishedIsFinal
