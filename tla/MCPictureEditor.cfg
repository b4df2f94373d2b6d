CONSTANTS
  Counts <- MCCounts
  Builds = {b1}
  MaxChains = 3
SPECIFICATION Spec
INVARIANT TypeOK
INVARIANT OneChainUnlessRaced
INVARIANT CrashLosesNothing
PROPERTY EveryPictureShown
CHECK_DEADLOCK FALSE
