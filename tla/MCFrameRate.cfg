CONSTANTS
  Muxers <- MCMuxers
  Durations <- MCDurations
  Steps <- MCSteps
  MaxPictures = 4
  MaxDup = 6
  EncDelay = 1
  TbNum = 1
  TbDen = 2
SPECIFICATION Spec
INVARIANT CountsAddUp
INVARIANT DriftBounded
PROPERTY StampsRise
CHECK_DEADLOCK FALSE
