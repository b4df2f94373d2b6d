SPECIFICATION ConversionSpec
CONSTANTS
  Commands = {"palette", "gif"}
  Inputs <- MCInputs
  Complex = {"gif"}
  NoFile = {"palette"}
  MaxFrames = 3
  MaxConversions = 3
INVARIANT
  ErrorRateReturned
CHECK_DEADLOCK FALSE
