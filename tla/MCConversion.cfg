SPECIFICATION ConversionSpec
CONSTANTS
  Commands = {"palette", "gif"}
  Inputs <- MCInputs
  Complex = {"gif"}
  NoFile = {"palette"}
  MaxFrames = 3
  MaxConversions = 3
INVARIANTS
  CleanStart
  CrashOnlyAfterExit
  NoFalseAlarm
  NoStaleGif
PROPERTIES
  ConversionEnds
CHECK_DEADLOCK FALSE
