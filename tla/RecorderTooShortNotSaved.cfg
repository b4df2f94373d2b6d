SPECIFICATION Spec
CHECK_DEADLOCK FALSE
CONSTANTS
  MaxProgress = 4
  MinProgress = 2
  ProgressCap = 7
PROPERTY
  TooShortNotSaved
