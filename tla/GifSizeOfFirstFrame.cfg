SPECIFICATION Spec
CONSTANTS
  Sizes = {"small", "large"}
  MaxFiles = 2
  MaxFrames = 2
  MaxFailed = 1
INVARIANT
  SizeOfFirstFrame
