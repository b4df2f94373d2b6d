SPECIFICATION FrameSpec
CONSTANTS
  BITS = 4
  HSIZE = 17
  HSHIFT = 2
  PACKET = 3
  Depth = 2
  N = 24
  Turn = 18
  Period = 4
  Images <- MCImages
INVARIANTS
  FrameTypeOK
  BlocksWellFormed
  WidthsAgree
PROPERTIES
  Lossless
