CONSTANTS
  Pictures <- MCPictures
  Queries <- MCQueries
  Samplings <- MCSamplings
  Levels = 4
  netsize = 4
  ncycles = 2
  prime1 = 5
  prime2 = 2
  prime3 = 7
  prime4 = 11
  netbias = 4
  intbias = 64
  betadiv = 8
  gammadiv = 1
  initalpha = 64
  radbias = 4
  initrad = 2
  radiusbias = 4
  radiusdec = 3
  Far = 10
SPECIFICATION Spec
INVARIANT TypeOK
INVARIANT BiasBalanced
INVARIANT NoPixelTwice
INVARIANT NearestFound
