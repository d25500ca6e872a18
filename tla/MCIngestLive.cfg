CONSTANTS
  k1 = k1
  k2 = k2
  Keys <- TwoKeys
  Window = 1
  BatchSize = 2
  MaxLines = 3
  MaxTicks = 1
  MaxRotations = 0
  MaxCrashes = 1
SPECIFICATION FairSpec
PROPERTY EventuallyCounted
