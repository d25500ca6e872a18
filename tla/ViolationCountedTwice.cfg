CONSTANTS
  k1 = k1
  k2 = k2
  Keys <- TwoKeys
  Window = 1
  BatchSize = 2
  MaxLines = 2
  MaxTicks = 0
  MaxRotations = 1
  MaxCrashes = 1
CONSTRAINT Orderly
SPECIFICATION Spec
INVARIANT NeverCountedTwice
