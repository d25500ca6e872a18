CONSTANTS
  k1 = k1
  k2 = k2
  Keys <- TwoKeys
  Window = 1
  BatchSize = 2
  MaxLines = 4
  MaxTicks = 1
  MaxRotations = 2
  MaxCrashes = 1
CONSTRAINT Orderly
SYMMETRY KeySymmetry
SPECIFICATION Spec
INVARIANTS
  TypeOK
  CountedOnce
  NothingLost
  PolicyKept
