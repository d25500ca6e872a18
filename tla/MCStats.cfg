SPECIFICATION Spec
CONSTANTS
  c1 = c1
  n1 = n1
  n2 = n2
  Clients <- OneClient
  Names <- TwoNames
  Hour = 2
  Day = 4
  Retentions <- ThreeRetentions
  Lateness <- SomeLateness
  MaxTime = 13
  MaxQueries = 3
  MaxCrashes = 1
CONSTRAINT Unmixed
SYMMETRY NameSymmetry
INVARIANTS TypeOK ReferencesResolve NoOrphans DaysWhole
PROPERTIES KeepsPromise
CHECK_DEADLOCK FALSE
