SPECIFICATION Spec
CONSTANTS
  p1 = p1
  p2 = p2
  a = a
  b = b
  ip1 = ip1
  Procs <- TwoProcs
  Names <- TwoNames
  IPs <- OneIP
  MaxAdded = 2
  MaxClock = 2
  MaxIds = 2
  MaxRows = 3
CONSTRAINT Unraced
SYMMETRY Symmetry
INVARIANTS TypeOK OneHolder
PROPERTIES HistoryStays
CHECK_DEADLOCK FALSE
