SPECIFICATION Spec
CONSTANTS
  Procs = {p1, p2}
  NBUF = 3
  NBUCKET = 2
  Blocks = {0, 1, 2}
  MaxStale = 1
  Vals = {0, 1}
INVARIANT BlockExclusive
CHECK_DEADLOCK FALSE
