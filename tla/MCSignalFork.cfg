SPECIFICATION Spec
CONSTANTS
  Procs = {p1, p2}
  Root = p1
  Sigs = {2, 9, 17}
  MaxSends = 2
INVARIANT HandlersReturn
CHECK_DEADLOCK FALSE
