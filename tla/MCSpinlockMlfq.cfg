SPECIFICATION Spec
CONSTANTS
  Procs = {p1, p2}
  CPUs = {c1, c2}
  Shared = tickslock
  None = None
  Mlfq = TRUE
INVARIANT SchedHoldsOneLock
