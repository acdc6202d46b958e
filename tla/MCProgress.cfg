SPECIFICATION MCSpec
CONSTANTS
  NPROC = 3
  CPUs = {c1}
  None = None
  Slices <- MCSlices
  BOOST = 2
  UINT = 4
  Procs = {p1, p2}
  Root = p1
  Sigs = {2, 9, 17}
  MaxSends = 1
  Pids = {1, 2, 3}
  Bytes = {"C", "LF"}
  FIFO = 1
  RING = 1
  MaxTyped = 2
  MaxOps = 1
INVARIANT SliceRespected
PROPERTIES NoStarvation SignalsAct InterruptEndsJob
CHECK_DEADLOCK FALSE
