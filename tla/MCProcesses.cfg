SPECIFICATION MCSpec
CONSTANTS
  NPROC = 3
  CPUs = {c1, c2}
  MaxPid = 4
  None = None
  ShellSlots = {1, 2, 3, 4, 5, 6}
  NOFILE = 5
  NFILE = 6
  NPIPE = 2
  MAXARGS = 4
  Input = 1
  Pids = {1, 2, 3, 4}
  Bytes = {"C", "D", "LF"}
  FIFO = 1
  RING = 1
  MaxTyped = 3
  MaxOps = 1
SYMMETRY Symmetry
INVARIANTS TableSound FamilyTree LineRuns
  JobsUnlessCut
CHECK_DEADLOCK FALSE
