SPECIFICATION MCSpec
CONSTANTS
  N = 4
  None = None
  CPUs = {c1, c2}
  NPROC = 4
  MaxPid = 5
  SchedProcs = 2
  BOOST = 2
  UINT = 4
INVARIANTS MutualExclusion NoLostWakeup OneHart CycleOnlyIfStale
PROPERTY FreeLockIsTaken
