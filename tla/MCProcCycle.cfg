SPECIFICATION FamilySpec
CONSTANTS
  NPROC = 4
  CPUs = {c1, c2}
  MaxPid = 5
  None = None
INVARIANTS NoLockCycle
CHECK_DEADLOCK FALSE
