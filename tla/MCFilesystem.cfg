SPECIFICATION MCSpec
CONSTANTS
  Procs = {p1, p2}
  Ents = {e1, e2, e3}
  Root = root
  Dirs = {d1, d2}
  NoEnt = NoEnt
  MaxCalls = 3
  f1 = f1
  f2 = f2
  DataClus = 3
  BPC = 2
  MaxSlots = 12
  NBUF = 3
  NBUCKET = 2
  Blocks = {0, 2}
  Vals = {1}
  MaxStale = 1
SYMMETRY Symmetry
INVARIANTS BuffersSound ListsSound CacheSoundUnlessRaced  DirSoundUnlessDot
CHECK_DEADLOCK FALSE
