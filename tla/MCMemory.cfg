SPECIFICATION MCSpec
CONSTANTS
  Threads = {t1, t2}
  NCPU = 2
  Pages = {a, b, c}
  Slots = {1, 2, 3, 4}
  None = None
  p1 = p1
  p2 = p2
  p3 = p3
  fx = fx
  file = file
  other = other
  Frames = {f1, f2, f3}
  SlabPages = {1, 2, 3, 4}
  OBJS = 2
  MaxPages = 2
  MaxCalls = 3
SYMMETRY Symmetry
INVARIANTS PagesSound PagesExact Isolation MappingsUnlessCrossed
PROPERTIES BackingStays
CHECK_DEADLOCK FALSE
