SPECIFICATION FairSpec
CONSTANTS
  Procs = {p1, p2}
  Writers = {p1}
  Readers = {p2}
  Byte = {0, 1}
  PIPESIZE = 2
  UINT = 4
  MaxCount = 3
  None = None
INVARIANTS RingBounded PipeServes
PROPERTIES ImplementsFifo ClosedPipeAnswers
