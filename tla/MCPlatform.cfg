SPECIFICATION MCSpec
CONSTANTS
  Procs = {p1, p2}
  Root = p1
  Sigs = {2, 9, 17}
  MaxSends = 1
  SpiRates = {1, 5950, 5951, 130000001, 400000000}
  Bauds = {150, 5000000}
  DEPTH = 2
  MaxXfer = 2
  Writers = {w1, w2}
  FIFO = 1
  RING = 1
  Count = 2
  MaxWrites = 2
  MaxSync = 1
  MaxBaud = 1
  Nobody = Nobody
  NSECT = 2
  Vals = {"a", "b"}
  TRIES = 3
  POLLS = 4
  MaxCalls = 3
  MaxFaults = 2
INVARIANTS SignalsSound BoardSound DmaSound
    
PROPERTY TransfersEnd
CHECK_DEADLOCK FALSE
