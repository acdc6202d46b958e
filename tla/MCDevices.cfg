SPECIFICATION MCSpec
CONSTANTS
  Readers = {r1}
  Procs = {p1, p2}
  CPUs = {c1, c2}
  Shared = tickslock
  Mlfq = FALSE
  Senders = {s1, s2}
  None = None
  FIFO = 3
  HALF = 2
  RXDMA = 2
  CAP = 2
  RxBytes = 4
  TxBytes = 1
  MaxFlush = 1
  MaxWrite = 3
  MaxConfig = 2
  DEPTH = 2
  MaxLen = 4
  MaxXfer = 3
  Users = {u1, u2, u3, u4}
  NUM = 8
  NSECT = 3
  MAX_RETRY = 2
  MaxFaults = 3
INVARIANTS  BytesAccounted TransfersSound AckMeansWritten
  
CHECK_DEADLOCK FALSE
