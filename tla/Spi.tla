--------------------------------- MODULE Spi ---------------------------------
(***************************************************************************)
(* Interrupt transfers of the SPI driver (driver/spi.c).  A process fills  *)
(* the TX FIFO and sleeps; for every byte sent one comes back into the RX  *)
(* FIFO; the handler refills and drains until all have come back.  The     *)
(* handler reads the interrupt status before it takes isr_lock, so that a  *)
(* time-out and a whole new transfer can come between the two.             *)
(*                                                                         *)
(* Counts stand for the bytes.  The DMA path, and TXO (the FIFO is never   *)
(* overfed: spi_dw_tx_fill() tests its level), are left out.               *)
(***************************************************************************)
EXTENDS Integers

CONSTANTS Procs, DEPTH, MaxLen, MaxXfer,
          TimeoutFires,   \* FALSE: every transfer ends in time
          None

VARIABLES
  pc, lock,                   \* processes; the holder of spi_ctrl->lock
  tx_count, rx_count, xfer_done, xfer_err,
  imr, txf, rxf, rxo,         \* device: mask, FIFO levels, RX overflow
  isr,                        \* the handler: its place and the status it read
  res,                        \* history: the result of the last transfer
  xfers, over, sticky, late   \* history: transfers begun, the current one or
                              \* an earlier one overflowed, a handler ran for
                              \* an earlier one

soft == <<tx_count, rx_count, xfer_done, xfer_err>>
dev == <<imr, txf, rxf, rxo>>
hist == <<res, xfers, over, sticky, late>>
vars == <<pc, lock, soft, dev, isr, hist>>

NoIsr == [at |-> "out", stat |-> {}, xfer |-> 0]
NoResult == [ret |-> 0, full |-> TRUE, over |-> FALSE]

Init ==
  /\ pc = [p \in Procs |-> "idle"] /\ lock = None
  /\ tx_count = 0 /\ rx_count = 0 /\ xfer_done = FALSE /\ xfer_err = 0
  /\ imr = {} /\ txf = 0 /\ rxf = 0 /\ rxo = FALSE /\ isr = NoIsr
  /\ res = NoResult /\ xfers = 0 /\ over = FALSE /\ sticky = FALSE /\ late = FALSE

Least(m, n) == IF m < n THEN m ELSE n
Room == DEPTH - txf
LockFree == isr.at # "drain"      \* isr_lock, seen from a process
-----------------------------------------------------------------------------
(* spi_transfer() takes the sleep lock; switching the controller off and   *)
(* on empties its FIFOs.                                                   *)
Begin(p) ==
  /\ pc[p] = "idle" /\ lock = None /\ xfers < MaxXfer
  /\ lock' = p /\ pc' = [pc EXCEPT ![p] = "begin"] /\ xfers' = xfers + 1
  /\ txf' = 0 /\ rxf' = 0 /\ over' = FALSE /\ sticky' = (sticky \/ over)
  /\ UNCHANGED <<soft, imr, rxo, isr, res, late>>

(* spi_wait_xfer() returns r: the mask is cleared, the lock released. *)
Return(p, r, left) ==
  /\ pc' = [pc EXCEPT ![p] = "idle"] /\ lock' = None
  /\ xfer_done' = FALSE /\ imr' = {}
  /\ res' = [ret |-> r, full |-> left = 0, over |-> over]

(* spi_dw_int_transfer() of n bytes up to the first test in the wait. *)
Start(p, n) ==
  /\ pc[p] = "begin" /\ LockFree
  /\ rx_count' = n /\ tx_count' = n - Least(n, Room) /\ txf' = txf + Least(n, Room)
  /\ rxo' = FALSE
  /\ IF xfer_done THEN Return(p, xfer_err, n)
     ELSE /\ imr' = {"TXE", "RXF", "RXO"} /\ pc' = [pc EXCEPT ![p] = "wait"]
          /\ UNCHANGED <<lock, xfer_done, res>>
  /\ UNCHANGED <<xfer_err, rxf, isr, xfers, over, sticky, late>>

(* The process wakes, for a tick or for the handler, and finds the         *)
(* transfer done ...                                                       *)
Finish(p) ==
  /\ pc[p] = "wait" /\ LockFree /\ xfer_done /\ Return(p, xfer_err, rx_count)
  /\ UNCHANGED <<tx_count, rx_count, xfer_err, txf, rxf, rxo, isr, xfers, over, sticky, late>>

(* ... or its time used up. *)
Timeout(p) ==
  /\ TimeoutFires /\ pc[p] = "wait" /\ LockFree /\ ~xfer_done /\ Return(p, -1, rx_count)
  /\ UNCHANGED <<tx_count, rx_count, xfer_err, txf, rxf, rxo, isr, xfers, over, sticky, late>>
-----------------------------------------------------------------------------
(* The device exchanges a byte; a full RX FIFO loses it. *)
Shift ==
  /\ txf > 0 /\ txf' = txf - 1
  /\ IF rxf < DEPTH THEN rxf' = rxf + 1 /\ UNCHANGED <<rxo, over>>
     ELSE rxo' = TRUE /\ over' = TRUE /\ UNCHANGED rxf
  /\ UNCHANGED <<pc, lock, soft, imr, isr, res, xfers, sticky, late>>

Status == {s \in imr : \/ s = "TXE" /\ txf = 0
                       \/ s = "RXF" /\ rxf > 0
                       \/ s = "RXO" /\ rxo}

(* spi_dw_isr() reads the status, ... *)
Claim ==
  /\ isr.at = "out" /\ Status # {}
  /\ isr' = [at |-> "claimed", stat |-> Status, xfer |-> xfers]
  /\ UNCHANGED <<pc, lock, soft, dev, hist>>

Late == isr.xfer # xfers \/ \A p \in Procs : pc[p] # "wait"

(* ... and under isr_lock ends an overflown transfer, ... *)
Overflow ==
  /\ isr.at = "claimed" /\ "RXO" \in isr.stat
  /\ rxo' = FALSE /\ xfer_err' = -2 /\ xfer_done' = TRUE /\ imr' = {}
  /\ isr' = NoIsr /\ late' = (late \/ Late)
  /\ UNCHANGED <<pc, lock, tx_count, rx_count, txf, rxf, res, xfers, over, sticky>>

(* ... or refills, ... *)
Fill ==
  /\ isr.at = "claimed" /\ "RXO" \notin isr.stat
  /\ isr' = [isr EXCEPT !.at = "drain"] /\ late' = (late \/ Late)
  /\ IF "TXE" \in isr.stat
     THEN LET k == Least(tx_count, Room) IN
          /\ txf' = txf + k /\ tx_count' = tx_count - k
          /\ imr' = IF tx_count = k THEN imr \ {"TXE"} ELSE imr
     ELSE UNCHANGED <<txf, tx_count, imr>>
  /\ UNCHANGED <<pc, lock, rx_count, xfer_done, xfer_err, rxf, rxo, res, xfers, over, sticky>>

(* Mutant: the transfer is over when the last byte is in the TX FIFO. *)
Drain_DoneWhenSent ==
  /\ isr.at = "drain" /\ isr' = NoIsr
  /\ LET k == Least(rx_count, rxf) IN rxf' = rxf - k /\ rx_count' = rx_count - k
  /\ xfer_done' = (xfer_done \/ tx_count = 0)
  /\ imr' = IF tx_count = 0 THEN {} ELSE imr
  /\ UNCHANGED <<pc, lock, tx_count, xfer_err, txf, rxo, hist>>

(* ... and drains; the last byte back ends the transfer. *)
Drain ==
  /\ isr.at = "drain" /\ isr' = NoIsr
  /\ IF "RXF" \in isr.stat
     THEN LET k == Least(rx_count, rxf) IN
          /\ rxf' = rxf - k /\ rx_count' = rx_count - k
          /\ xfer_done' = (xfer_done \/ rx_count = k)
          /\ imr' = IF rx_count = k THEN {} ELSE imr
     ELSE UNCHANGED <<rxf, rx_count, xfer_done, imr>>
  /\ UNCHANGED <<pc, lock, tx_count, xfer_err, txf, rxo, hist>>

Next ==
  \/ \E p \in Procs : \/ Begin(p) \/ Finish(p) \/ Timeout(p)
                      \/ \E n \in 1 .. MaxLen : Start(p, n)
  \/ Shift \/ Claim \/ Overflow \/ Fill \/ Drain

Spec == Init /\ [][Next]_vars
-----------------------------------------------------------------------------
(* A transfer that returns 0 has its last byte, unless a handler that had  *)
(* read the status of an earlier, timed-out transfer ran after it: that    *)
(* one may complete a transfer of the past, or the present one too early.  *)
(* One that reports an overflow had one, or an earlier transfer had:       *)
(* xfer_err is never set back.                                             *)
CompleteUnlessLate ==
  /\ res.ret = 0 => res.full \/ late
  /\ res.ret = -2 => res.over \/ sticky
=============================================================================
