-------------------------------- MODULE I2c ---------------------------------
(***************************************************************************)
(* Transfers of the I2C driver (kernel/driver/i2c.c): a transfer is a list *)
(* of messages; a short one goes through interrupts, a long one through    *)
(* the DMA controller.  A read is a sequence of read commands, of which    *)
(* the bytes come back into the RX FIFO.  Only the last command of the     *)
(* last message carries STOP, and STOP_DET, or an abort, is what ends the  *)
(* wait.  The handler reads the status before it takes isr_lock.           *)
(*                                                                         *)
(* A message is [rd, len, dma]; its bytes are counts.  The sleep lock of   *)
(* the bus makes transfers follow one another, so one caller stands for    *)
(* all.  Routing and the channels themselves are in Dmac.                  *)
(***************************************************************************)
EXTENDS Integers, Sequences, FiniteSetsExt

CONSTANTS
  Transfers,   \* the lists of messages that callers ask for
  DEPTH,       \* of both FIFOs (8)
  MaxXfer,     \* a bound on the transfers
  Aborts,      \* whether the slave may leave a command unacknowledged
  Hasty        \* whether a time-out may come while the bus is still at work

VARIABLES
  pc, msgs, i,                  \* the caller, its messages, the current one
  xfer,                         \* struct i2c_xfer
  imr, txf, rxf, stop, abrt,    \* device: mask, FIFOs, raw status
  dma,                          \* words that each channel has still to move
  isr,                          \* the handler: its place, status, message
  res, xfers, mno, dirty, lost  \* history: the last result; transfers and
                                \* messages begun; the current transfer met
                                \* leavings of an earlier one; the device
                                \* dropped commands of it

dev == <<imr, txf, rxf, stop, abrt>>
hist == <<res, xfers, mno, dirty, lost>>
vars == <<pc, msgs, i, xfer, dev, dma, isr, hist>>

ETIMEDOUT == -110
EIO == -5

NoXfer == [tx_len |-> 0, rx_len |-> 0, rd |-> FALSE, last |-> FALSE, done |-> FALSE, err |-> 0]
NoDma == [tx |-> 0, rx |-> 0, rd |-> FALSE, last |-> FALSE]
NoIsr == [at |-> "out", stat |-> {}, mno |-> 0]

Init ==
  /\ pc = "idle" /\ msgs = <<>> /\ i = 1 /\ xfer = NoXfer
  /\ imr = {} /\ txf = <<>> /\ rxf = 0 /\ stop = FALSE /\ abrt = FALSE
  /\ dma = NoDma /\ isr = NoIsr
  /\ res = [ret |-> 0, full |-> TRUE, dirty |-> FALSE, msgs |-> <<>>]
  /\ xfers = 0 /\ mno = 0 /\ dirty = FALSE /\ lost = FALSE
-----------------------------------------------------------------------------
Least(m, n) == Min({m, n})
Msg == msgs[i]
Last == i = Len(msgs)
Waiting == pc = "wait"

(* The commands that a message of which n are left pushes next. *)
Commands(rd, last, n, k) == [j \in 1 .. k |-> [rd |-> rd, stop |-> last /\ j = n]]

(* i2c_dw_write(): as many commands as fit; when none is left the TX_EMPTY *)
(* interrupt is masked.  i2c_dw_read(): drains the RX FIFO.                *)
DwWrite(s) ==
  LET k == Least(s.x.tx_len, DEPTH - Len(s.txf)) IN
  [s EXCEPT !.txf = @ \o Commands(s.x.rd, s.x.last, s.x.tx_len, k),
            !.imr = IF s.x.tx_len = k THEN @ \ {"TX_EMPTY"} ELSE @,
            !.x.tx_len = @ - k]
DwRead(s) ==
  LET k == Least(s.x.rx_len, s.rxf) IN
  [s EXCEPT !.rxf = @ - k, !.x.rx_len = @ - k]
State == [x |-> xfer, txf |-> txf, rxf |-> rxf, imr |-> imr]
Becomes(s) == xfer' = s.x /\ txf' = s.txf /\ rxf' = s.rxf /\ imr' = s.imr

(* i2c_transfer(): a new list of messages. *)
Begin ==
  /\ pc = "idle" /\ xfers < MaxXfer
  /\ xfers' = xfers + 1 /\ pc' = "begin" /\ i' = 1 /\ lost' = FALSE
  /\ dirty' = (txf # <<>> \/ rxf > 0 \/ dma.rx > 0)
  /\ msgs' \in Transfers
  /\ UNCHANGED <<xfer, dev, dma, isr, res, mno>>

(* i2c_send_data_int() and i2c_recv_data_int() up to the wait. *)
IntMasks(rd) == {"TX_EMPTY", "STOP_DET", "TX_ABRT"} \cup (IF rd THEN {"RX_FULL"} ELSE {})
StartInt ==
  /\ pc = "begin" /\ ~Msg.dma
  /\ pc' = "wait" /\ mno' = mno + 1 /\ stop' = FALSE /\ abrt' = FALSE
  /\ Becomes(DwWrite([State EXCEPT
        !.x = [tx_len |-> Msg.len, rx_len |-> IF Msg.rd THEN Msg.len ELSE 0,
               rd |-> Msg.rd, last |-> Last, done |-> FALSE, err |-> 0],
        !.imr = IntMasks(Msg.rd)]))
  /\ UNCHANGED <<msgs, i, dma, isr, res, xfers, dirty, lost>>

(* i2c_send_data_dma() and i2c_recv_data_dma() up to the wait for the      *)
(* transmit channel: programming a channel ends what it was doing.         *)
StartDma ==
  /\ pc = "begin" /\ Msg.dma
  /\ pc' = "dma" /\ mno' = mno + 1 /\ stop' = FALSE /\ abrt' = FALSE
  /\ xfer' = NoXfer /\ imr' = {"STOP_DET", "TX_ABRT"}
  /\ dma' = [tx |-> Msg.len, rx |-> IF Msg.rd THEN Msg.len ELSE dma.rx,
             rd |-> Msg.rd, last |-> Last]
  /\ UNCHANGED <<msgs, i, txf, rxf, isr, res, xfers, dirty, lost>>
-----------------------------------------------------------------------------
(* A message ends: the next one, or the transfer is over.  `left' says     *)
(* that not all of it was done.                                            *)
EndMessage(ret, left) ==
  /\ imr' = {} /\ lost' = (lost \/ left)
  /\ IF ret = 0 /\ ~Last
     THEN pc' = "begin" /\ i' = i + 1 /\ UNCHANGED res
     ELSE /\ pc' = "idle" /\ UNCHANGED i
          /\ res' = [ret |-> ret, full |-> ~lost' /\ txf = <<>>, dirty |-> dirty, msgs |-> msgs]
  /\ UNCHANGED <<msgs, txf, rxf, isr, xfers, mno, dirty>>

(* The tail of the DMA functions: an abort turns success into -EIO, and    *)
(* the raw status is cleared.                                              *)
EndDma(ret) ==
  /\ EndMessage(IF ret # 0 THEN ret ELSE IF abrt THEN EIO ELSE 0, FALSE)
  /\ stop' = FALSE /\ abrt' = FALSE

(* i2c_wait_xfer() finds the transfer done ... *)
Finish ==
  /\ Waiting /\ xfer.done /\ xfer' = [xfer EXCEPT !.done = FALSE]
  /\ IF Msg.dma THEN EndDma(xfer.err)
     ELSE EndMessage(xfer.err, xfer.rx_len > 0 \/ xfer.tx_len > 0) /\ UNCHANGED <<stop, abrt>>
  /\ UNCHANGED dma

(* ... or its time used up. *)
Status == {s \in imr : \/ s = "TX_EMPTY" /\ txf = <<>>
                       \/ s = "RX_FULL" /\ rxf = DEPTH
                       \/ s = "STOP_DET" /\ stop
                       \/ s = "TX_ABRT" /\ abrt}
Quiet == txf = <<>> /\ Status = {} /\ isr.at = "out" /\ dma.tx = 0 /\ (rxf = 0 \/ dma.rx = 0)
TimeUp == Hasty \/ Quiet
Timeout ==
  /\ Waiting /\ ~xfer.done /\ TimeUp
  /\ IF Msg.dma THEN EndDma(ETIMEDOUT) ELSE EndMessage(ETIMEDOUT, FALSE) /\ UNCHANGED <<stop, abrt>>
  /\ UNCHANGED <<xfer, dma>>

(* dmac_wait_idle_timeout(): the transmit channel is done ... *)
Moved ==
  /\ \/ pc = "dma" /\ dma.tx = 0 /\ ~Msg.rd
     \/ pc = "dmarx" /\ dma.rx = 0
  /\ IF Last THEN pc' = "wait" /\ UNCHANGED <<msgs, i, dev, isr, hist>>
     ELSE EndDma(xfer.err)
  /\ UNCHANGED <<xfer, dma>>
MovedTx ==
  /\ pc = "dma" /\ dma.tx = 0 /\ Msg.rd /\ pc' = "dmarx"
  /\ UNCHANGED <<msgs, i, xfer, dev, dma, isr, hist>>

(* ... or not in time: that channel is disabled, the other one is not. *)
DmaTimeout ==
  /\ TimeUp
  /\ \/ pc = "dma" /\ dma.tx > 0 /\ dma' = [dma EXCEPT !.tx = 0]
     \/ pc = "dmarx" /\ dma.rx > 0 /\ dma' = [dma EXCEPT !.rx = 0]
  /\ EndDma(ETIMEDOUT)
  /\ UNCHANGED xfer
-----------------------------------------------------------------------------
(* The channels move a word each; an aborted controller takes none. *)
DmaPush ==
  /\ dma.tx > 0 /\ (abrt \/ Len(txf) < DEPTH)
  /\ dma' = [dma EXCEPT !.tx = @ - 1]
  /\ txf' = IF abrt THEN txf ELSE txf \o Commands(dma.rd, dma.last, dma.tx, 1)
  /\ lost' = (lost \/ abrt)
  /\ UNCHANGED <<pc, msgs, i, xfer, imr, rxf, stop, abrt, isr, res, xfers, mno, dirty>>
DmaPull ==
  /\ dma.rx > 0 /\ rxf > 0
  /\ dma' = [dma EXCEPT !.rx = @ - 1] /\ rxf' = rxf - 1
  /\ UNCHANGED <<pc, msgs, i, xfer, imr, txf, stop, abrt, isr, hist>>

(* The device puts a command on the bus; with a full RX FIFO it waits ... *)
Shift ==
  /\ txf # <<>> /\ (Head(txf).rd => rxf < DEPTH)
  /\ txf' = Tail(txf) /\ stop' = (stop \/ Head(txf).stop)
  /\ rxf' = IF Head(txf).rd THEN rxf + 1 ELSE rxf
  /\ UNCHANGED <<pc, msgs, i, xfer, imr, abrt, dma, isr, hist>>

(* ... or nobody acknowledges it: STOP, and the TX FIFO is flushed. *)
Nack ==
  /\ Aborts /\ txf # <<>> /\ txf' = <<>> /\ stop' = TRUE /\ abrt' = TRUE /\ lost' = TRUE
  /\ UNCHANGED <<pc, msgs, i, xfer, imr, rxf, dma, isr, res, xfers, mno, dirty>>

(* i2c_dw_isr() reads the status, ... *)
Claim ==
  /\ isr.at = "out" /\ Status # {}
  /\ isr' = [at |-> "claimed", stat |-> Status, mno |-> mno]
  /\ UNCHANGED <<pc, msgs, i, xfer, dev, dma, hist>>

(* ... and handles it under isr_lock. *)
Over(s) == [s EXCEPT !.x.done = TRUE, !.imr = {}]
If(c, s, t) == IF c THEN t ELSE s
Handled_NoTail(s0) ==  \* Mutant: STOP_DET does not drain the RX FIFO
  LET Sees(e) == e \in isr.stat
      s1 == If(Sees("TX_ABRT"), s0, Over([s0 EXCEPT !.x.err = EIO]))
      s2 == If(Sees("RX_FULL"), s1, DwRead(s1))
  IN  If(Sees("STOP_DET"), If(Sees("TX_EMPTY"), s2, DwWrite(s2)), Over(s2))
Handled(s0) ==
  LET Sees(e) == e \in isr.stat
      s1 == If(Sees("TX_ABRT"), s0, Over([s0 EXCEPT !.x.err = EIO]))
      s2 == If(Sees("RX_FULL"), s1, DwRead(s1))
      s3 == If(Sees("TX_EMPTY"), s2, DwWrite(s2))
  IN  If(Sees("STOP_DET"), s3, Over(DwRead(s3)))
Isr ==
  /\ isr.at = "claimed" /\ isr' = NoIsr
  /\ Becomes(Handled(State))
  /\ stop' = (stop /\ "STOP_DET" \notin isr.stat)
  /\ abrt' = (abrt /\ "TX_ABRT" \notin isr.stat)
  /\ dirty' = (dirty \/ isr.mno # mno \/ pc \in {"idle", "begin"})
  /\ UNCHANGED <<pc, msgs, i, dma, res, xfers, mno, lost>>

Device == DmaPush \/ DmaPull \/ Shift \/ Nack
Next ==
  \/ Begin \/ StartInt \/ StartDma \/ Finish \/ Timeout \/ Moved \/ MovedTx \/ DmaTimeout
  \/ Device \/ Claim \/ Isr

Spec == Init /\ [][Next]_vars
-----------------------------------------------------------------------------
(* A transfer that returns 0 has put every command on the bus and has      *)
(* every byte it asked for, unless it began with the leavings of an        *)
(* aborted or timed-out one in a FIFO, or a handler that had read the      *)
(* status for an earlier message ran, or a message sent by DMA came before *)
(* its last: the driver does not wait until such a message has left the    *)
(* FIFO, and an abort there may be cleared by the start of the next one.   *)
Overlaps == \E k \in 1 .. Len(res.msgs) - 1 : res.msgs[k].dma /\ ~res.msgs[k].rd
FullUnlessDirty == res.ret = 0 => res.full \/ res.dirty \/ Overlaps
=============================================================================
