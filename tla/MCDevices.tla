------------------------------ MODULE MCDevices ------------------------------
(***************************************************************************)
(* Devices: the spinlocks and the interrupt masking under all drivers      *)
(* (Spinlock), the UART driver while it receives and while it sends        *)
(* (Uart), SPI transfers (Spi), the virtio disk (Virtio), and burning an   *)
(* image with and without a change of the baud rate (Burn).  "on" says     *)
(* which of them takes steps; Rx and Tx are two instances of the driver    *)
(* over the same variables, and so are the two of the burning protocol.    *)
(***************************************************************************)
EXTENDS Spinlock, Sequences

CONSTANTS Readers, FIFO, HALF, RXDMA, CAP, RxBytes, TxBytes,
          MaxFlush, MaxWrite, MaxConfig,
          Senders, DEPTH, MaxLen, MaxXfer,
          Users, NUM,
          NSECT, MAX_RETRY, MaxFaults

VARIABLES
  on,
  fifo, dbuf, ring, chan, active, mode, epoch, rpc, rep, ier, rirq, tring, tier,
  wpc, wleft, cpc, cop, cier, wason, nconf, arrived, last, got, lost, raced,
  xpc, lock, tx_count, rx_count, xfer_done, xfer_err, imr, txf, rxf, rxo, isr,
  res, xfers, over, sticky, late,
  vpc, free, next, head, info, busy, avail, used, virq, handler,
  h2b, b2h, hpc, hfast, hsec, attempt, bpc, bfast, bsec, retries, pos, disk, faults

Rx == INSTANCE Uart WITH irq <- rirq, Writer <- FALSE, MaxBytes <- RxBytes
Tx == INSTANCE Uart
        WITH irq <- rirq, Writer <- TRUE, MaxBytes <- TxBytes, MaxFlush <- 0
Xf == INSTANCE Spi WITH Procs <- Senders, pc <- xpc, TimeoutFires <- TRUE
Vd == INSTANCE Virtio WITH Procs <- Users, pc <- vpc, irq <- virq
Fast == INSTANCE Burn WITH ChangeBaud <- TRUE
Slow == INSTANCE Burn WITH ChangeBaud <- FALSE

uvars == <<fifo, dbuf, ring, chan, active, mode, epoch, rpc, rep, ier, rirq,
           tring, tier, wpc, wleft, cpc, cop, cier, wason, nconf, arrived, last,
           got, lost, raced>>
xvars == <<xpc, lock, tx_count, rx_count, xfer_done, xfer_err, imr, txf, rxf,
           rxo, isr, res, xfers, over, sticky, late>>
dvars == <<vpc, free, next, head, info, busy, avail, used, virq, handler>>
bvars == <<h2b, b2h, hpc, hfast, hsec, attempt, bpc, bfast, bsec, retries, pos,
           disk, faults>>

MCInit ==
  /\ on \in {"spinlock", "rx", "tx", "spi", "virtio", "fast", "slow"}
  /\ Init /\ Rx!Init /\ Xf!Init /\ Vd!Init /\ Fast!Init

MCNext ==
  /\ UNCHANGED on
  /\ \/ on = "spinlock" /\ Next /\ UNCHANGED <<uvars, xvars, dvars, bvars>>
     \/ on = "rx" /\ Rx!Next /\ UNCHANGED <<vars, xvars, dvars, bvars>>
     \/ on = "tx" /\ Tx!Next /\ UNCHANGED <<vars, xvars, dvars, bvars>>
     \/ on = "spi" /\ Xf!Next /\ UNCHANGED <<vars, uvars, dvars, bvars>>
     \/ on = "virtio" /\ Vd!Next /\ UNCHANGED <<vars, uvars, xvars, bvars>>
     \/ on = "fast" /\ Fast!Next /\ UNCHANGED <<vars, uvars, xvars, dvars>>
     \/ on = "slow" /\ Slow!Next /\ UNCHANGED <<vars, uvars, xvars, dvars>>

(* The fairness of each model. *)
UartFairness ==
  /\ WF_uvars((on = "rx" /\ Rx!DmaMove) \/ (on = "tx" /\ Tx!DmaMove))
  /\ WF_uvars((on = "rx" /\ Rx!DmaRxIsr) \/ (on = "tx" /\ Tx!DmaRxIsr))
  /\ WF_uvars((on = "rx" /\ Rx!Claim) \/ (on = "tx" /\ Tx!Claim))
  /\ WF_uvars((on = "rx" /\ Rx!Handle) \/ (on = "tx" /\ Tx!Handle))
  /\ WF_uvars((on = "rx" /\ Rx!TxWrite) \/ (on = "tx" /\ Tx!TxWrite))
  /\ SF_uvars((on = "rx" /\ Rx!Config) \/ (on = "tx" /\ Tx!Config))
MCSpec ==
  /\ MCInit /\ [][MCNext]_<<on, vars, uvars, xvars, dvars, bvars>>
  /\ UartFairness
  /\ WF_bvars((on = "fast" /\ Fast!Host) \/ (on = "slow" /\ Slow!Host))
  /\ WF_bvars((on = "fast" /\ Fast!Board) \/ (on = "slow" /\ Slow!Board))

(* uart_read() returns the bytes of the line in order, none twice, and     *)
(* none is missing without a full buffer, a flush or a change of rate.     *)
BytesAccounted == Rx!TypeOK /\ Rx!BytesAccounted

(* Readers and writers of the UART do not sleep on while there are bytes,  *)
(* or while the ring empties, unless an update of IER was overwritten.     *)
SleepersWake == Rx!SleepersWake

(* An SPI transfer that returns 0 has all its bytes, unless the handler    *)
(* ran late with the status of an earlier one, and reports an overflow     *)
(* only of its own or of an earlier one; no descriptor of the virtio disk  *)
(* is lost or used twice, and nobody waits for what is already there.      *)
TransfersSound ==
  /\ on = "spi" => Xf!CompleteUnlessLate
  /\ on = "virtio" => Vd!RequestsSound

(* burn.py goes on to the next sector only when this one is on the card,   *)
(* in its place.                                                           *)
AckMeansWritten == Fast!TypeOK /\ Fast!AckMeansWritten

(* burn.py ends, whatever the line loses. *)
HostEnds == on \in {"fast", "slow"} => Fast!HostEnds
=============================================================================
