----------------------------- MODULE MCPlatform ------------------------------
(***************************************************************************)
(* The board: what main() sets up and the rates that the drivers set later *)
(* (Board), DMA transfers of two drivers (Dmac), I2C transfers (I2c), the  *)
(* console's transmitter (Uarths), the SD card (Sdcard), and signals       *)
(* (Signal), whose model takes the names of this module.  "on" says which  *)
(* of them takes steps.                                                    *)
(***************************************************************************)
EXTENDS Signal

CONSTANTS SpiRates, Bauds, DEPTH, MaxXfer,
          Writers, FIFO, RING, Count, MaxWrites, MaxSync, MaxBaud, Nobody,
          NSECT, Vals, TRIES, POLLS, MaxCalls, MaxFaults

VARIABLES
  on,
  stage, stale, io, w, act, men, cs, majors, baudr, hz, udiv, baud,
  dsel, chan, irq, drv, exposed, late, dxfers,
  pc, msgs, mi, xfer, imr, txf, rxf, stop, abrt, dma, isr, res, xfers, mno, dirty, lost,
  lock, ring, fifo, rx, tx, upc, left, byte, reg, sync, writes, syncs, bauds,
  ustale, crossed, ulost, ulate,
  card, line, at, turn, standard, nsect, pos, got, shadow, calls, faults,
  failed, far, bad

B == INSTANCE Board

Dm == INSTANCE Dmac WITH w <- dsel, xfers <- dxfers,
        Drivers <- {"UART1", "I2C0"}, MaxXfer <- [I2C0 |-> 2, UART1 |-> 2]

Message(rd, n, viaDma) == [rd |-> rd, len |-> n, dma |-> viaDma]
Lists == {<<Message(FALSE, 3, FALSE)>>, <<Message(TRUE, 3, FALSE)>>,
          <<Message(FALSE, 3, TRUE), Message(FALSE, 1, FALSE)>>,
          <<Message(FALSE, 3, TRUE), Message(TRUE, 3, TRUE)>>,
          <<Message(FALSE, 1, FALSE), Message(TRUE, 1, FALSE)>>}
Ic == INSTANCE I2c WITH i <- mi, Transfers <- Lists, Aborts <- TRUE, Hasty <- TRUE

Uh == INSTANCE Uarths WITH pc <- upc, stale <- ustale, lost <- ulost, late <- ulate

(* 8 GB and 2 TB with CSD version 2, 2 GB and 4 GB with version 1, a card  *)
(* that does not know CMD8, and one with a CSD version of the future       *)
Card(ver, size, mult, len, real) ==
  [ver |-> ver, size |-> size, mult |-> mult, len |-> len, real |-> real,
   v1 |-> FALSE, odd |-> FALSE]
MCCards ==
  {Card(1, 15159, 0, 9, 15160), [Card(1, 2^22 - 1, 0, 9, 2^22) EXCEPT !.odd = TRUE],
   Card(0, 4095, 7, 10, 2^22), [Card(0, 4095, 7, 11, 2^23) EXCEPT !.odd = TRUE],
   [Card(0, 100, 3, 9, 3232) EXCEPT !.v1 = TRUE],
   [Card(3, 0, 0, 9, 1) EXCEPT !.odd = TRUE]}
Sd == INSTANCE Sdcard WITH n <- turn, Cards <- MCCards

bvars == <<stage, stale, io, w, act, men, cs, majors, baudr, hz, udiv, baud>>
dvars == <<dsel, chan, irq, drv, exposed, late, dxfers>>
ivars == <<pc, msgs, mi, xfer, imr, txf, rxf, stop, abrt, dma, isr, res, xfers, mno, dirty, lost>>
uvars == <<lock, ring, fifo, rx, tx, upc, left, byte, reg, sync, writes, syncs, bauds,
           ustale, crossed, ulost, ulate>>
cvars == <<card, line, at, turn, standard, nsect, pos, got, shadow, calls, faults,
           failed, far, bad>>

(* The variables of Board when another component takes the steps *)
Off ==
  /\ stage = -1 /\ stale = "off" /\ io = "off" /\ w = "off" /\ act = "off"
  /\ men = "off" /\ cs = "off" /\ majors = "off"
  /\ baudr = "off" /\ hz = "off" /\ udiv = "off" /\ baud = "off"

(* Only the card that takes steps is chosen. *)
MCInit ==
  /\ on \in {"board", "dma", "i2c", "uarths", "sdcard", "signal"}
  /\ Init /\ Dm!Init /\ Ic!Init /\ Uh!Init /\ Sd!Init
  /\ on # "sdcard" => card.polls = 0 /\ card.csd.size = 100
  /\ IF on = "board" THEN B!Init ELSE Off

MCNext ==
  /\ UNCHANGED on
  /\ \/ on = "board" /\ B!Next /\ UNCHANGED <<vars, dvars, ivars, uvars, cvars>>
     \/ on = "dma" /\ Dm!Next /\ UNCHANGED <<vars, bvars, ivars, uvars, cvars>>
     \/ on = "i2c" /\ Ic!Next /\ UNCHANGED <<vars, bvars, dvars, uvars, cvars>>
     \/ on = "uarths" /\ Uh!Next /\ UNCHANGED <<vars, bvars, dvars, ivars, cvars>>
     \/ on = "sdcard" /\ Sd!Next /\ UNCHANGED <<vars, bvars, dvars, ivars, uvars>>
     \/ on = "signal" /\ Next /\ UNCHANGED <<bvars, dvars, ivars, uvars, cvars>>

MCSpec ==
  /\ MCInit /\ [][MCNext]_<<on, vars, bvars, dvars, ivars, uvars, cvars>>
  /\ \A d \in {"UART1", "I2C0"} : WF_dvars(on = "dma" /\ Dm!Driver(d))
  /\ \A c \in 0 .. 3 : /\ WF_dvars(on = "dma" /\ Dm!Stopped(c))
                       /\ WF_dvars(on = "dma" /\ Dm!Intr(c))

(* main() leaves every pin, clock and device as the drivers need it, and   *)
(* the drivers' divisors give the rate asked for, or the nearest to it.    *)
BoardSound == on = "board" => B!BoardUp /\ B!RatesExact

(* A DMA transfer runs with its requests on its channels, unless another   *)
(* driver was inside sysctl_dma_select() with words read before; and the   *)
(* controller works only on pages of transfers in progress, unless one of  *)
(* the driver timed out.                                                   *)
DmaSound == on = "dma" => Dm!RoutedUnlessOverlapped /\ Dm!PagesUnlessTimedOut

(* Every DMA transfer returns, unless dmac_wait_idle() sleeps for a        *)
(* channel that stopped without an interrupt.                              *)
TransfersEnd == Dm!TransfersEnd

(* An I2C transfer that returns 0 is complete, unless it met leavings of   *)
(* an earlier one or follows a message sent by DMA.                        *)
FullUnlessDirty == on = "i2c" => Ic!FullUnlessDirty

(* The console's bytes all leave, at the rate they were written for,       *)
(* unless UARTHS_REG_IE was written back stale or printf() and the driver  *)
(* saw the same room in the FIFO.                                          *)
TransmitUnlessCrossed == on = "uarths" => Uh!TransmitUnlessCrossed

(* Sectors of the SD card hold what was written to them, a read returns    *)
(* it unless its transfer failed, and the kernel panics only over faults.  *)
SectorsUnlessFailed == on = "sdcard" => Sd!SectorsUnlessFailed
=============================================================================
