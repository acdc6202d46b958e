-------------------------------- MODULE Uart --------------------------------
(***************************************************************************)
(* The UART driver (driver/uart.c, driver/ringbuffer.c, devsw/uartdev.c).  *)
(* A received byte goes from the FIFO of the device, through the buffer of *)
(* a DMA channel in DMA mode, to the ring that uart_read() empties.  In    *)
(* PIO mode uart_write() fills a ring that the THRE interrupt empties.     *)
(* uart_set_mode() and uart_set_baud() stop and restart all this while     *)
(* readers, a writer and interrupts go on.  Received bytes are numbered.   *)
(*                                                                         *)
(* Critical sections of rx.lock are single steps.  txenable() reads and    *)
(* writes IER in two steps under tx.lock, rxenable() under no lock.        *)
(* Writing by DMA and the line-error counter are left out.                 *)
(***************************************************************************)
EXTENDS Integers, Sequences

CONSTANTS Readers, Writer,
          FIFO, HALF,     \* depth of the RX FIFO, trigger SRT_HALF_FULL (2 .. FIFO)
          RXDMA,          \* UART_RXDMA_SIZE
          CAP,            \* capacity of both rings
          MaxBytes, MaxFlush, MaxWrite, MaxConfig, None

VARIABLES
  fifo, dbuf, ring, chan,      \* chan: the RX channel is enabled
  active, mode, epoch,         \* rx_dma_active, mode, rx.epoch
  rpc, rep,                    \* readers and the epoch they began in
  ier, irq,                    \* IER; the IIR value the handler has read
  tring, tier,                 \* bytes in the TX ring; a txenable() under way
  wpc, wleft,                  \* the writer
  cpc, cop, cier, wason,       \* the process in set_mode() or set_baud()
  arrived, last, got, lost,    \* history: bytes arrived, the last one read, counts
  raced,                       \* history: an update of IER was overwritten
  nconf

rxhw == <<fifo, dbuf, chan>>
rx == <<ring, active, mode, epoch, rpc, rep>>
tx == <<tring, tier, wpc, wleft>>
conf == <<cpc, cop, cier, wason, nconf>>
hist == <<arrived, last, got, lost, raced>>
vars == <<rxhw, rx, ier, irq, tx, conf, hist>>

(* After uart_init(): DMA mode, RX interrupts on. *)
Init ==
  /\ fifo = <<>> /\ dbuf = <<>> /\ ring = <<>> /\ chan = TRUE
  /\ active = TRUE /\ mode = "DMA" /\ epoch = 0
  /\ rpc = [r \in Readers |-> "idle"] /\ rep = [r \in Readers |-> 0]
  /\ ier = {"rx"} /\ irq = None
  /\ tring = 0 /\ tier = None /\ wpc = "idle" /\ wleft = 0
  /\ cpc = "idle" /\ cop = None /\ cier = {} /\ wason = TRUE /\ nconf = 0
  /\ arrived = 0 /\ last = 0 /\ got = 0 /\ lost = 0 /\ raced = FALSE
-----------------------------------------------------------------------------
(* ringbuffer_push() of each byte of s; what does not fit is dropped. *)
Least(m, n) == IF m < n THEN m ELSE n
Fits(s) == Least(Len(s), CAP - Len(ring))
Push(s) ==
  /\ ring' = ring \o SubSeq(s, 1, Fits(s))
  /\ lost' = lost + Len(s) - Fits(s)
  /\ rpc' = IF Fits(s) > 0
            THEN [r \in Readers |-> IF rpc[r] = "asleep" THEN "woken" ELSE rpc[r]]
            ELSE rpc

(* uart_rx_dma_start(): a new block. *)
DmaStart == chan' = TRUE /\ dbuf' = <<>> /\ active' = TRUE
DmaDone == ~chan /\ Len(dbuf) = RXDMA

(* The trigger of the FIFO, for interrupts and for DMA requests. *)
Trigger == IF mode = "DMA" THEN HALF ELSE 1

(* A byte comes over the line; a full FIFO loses it. *)
Arrive ==
  /\ arrived < MaxBytes /\ arrived' = arrived + 1
  /\ IF Len(fifo) < FIFO THEN fifo' = Append(fifo, arrived + 1) /\ UNCHANGED lost
     ELSE lost' = lost + 1 /\ UNCHANGED fifo
  /\ UNCHANGED <<dbuf, chan, rx, ier, irq, tx, conf, last, got, raced>>

(* The channel moves a byte while the FIFO is at its trigger, and stops at *)
(* the end of the block.                                                   *)
DmaMove ==
  /\ chan /\ Len(fifo) >= Trigger /\ Len(dbuf) < RXDMA
  /\ dbuf' = Append(dbuf, Head(fifo)) /\ fifo' = Tail(fifo)
  /\ chan' = (Len(dbuf) + 1 < RXDMA)
  /\ UNCHANGED <<rx, ier, irq, tx, conf, hist>>
-----------------------------------------------------------------------------
(* uart_rx_dma(): stop, harvest, start again, wake. *)
RxDma == Push(dbuf) /\ DmaStart /\ UNCHANGED fifo

(* uart_dma_rx_isr() *)
DmaRxIsr ==
  /\ mode = "DMA" /\ active /\ DmaDone /\ RxDma
  /\ UNCHANGED <<mode, epoch, rep, ier, irq, tx, conf, arrived, last, got, raced>>

(* uart_dw_isr() reads IIR before it takes a lock; RX comes before TX. *)
Claim ==
  /\ irq = None
  /\ \/ "rx" \in ier /\ Len(fifo) >= Trigger /\ irq' = "rda"
     \/ "rx" \in ier /\ Len(fifo) \in 1 .. Trigger - 1 /\ irq' = "cti"
     \/ ~("rx" \in ier /\ fifo # <<>>) /\ "tx" \in ier /\ irq' = "thre"
  /\ UNCHANGED <<rxhw, rx, ier, tx, conf, hist>>

(* uart_rx_isr(): in DMA mode only a finished block is taken. *)
RxIsr ==
  /\ irq = "rda" /\ irq' = None
  /\ \/ /\ mode = "PIO" /\ Push(fifo) /\ fifo' = <<>>
        /\ UNCHANGED <<dbuf, chan, active>>
     \/ mode = "DMA" /\ active /\ DmaDone /\ RxDma
     \/ /\ mode = "DMA" /\ ~(active /\ DmaDone)
        /\ UNCHANGED <<rxhw, ring, active, rpc, lost>>
  /\ UNCHANGED <<mode, epoch, rep, ier, tx, conf, arrived, last, got, raced>>

(* Mutant: the CPU drains the FIFO before it stops the channel. *)
RxTimeoutIsr_FifoFirst ==
  /\ irq = "cti" /\ irq' = None /\ fifo' = <<>>
  /\ IF mode = "DMA" THEN Push(fifo \o dbuf) /\ DmaStart
     ELSE Push(fifo) /\ UNCHANGED <<dbuf, chan, active>>
  /\ UNCHANGED <<mode, epoch, rep, ier, tx, conf, arrived, last, got, raced>>

(* uart_rx_timeout_isr(): the line is idle with bytes below the trigger.   *)
(* The bytes of the channel are older than those still in the FIFO.        *)
RxTimeoutIsr ==
  /\ irq = "cti" /\ irq' = None
  /\ \/ /\ mode = "DMA" /\ active
        /\ Push(dbuf \o fifo) /\ fifo' = <<>> /\ DmaStart
     \/ /\ mode = "PIO" /\ Push(fifo) /\ fifo' = <<>>
        /\ UNCHANGED <<dbuf, chan, active>>
  /\ UNCHANGED <<mode, epoch, rep, ier, tx, conf, arrived, last, got, raced>>
-----------------------------------------------------------------------------
(* uart_read() takes at most n bytes. *)
Pop(n) ==
  LET k == Least(n, Len(ring)) IN
  /\ ring' = SubSeq(ring, k + 1, Len(ring)) /\ last' = ring[k] /\ got' = got + k

Read(r, n) ==
  /\ rpc[r] = "idle"
  /\ IF ring # <<>> THEN Pop(n) /\ UNCHANGED <<rpc, rep>>
     ELSE /\ rpc' = [rpc EXCEPT ![r] = "asleep"] /\ rep' = [rep EXCEPT ![r] = epoch]
          /\ UNCHANGED <<ring, last, got>>
  /\ UNCHANGED <<rxhw, active, mode, epoch, ier, irq, tx, conf, arrived, lost, raced>>

(* uart_rx_wait_data() goes on: a flush returns 0, whatever the ring has. *)
Resume(r, n) ==
  /\ rpc[r] = "woken"
  /\ \/ /\ epoch # rep[r] /\ rpc' = [rpc EXCEPT ![r] = "idle"]
        /\ UNCHANGED <<ring, last, got>>
     \/ /\ epoch = rep[r] /\ ring # <<>> /\ Pop(n)
        /\ rpc' = [rpc EXCEPT ![r] = "idle"]
     \/ /\ epoch = rep[r] /\ ring = <<>> /\ rpc' = [rpc EXCEPT ![r] = "asleep"]
        /\ UNCHANGED <<ring, last, got>>
  /\ UNCHANGED <<rxhw, active, mode, epoch, rep, ier, irq, tx, conf, arrived, lost, raced>>

(* A signal ends the sleep. *)
Interrupted(r) ==
  /\ rpc[r] \in {"asleep", "woken"} /\ rpc' = [rpc EXCEPT ![r] = "idle"]
  /\ UNCHANGED <<rxhw, ring, active, mode, epoch, rep, ier, irq, tx, conf, hist>>

(* uart_flush_rx() *)
FlushRx ==
  /\ epoch < MaxFlush /\ epoch' = epoch + 1
  /\ fifo' = <<>> /\ ring' = <<>>
  /\ lost' = lost + Len(fifo) + Len(dbuf) + Len(ring)
  /\ rpc' = [r \in Readers |-> IF rpc[r] = "asleep" THEN "woken" ELSE rpc[r]]
  /\ IF mode = "DMA" THEN DmaStart ELSE UNCHANGED <<dbuf, chan, active>>
  /\ UNCHANGED <<mode, rep, ier, irq, tx, conf, arrived, last, got, raced>>
-----------------------------------------------------------------------------
(* tx.lock is free: nobody is in txenable() and set_mode() does not hold it *)
TxFree == tier = None /\ cpc # "section_mode"
TxEnable(on) == tier' = [base |-> ier, on |-> on]

(* The second half of txenable(). *)
TxWrite ==
  /\ tier # None /\ tier' = None
  /\ ier' = IF tier.on THEN tier.base \cup {"tx"} ELSE tier.base \ {"tx"}
  /\ raced' = (raced \/ ier # tier.base)
  /\ UNCHANGED <<rxhw, rx, irq, tring, wpc, wleft, conf, arrived, last, got, lost>>

(* The handler of THRE: nothing in DMA mode, uart_tx_isr() in PIO mode,    *)
(* which sends as many bytes as the device takes.                          *)
TxIsrDma ==
  /\ irq = "thre" /\ mode = "DMA" /\ irq' = None
  /\ UNCHANGED <<rxhw, rx, ier, tx, conf, hist>>

TxIsr ==
  /\ irq = "thre" /\ mode = "PIO" /\ TxFree /\ irq' = None
  /\ \E k \in Least(1, tring) .. tring :
       tring' = tring - k /\ TxEnable(tring > k)
  /\ wpc' = IF wpc = "asleep" THEN "pio" ELSE wpc
  /\ cpc' = IF cpc = "asleep" THEN "flush" ELSE cpc
  /\ UNCHANGED <<rxhw, rx, ier, wleft, cop, cier, wason, nconf, hist>>

(* uart_write() tests the mode without a lock ... *)
Write(n) ==
  /\ Writer /\ wpc = "idle" /\ mode = "PIO" /\ wpc' = "pio" /\ wleft' = n
  /\ UNCHANGED <<rxhw, rx, ier, irq, tring, tier, conf, hist>>

(* ... and fills the ring, asleep while it is full. *)
WritePio ==
  /\ wpc = "pio" /\ TxFree
  /\ LET k == Least(wleft, CAP - tring) IN
     /\ tring' = tring + k /\ wleft' = wleft - k
     /\ wpc' = IF wleft = k THEN "idle" ELSE "asleep"
     /\ IF tring = 0 THEN TxEnable(TRUE) ELSE UNCHANGED tier
  /\ UNCHANGED <<rxhw, rx, ier, irq, conf, hist>>

WriteInterrupted ==
  /\ wpc = "asleep" /\ wpc' = "idle" /\ wleft' = 0
  /\ UNCHANGED <<rxhw, rx, ier, irq, tring, tier, conf, hist>>
-----------------------------------------------------------------------------
CGoes(l) == cpc' = l /\ UNCHANGED <<cop, cier, wason, nconf>>

(* uart_set_mode(m), or uart_set_baud(), begins. *)
SetMode(m) ==
  /\ cpc = "idle" /\ nconf < MaxConfig /\ nconf' = nconf + 1
  /\ mode # m /\ cpc' = "flush" /\ cop' = m /\ wason' = TRUE
  /\ UNCHANGED <<rxhw, rx, ier, irq, tx, cier, hist>>

SetBaud ==
  /\ cpc = "idle" /\ nconf < MaxConfig /\ nconf' = nconf + 1
  /\ cpc' = "flush" /\ cop' = "baud" /\ wason' = ("rx" \in ier)
  /\ UNCHANGED <<rxhw, rx, ier, irq, tx, cier, hist>>

(* uart_flush_tx() *)
FlushTx ==
  /\ cpc = "flush" /\ TxFree
  /\ IF tring = 0 THEN CGoes("rxoff") /\ UNCHANGED tier
     ELSE TxEnable(TRUE) /\ CGoes("asleep")
  /\ UNCHANGED <<rxhw, rx, ier, irq, tring, wpc, wleft, hist>>

(* rxenable() reads IER, and writes it. *)
RxEnableRead ==
  /\ cpc \in {"rxoff", "rxon"} /\ cier' = ier
  /\ cpc' = (IF cpc = "rxoff" THEN "rxoff_w" ELSE "rxon_w")
  /\ UNCHANGED <<rxhw, rx, ier, irq, tx, cop, wason, nconf, hist>>

RxEnableWrite ==
  /\ \/ cpc = "rxoff_w" /\ ier' = cier \ {"rx"}
        /\ cpc' = IF cop = "baud" THEN "section" ELSE "txoff"
     \/ cpc = "rxon_w" /\ ier' = cier \cup {"rx"} /\ cpc' = "idle"
  /\ raced' = (raced \/ ier # cier)
  /\ UNCHANGED <<rxhw, rx, irq, tx, cop, cier, wason, nconf, arrived, last, got, lost>>

TxOff ==
  /\ cpc = "txoff" /\ TxFree /\ TxEnable(FALSE) /\ CGoes("section_mode")
  /\ UNCHANGED <<rxhw, rx, ier, irq, tring, wpc, wleft, hist>>

(* Mutant: what the section harvests wakes nobody. *)
SectionMode_NoWake ==
  /\ cpc = "section_mode" /\ tier = None
  /\ IF active THEN /\ ring' = ring \o SubSeq(dbuf \o fifo, 1, Fits(dbuf \o fifo))
                    /\ lost' = lost + Len(dbuf \o fifo) - Fits(dbuf \o fifo)
                    /\ fifo' = <<>>
     ELSE UNCHANGED <<ring, lost, fifo>>
  /\ mode' = cop
  /\ IF cop = "DMA" THEN DmaStart ELSE active' = FALSE /\ chan' = FALSE /\ dbuf' = <<>>
  /\ CGoes("rxon")
  /\ UNCHANGED <<rpc, epoch, rep, ier, irq, tx, arrived, last, got, raced>>

(* The section of uart_set_mode(), under both locks. *)
SectionMode ==
  /\ cpc = "section_mode" /\ tier = None
  /\ IF active THEN Push(dbuf \o fifo) /\ fifo' = <<>>
     ELSE UNCHANGED <<ring, rpc, lost, fifo>>
  /\ mode' = cop
  /\ IF cop = "DMA" THEN DmaStart ELSE active' = FALSE /\ chan' = FALSE /\ dbuf' = <<>>
  /\ CGoes("rxon")
  /\ UNCHANGED <<epoch, rep, ier, irq, tx, arrived, last, got, raced>>

(* The section of uart_set_baud(): in PIO mode the FIFO is thrown away.    *)
SectionBaud ==
  /\ cpc = "section" /\ fifo' = <<>>
  /\ IF mode = "DMA" THEN Push(dbuf \o fifo) /\ DmaStart
     ELSE lost' = lost + Len(fifo) /\ UNCHANGED <<ring, rpc, dbuf, chan, active>>
  /\ CGoes(IF wason THEN "rxon" ELSE "idle")
  /\ UNCHANGED <<mode, epoch, rep, ier, irq, tx, arrived, last, got, raced>>
-----------------------------------------------------------------------------
Handle == RxIsr \/ RxTimeoutIsr \/ TxIsrDma \/ TxIsr
Config == \/ FlushTx \/ RxEnableRead \/ RxEnableWrite \/ TxOff
          \/ SectionMode \/ SectionBaud

Next ==
  \/ Arrive \/ DmaMove \/ DmaRxIsr \/ Claim \/ Handle \/ TxWrite \/ Config
  \/ \E r \in Readers, n \in 1 .. CAP : Read(r, n) \/ Resume(r, n)
  \/ \E r \in Readers : Interrupted(r)
  \/ FlushRx
  \/ \E n \in 1 .. MaxWrite : Write(n)
  \/ WritePio \/ WriteInterrupted
  \/ \E m \in {"PIO", "DMA"} : SetMode(m)
  \/ SetBaud

Spec == Init /\ [][Next]_vars

(* Interrupts are served, the channel moves, kernel code goes on, and who  *)
(* spins on tx.lock gets it in the end, though others take it repeatedly.  *)
Fairness ==
  /\ WF_vars(DmaMove) /\ WF_vars(DmaRxIsr) /\ WF_vars(Claim)
  /\ WF_vars(Handle) /\ WF_vars(TxWrite)
  /\ SF_vars(Config)
FairSpec == Spec /\ Fairness
-----------------------------------------------------------------------------
TypeOK ==
  /\ \A s \in {fifo, dbuf, ring} : \A i \in DOMAIN s : s[i] \in 1 .. MaxBytes
  /\ Len(fifo) <= FIFO /\ Len(dbuf) <= RXDMA /\ Len(ring) <= CAP
  /\ chan \in BOOLEAN /\ active = (mode = "DMA") /\ mode \in {"PIO", "DMA"}
  /\ epoch \in 0 .. MaxFlush /\ ier \subseteq {"rx", "tx"}
  /\ irq \in {None, "rda", "cti", "thre"} /\ tring \in 0 .. CAP

(* Received bytes reach uart_read() in the order of the line, none twice,  *)
(* and none is missing but those a full FIFO or ring, a flush or a change  *)
(* of the baud rate has thrown away - however interrupts, harvests of the  *)
(* DMA buffer and switches of the mode fall.                               *)
Received == <<last>> \o ring \o dbuf \o fifo
BytesAccounted ==
  /\ \A i \in 1 .. Len(Received) - 1 : Received[i] < Received[i + 1]
  /\ arrived = got + lost + Len(ring) + Len(dbuf) + Len(fifo)

(* A reader does not sleep on while bytes for it stay there: below the     *)
(* trigger the time-out of the line brings them, in a DMA block its end or *)
(* the same time-out; and a writer does not sleep on a full ring.  Only an *)
(* update of IER that another one overwrote, or (for the writer) a switch  *)
(* to DMA behind its back, can leave them there.                           *)
SleepersWake ==
  /\ \A r \in Readers :
       (rpc[r] = "asleep" /\ ring \o dbuf \o fifo # <<>>) 
         ~> (rpc[r] # "asleep" \/ ring \o dbuf \o fifo = <<>> \/ raced)
  /\ wpc = "asleep" ~> (wpc # "asleep" \/ raced \/ mode = "DMA")
=============================================================================
