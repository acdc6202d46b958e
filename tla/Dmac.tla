-------------------------------- MODULE Dmac ---------------------------------
(***************************************************************************)
(* DMA transfers (kernel/driver/dmac.c and its callers in spi.c, i2c.c,    *)
(* uart.c): a driver takes a page, routes its requests to its channels     *)
(* with sysctl_dma_select(), which no lock protects, programs the          *)
(* channels, and waits until they are idle or time has run out.  A channel *)
(* is idle, running, or stopping after it was disabled; only a transfer    *)
(* that completes raises an interrupt.                                     *)
(***************************************************************************)
EXTENDS Sysctl, TLC

CONSTANTS Drivers, MaxXfer  \* the drivers, and a bound on the transfers of each


Channels == 0 .. 5

VARIABLES
  w,        \* dma_sel0 and dma_sel1
  chan,     \* per channel: its state, and whether the page it works on is
            \* still the driver's
  irq,      \* channels whose interrupt is pending
  drv,      \* per driver: where it is, its plan, the words it holds
  exposed,  \* drivers that wrote while another held older words
  late,     \* drivers of which a transfer timed out, until a later one finds
            \* their channels idle
  xfers     \* transfers begun

vars == <<w, chan, irq, drv, exposed, late, xfers>>

(* The requests that a driver routes before a transfer, in order, and the  *)
(* channels it then programs, in order: both for SPI and for an I2C read,  *)
(* one for an I2C write.  UART1 only routes here (see Uart).               *)
Route(ch, req) == <<ch, Request(req)>>
Plans(d) ==
  CASE d = "SPI0"  -> {[sel |-> <<Route(0, "SSI0_TX"), Route(1, "SSI0_RX")>>, run |-> <<1, 0>>]}
    [] d = "I2C0"  -> {[sel |-> <<Route(2, "I2C0_TX")>>, run |-> <<2>>],
                       [sel |-> <<Route(2, "I2C0_TX"), Route(3, "I2C0_RX")>>, run |-> <<3, 2>>]}
    [] d = "UART1" -> {[sel |-> <<Route(4, "UART1_TX")>>, run |-> <<>>],
                       [sel |-> <<Route(5, "UART1_RX")>>, run |-> <<>>]}
At(d, pc) == drv[d].pc = pc
Ch(d) == drv[d].plan.run[drv[d].k]

Init ==
  /\ w = [dma_sel0 |-> {}, dma_sel1 |-> {}]
  /\ chan = [c \in Channels |-> [st |-> "idle", ours |-> TRUE]]
  /\ irq = {} /\ exposed = {} /\ late = {}
  /\ drv = [d \in Drivers |-> [pc |-> "idle"]]
  /\ xfers = [d \in Drivers |-> 0]
-----------------------------------------------------------------------------
(* A transfer begins: kalloc_page(), and what it is going to do. *)
Begin(d) ==
  /\ At(d, "idle") /\ xfers[d] < MaxXfer[d]
  /\ xfers' = [xfers EXCEPT ![d] = @ + 1] /\ exposed' = exposed \ {d}
  /\ \E plan \in Plans(d) :
       drv' = [drv EXCEPT ![d] = [pc |-> "read", plan |-> plan, k |-> 1]]
  /\ UNCHANGED <<w, chan, irq, late>>

(* sysctl_dma_select(): reads both words, ... *)
With(s, pc, k) == [pc |-> pc, plan |-> s.plan, k |-> k]
SelectRead(d) ==
  /\ At(d, "read")
  /\ LET r == drv[d].plan.sel[drv[d].k] IN
     drv' = [drv EXCEPT ![d] = With(@, "write0", @.k) @@ [words |-> DmaSelect(w, r[1], r[2])]]
  /\ UNCHANGED <<w, chan, irq, exposed, late, xfers>>

(* ... writes the first, ... *)
Holds(e) == drv[e].pc \in {"write0", "write1"}
Expose(d) == IF \E e \in Drivers \ {d} : Holds(e) THEN exposed \cup {d} ELSE exposed
SelectWrite0(d) ==
  /\ At(d, "write0")
  /\ w' = [w EXCEPT !.dma_sel0 = drv[d].words.dma_sel0]
  /\ drv' = [drv EXCEPT ![d].pc = "write1"] /\ exposed' = Expose(d)
  /\ UNCHANGED <<chan, irq, late, xfers>>

(* ... and the second; then the next request, or the channels. *)
SelectWrite1(d) ==
  /\ At(d, "write1")
  /\ w' = [w EXCEPT !.dma_sel1 = drv[d].words.dma_sel1]
  /\ LET p == drv[d].plan
         more == drv[d].k < Len(p.sel) IN
     drv' = [drv EXCEPT ![d] = IF more THEN With(@, "read", @.k + 1)
                               ELSE IF p.run = <<>> THEN [pc |-> "idle"]
                               ELSE With(@, "stop", 1)]
  /\ exposed' = Expose(d)
  /\ UNCHANGED <<chan, irq, late, xfers>>

(* dmac_set_channel_param() and dmac_channel_enable(): a channel between   *)
(* memory and a peripheral, with the hardware handshake of its own number. *)
Running == [st |-> "run", ours |-> TRUE]
IsIdle(c) == chan[c].st = "idle"

(* dmac_set_single_mode(): clears the interrupt and disables the channel, *)
(* ...                                                                    *)
Disabled(c) == [chan EXCEPT ![c].st = IF @ = "run" THEN "stopping" ELSE @]
Stop(d) ==
  /\ At(d, "stop")
  /\ chan' = Disabled(Ch(d)) /\ irq' = irq \ {Ch(d)}
  /\ drv' = [drv EXCEPT ![d].pc = "check"]
  /\ UNCHANGED <<w, exposed, late, xfers>>

(* ... waits in dmac_wait_idle(), which looks at the channel before it     *)
(* takes the lock that sleep() releases, ...                               *)
Busy(d) ==
  /\ At(d, "check") /\ ~IsIdle(Ch(d))
  /\ drv' = [drv EXCEPT ![d].pc = "dozing"]
  /\ UNCHANGED <<w, chan, irq, exposed, late, xfers>>
FallAsleep(d) ==
  /\ At(d, "dozing") /\ drv' = [drv EXCEPT ![d].pc = "asleep"]
  /\ UNCHANGED <<w, chan, irq, exposed, late, xfers>>

(* ... and programs and enables it; then the next channel, or the wait for *)
(* the transmit channel.                                                   *)
Start(d) ==
  /\ At(d, "check") /\ IsIdle(Ch(d))
  /\ chan' = [chan EXCEPT ![Ch(d)] = Running]
  /\ irq' = irq \ {Ch(d)}
  /\ drv' = [drv EXCEPT ![d] = IF @.k < Len(@.plan.run) THEN With(@, "stop", @.k + 1)
                               ELSE With(@, "wait", @.k)]
  /\ UNCHANGED <<w, exposed, late, xfers>>

(* dmac_wait_idle_timeout(): the transmit channel, then the receive one.   *)
(* The page goes back to the allocator either way.                         *)
OwnerOf(c) == IF c \in {0, 1} THEN "SPI0" ELSE "I2C0"
Mine(d) == {c \in 0 .. 3 : OwnerOf(c) = d}
Settled(d) == \A c \in Mine(d) : IsIdle(c)
Freed(d, ch) == [c \in Channels |-> [ch[c] EXCEPT !.ours = @ /\ (c \in Mine(d) => ch[c].st = "idle")]]
WaitRx(d) ==
  /\ At(d, "wait") /\ IsIdle(Ch(d)) /\ drv[d].k > 1
  /\ drv' = [drv EXCEPT ![d].k = @ - 1]
  /\ UNCHANGED <<w, chan, irq, exposed, late, xfers>>
Done(d) ==
  /\ At(d, "wait") /\ IsIdle(Ch(d)) /\ drv[d].k = 1
  /\ chan' = Freed(d, chan) /\ late' = IF Settled(d) THEN late \ {d} ELSE late
  /\ drv' = [drv EXCEPT ![d] = [pc |-> "idle"]]
  /\ UNCHANGED <<w, irq, exposed, xfers>>
Timeout_Never(d) == FALSE  \* Mutant: the wait has no end
  /\ UNCHANGED vars
Timeout(d) ==
  /\ At(d, "wait") /\ ~IsIdle(Ch(d))
  /\ chan' = Freed(d, Disabled(Ch(d))) /\ irq' = irq \ {Ch(d)}
  /\ late' = late \cup {d} /\ drv' = [drv EXCEPT ![d] = [pc |-> "idle"]]
  /\ UNCHANGED <<w, exposed, xfers>>

(* dmac_intr(): wakes everyone that sleeps on the controller. *)
Intr(c) ==
  /\ c \in irq /\ irq' = irq \ {c}
  /\ drv' = [d \in Drivers |-> IF At(d, "asleep") THEN [drv[d] EXCEPT !.pc = "check"] ELSE drv[d]]
  /\ UNCHANGED <<w, chan, exposed, late, xfers>>
-----------------------------------------------------------------------------
(* The controller: a running channel completes when the request of its     *)
(* peripheral reaches it, a disabled one stops without an interrupt.       *)
Wanted == [c \in 0 .. 3 |-> Request(<<"SSI0_TX", "SSI0_RX", "I2C0_TX", "I2C0_RX">>[c + 1])]
Complete(c) ==
  /\ chan[c].st = "run" /\ DmaSelected(w, c) = Wanted[c]
  /\ chan' = [chan EXCEPT ![c] = [st |-> "idle", ours |-> TRUE]] /\ irq' = irq \cup {c}
  /\ UNCHANGED <<w, drv, exposed, late, xfers>>
Stopped(c) ==
  /\ chan[c].st = "stopping"
  /\ chan' = [chan EXCEPT ![c] = [st |-> "idle", ours |-> TRUE]]
  /\ UNCHANGED <<w, irq, drv, exposed, late, xfers>>

Driver(d) ==
  \/ SelectRead(d) \/ SelectWrite0(d) \/ SelectWrite1(d) \/ Stop(d) \/ Busy(d)
  \/ FallAsleep(d) \/ Start(d) \/ WaitRx(d) \/ Done(d) \/ Timeout(d)
Controller == \E c \in 0 .. 3 : Complete(c) \/ Stopped(c) \/ Intr(c)
Next == Controller \/ \E d \in Drivers : Begin(d) \/ Driver(d)

(* Ticks keep coming, so a wait ends; a channel that was disabled stops    *)
(* and an interrupt that is pending is taken.                              *)
Fairness ==
  /\ \A d \in Drivers : WF_vars(Driver(d))
  /\ \A c \in 0 .. 3 : WF_vars(Stopped(c)) /\ WF_vars(Intr(c))
Spec == Init /\ [][Next]_vars /\ Fairness
-----------------------------------------------------------------------------
(* A transfer runs with its requests on its channels, unless another       *)
(* driver was inside sysctl_dma_select() with words read before.           *)
RoutedUnlessOverlapped ==
  \A d \in Drivers : drv[d].pc \in {"stop", "check", "wait"} /\ d \notin exposed =>
    \A k \in DOMAIN drv[d].plan.sel :
      DmaSelected(w, drv[d].plan.sel[k][1]) = drv[d].plan.sel[k][2]

(* The controller works only on pages of transfers that are in progress,   *)
(* and dmac_wait_idle() sleeps only, after an earlier transfer of the      *)
(* driver timed out: that one left its receive channel running, or left a  *)
(* channel stopping.                                                       *)
PagesUnlessTimedOut ==
  /\ \A c \in Channels : chan[c].st # "idle" /\ ~chan[c].ours => OwnerOf(c) \in late
  /\ \A d \in Drivers : drv[d].pc \in {"dozing", "asleep"} => d \in late

(* Every transfer returns, with or without its data, unless its process    *)
(* sleeps in dmac_wait_idle() for a channel that stopped without an        *)
(* interrupt.                                                              *)
TransfersEnd ==
  \A d \in Drivers : []<>At(d, "idle") \/ <>[](At(d, "asleep") /\ IsIdle(Ch(d)))
=============================================================================
