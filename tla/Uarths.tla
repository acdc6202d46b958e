------------------------------- MODULE Uarths -------------------------------
(***************************************************************************)
(* The transmit side of the console UART (kernel/driver/uarths.c): writers *)
(* fill a ring under uarths_tx.lock, uarths_tx_service() moves it to the   *)
(* FIFO, printf() puts bytes into the same FIFO without the lock           *)
(* (uarthsputc_sync), and uarths_set_baud() waits for both to drain.       *)
(* uarths_rxenable() changes the interrupt-enable register without the     *)
(* lock under which uarths_txenable() changes it.                          *)
(*                                                                         *)
(* A step is one access to a register, or a piece of a critical section    *)
(* between two of them.  The receive side is module Tty.                   *)
(***************************************************************************)
EXTENDS Integers, Sequences, FiniteSets

CONSTANTS Writers,             \* processes in uarths_write()
          FIFO, RING,          \* sizes of the FIFO and of uarths_tx.ring
          Count,               \* bytes of a write()
          MaxWrites, MaxSync, MaxBaud,   \* bounds on the calls
          Nobody

VARIABLES
  lock, ring, fifo,   \* uarths_tx.lock; bytes are "n", or "o" once a
                      \* uarths_set_baud() has begun
  rx, tx,             \* UARTHS_REG_IE
  pc, left, byte,     \* of the writers, the interrupt and the rate change
  reg,                \* what each of them has read of UARTHS_REG_IE
  sync,               \* uarthsputc_sync() has seen room
  writes, syncs, bauds,
  stale, crossed, lost, late   \* history: a register written back over a
                      \* change, two actors that saw the same room, bytes
                      \* lost, bytes sent at the wrong rate

vars == <<lock, ring, fifo, rx, tx, pc, left, byte, reg, sync, writes, syncs,
          bauds, stale, crossed, lost, late>>
calls == <<writes, syncs, bauds>>

Actors == Writers \cup {"isr", "baud"}
Unread == [rx |-> FALSE, tx |-> FALSE]

(* uarthsinit() *)
Init ==
  /\ lock = Nobody /\ ring = <<>> /\ fifo = <<>>
  /\ rx = TRUE /\ tx = FALSE
  /\ pc = [a \in Actors |-> "idle"]
  /\ left = [a \in Actors |-> 0] /\ byte = [a \in Actors |-> ""]
  /\ reg = [a \in Actors |-> Unread]
  /\ sync = FALSE /\ writes = 0 /\ syncs = 0 /\ bauds = 0
  /\ stale = FALSE /\ crossed = FALSE /\ lost = FALSE /\ late = FALSE

Goto(a, l) == pc' = [pc EXCEPT ![a] = l]

(* uarths_hw_tx_ready(), and uarths_hw_putc(): a full FIFO drops the byte. *)
TxReady == Len(fifo) < FIFO
HwPutc(c) ==
  IF TxReady THEN fifo' = Append(fifo, c) /\ UNCHANGED lost
             ELSE lost' = TRUE /\ UNCHANGED fifo
-----------------------------------------------------------------------------
(* uarths_tx_service(), under the lock *)

(* One turn of the loop, or wakeup_reason() of whoever waits for room. *)
Service(a) ==
  /\ pc[a] = "service"
  /\ IF ring # <<>> /\ TxReady
     THEN /\ ring' = Tail(ring) /\ byte' = [byte EXCEPT ![a] = Head(ring)]
          /\ Goto(a, "putc")
          /\ crossed' = (crossed \/ sync)
     ELSE /\ pc' = [b \in Actors |-> IF b = a THEN "ie read"
                                     ELSE IF pc[b] = "sleep" THEN "awake"
                                     ELSE pc[b]]
          /\ UNCHANGED <<ring, byte, crossed>>
  /\ UNCHANGED <<lock, fifo, rx, tx, left, reg, sync, calls, stale, lost, late>>

Putc(a) ==
  /\ pc[a] = "putc"
  /\ HwPutc(byte[a]) /\ Goto(a, "service")
  /\ byte' = [byte EXCEPT ![a] = ""]
  /\ UNCHANGED <<lock, ring, rx, tx, left, reg, sync, calls, stale,
                 crossed, late>>

(* uarths_txenable(), uarths_rxenable(): read, change, write back *)
IeRead(a, from, to) ==
  /\ pc[a] = from /\ Goto(a, to)
  /\ reg' = [reg EXCEPT ![a] = [rx |-> rx, tx |-> tx]]
  /\ UNCHANGED <<lock, ring, fifo, rx, tx, left, byte, sync, calls, stale,
                 crossed, lost, late>>

IeWrite(a, r, t) ==
  /\ rx' = r /\ tx' = t
  /\ stale' = (stale \/ reg[a] # [rx |-> rx, tx |-> tx])
  /\ reg' = [reg EXCEPT ![a] = Unread]

(* Mutant: the interrupt stays as it is. *)
TxEnable_Never(a) ==
  /\ pc[a] = "ie write"
  /\ IeWrite(a, reg[a].rx, reg[a].tx)
  /\ Goto(a, "served")
  /\ UNCHANGED <<lock, ring, fifo, left, byte, sync, calls, crossed, lost, late>>

(* The transmit interrupt is enabled while the ring holds anything. *)
TxEnable(a) ==
  /\ pc[a] = "ie write"
  /\ IeWrite(a, reg[a].rx, ring # <<>>)
  /\ Goto(a, "served")
  /\ UNCHANGED <<lock, ring, fifo, left, byte, sync, calls, crossed, lost, late>>
-----------------------------------------------------------------------------
(* uarths_write() *)

Write(a) ==
  /\ pc[a] = "idle" /\ lock = Nobody /\ writes < MaxWrites
  /\ lock' = a /\ left' = [left EXCEPT ![a] = Count] /\ writes' = writes + 1
  /\ Goto(a, "room")
  /\ UNCHANGED <<ring, fifo, rx, tx, byte, reg, sync, syncs, bauds, stale,
                 crossed, lost, late>>

(* uarths_tx_wait_room(), and the push of the next byte *)
Room(a) ==
  /\ pc[a] = "room"
  /\ IF Len(ring) = RING
     THEN Goto(a, "sleep") /\ lock' = Nobody /\ UNCHANGED <<ring, left>>
     ELSE /\ ring' = Append(ring, "n") /\ left' = [left EXCEPT ![a] = @ - 1]
          /\ Goto(a, "service") /\ UNCHANGED lock
  /\ UNCHANGED <<fifo, rx, tx, byte, reg, sync, calls, stale, crossed, lost, late>>

(* A signal ends the sleep, and the write() is short. *)
Interrupted(a) ==
  /\ pc[a] \in {"sleep", "awake"} /\ lock = Nobody
  /\ Goto(a, "idle") /\ left' = [left EXCEPT ![a] = 0]
  /\ UNCHANGED <<lock, ring, fifo, rx, tx, byte, reg, sync, calls, stale,
                 crossed, lost, late>>

Served(a) ==
  /\ pc[a] = "served"
  /\ IF left[a] > 0 THEN Goto(a, "room") /\ UNCHANGED lock
                    ELSE Goto(a, "idle") /\ lock' = Nobody
  /\ UNCHANGED <<ring, fifo, rx, tx, left, byte, reg, sync, calls, stale,
                 crossed, lost, late>>

Resume(a, l) ==
  /\ pc[a] = "awake" /\ lock = Nobody
  /\ lock' = a /\ Goto(a, l)
  /\ UNCHANGED <<ring, fifo, rx, tx, left, byte, reg, sync, calls, stale,
                 crossed, lost, late>>

(* uarths_dw_isr(), for a byte received or for an empty FIFO *)
Isr ==
  /\ pc["isr"] = "idle" /\ lock = Nobody
  /\ rx \/ (tx /\ fifo = <<>>)
  /\ lock' = "isr" /\ Goto("isr", "service")
  /\ UNCHANGED <<ring, fifo, rx, tx, left, byte, reg, sync, calls, stale,
                 crossed, lost, late>>

(* uarthsputc_sync(), of printf() on another hart: wait for room ... *)
SyncPoll ==
  /\ ~sync /\ TxReady /\ syncs < MaxSync
  /\ sync' = TRUE /\ syncs' = syncs + 1
  /\ crossed' = (crossed \/ \E a \in Actors : pc[a] = "putc")
  /\ UNCHANGED <<lock, ring, fifo, rx, tx, pc, left, byte, reg, writes, bauds,
                 stale, lost, late>>

(* ... and put the byte. *)
SyncPutc ==
  /\ sync /\ sync' = FALSE
  /\ HwPutc("n")
  /\ UNCHANGED <<lock, ring, rx, tx, pc, left, byte, reg, calls, stale, crossed,
                 late>>
-----------------------------------------------------------------------------
(* uarths_set_baud() *)

Old(s) == [k \in 1 .. Len(s) |-> "o"]

SetBaud ==
  /\ pc["baud"] = "idle" /\ lock = Nobody /\ bauds < MaxBaud
  /\ bauds' = bauds + 1
  /\ ring' = Old(ring) /\ fifo' = Old(fifo)
  /\ lock' = "baud" /\ Goto("baud", "flush")
  /\ UNCHANGED <<rx, tx, left, byte, reg, sync, writes, syncs, stale, crossed,
                 lost, late>>

(* uarths_flush_tx(): the loop, which sleeps while the ring holds anything *)
FlushTx ==
  /\ pc["baud"] = "flush"
  /\ IF ring = <<>> THEN Goto("baud", "drain") /\ lock' = Nobody
                    ELSE Goto("baud", "service") /\ UNCHANGED lock
  /\ UNCHANGED <<ring, fifo, rx, tx, left, byte, reg, sync, calls, stale,
                 crossed, lost, late>>

FlushServed ==
  /\ pc["baud"] = "served"
  /\ lock' = Nobody
  /\ Goto("baud", IF ring # <<>> THEN "sleep" ELSE "drain")
  /\ UNCHANGED <<ring, fifo, rx, tx, left, byte, reg, sync, calls, stale,
                 crossed, lost, late>>

(* uarths_wait_tx_idle() *)
WaitTxIdle ==
  /\ pc["baud"] = "drain" /\ fifo = <<>>
  /\ Goto("baud", "off read")
  /\ UNCHANGED <<lock, ring, fifo, rx, tx, left, byte, reg, sync, calls, stale,
                 crossed, lost, late>>

RxOff ==
  /\ pc["baud"] = "off write" /\ Goto("baud", "div")
  /\ IeWrite("baud", FALSE, reg["baud"].tx)
  /\ UNCHANGED <<lock, ring, fifo, left, byte, sync, calls, crossed, lost, late>>

(* The divisor; what is in the FIFO is sent at the new rate. *)
WriteDiv ==
  /\ pc["baud"] = "div" /\ Goto("baud", "on read")
  /\ late' = (late \/ \E k \in 1 .. Len(fifo) : fifo[k] = "o")
  /\ UNCHANGED <<lock, ring, fifo, rx, tx, left, byte, reg, sync, calls, stale,
                 crossed, lost>>

RxOn ==
  /\ pc["baud"] = "on write" /\ Goto("baud", "idle")
  /\ IeWrite("baud", TRUE, reg["baud"].tx)
  /\ UNCHANGED <<lock, ring, fifo, left, byte, sync, calls, crossed, lost, late>>
-----------------------------------------------------------------------------
(* The line takes a byte. *)
Shift ==
  /\ fifo # <<>> /\ fifo' = Tail(fifo)
  /\ UNCHANGED <<lock, ring, rx, tx, pc, left, byte, reg, sync, calls, stale,
                 crossed, lost, late>>

Servicing(a) == Service(a) \/ Putc(a) \/ IeRead(a, "ie read", "ie write")
                \/ TxEnable(a)
Writing(a) == Write(a) \/ Room(a) \/ Interrupted(a) \/ Resume(a, "room")
Rate == \/ SetBaud \/ FlushTx \/ FlushServed \/ Resume("baud", "flush")
        \/ WaitTxIdle \/ RxOff \/ WriteDiv \/ RxOn
        \/ IeRead("baud", "off read", "off write")
        \/ IeRead("baud", "on read", "on write")
Next == \/ Shift \/ Isr \/ SyncPoll \/ SyncPutc \/ Rate
        \/ \E a \in Actors : Servicing(a)
        \/ \E a \in Writers : Writing(a)
        \/ \E a \in Writers \cup {"isr"} : Served(a)

Spec == Init /\ [][Next]_vars
-----------------------------------------------------------------------------
(* Output moves: unless the interrupt-enable register was written back     *)
(* over a change, the transmit interrupt is enabled whenever the ring is   *)
(* left with bytes, and the receive interrupt except during a change of    *)
(* rate; nobody sleeps on a ring with room; no byte is dropped by a full   *)
(* FIFO unless printf() and the driver saw the same room; and what was     *)
(* written before a change of rate is sent at the old one.                 *)
TransmitUnlessCrossed ==
  /\ ~stale /\ lock = Nobody /\ ring # <<>> => tx
  /\ ~stale /\ pc["baud"] \in {"idle", "flush", "service", "sleep", "drain"} => rx
  /\ \A a \in Writers : pc[a] = "sleep" /\ lock = Nobody => Len(ring) = RING
  /\ lost => crossed
  /\ ~late
=============================================================================
