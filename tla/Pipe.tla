-------------------------------- MODULE Pipe --------------------------------
(***************************************************************************)
(* The pipe of kernel/ipc/pipe.c: a ring of PIPESIZE bytes with two        *)
(* free-running unsigned counters, one spinlock, two sleep channels        *)
(* (&pi->nread for readers, &pi->nwrite for writers) and one flag per end. *)
(*                                                                         *)
(* A process holds pi->lock through the whole of pipewrite() or piperead() *)
(* except while it sleeps.  sleep_interruptible() is one step here:        *)
(* module Sleeplock shows that releasing pi->lock and becoming SLEEPING  *)
(* is atomic for whoever calls wakeup().                                   *)
(***************************************************************************)
EXTENDS Integers, Sequences, FiniteSets

CONSTANTS Procs,      \* processes that may use the pipe
          Writers,    \* those that start with the write descriptor
          Readers,    \* those that start with the read descriptor
          Byte,       \* values of a byte
          PIPESIZE,   \* size of the ring
          UINT,       \* 2^32 in the code: nread and nwrite wrap modulo UINT
          MaxCount,   \* largest n passed to read() or write()
          None        \* nobody holds pi->lock

ASSUME PipeAssumption ==
  /\ Writers \subseteq Procs /\ Readers \subseteq Procs
  /\ Writers # {} /\ Readers # {}
  /\ PIPESIZE \in Nat \ {0}
  /\ UINT \in Nat /\ UINT > PIPESIZE
  /\ MaxCount \in Nat \ {0}
  /\ None \notin Procs
  /\ Byte # {}

\* 512 divides 2^32, or the indices would jump when a counter wraps
ASSUME UintAssumption == UINT % PIPESIZE = 0

VARIABLES lock, data, nread, nwrite, readopen, writeopen,
          freed,      \* the page of the pipe has been given back
          wfd, rfd,   \* processes whose descriptor still refers to an end
          pc, i, n, ret,
          sig,        \* an unmasked signal is pending (signal_pending_locked)
          intr        \* sleep_on() is about to return -1

vars == <<lock, data, nread, nwrite, readopen, writeopen, freed, wfd, rfd,
          pc, i, n, ret, sig, intr>>
ring == <<data, nread, nwrite>>
ends == <<readopen, writeopen, freed>>

WritePcs == {"w_lock", "w_loop", "w_sleep", "w_woken", "w_relock"}
ReadPcs  == {"r_lock", "r_wait", "r_sleep", "r_woken", "r_relock", "r_copy"}
ClosePcs == {"c_write", "c_read"}
Pcs      == {"user"} \cup WritePcs \cup ReadPcs \cup ClosePcs

Used == (nwrite - nread) % UINT
\* mutant: one byte more than the ring holds
Full_OffByOne == nwrite = (nread + PIPESIZE + 1) % UINT
Full == nwrite = (nread + PIPESIZE) % UINT

(***************************************************************************)
(* pipealloc(): both ends open, counters zero; the page is not cleared.    *)
(***************************************************************************)
Init ==
  /\ lock = None
  /\ data \in [0 .. PIPESIZE - 1 -> Byte]
  /\ nread = 0 /\ nwrite = 0
  /\ readopen = TRUE /\ writeopen = TRUE /\ freed = FALSE
  /\ wfd = Writers /\ rfd = Readers
  /\ pc = [p \in Procs |-> "user"]
  /\ i = [p \in Procs |-> 0]
  /\ n = [p \in Procs |-> 0]
  /\ ret = [p \in Procs |-> 0]
  /\ sig = [p \in Procs |-> FALSE]
  /\ intr = [p \in Procs |-> FALSE]

\* wakeup(&pi->nread) and wakeup(&pi->nwrite), p itself going on to `to'
WakeReaders(p, to) ==
  pc' = [q \in Procs |-> IF q = p THEN to
                         ELSE IF pc[q] = "r_sleep" THEN "r_woken" ELSE pc[q]]
WakeWriters(p, to) ==
  pc' = [q \in Procs |-> IF q = p THEN to
                         ELSE IF pc[q] = "w_sleep" THEN "w_woken" ELSE pc[q]]

Goto(p, to) == pc' = [pc EXCEPT ![p] = to]
Return(p, v) == /\ ret' = [ret EXCEPT ![p] = v]
                /\ i' = [i EXCEPT ![p] = 0] /\ n' = [n EXCEPT ![p] = 0]
-----------------------------------------------------------------------------
\* filewrite() and fileread() on a descriptor of type FD_PIPE
WriteCall(p) ==
  /\ pc[p] = "user" /\ p \in wfd
  /\ \E k \in 1 .. MaxCount : n' = [n EXCEPT ![p] = k]
  /\ ret' = [ret EXCEPT ![p] = 0]
  /\ Goto(p, "w_lock")
  /\ UNCHANGED <<lock, ring, ends, wfd, rfd, i, sig, intr>>

ReadCall(p) ==
  /\ pc[p] = "user" /\ p \in rfd
  /\ \E k \in 1 .. MaxCount : n' = [n EXCEPT ![p] = k]
  /\ ret' = [ret EXCEPT ![p] = 0]
  /\ Goto(p, "r_lock")
  /\ UNCHANGED <<lock, ring, ends, wfd, rfd, i, sig, intr>>

Lock(p) ==
  /\ pc[p] \in {"w_lock", "r_lock"} /\ lock = None
  /\ lock' = p
  /\ Goto(p, IF pc[p] = "w_lock" THEN "w_loop" ELSE "r_wait")
  /\ UNCHANGED <<ring, ends, wfd, rfd, i, n, ret, sig, intr>>

\* sleep_on(): a pending signal is seen before sleeping; either way pi->lock
\* is released
SleepOrInterrupt(p) ==
  /\ lock' = None
  /\ intr' = [intr EXCEPT ![p] = sig[p]]

\* mutant: wakeup(&pi->nread) forgotten before sleeping
WriteFull_NoWake(p) ==
  /\ pc[p] = "w_loop" /\ i[p] < n[p] /\ Full /\ readopen
  /\ SleepOrInterrupt(p)
  /\ Goto(p, IF sig[p] THEN "w_relock" ELSE "w_sleep")
  /\ UNCHANGED <<ring, ends, wfd, rfd, i, n, ret, sig>>

\* the ring is full and somebody may still read: wake the readers and sleep
WriteFull(p) ==
  /\ pc[p] = "w_loop" /\ i[p] < n[p] /\ Full /\ readopen
  /\ SleepOrInterrupt(p)
  /\ WakeReaders(p, IF sig[p] THEN "w_relock" ELSE "w_sleep")
  /\ UNCHANGED <<ring, ends, wfd, rfd, i, n, ret, sig>>

\* no reader is left: release, raise SIGPIPE, return the short count or -1
WriteBroken(p) ==
  /\ pc[p] = "w_loop" /\ i[p] < n[p] /\ ~readopen
  /\ lock' = None
  /\ sig' = [sig EXCEPT ![p] = TRUE]
  /\ Return(p, IF i[p] > 0 THEN i[p] ELSE -1)
  /\ Goto(p, "user")
  /\ UNCHANGED <<ring, ends, wfd, rfd, intr>>

WriteByte(p) ==
  /\ pc[p] = "w_loop" /\ i[p] < n[p] /\ readopen /\ ~Full
  /\ \E b \in Byte : data' = [data EXCEPT ![nwrite % PIPESIZE] = b]
  /\ nwrite' = (nwrite + 1) % UINT
  /\ i' = [i EXCEPT ![p] = @ + 1]
  /\ UNCHANGED <<lock, nread, ends, wfd, rfd, pc, n, ret, sig, intr>>

\* the loop ends, or copyin() fails on the next byte and breaks out of it
WriteDone(p) ==
  /\ pc[p] = "w_loop"
  /\ i[p] < n[p] => readopen /\ ~Full
  /\ lock' = None
  /\ WakeReaders(p, "user")
  /\ Return(p, i[p])
  /\ UNCHANGED <<ring, ends, wfd, rfd, sig, intr>>

ReadEmpty(p) ==
  /\ pc[p] = "r_wait" /\ nread = nwrite /\ writeopen
  /\ SleepOrInterrupt(p)
  /\ Goto(p, IF sig[p] THEN "r_relock" ELSE "r_sleep")
  /\ UNCHANGED <<ring, ends, wfd, rfd, i, n, ret, sig>>

ReadReady(p) ==
  /\ pc[p] = "r_wait" /\ (nread # nwrite \/ ~writeopen)
  /\ Goto(p, "r_copy")
  /\ UNCHANGED <<lock, ring, ends, wfd, rfd, i, n, ret, sig, intr>>

ReadByte(p) ==
  /\ pc[p] = "r_copy" /\ i[p] < n[p] /\ nread # nwrite
  /\ nread' = (nread + 1) % UINT
  /\ i' = [i EXCEPT ![p] = @ + 1]
  /\ UNCHANGED <<lock, data, nwrite, ends, wfd, rfd, pc, n, ret, sig, intr>>

\* the count is reached or the ring is empty
ReadDone(p) ==
  /\ pc[p] = "r_copy" /\ (i[p] = n[p] \/ nread = nwrite)
  /\ lock' = None
  /\ WakeWriters(p, "user")
  /\ Return(p, i[p])
  /\ UNCHANGED <<ring, ends, wfd, rfd, sig, intr>>

\* copyout() fails: the byte has left the ring and is not counted
ReadFault(p) ==
  /\ pc[p] = "r_copy" /\ i[p] < n[p] /\ nread # nwrite
  /\ nread' = (nread + 1) % UINT
  /\ lock' = None
  /\ WakeWriters(p, "user")
  /\ Return(p, i[p])
  /\ UNCHANGED <<data, nwrite, ends, wfd, rfd, sig, intr>>

\* sleep_on() after sched(): the process looks at its signals again
Resume(p) ==
  /\ pc[p] \in {"w_woken", "r_woken"}
  /\ intr' = [intr EXCEPT ![p] = sig[p]]
  /\ Goto(p, IF pc[p] = "w_woken" THEN "w_relock" ELSE "r_relock")
  /\ UNCHANGED <<lock, ring, ends, wfd, rfd, i, n, ret, sig>>

\* sleep_on() re-acquires pi->lock; an interrupted caller releases it and
\* returns what it has written, or -1
Relock(p) ==
  /\ pc[p] \in {"w_relock", "r_relock"} /\ lock = None
  /\ IF intr[p]
     THEN /\ Return(p, IF pc[p] = "w_relock" /\ i[p] > 0 THEN i[p] ELSE -1)
          /\ Goto(p, "user")
          /\ UNCHANGED lock
     ELSE /\ lock' = p
          /\ Goto(p, IF pc[p] = "w_relock" THEN "w_loop" ELSE "r_wait")
          /\ UNCHANGED <<ret, i, n>>
  /\ intr' = [intr EXCEPT ![p] = FALSE]
  /\ UNCHANGED <<ring, ends, wfd, rfd, sig>>
-----------------------------------------------------------------------------
\* fileclose(): the descriptor goes; the last one of an end calls pipeclose()
CloseWriteFd(p) ==
  /\ pc[p] = "user" /\ p \in wfd
  /\ wfd' = wfd \ {p}
  /\ Goto(p, IF wfd' = {} THEN "c_write" ELSE "user")
  /\ UNCHANGED <<lock, ring, ends, rfd, i, n, ret, sig, intr>>

CloseReadFd(p) ==
  /\ pc[p] = "user" /\ p \in rfd
  /\ rfd' = rfd \ {p}
  /\ Goto(p, IF rfd' = {} THEN "c_read" ELSE "user")
  /\ UNCHANGED <<lock, ring, ends, wfd, i, n, ret, sig, intr>>

PipeCloseWrite(p) ==
  /\ pc[p] = "c_write" /\ lock = None
  /\ writeopen' = FALSE
  /\ freed' = ~readopen
  /\ WakeReaders(p, "user")
  /\ UNCHANGED <<lock, ring, readopen, wfd, rfd, i, n, ret, sig, intr>>

\* mutant: the writers are not woken when the last reader goes
PipeCloseRead_NoWake(p) ==
  /\ pc[p] = "c_read" /\ lock = None
  /\ readopen' = FALSE
  /\ freed' = ~writeopen
  /\ Goto(p, "user")
  /\ UNCHANGED <<lock, ring, writeopen, wfd, rfd, i, n, ret, sig, intr>>

PipeCloseRead(p) ==
  /\ pc[p] = "c_read" /\ lock = None
  /\ readopen' = FALSE
  /\ freed' = ~writeopen
  /\ WakeWriters(p, "user")
  /\ UNCHANGED <<lock, ring, writeopen, wfd, rfd, i, n, ret, sig, intr>>

\* signal_mark_locked() from any other process: both sleeps are interruptible
SignalProc(p) ==
  /\ ~sig[p]
  /\ sig' = [sig EXCEPT ![p] = TRUE]
  /\ pc' = [pc EXCEPT ![p] = CASE @ = "w_sleep" -> "w_woken"
                               [] @ = "r_sleep" -> "r_woken"
                               [] OTHER -> @]
  /\ UNCHANGED <<lock, ring, ends, wfd, rfd, i, n, ret, intr>>

\* signal_deliver() on the way back to user space
Deliver(p) ==
  /\ pc[p] = "user" /\ sig[p]
  /\ sig' = [sig EXCEPT ![p] = FALSE]
  /\ UNCHANGED <<lock, ring, ends, wfd, rfd, pc, i, n, ret, intr>>
-----------------------------------------------------------------------------
Kernel(p) ==      \* steps a process inside the kernel takes by itself
  \/ WriteFull(p) \/ WriteBroken(p) \/ WriteByte(p) \/ WriteDone(p)
  \/ ReadEmpty(p) \/ ReadReady(p) \/ ReadByte(p) \/ ReadDone(p) \/ ReadFault(p)
  \/ Resume(p)

Acquires(p) == Lock(p) \/ Relock(p) \/ PipeCloseWrite(p) \/ PipeCloseRead(p)

Next ==
  \E p \in Procs :
    \/ WriteCall(p) \/ ReadCall(p) \/ CloseWriteFd(p) \/ CloseReadFd(p)
    \/ Kernel(p) \/ Acquires(p)
    \/ SignalProc(p) \/ Deliver(p)

\* Every process that is not asleep is scheduled (module Mlfq), and a hart
\* spinning on pi->lock gets it some time when it is free again and again.
Fairness == \A p \in Procs : WF_vars(Kernel(p)) /\ SF_vars(Acquires(p))

Spec == Init /\ [][Next]_vars
FairSpec == Spec /\ Fairness
-----------------------------------------------------------------------------
TypeOK ==
  /\ lock \in Procs \cup {None}
  /\ data \in [0 .. PIPESIZE - 1 -> Byte]
  /\ nread \in 0 .. UINT - 1 /\ nwrite \in 0 .. UINT - 1
  /\ readopen \in BOOLEAN /\ writeopen \in BOOLEAN /\ freed \in BOOLEAN
  /\ wfd \subseteq Procs /\ rfd \subseteq Procs
  /\ pc \in [Procs -> Pcs]
  /\ i \in [Procs -> 0 .. MaxCount] /\ n \in [Procs -> 0 .. MaxCount]
  /\ ret \in [Procs -> -1 .. MaxCount]
  /\ sig \in [Procs -> BOOLEAN] /\ intr \in [Procs -> BOOLEAN]

\* The counters never drift further apart than the ring, also when nwrite has
\* wrapped past 2^32 and nread has not (pipe.c:80: == and not >=).
RingBounded == Used <= PIPESIZE

\* Whenever pi->lock is free, nobody sleeps on a pipe that could serve it: no
\* reader while there are bytes or no writer is left, no writer while there
\* is room or no reader is left.  Every path that releases the lock has
\* woken whoever it enabled, the short writes and the closes included.
NoStrandedSleeper ==
  lock = None =>
    \A p \in Procs :
      /\ pc[p] = "r_sleep" => nread = nwrite /\ writeopen
      /\ pc[p] = "w_sleep" => Full /\ readopen

\* The page of the pipe is given back by the second pipeclose() only, when
\* nobody is inside pipewrite(), piperead() or pipeclose() any more.
NoUseAfterFree ==
  freed => \A p \in Procs : pc[p] = "user" /\ lock = None

\* Nobody sleeps on a pipe that could serve it, whichever path released
\* pi->lock, and pipeclose() gives the page back once, when nobody is inside
\* the pipe any more.
PipeServes == TypeOK /\ NoStrandedSleeper /\ NoUseAfterFree

\* The bytes in the ring, oldest first.
Content == [k \in 1 .. Used |-> data[((nread + k - 1) % UINT) % PIPESIZE]]
Fifo == INSTANCE BoundedFifo WITH q <- Content, Value <- Byte,
                                  Capacity <- PIPESIZE
\* The ring and its wrapping counters implement a queue of PIPESIZE bytes:
\* nothing is lost, duplicated, reordered or overwritten.
ImplementsFifo == Fifo!Spec

\* A writer blocked on a full pipe always gets an answer once the last reader
\* has closed, and a reader blocked on an empty one once the last writer has.
ClosedPipeAnswers ==
  \A p \in Procs :
    /\ (~readopen /\ pc[p] \in WritePcs) ~> (pc[p] = "user")
    /\ (~writeopen /\ pc[p] \in ReadPcs) ~> (pc[p] = "user")
=============================================================================
