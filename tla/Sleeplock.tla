----------------------------- MODULE Sleeplock ------------------------------
(***************************************************************************)
(* Sleep locks (kernel/lock/sleeplock.c) on top of sleep() and wakeup()    *)
(* (kernel/proc/proc.c).  A process is named by its slot, 1 .. N, because  *)
(* wakeup() visits the slots in order, each under its own p->lock.         *)
(***************************************************************************)
EXTENDS Integers

CONSTANTS N,       \* processes
          None

ASSUME SleeplockAssumption == N \in Nat /\ None \notin 1 .. N

Procs == 1 .. N

VARIABLES
  locked, pid,     \* struct sleeplock; pid is the holder's slot
  lk,              \* the owner of the spinlock lk->lk
  plock,           \* plock[p]: the process that holds p->lock
  state,           \* "RUNNABLE" (or running) or "SLEEPING" with chan == lk
  pc, scan         \* where p is, and the slot its wakeup() looks at

vars == <<locked, pid, lk, plock, state, pc, scan>>

Goto(p, l) == pc' = [pc EXCEPT ![p] = l]

(* initsleeplock() *)
Init ==
  /\ locked = FALSE /\ pid = None /\ lk = None
  /\ plock = [p \in Procs |-> None]
  /\ state = [p \in Procs |-> "RUNNABLE"]
  /\ pc = [p \in Procs |-> "idle"]
  /\ scan = [p \in Procs |-> 1]

AcquireSleep(p) ==
  /\ pc[p] = "idle" /\ Goto(p, "a_lk")
  /\ UNCHANGED <<locked, pid, lk, plock, state, scan>>

(* acquire(&lk->lk), on entry and at the end of sleep() *)
Lock(p) ==
  /\ pc[p] = "a_lk" /\ lk = None
  /\ lk' = p /\ Goto(p, "a_test")
  /\ UNCHANGED <<locked, pid, plock, state, scan>>

(* Mutant: the loop condition is not tested again. *)
Take_NoTest(p) ==
  /\ pc[p] = "a_test"
  /\ locked' = TRUE /\ pid' = p /\ lk' = None
  /\ Goto(p, "held")
  /\ UNCHANGED <<plock, state, scan>>

Take(p) ==
  /\ pc[p] = "a_test" /\ ~locked
  /\ locked' = TRUE /\ pid' = p /\ lk' = None
  /\ Goto(p, "held")
  /\ UNCHANGED <<plock, state, scan>>

(* Mutant: sleep() releases the condition lock before it holds p->lock. *)
SleepLock_Late(p) ==
  /\ pc[p] = "a_test" /\ locked
  /\ lk' = None
  /\ Goto(p, "s_sleep")
  /\ UNCHANGED <<locked, pid, plock, state, scan>>

(* sleep(): acquire(&p->lock) before release(lk) ... *)
SleepLock(p) ==
  /\ pc[p] = "a_test" /\ locked /\ plock[p] = None
  /\ plock' = [plock EXCEPT ![p] = p]
  /\ Goto(p, "s_rel")
  /\ UNCHANGED <<locked, pid, lk, state, scan>>

SleepRelease(p) ==
  /\ pc[p] = "s_rel"
  /\ lk' = None
  /\ Goto(p, "s_sleep")
  /\ UNCHANGED <<locked, pid, plock, state, scan>>

(* ... then SLEEPING, and the scheduler releases p->lock after the switch *)
Sched(p) ==
  /\ pc[p] = "s_sleep"
  /\ state' = [state EXCEPT ![p] = "SLEEPING"]
  /\ plock' = [plock EXCEPT ![p] = None]
  /\ Goto(p, "s_woken")
  /\ UNCHANGED <<locked, pid, lk, scan>>

(* the scheduler picks p again under its lock, which sleep() then releases *)
Resume(p) ==
  /\ pc[p] = "s_woken" /\ state[p] = "RUNNABLE" /\ plock[p] = None
  /\ Goto(p, "a_lk")
  /\ UNCHANGED <<locked, pid, lk, plock, state, scan>>

ReleaseSleep(p) ==
  /\ pc[p] = "held" /\ lk = None
  /\ lk' = p /\ locked' = FALSE /\ pid' = None
  /\ Goto(p, "r_scan")
  /\ UNCHANGED <<plock, state, scan>>

(* Mutant: the last slot is not looked at. *)
Wakeup_StopsEarly(p) ==
  LET q == scan[p] IN
  /\ pc[p] = "r_scan" /\ q <= N /\ plock[q] = None
  /\ state' = IF q = N THEN state ELSE [state EXCEPT ![q] = "RUNNABLE"]
  /\ scan' = [scan EXCEPT ![p] = q + 1]
  /\ UNCHANGED <<locked, pid, lk, plock, pc>>

(* wakeup(): slot after slot, each under its p->lock *)
Wakeup(p) ==
  LET q == scan[p] IN
  /\ pc[p] = "r_scan" /\ q <= N /\ plock[q] = None
  /\ state' = [state EXCEPT ![q] = "RUNNABLE"]
  /\ scan' = [scan EXCEPT ![p] = q + 1]
  /\ UNCHANGED <<locked, pid, lk, plock, pc>>

ReleaseDone(p) ==
  /\ pc[p] = "r_scan" /\ scan[p] > N
  /\ lk' = None
  /\ scan' = [scan EXCEPT ![p] = 1]
  /\ Goto(p, "idle")
  /\ UNCHANGED <<locked, pid, plock, state>>

(* Everything but the wish to lock: what the scheduler's fairness drives. *)
Step(p) ==
  \/ Lock(p) \/ Take(p) \/ SleepLock(p) \/ SleepRelease(p) \/ Sched(p)
  \/ Resume(p) \/ ReleaseSleep(p) \/ Wakeup(p) \/ ReleaseDone(p)

Next == \E p \in Procs : AcquireSleep(p) \/ Step(p)
Spec == Init /\ [][Next]_vars
-----------------------------------------------------------------------------
TypeOK ==
  /\ locked \in BOOLEAN /\ pid \in Procs \cup {None}
  /\ lk \in Procs \cup {None}
  /\ plock \in [Procs -> Procs \cup {None}]
  /\ state \in [Procs -> {"RUNNABLE", "SLEEPING"}]
  /\ pc \in [Procs -> {"idle", "a_lk", "a_test", "held", "s_rel", "s_sleep",
                       "s_woken", "r_scan"}]
  /\ scan \in [Procs -> 1 .. N + 1]

(* Mutual exclusion: at most one process is between acquiresleep() and      *)
(* releasesleep(), it is the one lk->pid names, and locked says so.         *)
MutualExclusion ==
  \A p \in Procs : pc[p] = "held" <=> (locked /\ pid = p)

(* No lost wakeup: who sleeps on the lock sleeps while it is taken, or a    *)
(* releasesleep() is still on its way to that slot.  This is the reason     *)
(* sleep() acquires p->lock before it releases lk (proc.c:924-929).         *)
NoLostWakeup ==
  \A p \in Procs : state[p] = "SLEEPING" =>
    locked \/ \E q \in Procs : pc[q] = "r_scan" /\ scan[q] <= p

(* What makes NoLostWakeup inductive: who owns the spinlocks at each point, *)
(* and that a process on its way to sleep is already covered by the holder  *)
(* or by the scan, which cannot pass it while it has its own p->lock.       *)
Covered(p) ==
  locked \/ \E q \in Procs : pc[q] = "r_scan" /\ scan[q] <= p
SleepInv ==
  /\ TypeOK
  /\ \A p \in Procs :
       /\ lk = p <=> pc[p] \in {"a_test", "s_rel", "r_scan"}
       /\ plock[p] = IF pc[p] \in {"s_rel", "s_sleep"} THEN p ELSE None
       /\ pc[p] = "held" <=> (locked /\ pid = p)
       /\ state[p] = "SLEEPING" => pc[p] = "s_woken"
       /\ pc[p] # "r_scan" => scan[p] = 1
       /\ pc[p] = "s_rel" => locked
       /\ pc[p] = "s_sleep" \/ state[p] = "SLEEPING" => Covered(p)

(* A free lock that somebody has asked for is taken, if scheduled processes *)
(* keep running: the while loop and wakeup() do not pass it around for ever.*)
FreeLockIsTaken ==
  (~locked /\ \E p \in Procs : pc[p] \in {"a_lk", "a_test", "s_rel", "s_sleep", "s_woken"})
    ~> locked
=============================================================================
