-------------------------- MODULE SleeplockProofs ---------------------------
(* Mutual exclusion of sleep locks, and that sleep() and wakeup() lose no   *)
(* wakeup, for any number of processes.                                     *)
EXTENDS Sleeplock, TLAPS

(* Time for each leaf. *)
USE SMTT(30), Z3T(30), Zenon, SMTT(31)

(* initsleeplock() establishes the invariant. *)
LEMMA InitInv == Init => SleepInv
<1> SUFFICES ASSUME Init PROVE SleepInv
  OBVIOUS
<1>1. locked \in BOOLEAN
  BY Zenon DEF Init
<1>2. TypeOK
  BY <1>1, SleeplockAssumption DEF Init, TypeOK, Procs
<1>3. ~locked
  BY DEF Init
<1> QED
  BY <1>2, <1>3, SleeplockAssumption DEF Init, SleepInv, Procs, Covered

(* Every step of acquiresleep(), releasesleep(), sleep() and wakeup()       *)
(* preserves it.                                                            *)
LEMMA StepInv == SleepInv /\ [Next]_vars => SleepInv'
<1> SUFFICES ASSUME SleepInv, [Next]_vars PROVE SleepInv'
  OBVIOUS
<1> USE SleeplockAssumption DEF SleepInv, TypeOK, Procs, Covered, Goto
<1>1. CASE UNCHANGED vars
  BY <1>1 DEF vars
<1>2. ASSUME NEW p \in Procs, AcquireSleep(p) PROVE SleepInv'
  BY <1>2 DEF AcquireSleep
<1>3. ASSUME NEW p \in Procs, Lock(p) PROVE SleepInv'
  BY <1>3 DEF Lock
<1>4. ASSUME NEW p \in Procs, Take(p) PROVE SleepInv'
  BY <1>4 DEF Take
<1>5. ASSUME NEW p \in Procs, SleepLock(p) PROVE SleepInv'
  BY <1>5 DEF SleepLock
<1>6. ASSUME NEW p \in Procs, SleepRelease(p) PROVE SleepInv'
  BY <1>6 DEF SleepRelease
<1>7. ASSUME NEW p \in Procs, Sched(p) PROVE SleepInv'
  BY <1>7 DEF Sched
<1>8. ASSUME NEW p \in Procs, Resume(p) PROVE SleepInv'
  BY <1>8 DEF Resume
<1>9. ASSUME NEW p \in Procs, ReleaseSleep(p) PROVE SleepInv'
  <2> USE <1>9 DEF ReleaseSleep
  <2>1. locked' \in BOOLEAN /\ ~locked'
    <3> HIDE DEF SleepInv, TypeOK, Procs, Covered, Goto
    <3> QED BY <1>9, Zenon
  <2>2. TypeOK'
    BY <2>1
  <2>3. ASSUME NEW q \in Procs PROVE Covered(q)'
    <3>1. pc'[p] = "r_scan" /\ scan'[p] = 1 /\ 1 <= q
      OBVIOUS
    <3> QED
      BY <3>1
  <2>4. ASSUME NEW q \in Procs
        PROVE /\ lk' = q <=> pc'[q] \in {"a_test", "s_rel", "r_scan"}
              /\ plock'[q] = IF pc'[q] \in {"s_rel", "s_sleep"} THEN q ELSE None
              /\ state'[q] = "SLEEPING" => pc'[q] = "s_woken"
              /\ pc'[q] # "r_scan" => scan'[q] = 1
    OBVIOUS
  <2>5. ASSUME NEW q \in Procs PROVE pc'[q] # "held" /\ pc'[q] # "s_rel"
    OBVIOUS
  <2> HIDE <1>9 DEF Covered, ReleaseSleep
  <2> QED
    BY <2>1, <2>2, <2>3, <2>4, <2>5
<1>10. ASSUME NEW p \in Procs, Wakeup(p) PROVE SleepInv'
  BY <1>10 DEF Wakeup
<1>11. ASSUME NEW p \in Procs, ReleaseDone(p) PROVE SleepInv'
  BY <1>11 DEF ReleaseDone
<1> QED
  BY <1>1, <1>2, <1>3, <1>4, <1>5, <1>6, <1>7, <1>8, <1>9, <1>10, <1>11, Zenon
     DEF Next, Step

(* The spinlocks of a sleep lock are owned as its code says at every point. *)
THEOREM SleepInvariant == Spec => []SleepInv
  BY InitInv, StepInv, PTL DEF Spec

(* At most one process holds a sleep lock, and lk->pid names it. *)
THEOREM Exclusion == Spec => []MutualExclusion
<1>1. SleepInv => MutualExclusion
  BY DEF SleepInv, MutualExclusion
<1> QED
  BY <1>1, SleepInvariant, PTL

(* Nobody sleeps on a sleep lock that is free, unless releasesleep() has    *)
(* yet to visit its slot: acquiring p->lock before releasing lk is enough.  *)
THEOREM WakeupsAreNotLost == Spec => []NoLostWakeup
<1>1. SleepInv => NoLostWakeup
  BY DEF SleepInv, NoLostWakeup, Covered
<1> QED
  BY <1>1, SleepInvariant, PTL
=============================================================================
