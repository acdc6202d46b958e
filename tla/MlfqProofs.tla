----------------------------- MODULE MlfqProofs -----------------------------
(* The time slices of the MLFQ scheduler, for every table of slices, number *)
(* of processes and number of harts.                                        *)
EXTENDS Mlfq, TLAPS

(* Time for each leaf. *)
USE SMTT(30), Z3T(30), Zenon, SMTT(31)

(* The part of the type invariant that the slices depend on. *)
SliceInv ==
  /\ level \in [Slots -> Levels]
  /\ sched_ticks \in [Slots -> Nat]
  /\ SliceRespected

(* A slice is at least one tick. *)
LEMMA SlicePositive == \A l \in Levels : Slices[l] \in Nat /\ Slices[l] > 0
  BY MlfqAssumption DEF Levels, TOP, BOTTOM

(* procinit() and allocproc() start every process with an unused slice. *)
LEMMA SliceInit == Init => SliceInv
<1> SUFFICES ASSUME Init PROVE SliceInv
  OBVIOUS
<1>1. TOP \in Levels
  BY MlfqAssumption DEF TOP, BOTTOM, Levels
<1> QED
  BY <1>1, SlicePositive DEF Init, SliceInv, SliceRespected

(* Demotion, promotion, sleep and the boost keep the ticks below the slice. *)
LEMMA SliceStep == SliceInv /\ [Next]_vars => SliceInv'
<1> SUFFICES ASSUME SliceInv, [Next]_vars PROVE SliceInv'
  OBVIOUS
<1>0. TOP \in Levels /\ BOTTOM \in Levels /\ TOP = 1 /\ Levels = 1 .. BOTTOM
      /\ BOTTOM \in Nat
  BY MlfqAssumption DEF TOP, BOTTOM, Levels
<1> USE <1>0, SlicePositive DEF SliceInv, SliceRespected
<1>1. ASSUME NEW c \in CPUs, Scheduler(c) PROVE SliceInv'
  <2>1. CASE BoostSlot(c)
    BY <2>1, Zenon DEF BoostSlot
  <2>2. CASE Boost(c) \/ Pick(c) \/ Skip(c)
    BY <2>2 DEF Boost, Pick, Skip, table
  <2> QED
    BY <1>1, <2>1, <2>2 DEF Scheduler
<1>2. ASSUME NEW c \in CPUs, Yield(c) PROVE SliceInv'
  <2> DEFINE p == cur[c]
             t == sched_ticks[p] + 1
             full == t >= Slices[level[p]]
  <2>1. /\ sched_ticks' = [sched_ticks EXCEPT ![p] = IF full THEN 0 ELSE t]
        /\ level' = IF full /\ level[p] < BOTTOM
                    THEN [level EXCEPT ![p] = @ + 1] ELSE level
    BY <1>2 DEF Yield
  <2>2. CASE p \notin Slots
    BY <2>1, <2>2, Zenon
  <2>3. CASE p \in Slots /\ full
    <3>1. level'[p] \in Levels
      BY <2>1, <2>3
    <3> QED
      BY <2>1, <2>3, <3>1
  <2>4. CASE p \in Slots /\ ~full
    <3>1. t \in Nat /\ t < Slices[level[p]] /\ level' = level
      BY <2>1, <2>4
    <3> QED
      BY <2>1, <2>4, <3>1
  <2> QED
    BY <2>2, <2>3, <2>4
<1>3. ASSUME NEW c \in CPUs, Tick(c) \/ Resched(c) PROVE SliceInv'
  BY <1>2, <1>3 DEF Tick, Resched, table
<1>4. ASSUME NEW c \in CPUs, Sleep(c) PROVE SliceInv'
  BY <1>4, Zenon DEF Sleep
<1>5. ASSUME NEW p \in Slots, DeviceWakeup(p) PROVE SliceInv'
  BY <1>5 DEF DeviceWakeup, Promote
<1>6. ASSUME NEW p \in Slots, Wakeup(p) PROVE SliceInv'
  BY <1>6 DEF Wakeup
<1>7. CASE UNCHANGED vars
  BY <1>7 DEF vars
<1> QED
  BY <1>1, <1>3, <1>4, <1>5, <1>6, <1>7 DEF Next

(* A process never exceeds the slice of its level, on any path of the       *)
(* scheduler: sched_on_yield(), mlfq_promote_on_wakeup(), the boost, sleep. *)
THEOREM SlicesAreRespected == Spec => []SliceRespected
<1>1. SliceInv => SliceRespected
  BY DEF SliceInv
<1> QED
  BY <1>1, SliceInit, SliceStep, PTL DEF Spec
-----------------------------------------------------------------------------
(* A process is on at most one hart, though the harts scan the table with   *)
(* cursors that they share without a lock.                                  *)
RunInv == TypeOK /\ RunsOnce

(* The constants as numbers. *)
LEMMA MlfqConstants ==
  /\ NPROC \in Nat /\ NPROC > 0 /\ UINT \in Nat /\ UINT > 1
  /\ TOP \in Levels /\ None \notin Slots /\ 0 \in Slots
  /\ \A p \in Slots : p \in Nat /\ (p < NPROC - 1 => p + 1 \in Slots)
                      /\ (p # NPROC - 1 => p + 1 \in Slots)
  /\ \A l \in Levels : /\ l \in Nat /\ (l < BOTTOM => l + 1 \in Levels)
                       /\ (l > TOP => l - 1 \in Levels)
  BY MlfqAssumption DEF Levels, TOP, BOTTOM, Slots

(* Arithmetic modulo the size of the table, or of a uint, stays in range. *)
LEMMA ModRange ==
  /\ \A a \in Int : a % NPROC \in Slots
  /\ \A a \in Int : a % UINT \in 0 .. UINT - 1
  BY MlfqAssumption DEF Slots

(* The slot that the scan looks at is in the table, whatever another hart   *)
(* did to the cursor.                                                       *)
LEMMA CandidateIsSlot ==
  ASSUME TypeOK, NEW c \in CPUs
  PROVE  Candidate(c) \in Slots /\ (Candidate(c) + 1) % NPROC \in Slots
<1>1. rr_next[lev[c]] \in Slots /\ i[c] \in Slots
  BY DEF TypeOK
<1>2. rr_next[lev[c]] + i[c] \in Int
  <2>1. \A p \in Slots : p \in Int
    BY MlfqConstants
  <2>2. rr_next[lev[c]] \in Int /\ i[c] \in Int
    BY <1>1, <2>1
  <2> QED
    BY <2>2
<1>3. Candidate(c) \in Slots
  BY <1>2, ModRange DEF Candidate
<1>4. Candidate(c) + 1 \in Int
  BY <1>3, MlfqConstants
<1> QED
  BY <1>3, <1>4, ModRange

(* procinit(): nothing runs. *)
LEMMA RunInit == Init => RunInv
  BY MlfqConstants DEF Init, RunInv, TypeOK, RunsOnce

(* Steps of a scheduler loop that switches to nobody. *)
LEMMA SameRuns ==
  ASSUME RunsOnce, UNCHANGED <<state, cur>>,
         \A d \in CPUs : pc'[d] = "run" <=> pc[d] = "run"
  PROVE  RunsOnce'
  BY DEF RunsOnce

(* mlfq_boost_if_needed() moves processes between levels only. *)
LEMMA BoostRuns ==
  ASSUME RunInv, NEW c \in CPUs, Boost(c) \/ BoostSlot(c) PROVE RunInv'
<1> USE MlfqConstants DEF RunInv
<1>0. pc[c] \in {"pick", "boost"} /\ \E l \in {"pick", "boost", "scan"} : pc' = [pc EXCEPT ![c] = l]
  <2>1. pc = [pc EXCEPT ![c] = pc[c]]
    BY DEF TypeOK
  <2> QED
    BY <2>1 DEF Boost, BoostSlot
<1>1. RunsOnce'
  <2>1. UNCHANGED <<state, cur>>
    BY DEF Boost, BoostSlot, table
  <2>2. \A d \in CPUs : pc'[d] = "run" <=> pc[d] = "run"
    BY <1>0 DEF TypeOK
  <2> QED
    BY <2>1, <2>2, SameRuns
<1>2. level' \in [Slots -> Levels] /\ sched_ticks' \in [Slots -> Nat]
  BY DEF Boost, BoostSlot, TypeOK, table
<1>3. i' \in [CPUs -> Slots] /\ lev' \in [CPUs -> Levels]
  BY DEF Boost, BoostSlot, TypeOK
<1>4. pc' \in [CPUs -> {"pick", "boost", "scan", "run", "wfi"}]
  BY <1>0 DEF TypeOK
<1>5. /\ UNCHANGED <<state, ticks, rr_next, cur, need_resched>>
      /\ last_boost' \in {ticks, last_boost}
  BY DEF Boost, BoostSlot, table, clock
<1>6. TypeOK'
  BY <1>2, <1>3, <1>4, <1>5 DEF TypeOK
<1> QED
  BY <1>1, <1>6

(* pick_next_proc_mlfq() takes a RUNNABLE process, so one that no hart has. *)
LEMMA PickRuns ==
  ASSUME RunInv, NEW c \in CPUs, Pick(c) PROVE RunInv'
<1> PICK p : p = Candidate(c)
  OBVIOUS
<1>1. /\ p \in Slots /\ state[p] = "RUNNABLE" /\ pc[c] = "scan"
      /\ (p + 1) % NPROC \in Slots
  BY CandidateIsSlot DEF RunInv, Pick
<1>2. \A d \in CPUs : cur[d] # p
  BY <1>1 DEF RunInv, RunsOnce
<1>3. /\ \E n \in Slots : rr_next' = [rr_next EXCEPT ![lev[c]] = n]
      /\ need_resched' = [need_resched EXCEPT ![c] = FALSE]
      /\ i' = [i EXCEPT ![c] = 0] /\ lev' = [lev EXCEPT ![c] = TOP]
      /\ UNCHANGED <<level, sched_ticks, ticks, last_boost>>
  BY <1>1, Zenon DEF Pick, clock
<1>4. /\ state' = [state EXCEPT ![p] = "RUNNING"] /\ cur' = [cur EXCEPT ![c] = p]
      /\ pc' = [pc EXCEPT ![c] = "run"]
  BY DEF Pick
<1>5. TypeOK'
  BY <1>1, <1>3, <1>4, MlfqConstants DEF RunInv, TypeOK
<1>6. RunsOnce'
  <2>1. \A d \in CPUs : /\ pc'[d] = IF d = c THEN "run" ELSE pc[d]
                        /\ cur'[d] = IF d = c THEN p ELSE cur[d]
    BY <1>4 DEF RunInv, TypeOK
  <2>2. \A q \in Slots : state'[q] = IF q = p THEN "RUNNING" ELSE state[q]
    BY <1>1, <1>4 DEF RunInv, TypeOK
  <2>3. cur[c] = None
    BY <1>1 DEF RunInv, RunsOnce
  <2>4. \A d \in CPUs : pc'[d] = "run" <=> cur'[d] # None
    BY <1>1, <2>1, MlfqConstants DEF RunInv, RunsOnce
  <2>5. \A q \in Slots : state'[q] = "RUNNING" <=> \E d \in CPUs : cur'[d] = q
    BY <1>1, <1>2, <2>1, <2>2, <2>3, MlfqConstants DEF RunInv, RunsOnce
  <2>6. \A d, e \in CPUs : cur'[d] # None /\ cur'[d] = cur'[e] => d = e
    BY <1>2, <2>1 DEF RunInv, RunsOnce
  <2> QED
    BY <2>4, <2>5, <2>6 DEF RunsOnce
<1> QED
  BY <1>5, <1>6 DEF RunInv

(* The scan passes a slot. *)
LEMMA SkipRuns ==
  ASSUME RunInv, NEW c \in CPUs, Skip(c) PROVE RunInv'
<1> USE MlfqConstants DEF RunInv
<1>1. pc[c] = "scan" /\ (UNCHANGED pc \/ pc' = [pc EXCEPT ![c] = "wfi"])
  BY DEF Skip
<1>2. UNCHANGED <<state, level, sched_ticks, ticks, last_boost, rr_next, cur, need_resched>>
  BY DEF Skip, table, clock
<1>3. i' \in [CPUs -> Slots] /\ lev' \in [CPUs -> Levels]
  BY DEF Skip, TypeOK
<1>4. TypeOK'
  BY <1>1, <1>2, <1>3 DEF TypeOK
<1>5. \A d \in CPUs : pc'[d] = "run" <=> pc[d] = "run"
  BY <1>1 DEF TypeOK
<1>6. RunsOnce'
  BY <1>2, <1>5, SameRuns
<1> QED
  BY <1>4, <1>6

(* A process that leaves its hart is RUNNABLE or SLEEPING, on no hart. *)
LEMMA LeaveRuns ==
  ASSUME RunInv, NEW c \in CPUs, pc[c] = "run", NEW st \in {"RUNNABLE", "SLEEPING"},
         state' = [state EXCEPT ![cur[c]] = st],
         cur' = [cur EXCEPT ![c] = None], pc' = [pc EXCEPT ![c] = "pick"]
  PROVE  RunsOnce'
<1> PICK p : p = cur[c]
  OBVIOUS
<1>1. p \in Slots /\ \A d \in CPUs : cur[d] = p => d = c
  BY DEF RunInv, TypeOK, RunsOnce
<1>2. \A d \in CPUs : /\ pc'[d] = IF d = c THEN "pick" ELSE pc[d]
                      /\ cur'[d] = IF d = c THEN None ELSE cur[d]
  BY DEF RunInv, TypeOK
<1>3. \A q \in Slots : state'[q] = IF q = p THEN st ELSE state[q]
  BY <1>1 DEF RunInv, TypeOK
<1>4. \A d \in CPUs : pc'[d] = "run" <=> cur'[d] # None
  BY <1>2 DEF RunInv, RunsOnce
<1>5. \A q \in Slots : state'[q] = "RUNNING" <=> \E d \in CPUs : cur'[d] = q
  BY <1>1, <1>2, <1>3, MlfqConstants DEF RunInv, RunsOnce
<1>6. \A d, e \in CPUs : cur'[d] # None /\ cur'[d] = cur'[e] => d = e
  BY <1>2 DEF RunInv, RunsOnce
<1> QED
  BY <1>4, <1>5, <1>6 DEF RunsOnce

(* sched_on_yield() keeps the types. *)
LEMMA YieldTypes ==
  ASSUME RunInv, NEW c \in CPUs, pc[c] = "run", Yield(c)
  PROVE  /\ state' \in [Slots -> {"RUNNABLE", "RUNNING", "SLEEPING"}]
         /\ level' \in [Slots -> Levels] /\ sched_ticks' \in [Slots -> Nat]
         /\ cur' \in [CPUs -> Slots \cup {None}]
         /\ pc' \in [CPUs -> {"pick", "boost", "scan", "run", "wfi"}]
<1> PICK p : p = cur[c]
  OBVIOUS
<1>1. p \in Slots
  BY DEF RunInv, TypeOK, RunsOnce
<1>2. /\ state' = [state EXCEPT ![p] = "RUNNABLE"]
      /\ cur' = [cur EXCEPT ![c] = None] /\ pc' = [pc EXCEPT ![c] = "pick"]
  BY DEF Yield
<1>0. level[p] < BOTTOM => level[p] + 1 \in Levels
  BY <1>1, MlfqConstants DEF RunInv, TypeOK
<1>3. level' = level \/ \E l \in Levels : level' = [level EXCEPT ![p] = l]
  BY <1>0 DEF Yield
<1>4. \E n \in {0, sched_ticks[p] + 1} : sched_ticks' = [sched_ticks EXCEPT ![p] = n]
  BY Zenon DEF Yield
<1>5. level' \in [Slots -> Levels]
  BY <1>1, <1>3, MlfqConstants DEF RunInv, TypeOK
<1>6. sched_ticks' \in [Slots -> Nat]
  BY <1>1, <1>4 DEF RunInv, TypeOK
<1> QED
  BY <1>1, <1>2, <1>5, <1>6, Zenon DEF RunInv, TypeOK

(* A timer interrupt, or a trap with need_resched set. *)
LEMMA TickRuns ==
  ASSUME RunInv, NEW c \in CPUs, Tick(c) \/ Resched(c) PROVE RunInv'
<1>1. ticks' \in 0 .. UINT - 1 /\ last_boost' \in 0 .. UINT - 1
  <2>1. ticks + 1 \in Int
    BY MlfqConstants DEF RunInv, TypeOK
  <2>2. (ticks + 1) % UINT \in 0 .. UINT - 1
    BY <2>1, ModRange
  <2> QED
    BY <2>2 DEF RunInv, TypeOK, Tick, Resched, clock
<1>2. UNCHANGED <<rr_next, need_resched, lev, i>>
  BY DEF Tick, Resched
<1>3. CASE pc[c] = "run"
  <2>1. Yield(c)
    BY <1>3 DEF Tick, Resched
  <2>2. RunsOnce'
    BY <1>3, <2>1, LeaveRuns, Zenon DEF Yield
  <2>3. TypeOK'
    BY <1>1, <1>2, <1>3, <2>1, YieldTypes DEF RunInv, TypeOK
  <2> QED
    BY <2>2, <2>3 DEF RunInv
<1>4. CASE pc[c] # "run"
  <2>1. /\ pc' = [pc EXCEPT ![c] = IF pc[c] = "wfi" THEN "pick" ELSE pc[c]]
        /\ UNCHANGED <<state, level, sched_ticks, cur>>
    BY <1>4 DEF Tick, Resched, table
  <2>2. TypeOK'
    BY <1>1, <1>2, <2>1 DEF RunInv, TypeOK
  <2>3. RunsOnce'
    BY <1>4, <2>1 DEF RunInv, TypeOK, RunsOnce
  <2> QED
    BY <2>2, <2>3 DEF RunInv
<1> QED
  BY <1>3, <1>4

(* sleep_on() by the running process. *)
LEMMA SleepRuns ==
  ASSUME RunInv, NEW c \in CPUs, Sleep(c) PROVE RunInv'
<1>1. RunsOnce'
  BY LeaveRuns, Zenon DEF Sleep
<1>2. TypeOK'
  BY MlfqConstants, Zenon DEF RunInv, TypeOK, Sleep, clock
<1> QED
  BY <1>1, <1>2 DEF RunInv

(* A wakeup, with or without promotion. *)
LEMMA WakeRuns ==
  ASSUME RunInv, NEW p \in Slots, DeviceWakeup(p) \/ Wakeup(p) PROVE RunInv'
<1>1. /\ state[p] = "SLEEPING" /\ state' = [state EXCEPT ![p] = "RUNNABLE"]
      /\ UNCHANGED <<ticks, last_boost, rr_next, cur, pc, lev, i>>
  BY DEF DeviceWakeup, Wakeup, clock, loop
<1>2. RunsOnce'
  BY <1>1 DEF RunInv, TypeOK, RunsOnce
<1>3. level' \in [Slots -> Levels] /\ sched_ticks' \in [Slots -> Nat]
  <2>0. level[p] > TOP => level[p] - 1 \in Levels
    BY MlfqConstants DEF RunInv, TypeOK
  <2>1. level' = level \/ \E l \in Levels : level' = [level EXCEPT ![p] = l]
    BY <2>0 DEF DeviceWakeup, Wakeup, Promote
  <2>2. sched_ticks' = sched_ticks \/ sched_ticks' = [sched_ticks EXCEPT ![p] = 0]
    BY DEF DeviceWakeup, Wakeup, Promote
  <2> QED
    BY <2>1, <2>2, MlfqConstants DEF RunInv, TypeOK
<1>4. need_resched' \in [CPUs -> BOOLEAN]
  BY Zenon DEF RunInv, TypeOK, DeviceWakeup, Wakeup
<1>5. TypeOK'
  BY <1>1, <1>3, <1>4, Zenon DEF RunInv, TypeOK
<1> QED
  BY <1>2, <1>5 DEF RunInv

(* Every step of the scheduler, the timer and the wakeups. *)
LEMMA RunStep == RunInv /\ [Next]_vars => RunInv'
<1> SUFFICES ASSUME RunInv, [Next]_vars PROVE RunInv'
  OBVIOUS
<1>1. ASSUME NEW c \in CPUs, Scheduler(c) PROVE RunInv'
  BY <1>1, BoostRuns, PickRuns, SkipRuns DEF Scheduler
<1>2. ASSUME NEW c \in CPUs, Tick(c) \/ Resched(c) \/ Sleep(c) PROVE RunInv'
  BY <1>2, TickRuns, SleepRuns
<1>3. ASSUME NEW p \in Slots, DeviceWakeup(p) \/ Wakeup(p) PROVE RunInv'
  BY <1>3, WakeRuns
<1>4. CASE UNCHANGED vars
  BY <1>4 DEF vars, RunInv, TypeOK, RunsOnce
<1> QED
  BY <1>1, <1>2, <1>3, <1>4 DEF Next

(* Every hart runs the process it picked and no other hart does, for every  *)
(* number of harts that race on the cursors of pick_next_proc_mlfq().       *)
THEOREM ProcessesRunOnce == Spec => [](TypeOK /\ RunsOnce)
  BY RunInit, RunStep, PTL DEF Spec, RunInv
=============================================================================
