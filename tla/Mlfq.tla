-------------------------------- MODULE Mlfq --------------------------------
(***************************************************************************)
(* The scheduling policy of kernel/proc/proc.c built with SCHED_MLFQ:      *)
(* queue levels with time slices, a round-robin cursor per level,          *)
(* promotion when a device wakes a process, preemption through             *)
(* need_resched, and the periodic boost.  The scheduler looks at one slot  *)
(* at a time, each under its p->lock, with interrupts on in between, and   *)
(* the cursors, ticks and mlfq_last_boost_tick are read without a lock.    *)
(***************************************************************************)
EXTENDS Integers, Sequences

CONSTANTS NPROC, CPUs, None,
          Slices,        \* mlfq_time_slices, one per level
          BOOST,         \* MLFQ_BOOST_INTERVAL
          UINT           \* ticks is a uint: arithmetic modulo UINT

ASSUME MlfqAssumption ==
  /\ NPROC \in Nat /\ NPROC > 0
  /\ Len(Slices) > 0 /\ Slices \in Seq(Nat \ {0})
  /\ BOOST \in Nat /\ UINT \in Nat /\ BOOST + 1 < UINT
  /\ None \notin 0 .. NPROC - 1

Slots == 0 .. NPROC - 1
TOP == 1                 \* levels are numbered from 1 here
BOTTOM == Len(Slices)
Levels == TOP .. BOTTOM

VARIABLES
  state, level, sched_ticks,   \* fields of struct proc
  ticks, last_boost, rr_next,  \* globals; rr_next is indexed by level
  cur, need_resched,           \* c->proc and c->need_resched
  pc, lev, i                   \* scheduler of hart c: phase, level, offset

vars == <<state, level, sched_ticks, ticks, last_boost, rr_next, cur,
          need_resched, pc, lev, i>>
table == <<state, level, sched_ticks>>
clock == <<ticks, last_boost>>
loop == <<pc, lev, i>>

Init ==
  /\ state = [p \in Slots |-> "RUNNABLE"]
  /\ level = [p \in Slots |-> TOP]
  /\ sched_ticks = [p \in Slots |-> 0]
  /\ ticks = 0 /\ last_boost = 0
  /\ rr_next = [l \in Levels |-> 0]
  /\ cur = [c \in CPUs |-> None]
  /\ need_resched = [c \in CPUs |-> FALSE]
  /\ pc = [c \in CPUs |-> "pick"]
  /\ lev = [c \in CPUs |-> TOP] /\ i = [c \in CPUs |-> 0]
-----------------------------------------------------------------------------
SinceBoost == (ticks - last_boost) % UINT

(* Mutant: the boost is recorded but not done. *)
Boost_Never(c) ==
  /\ pc[c] = "pick"
  /\ i' = [i EXCEPT ![c] = 0] /\ lev' = [lev EXCEPT ![c] = TOP]
  /\ pc' = [pc EXCEPT ![c] = "scan"]
  /\ last_boost' = IF SinceBoost < BOOST THEN last_boost ELSE ticks
  /\ UNCHANGED <<table, ticks, rr_next, cur, need_resched>>

(* mlfq_boost_if_needed(): the interval test, on wrapping ticks *)
Boost(c) ==
  /\ pc[c] = "pick"
  /\ i' = [i EXCEPT ![c] = 0] /\ lev' = [lev EXCEPT ![c] = TOP]
  /\ IF SinceBoost < BOOST
     THEN pc' = [pc EXCEPT ![c] = "scan"] /\ UNCHANGED last_boost
     ELSE pc' = [pc EXCEPT ![c] = "boost"] /\ last_boost' = ticks
  /\ UNCHANGED <<table, ticks, rr_next, cur, need_resched>>

(* Mutant: the boosted process keeps what it used of its slice. *)
BoostSlot_KeepsTicks(c) ==
  /\ pc[c] = "boost"
  /\ level' = [level EXCEPT ![i[c]] = TOP]
  /\ IF i[c] = NPROC - 1
     THEN pc' = [pc EXCEPT ![c] = "scan"] /\ i' = [i EXCEPT ![c] = 0]
     ELSE i' = [i EXCEPT ![c] = @ + 1] /\ UNCHANGED pc
  /\ UNCHANGED <<state, sched_ticks, clock, rr_next, cur, need_resched, lev>>

BoostSlot(c) ==
  /\ pc[c] = "boost"
  /\ level' = [level EXCEPT ![i[c]] = TOP]
  /\ sched_ticks' = [sched_ticks EXCEPT ![i[c]] = 0]
  /\ IF i[c] = NPROC - 1
     THEN pc' = [pc EXCEPT ![c] = "scan"] /\ i' = [i EXCEPT ![c] = 0]
     ELSE i' = [i EXCEPT ![c] = @ + 1] /\ UNCHANGED pc
  /\ UNCHANGED <<state, clock, rr_next, cur, need_resched, lev>>

(* The slot a scan looks at: the cursor is read afresh for every offset. *)
Candidate(c) == (rr_next[lev[c]] + i[c]) % NPROC

(* Mutant: a process that already runs is picked too. *)
Pick_Unlocked(c) ==
  LET p == Candidate(c) IN
  /\ pc[c] = "scan" /\ state[p] # "SLEEPING" /\ level[p] = lev[c]
  /\ rr_next' = [rr_next EXCEPT ![lev[c]] = (p + 1) % NPROC]
  /\ state' = [state EXCEPT ![p] = "RUNNING"]
  /\ cur' = [cur EXCEPT ![c] = p]
  /\ need_resched' = [need_resched EXCEPT ![c] = FALSE]
  /\ pc' = [pc EXCEPT ![c] = "run"]
  /\ i' = [i EXCEPT ![c] = 0] /\ lev' = [lev EXCEPT ![c] = TOP]
  /\ UNCHANGED <<level, sched_ticks, clock>>

(* pick_next_proc_mlfq() finds one: the cursor moves past it, need_resched  *)
(* is consumed, run_proc() starts it.                                       *)
Pick(c) ==
  LET p == Candidate(c) IN
  /\ pc[c] = "scan" /\ state[p] = "RUNNABLE" /\ level[p] = lev[c]
  /\ rr_next' = [rr_next EXCEPT ![lev[c]] = (p + 1) % NPROC]
  /\ state' = [state EXCEPT ![p] = "RUNNING"]
  /\ cur' = [cur EXCEPT ![c] = p]
  /\ need_resched' = [need_resched EXCEPT ![c] = FALSE]
  /\ pc' = [pc EXCEPT ![c] = "run"]
  /\ i' = [i EXCEPT ![c] = 0] /\ lev' = [lev EXCEPT ![c] = TOP]
  /\ UNCHANGED <<level, sched_ticks, clock>>

(* the next offset, the next level, or wfi and the next round *)
Skip(c) ==
  LET p == Candidate(c) IN
  /\ pc[c] = "scan" /\ ~(state[p] = "RUNNABLE" /\ level[p] = lev[c])
  /\ IF i[c] < NPROC - 1
     THEN i' = [i EXCEPT ![c] = @ + 1] /\ UNCHANGED <<pc, lev>>
     ELSE /\ i' = [i EXCEPT ![c] = 0]
          /\ IF lev[c] < BOTTOM
             THEN lev' = [lev EXCEPT ![c] = @ + 1] /\ UNCHANGED pc
             ELSE lev' = [lev EXCEPT ![c] = TOP] /\ pc' = [pc EXCEPT ![c] = "wfi"]
  /\ UNCHANGED <<table, clock, rr_next, cur, need_resched>>
-----------------------------------------------------------------------------
(* yield(): sched_on_yield() charges a tick and demotes after a full slice *)
Yield(c) ==
  LET p == cur[c]
      t == sched_ticks[p] + 1
      full == t >= Slices[level[p]]
  IN /\ sched_ticks' = [sched_ticks EXCEPT ![p] = IF full THEN 0 ELSE t]
     /\ level' = IF full /\ level[p] < BOTTOM
                 THEN [level EXCEPT ![p] = @ + 1] ELSE level
     /\ state' = [state EXCEPT ![p] = "RUNNABLE"]
     /\ cur' = [cur EXCEPT ![c] = None]
     /\ pc' = [pc EXCEPT ![c] = "pick"]

(* Bound: the scheduler comes round before 2^32 ticks have passed. *)
MaxLag == UINT - 2

(* A timer interrupt: clockintr(), then yield() if a process was running; a *)
(* hart in wfi starts its next round.                                       *)
Tick(c) ==
  /\ pc[c] \in {"run", "wfi"} \/ SinceBoost < MaxLag
  /\ ticks' = (ticks + 1) % UINT
  /\ IF pc[c] = "run"
     THEN Yield(c)
     ELSE /\ pc' = [pc EXCEPT ![c] = IF @ = "wfi" THEN "pick" ELSE @]
          /\ UNCHANGED <<table, cur>>
  /\ UNCHANGED <<last_boost, rr_next, need_resched, lev, i>>

(* Any other trap on a hart whose need_resched is set. *)
Resched(c) ==
  /\ pc[c] = "run" /\ need_resched[c]
  /\ Yield(c)
  /\ UNCHANGED <<clock, rr_next, need_resched, lev, i>>

(* sleep_on() by the running process *)
Sleep(c) ==
  /\ pc[c] = "run"
  /\ state' = [state EXCEPT ![cur[c]] = "SLEEPING"]
  /\ sched_ticks' = [sched_ticks EXCEPT ![cur[c]] = 0]
  /\ cur' = [cur EXCEPT ![c] = None]
  /\ pc' = [pc EXCEPT ![c] = "pick"]
  /\ UNCHANGED <<level, clock, rr_next, need_resched, lev, i>>

Promote(p) ==
  /\ level' = IF level[p] > TOP THEN [level EXCEPT ![p] = @ - 1] ELSE level
  /\ sched_ticks' = [sched_ticks EXCEPT ![p] = 0]

(* wakeup_reason() from a device: mlfq_promote_on_wakeup() promotes the     *)
(* process, then asks every hart that runs a lower level to reschedule.     *)
DeviceWakeup(p) ==
  /\ state[p] = "SLEEPING"
  /\ state' = [state EXCEPT ![p] = "RUNNABLE"]
  /\ Promote(p)
  /\ need_resched' = [c \in CPUs |->
       \/ need_resched[c]
       \/ cur[c] # None /\ level'[p] < level[cur[c]]]
  /\ UNCHANGED <<clock, rr_next, cur, loop>>

(* wakeup() or the timer: no promotion *)
Wakeup(p) ==
  /\ state[p] = "SLEEPING"
  /\ state' = [state EXCEPT ![p] = "RUNNABLE"]
  /\ UNCHANGED <<level, sched_ticks, clock, rr_next, cur, need_resched, loop>>

Scheduler(c) == Boost(c) \/ BoostSlot(c) \/ Pick(c) \/ Skip(c)

Next ==
  \/ \E c \in CPUs : Scheduler(c) \/ Tick(c) \/ Resched(c) \/ Sleep(c)
  \/ \E p \in Slots : DeviceWakeup(p) \/ Wakeup(p)

Spec == Init /\ [][Next]_vars
-----------------------------------------------------------------------------
TypeOK ==
  /\ state \in [Slots -> {"RUNNABLE", "RUNNING", "SLEEPING"}]
  /\ level \in [Slots -> Levels]
  /\ sched_ticks \in [Slots -> Nat]
  /\ ticks \in 0 .. UINT - 1 /\ last_boost \in 0 .. UINT - 1
  /\ rr_next \in [Levels -> Slots]
  /\ cur \in [CPUs -> Slots \cup {None}]
  /\ need_resched \in [CPUs -> BOOLEAN]
  /\ pc \in [CPUs -> {"pick", "boost", "scan", "run", "wfi"}]
  /\ lev \in [CPUs -> Levels] /\ i \in [CPUs -> Slots]

(* The ticks a process has used are always fewer than the slice of the      *)
(* level it is in, through demotion, promotion to a shorter slice and the   *)
(* boost: it is demoted at the tick that fills the slice, never later.      *)
SliceRespected == \A p \in Slots : sched_ticks[p] < Slices[level[p]]

(* A hart runs exactly the process it picked, though two harts scan with    *)
(* the same unlocked cursors.                                               *)
RunsOnce ==
  /\ \A c \in CPUs : pc[c] = "run" <=> cur[c] # None
  /\ \A p \in Slots : state[p] = "RUNNING" <=> \E c \in CPUs : cur[c] = p
  /\ \A c, d \in CPUs : cur[c] # None /\ cur[c] = cur[d] => c = d
=============================================================================
