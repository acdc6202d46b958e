------------------------------ MODULE Spinlock ------------------------------
(***************************************************************************)
(* Spinlocks and interrupts (kernel/lock/spinlock.c), with the parts of    *)
(* proc.c and trap.c that depend on them: an interrupt handler that takes  *)
(* a lock, yield() from the handler, sched() and the scheduler loop.       *)
(*                                                                         *)
(* A thread is a process in the kernel or the scheduler loop of a hart.    *)
(* The lock p->lock of process p is called p; Shared stands for the locks  *)
(* that both processes and interrupt handlers take (tickslock), and for    *)
(* those a process holds while it copies to or from user memory (a pipe).  *)
(***************************************************************************)
EXTENDS Integers, FiniteSets

CONSTANTS Procs, CPUs,   \* CPUs also name the scheduler threads of the harts
          Shared, None,
          Mlfq           \* built with SCHED_MLFQ: need_resched may be set

Threads == Procs \cup CPUs
Locks == Procs \cup {Shared}

(* Processes, scheduler threads and the shared lock are different objects,  *)
(* and None is the null pointer.                                            *)
ASSUME SpinlockAssumption ==
  /\ Procs \cap CPUs = {} /\ Shared \notin Procs \cup CPUs
  /\ None \notin CPUs \cup Locks \cup {"intr", "fault"}

VARIABLES
  locked, cpu,         \* struct spinlock
  noff, intena, sie,   \* struct cpu, and the SIE bit of the hart
  cur,                 \* the thread a hart executes
  pc, lk,              \* where a thread is in acquire() or release(), of what
  ph,                  \* "new": never ran, "go": normal, "switch": about to
                       \* call sched(), "back": to release p->lock after swtch
  irq,                 \* the trap depth of the thread
  why,                 \* "intr" or "fault"
  spie, sph,           \* the SIE bit and the phase the trap interrupted
  mine,                \* locks the thread took since its last trap entry
  saved                \* the local intena of sched()

vars == <<locked, cpu, noff, intena, sie, cur, pc, lk, ph, irq, why, spie, sph,
          mine, saved>>
traps == <<irq, why, spie, sph>>

Held(c) == {l \in Locks : cpu[l] = c}
At(c, l) == pc[cur[c]] = l
Set(f, t, v) == [f EXCEPT ![t] = v]

(* The harts are in scheduler(), the processes have never run. *)
Init ==
  /\ locked = [l \in Locks |-> FALSE] /\ cpu = [l \in Locks |-> None]
  /\ noff = [c \in CPUs |-> 0] /\ intena = [c \in CPUs |-> FALSE]
  /\ sie = [c \in CPUs |-> FALSE]
  /\ cur = [c \in CPUs |-> c]
  /\ pc = [t \in Threads |-> "run"] /\ lk = [t \in Threads |-> None]
  /\ ph = [t \in Threads |-> IF t \in Procs THEN "new" ELSE "go"]
  /\ irq = [t \in Threads |-> 0]
  /\ why = [t \in Threads |-> None] /\ spie = [t \in Threads |-> FALSE]
  /\ sph = [t \in Threads |-> "go"]
  /\ mine = [t \in Threads |-> {}]
  /\ saved = [t \in Procs |-> FALSE]
-----------------------------------------------------------------------------
(* What the callers lock: a process or an interrupt handler takes Shared,   *)
(* then its own lock to sleep() or yield(); a page fault that was resolved  *)
(* ends in yield() only if need_resched is set; the scheduler takes the     *)
(* lock of a candidate when it has enabled interrupts.                      *)
MayAcquire(c, l) ==
  LET t == cur[c] IN
  /\ ph[t] = "go"
  /\ \/ /\ l = Shared /\ mine[t] = {}
        /\ why[t] = "intr" \/ (t \in Procs /\ irq[t] = 0)
     \/ l = t /\ mine[t] \subseteq {Shared} /\ (why[t] = "fault" => Mlfq)
     \/ t \in CPUs /\ l \in Procs /\ mine[t] = {} /\ irq[t] = 0 /\ sie[c]

(* push_off() *)
PushOff(c) ==
  /\ sie' = Set(sie, c, FALSE)
  /\ intena' = IF noff[c] = 0 THEN Set(intena, c, sie[c]) ELSE intena
  /\ noff' = [noff EXCEPT ![c] = @ + 1]

(* acquire(): push_off(), then spin on the atomic swap, then set lk->cpu *)
Acquire(c, l) ==
  LET t == cur[c] IN
  /\ At(c, "run") /\ MayAcquire(c, l)
  /\ PushOff(c)
  /\ pc' = Set(pc, t, "swap") /\ lk' = Set(lk, t, l)
  /\ UNCHANGED <<locked, cpu, cur, ph, traps, mine, saved>>

Swap(c) ==
  LET t == cur[c] IN
  /\ At(c, "swap") /\ ~locked[lk[t]]
  /\ locked' = Set(locked, lk[t], TRUE)
  /\ pc' = Set(pc, t, "own")
  /\ UNCHANGED <<cpu, noff, intena, sie, cur, lk, ph, traps, mine, saved>>

SetOwner(c) ==
  LET t == cur[c] IN
  /\ At(c, "own")
  /\ cpu' = Set(cpu, lk[t], c)
  /\ pc' = Set(pc, t, "run") /\ lk' = Set(lk, t, None)
  /\ ph' = IF lk[t] = t THEN Set(ph, t, "switch") ELSE ph
  /\ mine' = [mine EXCEPT ![t] = @ \cup {lk[t]}]
  /\ UNCHANGED <<locked, noff, intena, sie, cur, traps, saved>>
-----------------------------------------------------------------------------
(* sleep_on() releases the condition lock once it holds p->lock; a thread   *)
(* that was switched in releases the lock it was switched in with; the      *)
(* scheduler releases a candidate that it does not run.                     *)
MayRelease(c, l) ==
  cur[c] \in CPUs \/ l = Shared \/ ph[cur[c]] = "back"

(* release(): lk->cpu = 0, then the atomic store, then pop_off() *)
Release(c, l) ==
  LET t == cur[c] IN
  /\ At(c, "run") /\ l \in mine[t] /\ MayRelease(c, l)
  /\ cpu' = Set(cpu, l, None)
  /\ pc' = Set(pc, t, "store") /\ lk' = Set(lk, t, l)
  /\ mine' = [mine EXCEPT ![t] = @ \ {l}]
  /\ UNCHANGED <<locked, noff, intena, sie, cur, ph, traps, saved>>

Store(c) ==
  LET t == cur[c] IN
  /\ At(c, "store")
  /\ locked' = Set(locked, lk[t], FALSE)
  /\ pc' = Set(pc, t, "pop") /\ lk' = Set(lk, t, None)
  /\ UNCHANGED <<cpu, noff, intena, sie, cur, ph, traps, mine, saved>>

PopOff(c) ==
  LET t == cur[c] IN
  /\ At(c, "pop")
  /\ noff' = [noff EXCEPT ![c] = @ - 1]
  /\ sie' = IF noff[c] = 1 /\ intena[c] THEN Set(sie, c, TRUE) ELSE sie
  /\ pc' = Set(pc, t, "run")
  /\ ph' = IF ph[t] = "back" THEN Set(ph, t, "go") ELSE ph
  /\ UNCHANGED <<locked, cpu, intena, cur, lk, traps, mine, saved>>
-----------------------------------------------------------------------------
(* The scheduler loop enables interrupts at the top of every round. *)
IntrOn(c) ==
  /\ cur[c] = c /\ At(c, "run") /\ ph[c] = "go" /\ noff[c] = 0 /\ irq[c] = 0
  /\ ~sie[c] /\ sie' = Set(sie, c, TRUE)
  /\ UNCHANGED <<locked, cpu, noff, intena, cur, pc, lk, ph, traps, mine, saved>>

(* The hart clears SIE and kerneltrap() runs on the same thread. *)
Trap(c, w) ==
  LET t == cur[c] IN
  /\ At(c, "run") /\ irq[t] < 2
  /\ spie' = Set(spie, t, sie[c])
  /\ sie' = Set(sie, c, FALSE)
  /\ irq' = [irq EXCEPT ![t] = @ + 1]
  /\ why' = Set(why, t, w)
  /\ sph' = Set(sph, t, ph[t]) /\ ph' = Set(ph, t, "go")
  /\ mine' = Set(mine, t, {})
  /\ UNCHANGED <<locked, cpu, noff, intena, cur, pc, lk, saved>>

Interrupt(c) == sie[c] /\ Trap(c, "intr")

(* A page fault in copyin() or copyout(), with or without a lock held. *)
Fault(c) ==
  LET t == cur[c] IN
  /\ t \in Procs /\ irq[t] = 0 /\ ph[t] = "go"
  /\ Trap(c, "fault")

(* kernelvec returns with the interrupt state the trap found. *)
TrapReturn(c) ==
  LET t == cur[c] IN
  /\ irq[t] > 0 /\ At(c, "run") /\ ph[t] = "go" /\ mine[t] = {}
  /\ irq' = [irq EXCEPT ![t] = @ - 1]
  /\ sie' = Set(sie, c, spie[t])
  /\ why' = Set(why, t, None) /\ spie' = Set(spie, t, FALSE)
  /\ ph' = Set(ph, t, sph[t]) /\ sph' = Set(sph, t, "go")
  /\ mine' = Set(mine, t, Held(c))
  /\ UNCHANGED <<locked, cpu, noff, intena, cur, pc, lk, saved>>

(* sched(), then run_proc() on the scheduler's side of swtch() *)
Sched(c) ==
  LET t == cur[c] IN
  /\ t \in Procs /\ At(c, "run") /\ ph[t] = "switch" /\ mine[t] = {t}
  /\ saved' = Set(saved, t, intena[c])
  /\ cur' = Set(cur, c, c)
  /\ ph' = [ph EXCEPT ![t] = "back", ![c] = "back"]
  /\ mine' = [mine EXCEPT ![t] = {}, ![c] = {t}]
  /\ UNCHANGED <<locked, cpu, noff, intena, sie, pc, lk, traps>>

(* Mutant: intena stays that of the thread that ran before. *)
Switch_KeepsIntena(c, t) ==
  /\ cur[c] = c /\ At(c, "run") /\ Held(c) = {t} /\ ph[c] = "go"
  /\ \A d \in CPUs : cur[d] # t
  /\ cur' = Set(cur, c, t)
  /\ ph' = Set(ph, t, "back")
  /\ mine' = [mine EXCEPT ![t] = {t}, ![c] = {}]
  /\ UNCHANGED <<locked, cpu, noff, intena, sie, pc, lk, traps, saved>>

(* run_proc() switches to the process whose lock the scheduler holds: to    *)
(* the end of its sched(), which restores intena, or to forkret().          *)
Switch(c, t) ==
  /\ cur[c] = c /\ At(c, "run") /\ Held(c) = {t} /\ ph[c] = "go"
  /\ \A d \in CPUs : cur[d] # t
  /\ cur' = Set(cur, c, t)
  /\ ph' = Set(ph, t, "back")
  /\ intena' = IF ph[t] = "new" THEN intena ELSE Set(intena, c, saved[t])
  /\ mine' = [mine EXCEPT ![t] = {t}, ![c] = {}]
  /\ UNCHANGED <<locked, cpu, noff, sie, pc, lk, traps, saved>>

Next ==
  \E c \in CPUs :
    \/ \E l \in Locks : Acquire(c, l) \/ Release(c, l)
    \/ Swap(c) \/ SetOwner(c) \/ Store(c) \/ PopOff(c)
    \/ IntrOn(c) \/ Interrupt(c) \/ Fault(c) \/ TrapReturn(c) \/ Sched(c)
    \/ \E t \in Procs : Switch(c, t)

Spec == Init /\ [][Next]_vars
-----------------------------------------------------------------------------
TypeOK ==
  /\ locked \in [Locks -> BOOLEAN] /\ cpu \in [Locks -> CPUs \cup {None}]
  /\ noff \in [CPUs -> 0 .. 2] /\ intena \in [CPUs -> BOOLEAN]
  /\ sie \in [CPUs -> BOOLEAN]
  /\ cur \in [CPUs -> Threads]
  /\ pc \in [Threads -> {"run", "swap", "own", "store", "pop"}]
  /\ lk \in [Threads -> Locks \cup {None}]
  /\ ph \in [Threads -> {"new", "go", "switch", "back"}]
  /\ irq \in [Threads -> 0 .. 2]
  /\ why \in [Threads -> {None, "intr", "fault"}]
  /\ spie \in [Threads -> BOOLEAN]
  /\ sph \in [Threads -> {"new", "go", "switch", "back"}]
  /\ mine \in [Threads -> SUBSET Locks]
  /\ saved \in [Procs -> BOOLEAN]

(* The lock that hart c owns by the atomic swap. *)
Owns(c, l) ==
  \/ cpu[l] = c
  \/ lk[cur[c]] = l /\ pc[cur[c]] \in {"own", "store"}

(* Mutual exclusion: no two harts are between the swaps of acquire() and    *)
(* release() of one lock, whatever they record in lk->cpu and when.         *)
MutualExclusion ==
  \A c, d \in CPUs, l \in Locks : Owns(c, l) /\ Owns(d, l) => c = d

(* acquire() never waits for the lock of its own hart: neither an interrupt *)
(* handler nor a process that resumed on another hart can do so (panic      *)
(* "acquire", spinlock.c:61).                                               *)
NoSelfDeadlock ==
  \A c \in CPUs : pc[cur[c]] = "swap" => ~Owns(c, lk[cur[c]])

(* Interrupt handlers do not nest: neither the locks of a handler nor a     *)
(* context switch inside one turns interrupts on before it returns, so      *)
(* kerneltrap() never panics with "interrupts enabled" and the kernel stack *)
(* holds at most one trap frame.                                            *)
NoNestedInterrupt ==
  \A c \in CPUs : irq[cur[c]] <= 1 /\ (irq[cur[c]] = 1 => ~sie[c])

(* push_off() and pop_off() are matched across context switches: a process  *)
(* outside a handler that is done with its locks has interrupts on again,   *)
(* on whatever hart, and a hart with a lock has them off.                   *)
InterruptsRestored ==
  \A c \in CPUs :
    /\ noff[c] > 0 => ~sie[c]
    /\ cur[c] \in Procs /\ noff[c] = 0 => (sie[c] <=> irq[cur[c]] = 0)

(* sched() "must hold only p->lock" (proc.c:857): whoever calls it, from    *)
(* sleep() or from a trap that interrupted anything, finds noff equal to    *)
(* one (panic "sched locks", proc.c:872).                                   *)
SchedHoldsOneLock ==
  \A c \in CPUs :
    LET t == cur[c] IN
    t \in Procs /\ pc[t] = "run" /\ ph[t] = "switch" /\ mine[t] = {t}
      => noff[c] = 1 /\ Held(c) = {t}

(* All of the above.  SchedHoldsOneLock, and what depends on it, holds only *)
(* in a build without SCHED_MLFQ, where a page fault does not yield.        *)
SpinSound ==
  /\ TypeOK /\ MutualExclusion /\ NoSelfDeadlock /\ InterruptsRestored
  /\ NoNestedInterrupt /\ SchedHoldsOneLock
=============================================================================
