--------------------------- MODULE SpinlockProofs ----------------------------
(* A spinlock is held by one hart at a time, for any number of processes    *)
(* and harts, although lk->cpu is set after the swap and cleared before the *)
(* store, traps interrupt the holders, and a process that holds its own     *)
(* lock moves to another hart (SpinInv).  And push_off() and pop_off()      *)
(* count the spinlocks of a hart exactly, so that interrupts are off with   *)
(* one held and come back when the last is released, on whatever hart that  *)
(* is (MaskInv).                                                            *)
EXTENDS Spinlock, TLAPS

(* Provers and time for each leaf. *)
USE SMTT(30), Z3T(30), Zenon, SMTT(31)

(* SpinlockAssumption, as the part of the invariants that is about constants. *)
Apart ==
  /\ Procs \cap CPUs = {} /\ Shared \notin Procs \cup CPUs
  /\ None \notin CPUs \cup Locks \cup {"intr", "fault"}

Types ==
  /\ locked \in [Locks -> BOOLEAN] /\ cpu \in [Locks -> CPUs \cup {None}]
  /\ cur \in [CPUs -> Threads]
  /\ pc \in [Threads -> {"run", "swap", "own", "store", "pop"}]
  /\ lk \in [Threads -> Locks \cup {None}]
  /\ mine \in [Threads -> SUBSET Locks]

(* A thread runs on one hart, and a scheduler thread on its own; who does   *)
(* not run is not inside acquire() or release().                            *)
OneHartEach ==
  /\ \A c, d \in CPUs : cur[c] = cur[d] => c = d
  /\ \A c \in CPUs : cur[c] \in CPUs => cur[c] = c
  /\ \A t \in Threads : (\A c \in CPUs : cur[c] # t) => pc[t] = "run"

(* Between the swap and lk->cpu = mycpu(), and between lk->cpu = 0 and the  *)
(* store, the lock is locked and nobody's; nobody else is at such a place   *)
(* with the same lock.                                                      *)
Between(c) == pc[cur[c]] \in {"own", "store"}
InPassing ==
  \A c \in CPUs :
    /\ pc[cur[c]] = "swap" => lk[cur[c]] \in Locks
    /\ Between(c) =>
         /\ lk[cur[c]] \in Locks
         /\ locked[lk[cur[c]]] /\ cpu[lk[cur[c]]] = None
    /\ \A d \in CPUs : Between(c) /\ Between(d) /\ lk[cur[c]] = lk[cur[d]] => c = d

(* A lock with an owner is locked, and the locks that the running thread    *)
(* releases are those of its hart.                                          *)
Owned ==
  /\ \A l \in Locks : cpu[l] # None => locked[l]
  /\ \A c \in CPUs : \A l \in mine[cur[c]] : cpu[l] = c

SpinInv == Apart /\ Types /\ OneHartEach /\ InPassing /\ Owned

(* At boot no lock is held and every hart is in its scheduler. *)
LEMMA InitSpin == Init => SpinInv
  BY SpinlockAssumption DEF Apart, Init, SpinInv, Types, OneHartEach, Between, InPassing, Owned,
         Threads, Locks

(* A step of acquire() or release() keeps who runs where, if the thread of  *)
(* c is the only one that moves.                                            *)
LEMMA PlacesStay ==
  ASSUME SpinInv, NEW c \in CPUs, NEW x \in {"run", "swap", "own", "store", "pop"},
         cur' = cur, pc' = Set(pc, cur[c], x)
  PROVE OneHartEach' /\ \A d \in CPUs : d # c => pc'[cur[d]] = pc[cur[d]]
<1>1. cur[c] \in Threads
  BY Zenon DEF SpinInv, Types
<1>2. \A t \in Threads : pc'[t] = IF t = cur[c] THEN x ELSE pc[t]
  BY Zenon DEF SpinInv, Types, Set
<1>3. \A d \in CPUs : cur[d] \in Threads /\ (cur[d] = cur[c] => d = c)
  BY Zenon DEF SpinInv, Types, OneHartEach
<1> QED
  BY <1>1, <1>2, <1>3, Zenon DEF SpinInv, OneHartEach

(* acquire() preserves the invariant: push_off(), ... *)
LEMMA AcquireStep ==
  ASSUME SpinInv, NEW c \in CPUs, NEW l \in Locks, Acquire(c, l)
  PROVE SpinInv'
<1>1. Types'
  BY Zenon DEF SpinInv, Types, Acquire, Set, At
<1>2. OneHartEach' /\ \A d \in CPUs : d # c => pc'[cur[d]] = pc[cur[d]]
  BY PlacesStay, Zenon DEF Acquire
<1>3. /\ pc'[cur[c]] = "swap" /\ lk'[cur[c]] = l
      /\ \A d \in CPUs : d # c => lk'[cur[d]] = lk[cur[d]]
      /\ cur' = cur /\ locked' = locked /\ cpu' = cpu /\ mine' = mine
  BY Zenon DEF SpinInv, Types, OneHartEach, Acquire, Set
<1>4. InPassing'
  BY <1>2, <1>3 DEF SpinInv, InPassing, Between
<1>5. Apart' /\ Owned'
  BY <1>3, Zenon DEF SpinInv, Owned, Apart
<1> QED
  BY <1>1, <1>2, <1>4, <1>5, Zenon DEF SpinInv

(* ... the swap that finds the lock free, ... *)
LEMMA SwapStep ==
  ASSUME SpinInv, NEW c \in CPUs, Swap(c)
  PROVE SpinInv'
<1> DEFINE l == lk[cur[c]]
<1>0. l \in Locks /\ ~locked[l] /\ cpu[l] = None
  BY Zenon DEF SpinInv, Types, InPassing, Owned, Swap, At
<1>1. Types'
  BY Zenon DEF SpinInv, Types, Swap, Set, At
<1>2. OneHartEach' /\ \A d \in CPUs : d # c => pc'[cur[d]] = pc[cur[d]]
  BY PlacesStay, Zenon DEF Swap
<1>3. /\ pc'[cur[c]] = "own" /\ locked'[l]
      /\ \A k \in Locks : locked[k] => locked'[k]
      /\ cur' = cur /\ lk' = lk /\ cpu' = cpu /\ mine' = mine
  BY <1>0, Zenon DEF SpinInv, Types, Swap, Set
<1>4. \A d \in CPUs : Between(d) => lk[cur[d]] # l
  BY <1>0, Zenon DEF SpinInv, InPassing
<1>5. InPassing'
  <2>1. \A d \in CPUs : d # c => (Between(d)' <=> Between(d))
    BY <1>2, <1>3, Zenon DEF Between
  <2> QED
    BY <2>1, <1>0, <1>2, <1>3, <1>4 DEF SpinInv, InPassing, Between
<1>6. Apart' /\ Owned'
  BY <1>3, Zenon DEF SpinInv, Owned, Apart
<1> QED
  BY <1>1, <1>2, <1>5, <1>6, Zenon DEF SpinInv

(* ... and lk->cpu = mycpu(). *)
LEMMA SetOwnerStep ==
  ASSUME SpinInv, NEW c \in CPUs, SetOwner(c)
  PROVE SpinInv'
<1> DEFINE l == lk[cur[c]]
<1>0. l \in Locks /\ locked[l] /\ cpu[l] = None /\ Between(c)
  BY Zenon DEF SpinInv, InPassing, Between, SetOwner, At
<1>1. Types'
  BY <1>0 DEF SpinInv, Types, SetOwner, Set, At
<1>2. OneHartEach' /\ \A d \in CPUs : d # c => pc'[cur[d]] = pc[cur[d]]
  BY PlacesStay, Zenon DEF SetOwner
<1>3. /\ pc'[cur[c]] = "run" /\ cpu'[l] = c
      /\ \A k \in Locks : k # l => cpu'[k] = cpu[k]
      /\ mine'[cur[c]] = mine[cur[c]] \cup {l}
      /\ \A d \in CPUs : d # c => mine'[cur[d]] = mine[cur[d]] /\ lk'[cur[d]] = lk[cur[d]]
      /\ cur' = cur /\ locked' = locked
  BY <1>0, Zenon DEF SpinInv, Types, OneHartEach, SetOwner, Set
<1>4. \A d \in CPUs : d # c /\ Between(d) => lk[cur[d]] # l
  BY <1>0, Zenon DEF SpinInv, InPassing
<1>5. InPassing'
  <2>1. \A d \in CPUs : d # c => (Between(d)' <=> Between(d))
    BY <1>2, <1>3, Zenon DEF Between
  <2> QED
    BY <2>1, <1>2, <1>3, <1>4 DEF SpinInv, InPassing, Between
<1>6. Owned'
  <2>1. \A d \in CPUs : \A k \in mine[cur[d]] : k \in Locks /\ cpu[k] = d /\ k # l
    BY <1>0 DEF SpinInv, Types, Owned, Apart
  <2> QED
    BY <2>1, <1>0, <1>3 DEF SpinInv, Owned
<1> QED
  BY <1>1, <1>2, <1>5, <1>6, Zenon DEF SpinInv, Apart

(* release() preserves the invariant: lk->cpu = 0, ... *)
LEMMA ReleaseStep ==
  ASSUME SpinInv, NEW c \in CPUs, NEW l \in Locks, Release(c, l)
  PROVE SpinInv'
<1>0. cpu[l] = c /\ locked[l] /\ c # None
  BY Zenon DEF SpinInv, Owned, Apart, Release
<1>1. Types'
  BY Zenon DEF SpinInv, Types, Release, Set, At
<1>2. OneHartEach' /\ \A d \in CPUs : d # c => pc'[cur[d]] = pc[cur[d]]
  BY PlacesStay, Zenon DEF Release
<1>3. /\ pc'[cur[c]] = "store" /\ lk'[cur[c]] = l /\ cpu'[l] = None
      /\ \A k \in Locks : k # l => cpu'[k] = cpu[k]
      /\ mine'[cur[c]] = mine[cur[c]] \ {l}
      /\ \A d \in CPUs : d # c => mine'[cur[d]] = mine[cur[d]] /\ lk'[cur[d]] = lk[cur[d]]
      /\ cur' = cur /\ locked' = locked
  BY Zenon DEF SpinInv, Types, OneHartEach, Release, Set
<1>4. \A d \in CPUs : Between(d) => lk[cur[d]] # l
  BY <1>0, Zenon DEF SpinInv, InPassing
<1>5. InPassing'
  <2>1. \A d \in CPUs : d # c => (Between(d)' <=> Between(d))
    BY <1>2, <1>3, Zenon DEF Between
  <2> QED
    BY <2>1, <1>0, <1>2, <1>3, <1>4 DEF SpinInv, InPassing, Between
<1>6. Owned'
  <2>1. \A d \in CPUs : \A k \in mine[cur[d]] : k \in Locks /\ cpu[k] = d
    BY Zenon DEF SpinInv, Types, Owned
  <2> QED
    BY <2>1, <1>0, <1>3 DEF SpinInv, Owned
<1> QED
  BY <1>1, <1>2, <1>5, <1>6, Zenon DEF SpinInv, Apart

(* ... the store that frees the lock, ... *)
LEMMA StoreStep ==
  ASSUME SpinInv, NEW c \in CPUs, Store(c)
  PROVE SpinInv'
<1> DEFINE l == lk[cur[c]]
<1>0. l \in Locks /\ locked[l] /\ cpu[l] = None /\ Between(c)
  BY Zenon DEF SpinInv, InPassing, Between, Store, At
<1>1. Types'
  BY <1>0, Zenon DEF SpinInv, Types, Store, Set, At
<1>2. OneHartEach' /\ \A d \in CPUs : d # c => pc'[cur[d]] = pc[cur[d]]
  BY PlacesStay, Zenon DEF Store
<1>3. /\ pc'[cur[c]] = "pop"
      /\ \A k \in Locks : k # l => locked'[k] = locked[k]
      /\ \A d \in CPUs : d # c => lk'[cur[d]] = lk[cur[d]]
      /\ cur' = cur /\ cpu' = cpu /\ mine' = mine
  BY <1>0, Zenon DEF SpinInv, Types, OneHartEach, Store, Set
<1>4. \A d \in CPUs : d # c /\ Between(d) => lk[cur[d]] # l
  BY <1>0, Zenon DEF SpinInv, InPassing
<1>5. InPassing'
  <2>1. \A d \in CPUs : d # c => (Between(d)' <=> Between(d))
    BY <1>2, <1>3, Zenon DEF Between
  <2> QED
    BY <2>1, <1>2, <1>3, <1>4 DEF SpinInv, InPassing, Between
<1>6. Apart' /\ Owned'
  BY <1>0, <1>3, Zenon DEF SpinInv, Owned, Apart
<1> QED
  BY <1>1, <1>2, <1>5, <1>6, Zenon DEF SpinInv

(* ... and pop_off(). *)
LEMMA PopOffStep ==
  ASSUME SpinInv, NEW c \in CPUs, PopOff(c)
  PROVE SpinInv'
<1>1. Types'
  BY Zenon DEF SpinInv, Types, PopOff, Set, At
<1>2. OneHartEach' /\ \A d \in CPUs : d # c => pc'[cur[d]] = pc[cur[d]]
  BY PlacesStay, Zenon DEF PopOff
<1>3. /\ pc'[cur[c]] = "run" /\ lk' = lk
      /\ cur' = cur /\ locked' = locked /\ cpu' = cpu /\ mine' = mine
  BY Zenon DEF SpinInv, Types, PopOff, Set
<1>4. InPassing'
  BY <1>2, <1>3, Zenon DEF SpinInv, InPassing, Between
<1>5. Apart' /\ Owned'
  BY <1>3, Zenon DEF SpinInv, Owned, Apart
<1> QED
  BY <1>1, <1>2, <1>4, <1>5, Zenon DEF SpinInv

(* A trap begins with no lock of its own, and its end finds the locks of    *)
(* the hart: neither touches a lock.                                        *)
LEMMA TrapStep ==
  ASSUME SpinInv, NEW c \in CPUs, NEW S \in SUBSET Locks, S \subseteq Held(c),
         mine' = Set(mine, cur[c], S), UNCHANGED <<locked, cpu, cur, pc, lk>>
  PROVE SpinInv'
<1>1. Types'
  BY Zenon DEF SpinInv, Types, Set
<1>2. \A d \in CPUs : mine'[cur[d]] = IF d = c THEN S ELSE mine[cur[d]]
  BY Zenon DEF SpinInv, Types, OneHartEach, Set
<1>3. Owned'
  BY <1>2, Zenon DEF SpinInv, Owned, Held
<1>4. Apart' /\ OneHartEach' /\ InPassing'
  BY Zenon DEF SpinInv, Apart, OneHartEach, InPassing, Between
<1> QED
  BY <1>1, <1>3, <1>4, Zenon DEF SpinInv

(* sched() hands the lock of the process to the scheduler of the same hart. *)
LEMMA SchedStep ==
  ASSUME SpinInv, NEW c \in CPUs, Sched(c)
  PROVE SpinInv'
<1> DEFINE t == cur[c]
<1>0. /\ t \in Procs /\ t \in Threads /\ c \in Threads /\ t # c
      /\ t \in Locks /\ cpu[t] = c /\ pc[t] = "run"
  BY DEF SpinInv, Types, Apart, Owned, Sched, At, Threads, Locks
<1>1. \A d \in CPUs : cur'[d] = IF d = c THEN c ELSE cur[d]
  BY Zenon DEF SpinInv, Types, Sched, Set
<1>2. \A d \in CPUs : cur[d] # c
  BY <1>0, Zenon DEF SpinInv, OneHartEach
<1>3. pc[c] = "run" /\ pc' = pc
  BY <1>0, <1>2, Zenon DEF SpinInv, OneHartEach, Sched
<1>4. Types'
  BY <1>0, Zenon DEF SpinInv, Types, Sched, Set, Threads
<1>5. OneHartEach'
  BY <1>0, <1>1, <1>2, <1>3 DEF SpinInv, OneHartEach
<1>6. \A d \in CPUs : (Between(d)' <=> Between(d)) /\ (d # c => cur'[d] = cur[d])
  BY <1>0, <1>1, <1>3, Zenon DEF Between
<1>7. InPassing'
  BY <1>0, <1>1, <1>3, <1>6 DEF SpinInv, InPassing, Between, Sched
<1>8. Owned'
  <2>1. mine'[c] = {t} /\ \A d \in CPUs : d # c => mine'[cur[d]] = mine[cur[d]]
    BY <1>0, <1>2, Zenon DEF SpinInv, Types, OneHartEach, Sched
  <2>2. \A d \in CPUs : mine'[cur'[d]] = IF d = c THEN {t} ELSE mine[cur[d]]
    BY <2>1, <1>1, Zenon
  <2>3. locked' = locked /\ cpu' = cpu
    BY Zenon DEF Sched
  <2> QED
    BY <2>2, <2>3, <1>0 DEF SpinInv, Owned
<1> QED
  BY <1>4, <1>5, <1>7, <1>8, Zenon DEF SpinInv, Apart

(* The scheduler hands a process its lock, on whatever hart. *)
LEMMA SwitchStep ==
  ASSUME SpinInv, NEW c \in CPUs, NEW t \in Procs, Switch(c, t)
  PROVE SpinInv'
<1>0. /\ t \in Threads /\ c \in Threads /\ t # c /\ t \notin CPUs
      /\ t \in Locks /\ cpu[t] = c /\ pc[c] = "run" /\ cur[c] = c
  BY Zenon DEF SpinInv, Apart, Switch, At, Held, Threads, Locks
<1>1. \A d \in CPUs : cur'[d] = IF d = c THEN t ELSE cur[d]
  BY Zenon DEF SpinInv, Types, Switch, Set
<1>2. \A d \in CPUs : cur[d] # t /\ (d # c => cur[d] # c)
  BY <1>0, Zenon DEF SpinInv, OneHartEach, Switch
<1>3. pc[t] = "run" /\ pc' = pc
  BY <1>0, <1>2, Zenon DEF SpinInv, OneHartEach, Switch
<1>4. Types'
  BY <1>0, Zenon DEF SpinInv, Types, Switch, Set
<1>5. OneHartEach'
  BY <1>0, <1>1, <1>2, <1>3 DEF SpinInv, OneHartEach
<1>6. \A d \in CPUs : (Between(d)' <=> Between(d)) /\ (d # c => cur'[d] = cur[d])
  BY <1>0, <1>1, <1>3, Zenon DEF Between
<1>7. InPassing'
  BY <1>0, <1>1, <1>3, <1>6 DEF SpinInv, InPassing, Between, Switch
<1>8. Owned'
  <2>1. mine'[t] = {t} /\ \A d \in CPUs : d # c => mine'[cur[d]] = mine[cur[d]]
    BY <1>0, <1>2, Zenon DEF SpinInv, Types, Switch
  <2>2. \A d \in CPUs : mine'[cur'[d]] = IF d = c THEN {t} ELSE mine[cur[d]]
    BY <2>1, <1>1, Zenon
  <2>3. locked' = locked /\ cpu' = cpu
    BY Zenon DEF Switch
  <2> QED
    BY <2>2, <2>3, <1>0 DEF SpinInv, Owned
<1> QED
  BY <1>4, <1>5, <1>7, <1>8, Zenon DEF SpinInv, Apart

(* Every step of a hart preserves the invariant. *)
LEMMA SpinStep == SpinInv /\ [Next]_vars => SpinInv'
<1> SUFFICES ASSUME SpinInv, [Next]_vars PROVE SpinInv'
  BY Zenon
<1>1. CASE UNCHANGED vars
  BY <1>1, Zenon DEF SpinInv, Apart, Types, OneHartEach, Between, InPassing,
     Owned, vars
<1>2. ASSUME NEW c \in CPUs, NEW l \in Locks, Acquire(c, l) \/ Release(c, l)
      PROVE SpinInv'
  BY <1>2, AcquireStep, ReleaseStep, Zenon
<1>3. ASSUME NEW c \in CPUs, Swap(c) \/ SetOwner(c) \/ Store(c) \/ PopOff(c)
      PROVE SpinInv'
  BY <1>3, SwapStep, SetOwnerStep, StoreStep, PopOffStep, Zenon
<1>4. ASSUME NEW c \in CPUs, IntrOn(c) PROVE SpinInv'
  BY <1>4 DEF IntrOn, SpinInv, Apart, Types, OneHartEach, Between, InPassing, Owned
<1>5. ASSUME NEW c \in CPUs, Interrupt(c) \/ Fault(c) PROVE SpinInv'
  <2>1. mine' = Set(mine, cur[c], {}) /\ UNCHANGED <<locked, cpu, cur, pc, lk>>
    BY <1>5, Zenon DEF Interrupt, Fault, Trap
  <2> QED
    BY <2>1, TrapStep
<1>6. ASSUME NEW c \in CPUs, TrapReturn(c) PROVE SpinInv'
  <2>1. mine' = Set(mine, cur[c], Held(c)) /\ UNCHANGED <<locked, cpu, cur, pc, lk>>
    BY <1>6, Zenon DEF TrapReturn
  <2>2. Held(c) \in SUBSET Locks
    BY Zenon DEF Held
  <2> QED
    BY <2>1, <2>2, TrapStep, Zenon
<1>7. ASSUME NEW c \in CPUs, Sched(c) PROVE SpinInv'
  BY <1>7, SchedStep, Zenon
<1>8. ASSUME NEW c \in CPUs, NEW t \in Procs, Switch(c, t) PROVE SpinInv'
  BY <1>8, SwitchStep, Zenon
<1> QED
  BY <1>1, <1>2, <1>3, <1>4, <1>5, <1>6, <1>7, <1>8, Zenon DEF Next

(* No two harts are between the swaps of acquire() and release() of one     *)
(* lock, in either build of the scheduler: traps, and processes that move   *)
(* between harts with p->lock held, do not break exclusion.                 *)
THEOREM SpinlocksExclude == Spec => []MutualExclusion
<1>1. SpinInv => MutualExclusion
  BY DEF SpinInv, Apart, InPassing, Between, MutualExclusion, Owns
<1> QED
  BY <1>1, InitSpin, SpinStep, PTL DEF Spec
-----------------------------------------------------------------------------
(* The rest of the discipline, without SCHED_MLFQ.                          *)
Fields ==
  /\ noff \in [CPUs -> Nat] /\ intena \in [CPUs -> BOOLEAN] /\ sie \in [CPUs -> BOOLEAN]
  /\ ph \in [Threads -> {"new", "go", "switch", "back"}]
  /\ irq \in [Threads -> {0, 1}] /\ why \in [Threads -> {None, "intr", "fault"}]
  /\ spie \in [Threads -> BOOLEAN] /\ sph \in [Threads -> {"new", "go", "switch", "back"}]
  /\ saved \in [Procs -> BOOLEAN]

(* A trap interrupts a thread that is not about to switch, and an interrupt *)
(* one that has interrupts on.                                              *)
Frames ==
  \A t \in Threads :
    /\ irq[t] = 0 <=> why[t] = None
    /\ sph[t] = "go" /\ (why[t] = "intr" => spie[t])

(* A thread that is switched out is in swtch(), with the intena that        *)
(* belongs to where it was: outside a handler, or inside.                   *)
Away ==
  \A t \in Threads : (\A c \in CPUs : cur[c] # t) =>
    /\ why[t] # "fault"
    /\ t \in CPUs => irq[t] = 0 /\ ph[t] = "go"
    /\ t \in Procs => /\ ph[t] \in {"new", "back"}
                      /\ ph[t] = "new" => irq[t] = 0
                      /\ ph[t] = "back" => (saved[t] <=> irq[t] = 0)

(* The locks of a hart that executes process t ... *)
ProcLocks(c, t) ==
  /\ Held(c) \subseteq {Shared, t} /\ ph[t] # "new"
  /\ ph[t] = "go" => t \notin Held(c)
  /\ ph[t] = "switch" => t \in Held(c) /\ pc[t] \notin {"swap", "own"}
  /\ ph[t] = "back" => IF pc[t] = "run" THEN Held(c) = {t}
                       ELSE Held(c) = {} /\ pc[t] \in {"store", "pop"}
  /\ pc[t] \in {"swap", "own"} => lk[t] = t \/ (lk[t] = Shared /\ Held(c) = {})
  /\ pc[t] \in {"store", "pop"} => Shared \notin Held(c)
  /\ why[t] = "fault" => /\ pc[t] = "run" /\ mine[t] = {} /\ ph[t] = "go"
                         /\ spie[t] <=> noff[c] = 0

(* ... and of one that executes its scheduler. *)
SchedulerLocks(c) ==
  /\ why[c] # "fault" /\ ph[c] \in {"go", "back"}
  /\ \E l \in Locks : Held(c) \subseteq {l}
  /\ pc[c] # "run" => Held(c) = {}
  /\ pc[c] \in {"swap", "own"} => (irq[c] = 1 <=> lk[c] = Shared)
  /\ irq[c] = 1 => Held(c) \subseteq {Shared} /\ ph[c] = "go"
  /\ irq[c] = 0 => Shared \notin Held(c)
  /\ ph[c] = "back" => IF pc[c] = "run" THEN Held(c) # {} ELSE pc[c] \in {"store", "pop"}

(* noff counts the locks of the hart and the one that acquire() or          *)
(* release() is at; a hart holds at most one process lock.                  *)
Depth(c) ==
  (IF Shared \in Held(c) THEN 1 ELSE 0) + (IF Held(c) \ {Shared} # {} THEN 1 ELSE 0)
  + (IF pc[cur[c]] = "run" THEN 0 ELSE 1)

(* When interrupts are on, and what pop_off() will restore. *)
Masked(c) ==
  LET t == cur[c] IN
  /\ noff[c] = Depth(c)
  /\ noff[c] > 0 \/ irq[t] = 1 => ~sie[c]
  /\ t \in Procs => /\ noff[c] = 0 => (sie[c] <=> irq[t] = 0)
                    /\ noff[c] > 0 => (intena[c] <=> why[t] # "intr")
  /\ t = c /\ noff[c] > 0 => /\ irq[t] = 1 => ~intena[c]
                             /\ irq[t] = 0 /\ ph[t] = "go" => intena[c]

HartOK(c) ==
  /\ why[cur[c]] # "fault" => mine[cur[c]] = Held(c)
  /\ cur[c] \in Procs => ProcLocks(c, cur[c])
  /\ cur[c] = c => SchedulerLocks(c)
  /\ Masked(c)

MaskInv ==
  /\ SpinInv /\ ~Mlfq
  /\ Fields /\ Frames /\ Away /\ \A c \in CPUs : HartOK(c)

(* At boot no hart holds a lock or has interrupts on. *)
LEMMA InitMask == ~Mlfq /\ Init => MaskInv
<1> SUFFICES ASSUME ~Mlfq, Init PROVE MaskInv
  BY Zenon
<1>0. Apart
  BY SpinlockAssumption, Zenon DEF Apart
<1>1. SpinInv
  BY InitSpin, Zenon
<1>2. Fields /\ Frames /\ Away
  BY <1>0, Zenon DEF Init, Apart, Fields, Frames, Away, Threads
<1>3. ASSUME NEW c \in CPUs PROVE HartOK(c)
  <2>1. Held(c) = {} /\ cur[c] = c /\ c \in Threads /\ c \notin Procs
    BY <1>0, Zenon DEF Init, Held, Apart, Threads
  <2>2. /\ pc[c] = "run" /\ ph[c] = "go" /\ irq[c] = 0 /\ why[c] = None
        /\ mine[c] = {} /\ noff[c] = 0 /\ ~sie[c]
    BY <2>1, Zenon DEF Init
  <2> QED
    BY <1>0, <2>1, <2>2 DEF HartOK, SchedulerLocks, Masked, Depth, Apart, Locks
<1> QED
  BY <1>1, <1>2, <1>3, Zenon DEF MaskInv

(* What a hart does leaves the others alone if it touches neither their     *)
(* thread nor their locks.                                                  *)
LEMMA HartStays ==
  ASSUME NEW d \in CPUs, HartOK(d), cur'[d] = cur[d],
         pc'[cur[d]] = pc[cur[d]], lk'[cur[d]] = lk[cur[d]], ph'[cur[d]] = ph[cur[d]],
         irq'[cur[d]] = irq[cur[d]], why'[cur[d]] = why[cur[d]],
         spie'[cur[d]] = spie[cur[d]], mine'[cur[d]] = mine[cur[d]],
         noff'[d] = noff[d], intena'[d] = intena[d], sie'[d] = sie[d],
         Held(d)' = Held(d)
  PROVE HartOK(d)'
BY DEF HartOK, ProcLocks, SchedulerLocks, Masked, Depth

(* A hart executes a process or its own scheduler, and no two the same. *)
LEMMA Current ==
  ASSUME MaskInv, NEW c \in CPUs
  PROVE /\ cur[c] \in Threads
        /\ (cur[c] \in Procs /\ cur[c] \notin CPUs) \/ (cur[c] = c /\ c \notin Procs)
        /\ c \notin Locks
        /\ \A d \in CPUs : d # c => cur[d] # cur[c] /\ cur[d] \in Threads
BY ZenonT(40) DEF MaskInv, SpinInv, Apart, Types, OneHartEach, Threads, Locks

(* What the invariant says of the hart and of the thread t it executes. *)
LEMMA Executes ==
  ASSUME MaskInv, NEW c \in CPUs, NEW t \in Threads, t = cur[c]
  PROVE /\ \/ t \in Procs /\ t \notin CPUs /\ ProcLocks(c, t)
           \/ t = c /\ c \notin Procs /\ SchedulerLocks(c)
        /\ why[t] # "fault" => mine[t] = Held(c)
        /\ noff[c] = Depth(c)
<1>1. HartOK(c)
  BY Zenon DEF MaskInv
<1> QED
  BY <1>1, Current, Zenon DEF HartOK, Masked

(* A step of hart c that touches its own state and that of its thread only. *)
LEMMA LocalStep ==
  ASSUME MaskInv, SpinInv', NEW c \in CPUs, cur' = cur, saved' = saved,
         \A t \in Threads : t # cur[c] =>
           /\ pc'[t] = pc[t] /\ lk'[t] = lk[t] /\ ph'[t] = ph[t] /\ irq'[t] = irq[t]
           /\ why'[t] = why[t] /\ spie'[t] = spie[t] /\ mine'[t] = mine[t],
         \A d \in CPUs : d # c =>
           /\ noff'[d] = noff[d] /\ intena'[d] = intena[d] /\ sie'[d] = sie[d]
           /\ Held(d)' = Held(d),
         Fields', Frames', HartOK(c)'
  PROVE MaskInv'
<1>1. ASSUME NEW d \in CPUs PROVE HartOK(d)'
  <2>1. CASE d = c
    BY <2>1, Zenon
  <2>2. CASE d # c
    <3>1. cur[d] \in Threads /\ cur[d] # cur[c] /\ HartOK(d)
      BY <2>2, Current, Zenon DEF MaskInv
    <3> QED
      BY <2>2, <3>1, HartStays, Zenon
  <2> QED
    BY <2>1, <2>2, Zenon
<1>2. Away'
  BY DEF MaskInv, Away
<1> QED
  BY <1>1, <1>2, Zenon DEF MaskInv

(* acquire(): push_off() remembers whether interrupts were on when noff was *)
(* 0, and the lock is not one of the hart.                                  *)
LEMMA AcquireMasks ==
  ASSUME MaskInv, NEW c \in CPUs, NEW l \in Locks, Acquire(c, l)
  PROVE MaskInv'
<1>0. SpinInv'
  BY AcquireStep, Zenon DEF MaskInv
<1>1. PICK t \in Threads : t = cur[c]
  BY Current, Zenon
<1>2. /\ cur' = cur /\ saved' = saved /\ Held(c)' = Held(c) /\ ph' = ph
      /\ irq' = irq /\ why' = why /\ spie' = spie /\ sph' = sph /\ mine' = mine
      /\ pc'[t] = "swap" /\ lk'[t] = l /\ ~sie'[c] /\ noff'[c] = noff[c] + 1
      /\ intena'[c] <=> IF noff[c] = 0 THEN sie[c] ELSE intena[c]
      /\ pc[t] = "run" /\ MayAcquire(c, l)
  BY <1>1, ZenonT(40) DEF Acquire, PushOff, traps, Set, At, Held, MaskInv, SpinInv,
     Types, Fields
<1>3. /\ \A u \in Threads : u # t => pc'[u] = pc[u] /\ lk'[u] = lk[u]
      /\ \A d \in CPUs : d # c => /\ noff'[d] = noff[d] /\ intena'[d] = intena[d]
                                /\ sie'[d] = sie[d] /\ Held(d)' = Held(d)
  BY <1>1 DEF Acquire, PushOff, Set, Held, MaskInv, SpinInv, Types, Fields
<1>4. Fields' /\ Frames'
  BY <1>2 DEF MaskInv, Fields, Frames, Acquire, PushOff, Set
<1>5. why[t] # "fault" /\ mine[t] = Held(c) /\ ph[t] = "go"
  <2>1. /\ t = c /\ SchedulerLocks(c) => why[t] # "fault"
        /\ why[t] # "fault" => mine[t] = Held(c)
        /\ (t = c /\ SchedulerLocks(c)) \/ (t \in Procs /\ t \notin CPUs)
    BY <1>1, Executes, ZenonT(40) DEF SchedulerLocks
  <2>2. (irq[t] = 0 => why[t] = None) /\ None # "fault" /\ ~Mlfq
    BY Zenon DEF MaskInv, Frames, SpinInv, Apart
  <2>3. ph[t] = "go" /\ (why[t] = "fault" => irq[t] = 0 \/ t \in CPUs)
    BY <2>2, <1>1, <1>2, Zenon DEF MayAcquire
  <2> QED
    BY <2>1, <2>2, <2>3, Zenon
<1>6. HartOK(c)'
  <2>0. /\ irq[t] \in {0, 1} /\ (irq[t] = 0 <=> why[t] = None) /\ None # "intr"
        /\ why[t] \in {None, "intr"} /\ noff[c] \in Nat
    BY <1>5, Zenon DEF MaskInv, Frames, Fields, SpinInv, Apart
  <2>a. noff'[c] = Depth(c)' /\ noff'[c] > 0
    BY <2>0, <1>1, <1>2 DEF MaskInv, HartOK, Masked, Depth
  <2>1. CASE t \in Procs /\ t \notin CPUs
    <3>1. ProcLocks(c, t)'
      BY <2>1, <1>1, <1>2, <1>5, ZenonT(40) DEF MaskInv, HartOK, ProcLocks, MayAcquire
    <3>2. intena'[c] <=> why[t] # "intr"
      <4>1. noff[c] = 0 => (sie[c] <=> irq[t] = 0)
        BY <2>1, <1>1, Zenon DEF MaskInv, HartOK, Masked
      <4>2. noff[c] # 0 => (intena[c] <=> why[t] # "intr")
        BY <2>0, <2>1, <1>1 DEF MaskInv, HartOK, Masked
      <4> QED
        BY <4>1, <4>2, <2>0, <1>2, Zenon
    <3>3. Masked(c)'
      BY <2>1, <2>a, <3>2, <1>1, <1>2 DEF Masked
    <3> QED
      BY <2>1, <3>1, <3>3, <1>1, <1>2, <1>5, Zenon DEF HartOK
  <2>2. CASE t = c /\ c \notin Procs
    <3>0. c \notin Locks /\ Shared \notin Procs
      BY Current, Zenon DEF MaskInv, SpinInv, Apart
    <3>1. Held(c) = {} /\ (irq[c] = 1 <=> l = Shared)
      BY <2>0, <2>2, <3>0, <1>1, <1>2, <1>5 DEF MayAcquire
    <3>2. SchedulerLocks(c)'
      BY <2>2, <3>1, <1>1, <1>2, <1>5 DEF MaskInv, HartOK, SchedulerLocks
    <3>3. noff[c] = 0 /\ (irq[c] = 1 => ~sie[c]) /\ (irq[c] = 0 => sie[c])
      <4>1. noff[c] = 0
        BY <2>2, <3>1, <1>1, <1>2 DEF MaskInv, HartOK, Masked, Depth
      <4>2. irq[c] = 1 => ~sie[c]
        BY <2>2, <1>1 DEF MaskInv, HartOK, Masked
      <4>3. irq[c] = 0 => sie[c]
        BY <2>2, <3>0, <3>1, <1>1, <1>2 DEF MayAcquire
      <4> QED
        BY <4>1, <4>2, <4>3, Zenon
    <3>4. Masked(c)'
      BY <2>2, <2>a, <3>3, <1>1, <1>2, Zenon DEF Masked
    <3> QED
      BY <2>2, <3>2, <3>4, <1>1, <1>2, <1>5, Zenon DEF HartOK
  <2> QED
    BY <2>1, <2>2, <1>1, Current, Zenon
<1> QED
  BY <1>0, <1>1, <1>2, <1>3, <1>4, <1>6, LocalStep, Zenon

(* The swap and the store move nothing that the other parts depend on. *)
LEMMA SwapMasks ==
  ASSUME MaskInv, NEW c \in CPUs, Swap(c) \/ Store(c)
  PROVE MaskInv'
<1>0. SpinInv'
  BY SwapStep, StoreStep, Zenon DEF MaskInv
<1>1. PICK t \in Threads : t = cur[c]
  BY Current, Zenon
<1>2. /\ cur' = cur /\ saved' = saved /\ cpu' = cpu /\ ph' = ph /\ irq' = irq /\ why' = why
      /\ spie' = spie /\ sph' = sph /\ mine' = mine /\ noff' = noff /\ intena' = intena
      /\ sie' = sie
      /\ \/ pc[t] = "swap" /\ pc'[t] = "own" /\ lk' = lk
         \/ pc[t] = "store" /\ pc'[t] = "pop"
  BY <1>1, Zenon DEF Swap, Store, traps, Set, At, MaskInv, SpinInv, Types
<1>3. \A u \in Threads : u # t => pc'[u] = pc[u] /\ lk'[u] = lk[u]
  BY <1>1, Zenon DEF Swap, Store, Set, MaskInv, SpinInv, Types
<1>4. \A d \in CPUs : Held(d)' = Held(d)
  BY <1>2, Zenon DEF Held
<1>5. Fields' /\ Frames'
  BY <1>2, Zenon DEF MaskInv, Fields, Frames
<1>6. HartOK(c)'
  <2>1. t \in Procs => ProcLocks(c, t)'
    BY <1>1, <1>2, <1>4 DEF MaskInv, HartOK, ProcLocks
  <2>2. ASSUME t = c PROVE SchedulerLocks(c)'
    <3>1. SchedulerLocks(c)
      BY <2>2, <1>1, Zenon DEF MaskInv, HartOK
    <3>2. CASE pc[c] = "swap" /\ pc'[c] = "own" /\ lk' = lk
      BY <3>1, <3>2, <1>2, <1>4, Zenon DEF SchedulerLocks
    <3>3. CASE pc[c] = "store" /\ pc'[c] = "pop"
      BY <3>1, <3>3, <1>2, <1>4, Zenon DEF SchedulerLocks
    <3> QED
      BY <2>2, <3>2, <3>3, <1>2, Zenon
  <2>3. Depth(c)' = Depth(c)
    BY <1>1, <1>2, <1>4, Zenon DEF Depth
  <2>4. Masked(c)'
    BY <2>3, <1>1, <1>2, Zenon DEF MaskInv, HartOK, Masked
  <2> QED
    BY <2>1, <2>2, <2>4, <1>1, <1>2, <1>4, ZenonT(40) DEF MaskInv, HartOK
<1> QED
  BY <1>0, <1>1, <1>2, <1>3, <1>4, <1>5, <1>6, LocalStep, Zenon

(* lk->cpu = mycpu(): the lock becomes one of the hart and of the thread.   *)
LEMMA SetOwnerMasks ==
  ASSUME MaskInv, NEW c \in CPUs, SetOwner(c)
  PROVE MaskInv'
<1>0. SpinInv'
  BY SetOwnerStep, Zenon DEF MaskInv
<1>1. PICK t \in Threads : t = cur[c]
  BY Current, Zenon
<1>2. PICK l \in Locks : l = lk[t] /\ cpu[l] = None /\ pc[t] = "own"
  BY <1>1, Zenon DEF MaskInv, SpinInv, InPassing, Between, SetOwner, At
<1>3. /\ cur' = cur /\ saved' = saved /\ irq' = irq /\ why' = why /\ spie' = spie
      /\ sph' = sph /\ noff' = noff /\ intena' = intena /\ sie' = sie
      /\ pc'[t] = "run" /\ mine'[t] = mine[t] \cup {l}
      /\ ph'[t] = IF l = t THEN "switch" ELSE ph[t]
  BY <1>1, <1>2, Zenon DEF SetOwner, traps, Set, MaskInv, SpinInv, Types, Fields
<1>4. \A u \in Threads : u # t => /\ pc'[u] = pc[u] /\ lk'[u] = lk[u] /\ ph'[u] = ph[u]
                                 /\ mine'[u] = mine[u]
  BY <1>1 DEF SetOwner, Set, MaskInv, SpinInv, Types, Fields
<1>5. \A d \in CPUs : Held(d)' = IF d = c THEN Held(d) \cup {l} ELSE Held(d)
  <2>1. \A k \in Locks : cpu'[k] = IF k = l THEN c ELSE cpu[k]
    BY <1>1, <1>2, Zenon DEF SetOwner, Set, MaskInv, SpinInv, Types
  <2>2. None \notin CPUs
    BY Zenon DEF MaskInv, SpinInv, Apart
  <2> QED
    BY <2>1, <2>2, <1>2, Zenon DEF Held
<1>6. Fields' /\ Frames'
  BY <1>1, <1>2, <1>3 DEF MaskInv, Fields, Frames, SetOwner, Set
<1>7. why[t] # "fault" /\ mine[t] = Held(c) /\ ph[t] # "back" /\ ph[t] # "switch"
  <2>1. CASE ProcLocks(c, t)
    BY <2>1, <1>1, <1>2, Executes, Zenon DEF ProcLocks
  <2>2. CASE t = c /\ SchedulerLocks(c)
    BY <2>2, <1>1, <1>2, Executes, ZenonT(40) DEF SchedulerLocks
  <2> QED
    BY <2>1, <2>2, <1>1, Executes, Zenon
<1>8. HartOK(c)'
  <2>1. CASE t \in Procs /\ t \notin CPUs
    <3>1. /\ Shared # t /\ Held(c) \subseteq {Shared} /\ ph[t] = "go"
          /\ l = t \/ (l = Shared /\ Held(c) = {})
      BY <2>1, <1>1, <1>2, <1>7 DEF MaskInv, HartOK, ProcLocks, Fields, SpinInv,
         Apart
    <3>2. ProcLocks(c, t)'
      BY <2>1, <3>1, <1>1, <1>3, <1>5, <1>7, Zenon DEF ProcLocks
    <3>3. Depth(c)' = Depth(c)
      BY <3>1, <1>1, <1>2, <1>3, <1>5 DEF Depth
    <3>4. Masked(c)'
      BY <2>1, <3>3, <1>1, <1>3, Zenon DEF MaskInv, HartOK, Masked
    <3> QED
      BY <2>1, <3>2, <3>4, <1>1, <1>3, <1>5, <1>7, Zenon DEF HartOK
  <2>2. CASE t = c /\ c \notin Procs
    <3>1. l # c /\ Held(c) = {} /\ (irq[c] = 1 <=> l = Shared) /\ irq[c] \in {0, 1} /\ ph[c] = "go"
      BY <2>2, <1>1, <1>2, <1>7, Current DEF MaskInv, HartOK, SchedulerLocks, Fields
    <3>2. SchedulerLocks(c)'
      BY <2>2, <3>1, <1>1, <1>3, <1>5, <1>7 DEF SchedulerLocks
    <3>3. Depth(c)' = Depth(c)
      BY <3>1, <1>1, <1>2, <1>3, <1>5 DEF Depth
    <3>4. Masked(c)'
      BY <2>2, <3>1, <3>3, <1>1, <1>3, Zenon DEF MaskInv, HartOK, Masked
    <3> QED
      BY <2>2, <3>2, <3>4, <1>1, <1>3, <1>5, <1>7, Zenon DEF HartOK
  <2> QED
    BY <2>1, <2>2, <1>1, Current, Zenon
<1> QED
  BY <1>0, <1>1, <1>3, <1>4, <1>5, <1>6, <1>8, LocalStep, Zenon

(* lk->cpu = 0 in release(): the lock leaves the hart and the thread. *)
LEMMA ReleaseMasks ==
  ASSUME MaskInv, NEW c \in CPUs, NEW l \in Locks, Release(c, l)
  PROVE MaskInv'
<1>0. SpinInv'
  BY ReleaseStep, Zenon DEF MaskInv
<1>1. PICK t \in Threads : t = cur[c]
  BY Current, Zenon
<1>2. /\ cur' = cur /\ saved' = saved /\ irq' = irq /\ why' = why /\ spie' = spie
      /\ sph' = sph /\ noff' = noff /\ intena' = intena /\ sie' = sie /\ ph' = ph
      /\ pc'[t] = "store" /\ mine'[t] = mine[t] \ {l}
      /\ pc[t] = "run" /\ l \in mine[t] /\ MayRelease(c, l)
  BY <1>1, Zenon DEF Release, traps, At, Set, MaskInv, SpinInv, Types
<1>3. \A u \in Threads : u # t => /\ pc'[u] = pc[u] /\ lk'[u] = lk[u] /\ mine'[u] = mine[u]
  BY <1>1, Zenon DEF Release, Set, MaskInv, SpinInv, Types
<1>4. why[t] # "fault" /\ mine[t] = Held(c)
  <2>1. l \in mine[t]
    BY <1>2, Zenon
  <2>2. /\ ProcLocks(c, t) \/ (t = c /\ SchedulerLocks(c))
        /\ why[t] # "fault" => mine[t] = Held(c)
    BY <1>1, Executes, Zenon
  <2>3. ProcLocks(c, t) => why[t] # "fault"
    BY <2>1 DEF ProcLocks
  <2>4. t = c /\ SchedulerLocks(c) => why[t] # "fault"
    BY Zenon DEF SchedulerLocks
  <2> QED
    BY <2>2, <2>3, <2>4, Zenon
<1>5. \A d \in CPUs : Held(d)' = IF d = c THEN Held(d) \ {l} ELSE Held(d)
  <2>1. \A k \in Locks : cpu'[k] = IF k = l THEN None ELSE cpu[k]
    BY Zenon DEF Release, Set, MaskInv, SpinInv, Types
  <2>2. None \notin CPUs /\ cpu[l] = c
    BY <1>2, <1>4, Zenon DEF MaskInv, SpinInv, Apart, Held
  <2> QED
    BY <2>1, <2>2, Zenon DEF Held
<1>6. Fields' /\ Frames'
  BY <1>2, Zenon DEF MaskInv, Fields, Frames
<1>7. HartOK(c)'
  <2>1. CASE t \in Procs /\ t \notin CPUs
    <3>1. ProcLocks(c, t) /\ Shared # t
      BY <2>1, <1>1, Zenon DEF MaskInv, HartOK, SpinInv, Apart
    <3>2. \/ l = Shared /\ ph[t] # "back" /\ Held(c) \subseteq {Shared, t}
          \/ l = t /\ ph[t] = "back" /\ Held(c) = {t}
      BY <2>1, <3>1, <1>1, <1>2, <1>4, ZenonT(40) DEF ProcLocks, MayRelease
    <3>3. ProcLocks(c, t)'
      BY <3>1, <3>2, <1>1, <1>2, <1>4, <1>5 DEF ProcLocks
    <3>4. Depth(c)' = Depth(c)
      BY <3>1, <3>2, <1>1, <1>2, <1>4, <1>5 DEF Depth
    <3>5. Masked(c)'
      BY <2>1, <3>4, <1>1, <1>2, Zenon DEF MaskInv, HartOK, Masked
    <3> QED
      BY <2>1, <3>3, <3>5, <1>1, <1>2, <1>4, <1>5, Zenon DEF HartOK
  <2>2. CASE t = c /\ c \notin Procs
    <3>1. SchedulerLocks(c) /\ Held(c) = {l}
      <4>1. SchedulerLocks(c) /\ l \in Held(c)
        BY <2>2, <1>1, <1>2, <1>4, Executes, Zenon
      <4>2. PICK k \in Locks : Held(c) \subseteq {k}
        BY <4>1, Zenon DEF SchedulerLocks
      <4> QED
        BY <4>1, <4>2, Zenon
    <3>2. Held(c)' = {} /\ pc'[c] = "store" /\ ph' = ph /\ irq' = irq /\ why' = why
      BY <2>2, <3>1, <1>2, <1>5, Zenon
    <3>3. SchedulerLocks(c)'
      BY <3>1, <3>2, Zenon DEF SchedulerLocks
    <3>4. Depth(c)' = Depth(c)
      BY <2>2, <3>1, <3>2, <1>1, <1>2 DEF Depth
    <3>5. Masked(c)'
      BY <2>2, <3>4, <1>1, <1>2, Zenon DEF MaskInv, HartOK, Masked
    <3> QED
      BY <2>2, <3>3, <3>5, <1>1, <1>2, <1>4, <1>5, Zenon DEF HartOK
  <2> QED
    BY <2>1, <2>2, <1>1, Current, Zenon
<1> QED
  BY <1>0, <1>1, <1>2, <1>3, <1>5, <1>6, <1>7, LocalStep, Zenon

(* pop_off(): with the last lock gone the interrupts are what push_off()    *)
(* found.                                                                   *)
LEMMA PopOffMasks ==
  ASSUME MaskInv, NEW c \in CPUs, PopOff(c)
  PROVE MaskInv'
<1>0. SpinInv'
  BY PopOffStep, Zenon DEF MaskInv
<1>1. PICK t \in Threads : t = cur[c]
  BY Current, Zenon
<1>2. /\ cur' = cur /\ saved' = saved /\ cpu' = cpu /\ irq' = irq /\ why' = why /\ lk' = lk
      /\ spie' = spie /\ sph' = sph /\ intena' = intena /\ mine' = mine
      /\ pc[t] = "pop" /\ pc'[t] = "run" /\ noff'[c] = noff[c] - 1
      /\ sie'[c] <=> (noff[c] = 1 /\ intena[c]) \/ sie[c]
      /\ ph'[t] = IF ph[t] = "back" THEN "go" ELSE ph[t]
  BY <1>1, ZenonT(40) DEF PopOff, traps, At, Set, MaskInv, SpinInv, Types, Fields
<1>3. /\ \A u \in Threads : u # t => pc'[u] = pc[u] /\ ph'[u] = ph[u]
      /\ \A d \in CPUs : d # c => noff'[d] = noff[d] /\ sie'[d] = sie[d]
  BY <1>1 DEF PopOff, Set, MaskInv, SpinInv, Types, Fields
<1>4. \A d \in CPUs : Held(d)' = Held(d)
  BY <1>2, Zenon DEF Held
<1>5. /\ noff[c] \in Nat /\ noff[c] = Depth(c) /\ noff[c] > 0 /\ ~sie[c]
      /\ Depth(c)' = noff'[c] /\ noff'[c] \in Nat
  <2>1. noff[c] \in Nat /\ noff[c] = Depth(c)
    BY Zenon DEF MaskInv, Fields, HartOK, Masked
  <2>2. Depth(c) \in Nat \ {0} /\ Depth(c)' = Depth(c) - 1
    BY <1>1, <1>2, <1>4 DEF Depth
  <2>3. ~sie[c]
    BY <2>1, <2>2 DEF MaskInv, HartOK, Masked
  <2> QED
    BY <2>1, <2>2, <2>3, <1>2
<1>6. Fields' /\ Frames'
  BY <1>1, <1>2, <1>5, Zenon DEF MaskInv, Fields, Frames, PopOff, Set
<1>7. why[t] # "fault" /\ mine[t] = Held(c)
  <2>1. pc[t] = "pop"
    BY <1>2, Zenon
  <2>2. /\ ProcLocks(c, t) \/ (t = c /\ SchedulerLocks(c))
        /\ why[t] # "fault" => mine[t] = Held(c)
    BY <1>1, Executes, Zenon
  <2>3. ProcLocks(c, t) => why[t] # "fault"
    BY <2>1 DEF ProcLocks
  <2>4. t = c /\ SchedulerLocks(c) => why[t] # "fault"
    BY Zenon DEF SchedulerLocks
  <2> QED
    BY <2>2, <2>3, <2>4, Zenon
<1>8. why[t] \in {None, "intr"} /\ None # "intr" /\ (irq[t] = 0 <=> why[t] = None)
      /\ irq[t] \in {0, 1}
  BY <1>7, Zenon DEF MaskInv, Fields, Frames, SpinInv, Apart
<1>9. HartOK(c)'
  <2>1. CASE t \in Procs /\ t \notin CPUs
    <3>1. ProcLocks(c, t)
      BY <2>1, <1>1, Zenon DEF MaskInv, HartOK
    <3>2. ProcLocks(c, t)'
      BY <3>1, <1>2, <1>4, <1>7, Zenon DEF ProcLocks
    <3>3. intena[c] <=> why[t] # "intr"
      BY <2>1, <1>1, <1>5, Zenon DEF MaskInv, HartOK, Masked
    <3>4. Masked(c)'
      <4>1. (noff'[c] = 0 <=> noff[c] = 1) /\ (noff'[c] > 0 <=> noff[c] # 1)
        BY <1>2, <1>5
      <4>2. /\ sie'[c] <=> noff[c] = 1 /\ intena[c]
            /\ intena[c] <=> irq[t] = 0
            /\ irq[t] = 1 => irq[t] # 0
        BY <3>3, <1>2, <1>5, <1>8, SMT
      <4>3. /\ cur'[c] = t /\ t # c /\ irq'[t] = irq[t] /\ why'[t] = why[t]
            /\ intena'[c] = intena[c] /\ noff'[c] = Depth(c)'
        BY <2>1, <1>1, <1>2, <1>5, Zenon
      <4> QED
        BY <4>1, <4>2, <4>3, <3>3, Zenon DEF Masked
    <3> QED
      BY <2>1, <3>2, <3>4, <1>1, <1>2, <1>4, <1>7, Zenon DEF HartOK
  <2>2. CASE t = c /\ c \notin Procs
    <3>1. SchedulerLocks(c)
      BY <2>2, <1>1, Zenon DEF MaskInv, HartOK
    <3>2. Held(c) = {} /\ pc[c] = "pop" /\ ph[c] \in {"go", "back"} /\ ph'[c] = "go"
      BY <2>2, <3>1, <1>2, Zenon DEF SchedulerLocks
    <3>3. SchedulerLocks(c)'
      BY <2>2, <3>1, <3>2, <1>2, <1>4, ZenonT(40) DEF SchedulerLocks
    <3>4. noff[c] = 1 /\ noff'[c] = 0
      BY <2>2, <3>2, <1>1, <1>2, <1>5 DEF Depth
    <3>5. irq[c] = 1 => ~intena[c]
      BY <2>2, <3>4, <1>1 DEF MaskInv, HartOK, Masked
    <3>6. Masked(c)'
      BY <2>2, <3>4, <3>5, <1>1, <1>2, <1>5 DEF Masked
    <3> QED
      BY <2>2, <3>3, <3>6, <1>1, <1>2, <1>4, <1>7, Zenon DEF HartOK
  <2> QED
    BY <2>1, <2>2, <1>1, Current, Zenon
<1> QED
  BY <1>0, <1>1, <1>2, <1>3, <1>4, <1>6, <1>9, LocalStep, Zenon
-----------------------------------------------------------------------------

(* The scheduler turns interrupts on with no lock held. *)
LEMMA IntrOnMasks ==
  ASSUME MaskInv, NEW c \in CPUs, IntrOn(c)
  PROVE MaskInv'
<1>1. /\ UNCHANGED <<locked, cpu, noff, intena, cur, pc, lk, ph, irq, why, spie, sph, mine, saved>>
      /\ cur[c] = c /\ noff[c] = 0 /\ irq[c] = 0
  BY Zenon DEF IntrOn, traps
<1>2. SpinInv'
  BY <1>1, Zenon DEF MaskInv, SpinInv, Apart, Types, OneHartEach, Between,
     InPassing, Owned
<1>3. \A d \in CPUs : Held(d)' = Held(d) /\ (d # c => sie'[d] = sie[d])
  BY <1>1, ZenonT(40) DEF IntrOn, Held, Set, MaskInv, Fields
<1>4. Fields' /\ Frames'
  BY <1>1, Zenon DEF MaskInv, Fields, Frames, IntrOn, Set
<1>5. HartOK(c)'
  <2>1. SchedulerLocks(c)' /\ Depth(c)' = Depth(c) /\ c \notin Procs
    <3>1. SchedulerLocks(c) /\ c \notin Procs
      BY <1>1, Current, Zenon DEF MaskInv, HartOK
    <3>2. Held(c)' = Held(c)
      BY <1>3, Zenon
    <3> QED
      BY <3>1, <3>2, <1>1, Zenon DEF SchedulerLocks, Depth
  <2>2. Masked(c)'
    BY <2>1, <1>1 DEF MaskInv, HartOK, Masked
  <2> QED
    BY <2>1, <2>2, <1>1, <1>3, Zenon DEF MaskInv, HartOK
<1> QED
  BY <1>1, <1>2, <1>3, <1>4, <1>5, LocalStep, Zenon

(* What a trap changes *)
LEMMA TrapEffect ==
  ASSUME MaskInv, NEW c \in CPUs, NEW w \in {"intr", "fault"}, Trap(c, w), irq[cur[c]] = 0,
         NEW t \in Threads, t = cur[c]
  PROVE /\ UNCHANGED <<locked, cpu, noff, intena, cur, pc, lk, saved>>
        /\ pc[t] = "run" /\ irq'[t] = 1 /\ why'[t] = w /\ ph'[t] = "go" /\ sph'[t] = ph[t]
        /\ mine'[t] = {} /\ ~sie'[c] /\ (spie'[t] <=> sie[c])
        /\ \A u \in Threads : u # t =>
             /\ irq'[u] = irq[u] /\ why'[u] = why[u] /\ ph'[u] = ph[u] /\ sph'[u] = sph[u]
             /\ mine'[u] = mine[u] /\ spie'[u] = spie[u]
        /\ \A d \in CPUs : d # c => sie'[d] = sie[d]
        /\ SpinInv' /\ Fields' /\ \A d \in CPUs : Held(d)' = Held(d)
<1>1. UNCHANGED <<locked, cpu, noff, intena, cur, pc, lk, saved>> /\ pc[t] = "run"
  BY Zenon DEF Trap, At
<1>2. /\ irq'[t] = 1 /\ why'[t] = w /\ ph'[t] = "go" /\ sph'[t] = ph[t]
      /\ mine'[t] = {} /\ ~sie'[c] /\ (spie'[t] <=> sie[c])
  BY DEF Trap, Set, MaskInv, Fields, SpinInv, Types
<1>3. /\ \A u \in Threads : u # t =>
           /\ irq'[u] = irq[u] /\ why'[u] = why[u] /\ ph'[u] = ph[u] /\ sph'[u] = sph[u]
           /\ mine'[u] = mine[u] /\ spie'[u] = spie[u]
      /\ \A d \in CPUs : d # c => sie'[d] = sie[d]
  BY ZenonT(40) DEF Trap, Set, MaskInv, Fields, SpinInv, Types
<1>4. SpinInv'
  <2>1. mine' = Set(mine, cur[c], {})
    BY Zenon DEF Trap
  <2> QED
    BY <2>1, <1>1, TrapStep DEF MaskInv
<1>5. Fields'
  <2>1. irq' \in [Threads -> {0, 1}]
    BY <1>2, <1>3, Zenon DEF Trap, MaskInv, Fields
  <2> QED
    BY <2>1, <1>1, Zenon DEF Trap, Set, MaskInv, Fields
<1> QED
  BY <1>1, <1>2, <1>3, <1>4, <1>5, Zenon DEF Held

(* An interrupt finds no lock held and no other handler. *)
LEMMA InterruptMasks ==
  ASSUME MaskInv, NEW c \in CPUs, Interrupt(c)
  PROVE MaskInv'
<1>1. PICK t \in Threads : t = cur[c]
  BY Current, Zenon
<1>2. sie[c] /\ Trap(c, "intr") /\ irq[t] = 0 /\ noff[c] = 0 /\ Depth(c) = 0
  BY <1>1 DEF Interrupt, MaskInv, HartOK, Masked, Fields
<1>3. Held(c) = {} /\ pc[t] = "run"
  BY <1>1, <1>2 DEF Depth
<1>4. ph[t] = "go"
  <2>1. CASE ProcLocks(c, t)
    <3>1. ph[t] \in {"new", "go", "switch", "back"}
      BY Zenon DEF MaskInv, Fields
    <3> QED
      BY <2>1, <3>1, <1>3, Zenon DEF ProcLocks
  <2>2. CASE t = c /\ SchedulerLocks(c)
    BY <2>2, <1>3, Zenon DEF SchedulerLocks
  <2> QED
    BY <2>1, <2>2, <1>1, Executes, Zenon
<1>5. /\ UNCHANGED <<locked, cpu, noff, intena, cur, pc, lk, saved>>
      /\ irq'[t] = 1 /\ why'[t] = "intr" /\ ph'[t] = "go" /\ sph'[t] = ph[t]
      /\ mine'[t] = {} /\ ~sie'[c] /\ (spie'[t] <=> sie[c])
      /\ \A u \in Threads : u # t =>
           /\ irq'[u] = irq[u] /\ why'[u] = why[u] /\ ph'[u] = ph[u] /\ sph'[u] = sph[u]
           /\ mine'[u] = mine[u] /\ spie'[u] = spie[u]
      /\ \A d \in CPUs : d # c => sie'[d] = sie[d]
      /\ SpinInv' /\ Fields' /\ \A d \in CPUs : Held(d)' = Held(d)
  BY <1>1, <1>2, TrapEffect
<1>6. Frames'
  BY <1>2, <1>4, <1>5 DEF MaskInv, Frames, SpinInv, Apart
<1>7. HartOK(c)'
  <2>1. Masked(c)'
    BY <1>1, <1>2, <1>3, <1>5 DEF Masked, Depth
  <2>2. t \in Procs => ProcLocks(c, t)'
    BY <1>3, <1>5, Zenon DEF ProcLocks
  <2>3. t = c => SchedulerLocks(c)'
    BY <1>3, <1>5, Zenon DEF SchedulerLocks, Locks
  <2> QED
    BY <2>1, <2>2, <2>3, <1>1, <1>3, <1>5, Zenon DEF HartOK
<1> QED
  BY <1>1, <1>5, <1>6, <1>7, LocalStep, ZenonT(40)

(* A page fault may find Shared held; its handler takes no lock. *)
LEMMA FaultMasks ==
  ASSUME MaskInv, NEW c \in CPUs, Fault(c)
  PROVE MaskInv'
<1>1. PICK t \in Threads : t = cur[c]
  BY Current, Zenon
<1>2. Trap(c, "fault") /\ irq[t] = 0 /\ ph[t] = "go" /\ t \in Procs /\ t \notin CPUs
  BY <1>1, Current, Zenon DEF Fault
<1>3. /\ UNCHANGED <<locked, cpu, noff, intena, cur, pc, lk, saved>>
      /\ pc[t] = "run" /\ irq'[t] = 1 /\ why'[t] = "fault" /\ ph'[t] = "go" /\ sph'[t] = ph[t]
      /\ mine'[t] = {} /\ ~sie'[c] /\ (spie'[t] <=> sie[c])
      /\ \A u \in Threads : u # t =>
           /\ irq'[u] = irq[u] /\ why'[u] = why[u] /\ ph'[u] = ph[u] /\ sph'[u] = sph[u]
           /\ mine'[u] = mine[u] /\ spie'[u] = spie[u]
      /\ \A d \in CPUs : d # c => sie'[d] = sie[d]
      /\ SpinInv' /\ Fields' /\ \A d \in CPUs : Held(d)' = Held(d)
  BY <1>1, <1>2, TrapEffect
<1>4. Frames'
  BY <1>2, <1>3 DEF MaskInv, Frames, SpinInv, Apart
<1>5. /\ ProcLocks(c, t) /\ noff[c] \in Nat /\ noff[c] = Depth(c)
      /\ noff[c] > 0 => ~sie[c] /\ intena[c]
      /\ noff[c] = 0 => sie[c]
  <2>1. why[t] # "intr"
    BY <1>2, Zenon DEF MaskInv, Frames, SpinInv, Apart
  <2> QED
    BY <2>1, <1>1, <1>2, Zenon DEF MaskInv, HartOK, Masked, Fields
<1>6. HartOK(c)'
  <2>1. ProcLocks(c, t)'
    <3>1. spie'[t] <=> noff[c] = 0
      <4>1. noff[c] = 0 \/ noff[c] > 0
        BY <1>5
      <4> QED
        BY <4>1, <1>3, <1>5, Zenon
    <3>2. Held(c)' = Held(c) /\ pc'[t] = "run" /\ noff' = noff
      BY <1>3, Zenon
    <3> QED
      BY <3>1, <3>2, <1>2, <1>3, <1>5, Zenon DEF ProcLocks
  <2>2. Depth(c)' = Depth(c)
    BY <1>3, ZenonT(40) DEF Depth
  <2>3. Masked(c)'
    BY <2>2, <1>1, <1>2, <1>3, <1>5 DEF Masked
  <2> QED
    BY <2>1, <2>3, <1>1, <1>2, <1>3, Zenon DEF HartOK
<1> QED
  BY <1>1, <1>3, <1>4, <1>6, LocalStep, Zenon

(* The return from a trap restores what the trap found. *)
LEMMA TrapReturnMasks ==
  ASSUME MaskInv, NEW c \in CPUs, TrapReturn(c)
  PROVE MaskInv'
<1>1. PICK t \in Threads : t = cur[c]
  BY Current, Zenon
<1>2. /\ UNCHANGED <<locked, cpu, noff, intena, cur, pc, lk, saved>>
      /\ irq[t] = 1 /\ pc[t] = "run" /\ ph[t] = "go" /\ mine[t] = {}
      /\ irq'[t] = 0 /\ why'[t] = None /\ ph'[t] = sph[t] /\ sph'[t] = "go"
      /\ mine'[t] = Held(c) /\ (sie'[c] <=> spie[t])
  BY <1>1 DEF TrapReturn, At, Set, MaskInv, Fields, SpinInv, Types
<1>3. /\ \A u \in Threads : u # t =>
           /\ irq'[u] = irq[u] /\ why'[u] = why[u] /\ ph'[u] = ph[u] /\ sph'[u] = sph[u]
           /\ mine'[u] = mine[u] /\ spie'[u] = spie[u]
      /\ \A d \in CPUs : d # c => sie'[d] = sie[d]
  BY <1>1 DEF TrapReturn, Set, MaskInv, Fields, SpinInv, Types
<1>4. SpinInv' /\ \A d \in CPUs : Held(d)' = Held(d)
  <2>1. mine' = Set(mine, cur[c], Held(c)) /\ Held(c) \in SUBSET Locks
    BY Zenon DEF TrapReturn, Held
  <2> QED
    BY <2>1, <1>2, TrapStep, Zenon DEF MaskInv, Held
<1>5. Fields'
  <2>1. irq' \in [Threads -> {0, 1}]
    <3>1. irq' = [irq EXCEPT ![t] = irq[t] - 1] /\ irq \in [Threads -> {0, 1}]
      BY <1>1, Zenon DEF TrapReturn, MaskInv, Fields
    <3>2. irq[t] - 1 \in {0, 1}
      BY <1>2
    <3> QED
      BY <3>1, <3>2, Zenon
  <2> QED
    BY <2>1, <1>1, <1>2, Zenon DEF TrapReturn, Set, MaskInv, Fields
<1>6. Frames' /\ ph'[t] = "go"
  BY <1>2, <1>3 DEF MaskInv, Frames, SpinInv, Apart
<1>7. /\ noff[c] \in Nat /\ noff[c] = Depth(c) /\ (noff[c] = 0 <=> Held(c) = {})
      /\ why[t] \in {"intr", "fault"} /\ None \notin {"intr", "fault"}
  <2>1. noff[c] \in Nat /\ noff[c] = Depth(c)
    BY Zenon DEF MaskInv, HartOK, Masked, Fields
  <2>2. why[t] \in {"intr", "fault"} /\ None \notin {"intr", "fault"}
    BY <1>2 DEF MaskInv, Frames, Fields, SpinInv, Apart
  <2> QED
    BY <2>1, <2>2, <1>1, <1>2 DEF Depth
<1>8. Depth(c)' = Depth(c)
  BY <1>2, <1>4, Zenon DEF Depth
<1>9. spie[t] <=> noff[c] = 0
  <2>1. CASE why[t] = "intr"
    BY <2>1, <1>1, <1>2, <1>7, Zenon DEF MaskInv, HartOK, Frames
  <2>2. CASE why[t] = "fault"
    <3>1. ProcLocks(c, t) \/ (t = c /\ SchedulerLocks(c))
      BY <1>1, Executes, Zenon
    <3>2. ~(t = c /\ SchedulerLocks(c))
      BY <2>2, Zenon DEF SchedulerLocks
    <3> QED
      BY <2>2, <3>1, <3>2, Zenon DEF ProcLocks
  <2> QED
    BY <2>1, <2>2, <1>7, Zenon
<1>10. HartOK(c)'
  <2>1. CASE t \in Procs /\ t \notin CPUs
    <3>1. ProcLocks(c, t)'
      BY <2>1, <1>1, <1>2, <1>4, <1>6, <1>7, ZenonT(40) DEF MaskInv, HartOK, ProcLocks
    <3>2. noff[c] > 0 => intena[c]
      <4>1. ASSUME noff[c] > 0 PROVE why[t] = "fault"
        BY <4>1, <1>1, <1>2, <1>7 DEF MaskInv, HartOK
      <4> QED
        BY <2>1, <4>1, <1>1, Zenon DEF MaskInv, HartOK, Masked
    <3>3. Masked(c)'
      BY <2>1, <3>2, <1>1, <1>2, <1>7, <1>8, <1>9 DEF Masked
    <3> QED
      BY <2>1, <3>1, <3>3, <1>1, <1>2, <1>4, Zenon DEF HartOK
  <2>2. CASE t = c /\ c \notin Procs
    <3>1. Held(c) = {}
      BY <2>2, <1>1, <1>2 DEF MaskInv, HartOK, SchedulerLocks
    <3>2. SchedulerLocks(c)'
      BY <2>2, <3>1, <1>2, <1>4, <1>6, <1>7, Zenon DEF SchedulerLocks, Locks
    <3>3. Masked(c)'
      BY <2>2, <3>1, <1>1, <1>2, <1>7, <1>8 DEF Masked
    <3> QED
      BY <2>2, <3>2, <3>3, <1>1, <1>2, <1>4, Zenon DEF HartOK
  <2> QED
    BY <2>1, <2>2, <1>1, Current, Zenon
<1> QED
  BY <1>1, <1>2, <1>3, <1>4, <1>5, <1>6, <1>10, LocalStep, ZenonT(40)

(* sched() leaves with one lock, its own, which the scheduler releases. *)
LEMMA SchedMasks ==
  ASSUME MaskInv, NEW c \in CPUs, Sched(c)
  PROVE MaskInv'
<1>0. SpinInv'
  BY SchedStep, Zenon DEF MaskInv
<1>1. PICK t \in Threads : t = cur[c]
  BY Current, Zenon
<1>2. /\ t \in Procs /\ t \notin CPUs /\ c \in Threads /\ c \notin Procs /\ t # Shared
      /\ pc[t] = "run" /\ ph[t] = "switch" /\ mine[t] = {t}
      /\ \A d \in CPUs : cur[d] # c /\ (d # c => cur[d] # t)
  BY <1>1, Current DEF Sched, At, Threads, MaskInv, SpinInv, Apart, OneHartEach
<1>3. why[t] # "fault" /\ Held(c) = {t}
  BY <1>1, <1>2, ZenonT(40) DEF MaskInv, HartOK, ProcLocks
<1>4. /\ noff[c] = 1 /\ ~sie[c] /\ (intena[c] <=> irq[t] = 0)
  <2>1. Depth(c) = 1
    BY <1>1, <1>2, <1>3 DEF Depth
  <2>2. why[t] # "intr" <=> irq[t] = 0
    BY <1>3, Zenon DEF MaskInv, Frames, Fields, SpinInv, Apart
  <2>3. Masked(c)
    BY Zenon DEF MaskInv, HartOK
  <2> QED
    BY <2>1, <2>2, <2>3, <1>1, <1>2 DEF Masked
<1>5. irq[c] = 0 /\ why[c] # "fault" /\ pc[c] = "run"
  BY <1>2, Zenon DEF MaskInv, Away, SpinInv, OneHartEach
<1>6. /\ UNCHANGED <<locked, cpu, noff, intena, sie, pc, lk, irq, why, spie, sph>>
      /\ ph'[t] = "back" /\ ph'[c] = "back" /\ mine'[c] = {t} /\ (saved'[t] <=> intena[c])
      /\ \A d \in CPUs : cur'[d] = IF d = c THEN c ELSE cur[d]
      /\ \A u \in Threads : u # t /\ u # c => ph'[u] = ph[u] /\ mine'[u] = mine[u]
      /\ \A u \in Procs : u # t => saved'[u] = saved[u]
  BY <1>1, <1>2 DEF Sched, traps, Set, MaskInv, Fields, SpinInv, Types
<1>7. \A d \in CPUs : Held(d)' = Held(d)
  BY <1>6, Zenon DEF Held
<1>8. Fields' /\ Frames'
  BY <1>1, <1>2, <1>6 DEF Sched, Set, MaskInv, Fields, Frames
<1>9. Away'
  <2> SUFFICES ASSUME NEW u \in Threads, \A d \in CPUs : cur'[d] # u
               PROVE /\ why'[u] # "fault"
                     /\ u \in CPUs => irq'[u] = 0 /\ ph'[u] = "go"
                     /\ u \in Procs => /\ ph'[u] \in {"new", "back"}
                                       /\ ph'[u] = "new" => irq'[u] = 0
                                       /\ ph'[u] = "back" => (saved'[u] <=> irq'[u] = 0)
    BY Zenon DEF Away
  <2>1. u # c
    BY <1>6, Zenon
  <2>2. CASE u = t
    BY <2>2, <1>2, <1>3, <1>4, <1>6, Zenon
  <2>3. CASE u # t
    <3>1. \A d \in CPUs : cur[d] # u
      BY <2>3, <1>1, <1>6, Zenon
    <3> QED
      BY <2>1, <2>3, <3>1, <1>6, Zenon DEF MaskInv, Away
  <2> QED
    BY <2>2, <2>3, Zenon
<1>10. ASSUME NEW d \in CPUs PROVE HartOK(d)'
  <2>1. CASE d # c
    <3>1. cur[d] \in Threads /\ cur[d] # t /\ cur[d] # c /\ HartOK(d)
      BY <2>1, <1>2, Current, Zenon DEF MaskInv
    <3> QED
      BY <2>1, <3>1, <1>6, <1>7, HartStays, Zenon
  <2>2. CASE d = c
    <3>1. SchedulerLocks(c)'
      BY <1>2, <1>3, <1>5, <1>6, <1>7 DEF SchedulerLocks, Locks
    <3>2. Depth(c)' = 1
      BY <1>2, <1>3, <1>5, <1>6, <1>7 DEF Depth
    <3>3. Masked(c)'
      BY <3>2, <1>2, <1>4, <1>5, <1>6 DEF Masked
    <3> QED
      BY <2>2, <3>1, <3>3, <1>2, <1>3, <1>6, <1>7, ZenonT(40) DEF HartOK
  <2> QED
    BY <2>1, <2>2, Zenon
<1> QED
  BY <1>0, <1>8, <1>9, <1>10, Zenon DEF MaskInv

(* run_proc() hands the process its lock and the intena it left with. *)
LEMMA SwitchMasks ==
  ASSUME MaskInv, NEW c \in CPUs, NEW t \in Procs, Switch(c, t)
  PROVE MaskInv'
<1>0. SpinInv'
  BY SwitchStep, Zenon DEF MaskInv
<1>1. /\ t \in Threads /\ t \notin CPUs /\ c \in Threads /\ c \notin Procs /\ t # Shared
      /\ cur[c] = c /\ pc[c] = "run" /\ ph[c] = "go" /\ Held(c) = {t}
      /\ \A d \in CPUs : cur[d] # t /\ (d # c => cur[d] # c)
  BY Current, ZenonT(40) DEF Switch, At, Threads, MaskInv, SpinInv, Apart
<1>2. why[c] # "fault" /\ irq[c] = 0
  BY <1>1 DEF MaskInv, HartOK, SchedulerLocks, Fields
<1>3. noff[c] = 1 /\ ~sie[c] /\ intena[c]
  <2>1. Depth(c) = 1
    BY <1>1 DEF Depth
  <2> QED
    BY <2>1, <1>1, <1>2 DEF MaskInv, HartOK, Masked
<1>4. /\ why[t] # "fault" /\ pc[t] = "run" /\ ph[t] \in {"new", "back"}
      /\ ph[t] = "new" => irq[t] = 0
      /\ ph[t] = "back" => (saved[t] <=> irq[t] = 0)
      /\ why[t] # "intr" <=> irq[t] = 0
  <2>1. why[t] # "fault" /\ pc[t] = "run" /\ ph[t] \in {"new", "back"}
        /\ (ph[t] = "new" => irq[t] = 0) /\ (ph[t] = "back" => (saved[t] <=> irq[t] = 0))
    BY <1>1, Zenon DEF MaskInv, Away, SpinInv, OneHartEach
  <2>2. why[t] # "intr" <=> irq[t] = 0
    BY <2>1, <1>1, Zenon DEF MaskInv, Frames, Fields, SpinInv, Apart
  <2> QED
    BY <2>1, <2>2, Zenon
<1>5. /\ UNCHANGED <<locked, cpu, noff, sie, pc, lk, irq, why, spie, sph, saved>>
      /\ ph'[t] = "back" /\ mine'[t] = {t}
      /\ intena'[c] <=> IF ph[t] = "new" THEN intena[c] ELSE saved[t]
      /\ \A d \in CPUs : cur'[d] = IF d = c THEN t ELSE cur[d]
      /\ \A d \in CPUs : d # c => intena'[d] = intena[d]
      /\ \A u \in Threads : u # t => ph'[u] = ph[u] /\ (u # c => mine'[u] = mine[u])
  BY <1>1, ZenonT(40) DEF Switch, traps, Set, MaskInv, Fields, SpinInv, Types
<1>6. \A d \in CPUs : Held(d)' = Held(d)
  BY <1>5, Zenon DEF Held
<1>7. Fields' /\ Frames'
  BY <1>1, <1>5 DEF Switch, Set, MaskInv, Fields, Frames
<1>8. Away'
  <2> SUFFICES ASSUME NEW u \in Threads, \A d \in CPUs : cur'[d] # u
               PROVE /\ why'[u] # "fault"
                     /\ u \in CPUs => irq'[u] = 0 /\ ph'[u] = "go"
                     /\ u \in Procs => /\ ph'[u] \in {"new", "back"}
                                       /\ ph'[u] = "new" => irq'[u] = 0
                                       /\ ph'[u] = "back" => (saved'[u] <=> irq'[u] = 0)
    BY Zenon DEF Away
  <2>1. u # t
    BY <1>5, Zenon
  <2>2. CASE u = c
    BY <2>1, <2>2, <1>1, <1>2, <1>5, Zenon
  <2>3. CASE u # c
    <3>1. \A d \in CPUs : cur[d] # u
      BY <2>3, <1>1, <1>5
    <3> QED
      BY <2>1, <2>3, <3>1, <1>5, ZenonT(40) DEF MaskInv, Away
  <2> QED
    BY <2>2, <2>3, Zenon
<1>9. ASSUME NEW d \in CPUs PROVE HartOK(d)'
  <2>1. CASE d # c
    <3>1. cur[d] \in Threads /\ cur[d] # t /\ cur[d] # c /\ HartOK(d)
      BY <2>1, <1>1, Current, ZenonT(40) DEF MaskInv
    <3> QED
      BY <2>1, <3>1, <1>5, <1>6, HartStays, Zenon
  <2>2. CASE d = c
    <3>1. ProcLocks(c, t)'
      BY <1>1, <1>4, <1>5, <1>6, ZenonT(40) DEF ProcLocks
    <3>2. Depth(c)' = 1
      BY <1>1, <1>4, <1>5, <1>6 DEF Depth
    <3>3. Masked(c)'
      BY <3>2, <1>1, <1>3, <1>4, <1>5 DEF Masked
    <3> QED
      BY <2>2, <3>1, <3>3, <1>1, <1>5, <1>6 DEF HartOK
  <2> QED
    BY <2>1, <2>2, Zenon
<1> QED
  BY <1>0, <1>7, <1>8, <1>9, Zenon DEF MaskInv

(* Every step of a thread, of the scheduler or of a trap keeps the count. *)
LEMMA MaskStep == MaskInv /\ [Next]_vars => MaskInv'
<1> SUFFICES ASSUME MaskInv, [Next]_vars PROVE MaskInv'
  BY Zenon
<1>1. CASE UNCHANGED vars
  <2>1. SpinInv'
    BY <1>1, SpinStep, Zenon DEF MaskInv
  <2>2. Fields' /\ Frames' /\ Away'
    BY <1>1, Zenon DEF MaskInv, Fields, Frames, Away, vars
  <2>3. ASSUME NEW c \in CPUs PROVE HartOK(c)'
    BY <1>1, HartStays, Zenon DEF MaskInv, Held, vars
  <2> QED
    BY <2>1, <2>2, <2>3, Zenon DEF MaskInv
<1>2. ASSUME NEW c \in CPUs, NEW l \in Locks, Acquire(c, l) \/ Release(c, l)
      PROVE MaskInv'
  BY <1>2, AcquireMasks, ReleaseMasks, Zenon
<1>3. ASSUME NEW c \in CPUs, Swap(c) \/ Store(c) \/ SetOwner(c) \/ PopOff(c)
      PROVE MaskInv'
  BY <1>3, SwapMasks, SetOwnerMasks, PopOffMasks, Zenon
<1>4. ASSUME NEW c \in CPUs, IntrOn(c) \/ Interrupt(c) \/ Fault(c) \/ TrapReturn(c)
      PROVE MaskInv'
  BY <1>4, IntrOnMasks, InterruptMasks, FaultMasks, TrapReturnMasks, Zenon
<1>5. ASSUME NEW c \in CPUs, Sched(c) PROVE MaskInv'
  BY <1>5, SchedMasks, Zenon
<1>6. ASSUME NEW c \in CPUs, NEW t \in Procs, Switch(c, t) PROVE MaskInv'
  BY <1>6, SwitchMasks, Zenon
<1> QED
  BY <1>1, <1>2, <1>3, <1>4, <1>5, <1>6, Zenon DEF Next

(* push_off() nests twice at most. *)
LEMMA DepthBounded == ASSUME MaskInv, NEW c \in CPUs PROVE Depth(c) \in 0 .. 2
<1>1. PICK t \in Threads : t = cur[c]
  BY Current, Zenon
<1>2. CASE pc[t] = "run"
  BY <1>1, <1>2 DEF Depth
<1>3. CASE pc[t] # "run" /\ t \in Procs
  <2>1. Held(c) \subseteq {Shared} \/ Shared \notin Held(c)
    BY <1>1, <1>3 DEF MaskInv, HartOK, ProcLocks, Fields, SpinInv, Types
  <2> QED
    BY <2>1 DEF Depth
<1>4. CASE pc[t] # "run" /\ t = c
  <2>1. Held(c) = {}
    BY <1>1, <1>4, Zenon DEF MaskInv, HartOK, SchedulerLocks
  <2> QED
    BY <2>1 DEF Depth
<1> QED
  BY <1>1, <1>2, <1>3, <1>4, Current, Zenon

(* In a build without SCHED_MLFQ the spinlocks keep all of their promises:  *)
(* exclusion, no acquire() of a lock that the hart holds (panic "acquire"), *)
(* interrupts off with a lock held or in a handler and on again in a        *)
(* process that is done with locks, on whatever hart it ends up, no nested  *)
(* interrupt, and sched() with p->lock alone (panic "sched locks").         *)
THEOREM SpinlocksSound == ~Mlfq /\ Spec => []SpinSound
<1>1. MaskInv => SpinSound
  <2> SUFFICES ASSUME MaskInv PROVE SpinSound
    BY Zenon
  <2>1. TypeOK
    <3>1. noff \in [CPUs -> 0 .. 2]
      <4>1. \A c \in CPUs : noff[c] \in 0 .. 2
        BY DepthBounded, Zenon DEF MaskInv, HartOK, Masked
      <4> QED
        BY <4>1, Zenon DEF MaskInv, Fields
    <3>2. irq \in [Threads -> 0 .. 2]
      BY DEF MaskInv, Fields
    <3> QED
      BY <3>1, <3>2, Zenon DEF TypeOK, MaskInv, Fields, SpinInv, Types
  <2>2. MutualExclusion
    BY DEF MaskInv, SpinInv, Apart, InPassing, Between, MutualExclusion, Owns
  <2>3. ASSUME NEW c \in CPUs
        PROVE /\ pc[cur[c]] = "swap" => ~Owns(c, lk[cur[c]])
              /\ noff[c] > 0 => ~sie[c]
              /\ cur[c] \in Procs /\ noff[c] = 0 => (sie[c] <=> irq[cur[c]] = 0)
              /\ irq[cur[c]] <= 1 /\ (irq[cur[c]] = 1 => ~sie[c])
    <3>1. ASSUME pc[cur[c]] = "swap" PROVE ~Owns(c, lk[cur[c]])
      <4>0. cur[c] \in Threads
        BY Current, Zenon
      <4>1. HartOK(c) /\ ph[cur[c]] \in {"new", "go", "switch", "back"}
        BY <4>0, Zenon DEF MaskInv, Fields
      <4>2. CASE cur[c] \in Procs
        <5>1. ProcLocks(c, cur[c]) /\ lk[cur[c]] \in {cur[c], Shared}
          BY <3>1, <4>1, <4>2, Zenon DEF HartOK, ProcLocks
        <5>2. ph[cur[c]] = "go"
          BY <3>1, <4>1, <5>1, Zenon DEF ProcLocks
        <5>3. lk[cur[c]] \notin Held(c)
          BY <3>1, <5>1, <5>2, Zenon DEF ProcLocks
        <5> QED
          BY <3>1, <4>2, <5>1, <5>3, Zenon DEF Held, Locks, Owns
      <4>3. CASE cur[c] = c
        <5>1. Held(c) = {} /\ lk[cur[c]] \in Locks
          BY <3>1, <4>1, <4>3, Current, Zenon
             DEF HartOK, SchedulerLocks, MaskInv, SpinInv, InPassing
        <5> QED
          BY <3>1, <5>1, Zenon DEF Held, Owns
      <4> QED
        BY <4>2, <4>3, Current, Zenon
    <3>2. irq[cur[c]] \in {0, 1}
      BY Current, Zenon DEF MaskInv, Fields
    <3>3. Masked(c)
      BY Zenon DEF MaskInv, HartOK
    <3> QED
      BY <3>1, <3>2, <3>3 DEF Masked
  <2>4. ASSUME NEW c \in CPUs, cur[c] \in Procs, pc[cur[c]] = "run",
               ph[cur[c]] = "switch", mine[cur[c]] = {cur[c]}
        PROVE noff[c] = 1 /\ Held(c) = {cur[c]}
    <3>1. Held(c) = {cur[c]} /\ cur[c] # Shared
      BY <2>4, Zenon DEF MaskInv, HartOK, ProcLocks, SpinInv, Apart
    <3>2. Depth(c) = 1
      BY <2>4, <3>1 DEF Depth
    <3> QED
      BY <3>1, <3>2, Zenon DEF MaskInv, HartOK, Masked
  <2> QED
    BY <2>1, <2>2, <2>3, <2>4, Zenon
       DEF SpinSound, NoSelfDeadlock, InterruptsRestored, NoNestedInterrupt, SchedHoldsOneLock
<1> QED
  BY <1>1, InitMask, MaskStep, PTL DEF Spec
=============================================================================
