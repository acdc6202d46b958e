----------------------------- MODULE ProcProofs -----------------------------
(***************************************************************************)
(* The process table of kernel/proc/proc.c, for every number of slots, of  *)
(* harts and of pids: the locks balance, a process has one hart, and the   *)
(* family tree stays whole through fork(), exit() and wait().              *)
(*                                                                         *)
(* What a process may assume without the lock of another is carried by two *)
(* facts.  A process that is in the middle of fork(), exit() or wait()     *)
(* with a lock held is on a hart, and what it holds is what its position   *)
(* says; and only a process itself makes its children, so one that exits   *)
(* gets no new ones.                                                       *)
(***************************************************************************)
EXTENDS Proc, TLAPS

(* Time for each leaf. *)
USE SMTT(30), Z3T(30), Zenon, SMTT(31)

(* c->proc and the state of the process agree. *)
HartInv ==
  \A c \in CPUs :
    /\ sched[c] = "idle" <=> proc[c] = None
    /\ sched[c] = "run" => state[proc[c]] = "RUNNING"
    /\ sched[c] = "back" => state[proc[c]] \in {"RUNNABLE", "SLEEPING", "ZOMBIE"}
    /\ \A d \in CPUs : proc[c] # None /\ proc[c] = proc[d] => c = d

(* LockBalance, lock by lock. *)
Owns(c, s) ==
  LET p == proc[c] IN
  \/ sched[c] = "back" /\ s = p
  \/ /\ sched[c] = "run"
     /\ \/ pc[p] = "f_copy" /\ s = np[p]
        \/ pc[p] = "x_self" /\ s = op[p]
        \/ pc[p] \in {"x_reparent", "x_adopt", "x_zombie"} /\ s \in {op[p], p}
        \/ pc[p] \in {"w_scan", "w_child", "w_woken"} /\ s = p
LockInv == \A c \in CPUs, s \in Slots : lock[s] = c <=> Owns(c, s)

(* Where a process can be in each state.  One that holds a lock runs. *)
Locking == {"f_copy", "x_self", "x_reparent", "x_adopt", "w_scan", "w_child"}
Exiting == {"x_init", "x_parent", "x_plock", "x_self", "x_reparent", "x_adopt",
            "x_zombie"}
PlaceInv ==
  \A p \in Slots :
    /\ state[p] = "RUNNING" => \E c \in CPUs : sched[c] = "run" /\ proc[c] = p
    /\ pc[p] \in Locking => state[p] = "RUNNING"
    /\ pc[p] = "x_zombie" => state[p] \in {"RUNNING", "ZOMBIE"}
    /\ state[p] = "ZOMBIE" => pc[p] = "x_zombie"
    /\ state[p] = "UNUSED" => pc[p] = "user"
    /\ state[p] = "SLEEPING" => pc[p] = "w_woken"

(* The scans of the table start at slot 0. *)
IndexInv ==
  \A p \in Slots :
    pc[p] \in {"user", "f_copy", "x_init", "x_parent", "x_plock", "x_self",
               "x_zombie", "w_lock"} => i[p] = 0

(* The tree: init is its root, a parent is alive and older than its child, *)
(* and an unused slot has no parent.                                       *)
FamilyInv ==
  /\ parent[initproc] = None /\ pid[initproc] = 1
  /\ state[initproc] \notin {"UNUSED", "ZOMBIE"}
  /\ \A p \in Slots :
       /\ pid[p] < nextpid
       /\ state[p] = "UNUSED" => parent[p] = None
       /\ state[p] # "UNUSED" => pid[p] >= 1
       /\ state[p] # "UNUSED" /\ p # initproc => parent[p] # None
       /\ parent[p] # None => /\ state[parent[p]] \notin {"UNUSED", "ZOMBIE"}
                              /\ pid[parent[p]] < pid[p]

(* The slot a scan stopped at: an unused one that fork() locked, or a      *)
(* child, found with an unlocked test.                                     *)
ScanInv ==
  \A p \in Slots :
    /\ pc[p] = "f_copy" => /\ np[p] \in Slots /\ state[np[p]] = "UNUSED"
                           /\ pid[p] < pid[np[p]]
    /\ pc[p] \in {"x_adopt", "w_child"} =>
         np[p] = i[p] /\ np[p] \in Slots /\ parent[np[p]] = p

(* exit(): init is not in it; the parent that was read is still the parent *)
(* or has handed the process to init, and is not a child; and the children *)
(* that reparent() has passed are gone.                                    *)
ExitInv ==
  \A p \in Slots :
    /\ pc[p] \in Exiting => p # initproc
    /\ op[p] # None <=> \/ pc[p] \in {"x_plock", "x_self", "x_reparent", "x_adopt"}
                        \/ pc[p] = "x_zombie" /\ state[p] = "RUNNING"
    /\ op[p] # None => /\ op[p] # p /\ parent[op[p]] # p
                       /\ parent[p] \in {op[p], initproc}
    /\ pc[p] \in {"x_reparent", "x_adopt"} =>
         \A s \in Slots : s < i[p] => parent[s] # p
    /\ pc[p] = "x_zombie" => \A s \in Slots : parent[s] # p

(* wait(): the children that the scan has passed, with p->lock held, have  *)
(* not exited, and so it is when the process sleeps.                       *)
WaitInv ==
  \A p \in Slots \ {initproc} : \A s \in Slots :
    parent[s] = p /\ state[s] = "ZOMBIE" =>
      /\ state[p] # "SLEEPING"
      /\ pc[p] \in {"w_scan", "w_child"} => s >= i[p]

ProcInv ==
  /\ TypeOK /\ HartInv /\ LockInv /\ PlaceInv /\ IndexInv /\ FamilyInv
  /\ ScanInv /\ ExitInv /\ WaitInv
-----------------------------------------------------------------------------
(* The slots are numbers, and None is neither a slot nor a hart. *)
LEMMA Constants ==
  /\ initproc = 0 /\ initproc \in Slots /\ None \notin Slots /\ None \notin CPUs
  /\ 0 \in 0 .. NPROC /\ NPROC \in Nat /\ MaxPid \in Nat
  /\ \A s \in Slots : s \in Nat /\ s < NPROC /\ s + 1 \in 0 .. NPROC
  /\ \A n \in 0 .. NPROC : n \in Nat /\ (n # NPROC => n \in Slots)
  BY ProcAssumption DEF Slots, initproc

(* A process inside the kernel is on the hart that takes the step, and on no *)
(* other.                                                                   *)
LEMMA Running ==
  ASSUME ProcInv, NEW c \in CPUs, sched[c] = "run"
  PROVE  /\ proc[c] \in Slots /\ state[proc[c]] = "RUNNING"
         /\ \A d \in CPUs : proc[d] = proc[c] => d = c
<1>1. proc[c] # None
  BY Zenon DEF ProcInv, HartInv
<1>2. proc[c] \in Slots
  BY <1>1, Zenon DEF ProcInv, TypeOK
<1> QED
  BY <1>1, <1>2, Zenon DEF ProcInv, HartInv

-----------------------------------------------------------------------------
(* fork() starts its scan of the table at slot 0. *)
LEMMA ForkCallStep ==
  ASSUME ProcInv, NEW c \in CPUs, ForkCall(c) PROVE ProcInv'
<1> PICK p : p = proc[c]
  BY Zenon
<1>1. /\ p \in Slots /\ state[p] = "RUNNING" /\ sched[c] = "run" /\ pc[p] = "user"
      /\ \A d \in CPUs : proc[d] = p => d = c
  BY Running, Zenon DEF ForkCall, At
<1>2. /\ pc' = [pc EXCEPT ![p] = "f_scan"] /\ i' = [i EXCEPT ![p] = 0]
      /\ UNCHANGED <<state, parent, pid, killed, lock, proc, sched, np, havekids, op, nextpid>>
  BY Zenon DEF ForkCall, Goto, harts
<1> USE <1>1, <1>2, Constants DEF ProcInv
<1>i1. TypeOK'
  BY Zenon DEF TypeOK, Labels, States
<1>i2. HartInv' /\ LockInv' /\ PlaceInv' /\ IndexInv'
  BY DEF TypeOK, HartInv, LockInv, Owns, PlaceInv, Locking, IndexInv
<1>i3. FamilyInv' /\ ScanInv' /\ ExitInv' /\ WaitInv'
  BY DEF TypeOK, PlaceInv, FamilyInv, ScanInv, Locking, ExitInv, Exiting, WaitInv
<1> QED
  BY <1>i1, <1>i2, <1>i3, Zenon

(* allocproc() finds no slot. *)
LEMMA AllocFullStep ==
  ASSUME ProcInv, NEW c \in CPUs, AllocFull(c) PROVE ProcInv'
<1> PICK p : p = proc[c]
  BY Zenon
<1>1. /\ p \in Slots /\ state[p] = "RUNNING" /\ sched[c] = "run" /\ pc[p] = "f_scan"
      /\ \A d \in CPUs : proc[d] = p => d = c
  BY Running, Zenon DEF AllocFull, At
<1>2. /\ pc' = [pc EXCEPT ![p] = "user"] /\ i' = [i EXCEPT ![p] = 0]
      /\ UNCHANGED <<state, parent, pid, killed, lock, proc, sched, np, havekids, op, nextpid>>
  BY Zenon DEF AllocFull, Goto, harts
<1> USE <1>1, <1>2, Constants DEF ProcInv
<1>i1. TypeOK'
  BY Zenon DEF TypeOK, Labels, States
<1>i2. HartInv' /\ LockInv' /\ PlaceInv' /\ IndexInv'
  BY DEF TypeOK, HartInv, LockInv, Owns, PlaceInv, Locking, IndexInv
<1>i3. FamilyInv' /\ ScanInv' /\ ExitInv' /\ WaitInv'
  BY DEF TypeOK, PlaceInv, FamilyInv, ScanInv, Locking, ExitInv, Exiting, WaitInv
<1> QED
  BY <1>i1, <1>i2, <1>i3, Zenon

(* allocproc() takes an unused slot under its lock, or passes one. *)
LEMMA AllocScanStep ==
  ASSUME ProcInv, NEW c \in CPUs, AllocScan(c) PROVE ProcInv'
<1> PICK p : p = proc[c]
  BY Zenon
<1>1. /\ p \in Slots /\ state[p] = "RUNNING" /\ sched[c] = "run" /\ pc[p] = "f_scan"
      /\ \A d \in CPUs : proc[d] = p => d = c
  BY Running, Zenon DEF AllocScan, At
<1> PICK s : s = i[p]
  BY Zenon
<1>2. s \in Slots /\ lock[s] = None
  BY <1>1, Constants DEF AllocScan, ProcInv, TypeOK
<1>3. UNCHANGED <<state, parent, killed, proc, sched, havekids, op>>
  BY Zenon DEF AllocScan, harts
<1> USE <1>1, <1>2, <1>3, Constants DEF ProcInv
<1>4. CASE state[s] = "UNUSED" /\ nextpid <= MaxPid
  <2>1. /\ lock' = [lock EXCEPT ![s] = c] /\ pid' = [pid EXCEPT ![s] = nextpid]
        /\ nextpid' = nextpid + 1 /\ np' = [np EXCEPT ![p] = s]
        /\ i' = [i EXCEPT ![p] = 0] /\ pc' = [pc EXCEPT ![p] = "f_copy"]
    BY <1>4, Zenon DEF AllocScan, Acquire, Goto
  <2> USE <1>4, <2>1
  <2>i1. TypeOK'
    BY DEF TypeOK, Labels, States
  <2>i2. HartInv' /\ LockInv' /\ PlaceInv' /\ IndexInv'
    BY DEF TypeOK, HartInv, LockInv, Owns, PlaceInv, Locking, IndexInv
  <2>i3. FamilyInv' /\ ScanInv' /\ ExitInv' /\ WaitInv'
    BY DEF TypeOK, PlaceInv, FamilyInv, ScanInv, LockInv, Owns, Locking, ExitInv,
       Exiting, WaitInv
  <2> QED
    BY <2>i1, <2>i2, <2>i3, Zenon
<1>5. CASE ~(state[s] = "UNUSED" /\ nextpid <= MaxPid)
  <2>1. i' = [i EXCEPT ![p] = s + 1] /\ UNCHANGED <<lock, pid, nextpid, np, pc>>
    BY <1>5, Zenon DEF AllocScan
  <2> USE <1>5, <2>1
  <2>i1. TypeOK'
    BY Zenon DEF TypeOK, Labels, States
  <2>i2. HartInv' /\ LockInv' /\ PlaceInv' /\ IndexInv'
    BY DEF TypeOK, HartInv, LockInv, Owns, PlaceInv, Locking, IndexInv
  <2>i3. FamilyInv' /\ ScanInv' /\ ExitInv' /\ WaitInv'
    BY DEF TypeOK, PlaceInv, FamilyInv, ScanInv, Locking, ExitInv, Exiting, WaitInv
  <2> QED
    BY <2>i1, <2>i2, <2>i3, Zenon
<1> QED
  BY <1>4, <1>5, Zenon

(* The slot that fork() fills is locked: nobody else has found it, nobody *)
(* runs it, and it is nobody's parent.                                    *)
LEMMA NewSlot ==
  ASSUME ProcInv, NEW c \in CPUs, sched[c] = "run", pc[proc[c]] = "f_copy",
         NEW s, s = np[proc[c]]
  PROVE  /\ s \in Slots /\ lock[s] = c /\ state[s] = "UNUSED" /\ pid[proc[c]] < pid[s]
         /\ s # proc[c] /\ s # initproc /\ pc[s] = "user" /\ parent[s] = None
         /\ \A q \in Slots : parent[q] # s
         /\ \A q \in Slots : pc[q] = "f_copy" /\ np[q] = s => q = proc[c]
         /\ \A d \in CPUs : proc[d] # s
<1> PICK p : p = proc[c]
  BY Zenon
<1>1. p \in Slots /\ state[p] = "RUNNING"
  BY Running, Zenon
<1>a. s \in Slots /\ state[s] = "UNUSED" /\ pid[p] < pid[s]
  BY <1>1, Zenon DEF ProcInv, ScanInv
<1>b. lock[s] = c
  BY <1>a, Zenon DEF ProcInv, LockInv, Owns
<1>2. /\ s \in Slots /\ lock[s] = c /\ state[s] = "UNUSED" /\ pid[p] < pid[s]
      /\ s # p /\ s # initproc /\ pc[s] = "user" /\ parent[s] = None
  BY <1>1, <1>a, <1>b, Zenon DEF ProcInv, PlaceInv, FamilyInv
<1>3. \A q \in Slots : parent[q] # s
  BY <1>2, Constants DEF ProcInv, FamilyInv
<1>4. ASSUME NEW q \in Slots, pc[q] = "f_copy", np[q] = s PROVE q = p
  <2>1. PICK d \in CPUs : sched[d] = "run" /\ proc[d] = q
    BY <1>4, Zenon DEF ProcInv, PlaceInv, Locking
  <2>2. lock[s] = d
    BY <1>2, <1>4, <2>1, Zenon DEF ProcInv, LockInv, Owns
  <2> QED
    BY <1>2, <2>1, <2>2, Zenon
<1>5. \A d \in CPUs : proc[d] # s
  BY <1>2, Constants DEF ProcInv, TypeOK, HartInv
<1> QED
  BY <1>2, <1>3, <1>4, <1>5, Zenon

(* The child gets its parent, and its lock goes free. *)
LEMMA ForkDoneStep ==
  ASSUME ProcInv, NEW c \in CPUs, ForkDone(c) PROVE ProcInv'
<1> PICK p : p = proc[c]
  BY Zenon
<1>1. /\ p \in Slots /\ state[p] = "RUNNING" /\ sched[c] = "run" /\ pc[p] = "f_copy"
      /\ \A d \in CPUs : proc[d] = p => d = c
  BY Running, Zenon DEF ForkDone, At
<1> PICK s : s = np[p]
  BY Zenon
<1>2. /\ s \in Slots /\ lock[s] = c /\ state[s] = "UNUSED" /\ pid[p] < pid[s]
      /\ s # p /\ s # initproc /\ pc[s] = "user" /\ parent[s] = None
      /\ \A q \in Slots : parent[q] # s
      /\ \A q \in Slots : pc[q] = "f_copy" /\ np[q] = s => q = p
      /\ \A d \in CPUs : proc[d] # s
  BY <1>1, NewSlot
<1>3. /\ parent' = [parent EXCEPT ![s] = p] /\ state' = [state EXCEPT ![s] = "RUNNABLE"]
      /\ pc' = [pc EXCEPT ![p] = "user", ![s] = "user"]
      /\ np' = [np EXCEPT ![p] = None] /\ lock' = [lock EXCEPT ![s] = None]
      /\ UNCHANGED <<pid, killed, proc, sched, i, havekids, op, nextpid>>
  BY Zenon DEF ForkDone, Release, harts
<1> USE <1>1, <1>2, <1>3, Constants DEF ProcInv
<1>4. ASSUME NEW d \in CPUs, NEW x \in Slots PROVE (lock[x] = d <=> Owns(d, x))'
  <2>1. lock[x] = d <=> Owns(d, x)
    BY Zenon DEF LockInv
  <2>2. CASE d = c
    BY <2>1, <2>2 DEF TypeOK, Owns
  <2>3. CASE d # c
    <3>1. proc[d] # p /\ proc[d] # s /\ (proc[d] = None \/ proc[d] \in Slots)
      BY <2>3 DEF TypeOK
    <3>2. Owns(d, x)' <=> Owns(d, x)
      BY <3>1, ZenonT(40) DEF TypeOK, Owns, HartInv
    <3> QED
      BY <2>1, <2>3, <3>2 DEF TypeOK
  <2> QED
    BY <2>2, <2>3, Zenon
<1>i1. TypeOK'
  BY Zenon DEF TypeOK, Labels, States
<1>i2. HartInv' /\ PlaceInv' /\ IndexInv'
  BY DEF TypeOK, HartInv, PlaceInv, Locking, IndexInv
<1>i3. LockInv'
  BY <1>4, Zenon DEF LockInv
<1>i4. FamilyInv' /\ ScanInv' /\ ExitInv' /\ WaitInv'
  BY DEF TypeOK, PlaceInv, FamilyInv, ScanInv, Locking, ExitInv, Exiting, WaitInv
<1> QED
  BY <1>i1, <1>i2, <1>i3, <1>i4, Zenon

(* freeproc() on the error paths of fork() leaves the slot unused. *)
LEMMA ForkFailStep ==
  ASSUME ProcInv, NEW c \in CPUs, ForkFail(c) PROVE ProcInv'
<1> PICK p : p = proc[c]
  BY Zenon
<1>1. /\ p \in Slots /\ state[p] = "RUNNING" /\ sched[c] = "run" /\ pc[p] = "f_copy"
      /\ \A d \in CPUs : proc[d] = p => d = c
  BY Running, Zenon DEF ForkFail, At
<1> PICK s : s = np[p]
  BY Zenon
<1>2. /\ s \in Slots /\ lock[s] = c /\ state[s] = "UNUSED" /\ pid[p] < pid[s]
      /\ s # p /\ s # initproc /\ pc[s] = "user" /\ parent[s] = None
      /\ \A q \in Slots : parent[q] # s
      /\ \A q \in Slots : pc[q] = "f_copy" /\ np[q] = s => q = p
      /\ \A d \in CPUs : proc[d] # s
  BY <1>1, NewSlot
<1>3. /\ pid' = [pid EXCEPT ![s] = 0] /\ pc' = [pc EXCEPT ![p] = "user"]
      /\ np' = [np EXCEPT ![p] = None] /\ lock' = [lock EXCEPT ![s] = None]
      /\ UNCHANGED <<state, parent, killed, proc, sched, i, havekids, op, nextpid>>
  BY Zenon DEF ForkFail, Release, harts, Goto
<1> USE <1>1, <1>2, <1>3, Constants DEF ProcInv
<1>i1. TypeOK'
  BY DEF TypeOK, Labels, States
<1>i2. HartInv' /\ LockInv' /\ PlaceInv' /\ IndexInv'
  BY DEF TypeOK, HartInv, LockInv, Owns, PlaceInv, Locking, IndexInv
<1>i3. FamilyInv' /\ ScanInv' /\ ExitInv' /\ WaitInv'
  BY DEF TypeOK, PlaceInv, FamilyInv, ScanInv, Locking, ExitInv, Exiting, WaitInv
<1> QED
  BY <1>i1, <1>i2, <1>i3, Zenon

-----------------------------------------------------------------------------
(* run_proc(): a RUNNABLE process whose lock is free is on no hart. *)
LEMMA DispatchStep ==
  ASSUME ProcInv, NEW c \in CPUs, NEW p \in Slots, Dispatch(c, p) PROVE ProcInv'
<1>1. sched[c] = "idle" /\ state[p] = "RUNNABLE" /\ lock[p] = None /\ proc[c] = None
  BY Zenon DEF Dispatch, ProcInv, HartInv
<1>2. \A d \in CPUs : proc[d] # p
  BY <1>1, Constants DEF ProcInv, TypeOK, HartInv, LockInv, Owns
<1>a. pc[p] \notin Locking /\ pc[p] # "x_zombie"
  BY <1>1, Zenon DEF ProcInv, PlaceInv
<1>3. lock' = [lock EXCEPT ![p] = IF pc[p] = "w_woken" THEN c ELSE None]
  BY <1>1, Zenon DEF Dispatch, ProcInv, TypeOK
<1>4. /\ state' = [state EXCEPT ![p] = "RUNNING"] /\ proc' = [proc EXCEPT ![c] = p]
      /\ sched' = [sched EXCEPT ![c] = "run"]
      /\ UNCHANGED <<parent, pid, killed, pc, i, np, havekids, op, nextpid>>
  BY Zenon DEF Dispatch
<1> USE <1>1, <1>2, <1>a, <1>3, <1>4, Constants DEF ProcInv
<1>i1. TypeOK'
  BY Zenon DEF TypeOK, Labels, States
<1>i2. HartInv' /\ LockInv' /\ PlaceInv' /\ IndexInv'
  BY DEF TypeOK, HartInv, LockInv, Owns, Locking, PlaceInv, IndexInv
<1>i3. FamilyInv' /\ ScanInv' /\ ExitInv' /\ WaitInv'
  BY DEF TypeOK, PlaceInv, FamilyInv, ScanInv, Locking, ExitInv, Exiting, WaitInv
<1> QED
  BY <1>i1, <1>i2, <1>i3, Zenon

(* After swtch() the scheduler releases the lock of the process it left. *)
LEMMA SwitchBackStep ==
  ASSUME ProcInv, NEW c \in CPUs, SwitchBack(c) PROVE ProcInv'
<1> PICK p : p = proc[c]
  BY Zenon
<1>1. /\ sched[c] = "back" /\ p \in Slots /\ lock[p] = c
      /\ state[p] \in {"RUNNABLE", "SLEEPING", "ZOMBIE"}
      /\ \A d \in CPUs : proc[d] = p => d = c
  BY Constants DEF SwitchBack, ProcInv, TypeOK, HartInv, LockInv, Owns
<1>2. /\ lock' = [lock EXCEPT ![p] = None] /\ proc' = [proc EXCEPT ![c] = None]
      /\ sched' = [sched EXCEPT ![c] = "idle"]
      /\ UNCHANGED <<state, parent, pid, killed, pc, i, np, havekids, op, nextpid>>
  BY Zenon DEF SwitchBack, Release
<1> USE <1>1, <1>2, Constants DEF ProcInv
<1>i1. TypeOK'
  BY Zenon DEF TypeOK, Labels, States
<1>i2. HartInv' /\ LockInv' /\ PlaceInv' /\ IndexInv'
  BY DEF TypeOK, HartInv, LockInv, Owns, PlaceInv, Locking, IndexInv
<1>i3. FamilyInv' /\ ScanInv' /\ ExitInv' /\ WaitInv'
  BY DEF TypeOK, PlaceInv, FamilyInv, ScanInv, Locking, ExitInv, Exiting, WaitInv
<1> QED
  BY <1>i1, <1>i2, <1>i3, Zenon

(* A hart that yields holds no lock, so it is at none of the locking *)
(* points.                                                           *)
LEMMA YieldStep ==
  ASSUME ProcInv, NEW c \in CPUs, Yield(c) PROVE ProcInv'
<1> PICK p : p = proc[c]
  BY Zenon
<1>1. /\ p \in Slots /\ state[p] = "RUNNING" /\ sched[c] = "run" /\ lock[p] = None
      /\ \A d \in CPUs : proc[d] = p => d = c
      /\ \A s \in Slots : lock[s] # c
  BY Running, Zenon DEF Yield, Acquire, Held
<1>2. /\ lock' = [lock EXCEPT ![p] = c] /\ state' = [state EXCEPT ![p] = "RUNNABLE"]
      /\ sched' = [sched EXCEPT ![c] = "back"]
      /\ UNCHANGED <<parent, pid, killed, proc, pc, i, np, havekids, op, nextpid>>
  BY Zenon DEF Yield, Acquire
<1>3. pc[p] \notin Locking /\ pc[p] # "x_zombie"
  <2>1. pc[p] = "f_copy" => np[p] \in Slots
    BY <1>1, Zenon DEF ProcInv, ScanInv
  <2>2. pc[p] = "x_self" => op[p] \in Slots
    BY <1>1, Constants DEF ProcInv, TypeOK, ExitInv
  <2> QED
    BY <1>1, <2>1, <2>2 DEF ProcInv, LockInv, Owns, Locking
<1> USE <1>1, <1>2, <1>3, Constants DEF ProcInv
<1>i1. TypeOK'
  BY Zenon DEF TypeOK, Labels, States
<1>i2. HartInv' /\ LockInv' /\ PlaceInv' /\ IndexInv'
  BY DEF TypeOK, HartInv, LockInv, Owns, PlaceInv, Locking, IndexInv
<1>i3. FamilyInv' /\ ScanInv' /\ ExitInv' /\ WaitInv'
  BY DEF TypeOK, PlaceInv, FamilyInv, ScanInv, Locking, ExitInv, Exiting, WaitInv
<1> QED
  BY <1>i1, <1>i2, <1>i3, Zenon

-----------------------------------------------------------------------------
(* exit() of a process that is not init. *)
LEMMA ExitCallStep ==
  ASSUME ProcInv, NEW c \in CPUs, ExitCall(c) PROVE ProcInv'
<1> PICK p : p = proc[c]
  BY Zenon
<1>1. /\ p \in Slots /\ state[p] = "RUNNING" /\ sched[c] = "run" /\ pc[p] = "user"
      /\ \A d \in CPUs : proc[d] = p => d = c
  BY Running, Zenon DEF ExitCall, At
<1>2. p # initproc
  BY Zenon DEF ExitCall
<1>3. /\ pc' = [pc EXCEPT ![p] = "x_init"]
      /\ UNCHANGED <<state, parent, pid, killed, lock, proc, sched, i, np, havekids, op, nextpid>>
  BY Zenon DEF ExitCall, Goto, harts
<1> USE <1>1, <1>2, <1>3, Constants DEF ProcInv
<1>i1. TypeOK'
  BY Zenon DEF TypeOK, Labels, States
<1>i2. HartInv' /\ LockInv' /\ PlaceInv' /\ IndexInv'
  BY DEF TypeOK, HartInv, LockInv, Owns, PlaceInv, Locking, IndexInv
<1>i3. FamilyInv' /\ ScanInv' /\ ExitInv' /\ WaitInv'
  BY DEF TypeOK, PlaceInv, FamilyInv, ScanInv, Locking, ExitInv, Exiting, WaitInv
<1> QED
  BY <1>i1, <1>i2, <1>i3, Zenon

(* exit() wakes init under its lock. *)
LEMMA ExitWakeInitStep ==
  ASSUME ProcInv, NEW c \in CPUs, ExitWakeInit(c) PROVE ProcInv'
<1> PICK p : p = proc[c]
  BY Zenon
<1>1. /\ p \in Slots /\ state[p] = "RUNNING" /\ sched[c] = "run" /\ pc[p] = "x_init"
      /\ \A d \in CPUs : proc[d] = p => d = c
  BY Running, Zenon DEF ExitWakeInit, At
<1>2. lock[initproc] = None /\ initproc # p
  BY <1>1, Zenon DEF ExitWakeInit, ProcInv, ExitInv, Exiting
<1>a. \A d \in CPUs : sched[d] = "back" => proc[d] # initproc
  BY <1>2, Constants DEF ProcInv, LockInv, Owns
<1>3. /\ pc' = [pc EXCEPT ![p] = "x_parent"]
      /\ state' = [state EXCEPT ![initproc] = Woken(initproc)]
      /\ UNCHANGED <<parent, pid, killed, lock, proc, sched, i, np, havekids, op, nextpid>>
  BY Zenon DEF ExitWakeInit, Goto, harts
<1> USE <1>1, <1>2, <1>a, <1>3, Constants DEF ProcInv, Woken
<1>i1. TypeOK'
  BY Zenon DEF TypeOK, Labels, States, FamilyInv
<1>i2. HartInv' /\ LockInv' /\ PlaceInv' /\ IndexInv'
  BY DEF TypeOK, HartInv, LockInv, Owns, PlaceInv, Locking, IndexInv
<1>i3. FamilyInv' /\ ScanInv' /\ ExitInv' /\ WaitInv'
  BY DEF TypeOK, PlaceInv, FamilyInv, ScanInv, Locking, ExitInv, Exiting, WaitInv
<1> QED
  BY <1>i1, <1>i2, <1>i3, Zenon

(* The copy of p->parent is the parent, and not a child. *)
LEMMA ExitReadParentStep ==
  ASSUME ProcInv, NEW c \in CPUs, ExitReadParent(c) PROVE ProcInv'
<1> PICK p : p = proc[c]
  BY Zenon
<1>1. /\ p \in Slots /\ state[p] = "RUNNING" /\ sched[c] = "run" /\ pc[p] = "x_parent"
      /\ \A d \in CPUs : proc[d] = p => d = c
  BY Running, Zenon DEF ExitReadParent, At
<1>a. p # initproc
  BY <1>1, Zenon DEF ProcInv, ExitInv, Exiting
<1>b. parent[p] \in Slots /\ pid[parent[p]] < pid[p]
  BY <1>1, <1>a DEF ProcInv, TypeOK, FamilyInv
<1>c. parent[parent[p]] = p => pid[p] < pid[parent[p]]
  BY <1>1, <1>b, Constants, Zenon DEF ProcInv, FamilyInv
<1>d. pid[p] \in Int /\ pid[parent[p]] \in Int
  BY <1>1, <1>b DEF ProcInv, TypeOK
<1>2. p # initproc /\ parent[p] \in Slots /\ parent[p] # p /\ parent[parent[p]] # p
  BY <1>a, <1>b, <1>c, <1>d
<1>3. /\ pc' = [pc EXCEPT ![p] = "x_plock"] /\ op' = [op EXCEPT ![p] = parent[p]]
      /\ UNCHANGED <<state, parent, pid, killed, lock, proc, sched, i, np, havekids, nextpid>>
  BY Zenon DEF ExitReadParent, Goto, harts
<1> USE <1>1, <1>2, <1>3, Constants DEF ProcInv
<1>i1. TypeOK'
  BY Zenon DEF TypeOK, Labels, States
<1>i2. HartInv' /\ LockInv' /\ PlaceInv' /\ IndexInv'
  BY DEF TypeOK, HartInv, LockInv, Owns, PlaceInv, Locking, IndexInv
<1>i3. FamilyInv' /\ ScanInv' /\ ExitInv' /\ WaitInv'
  BY DEF TypeOK, PlaceInv, FamilyInv, ScanInv, Locking, ExitInv, Exiting, WaitInv
<1> QED
  BY <1>i1, <1>i2, <1>i3, Zenon

(* exit() locks original_parent ... *)
LEMMA ExitLockParentStep ==
  ASSUME ProcInv, NEW c \in CPUs, ExitLockParent(c) PROVE ProcInv'
<1> PICK p : p = proc[c]
  BY Zenon
<1>1. /\ p \in Slots /\ state[p] = "RUNNING" /\ sched[c] = "run" /\ pc[p] = "x_plock"
      /\ \A d \in CPUs : proc[d] = p => d = c
  BY Running, Zenon DEF ExitLockParent, At
<1> PICK o : o = op[p]
  BY Zenon
<1>2. o \in Slots /\ o # p /\ lock[o] = None
  BY <1>1, Constants DEF ExitLockParent, Acquire, ProcInv, TypeOK, ExitInv
<1>3. /\ pc' = [pc EXCEPT ![p] = "x_self"] /\ lock' = [lock EXCEPT ![o] = c]
      /\ UNCHANGED <<state, parent, pid, killed, proc, sched, i, np, havekids, op, nextpid>>
  BY Zenon DEF ExitLockParent, Acquire, Goto, harts
<1> USE <1>1, <1>2, <1>3, Constants DEF ProcInv
<1>i1. TypeOK'
  BY Zenon DEF TypeOK, Labels, States
<1>i2. HartInv' /\ LockInv' /\ PlaceInv' /\ IndexInv'
  BY DEF TypeOK, HartInv, LockInv, Owns, PlaceInv, Locking, IndexInv
<1>i3. FamilyInv' /\ ScanInv' /\ ExitInv' /\ WaitInv'
  BY DEF TypeOK, PlaceInv, FamilyInv, ScanInv, Locking, ExitInv, Exiting, WaitInv
<1> QED
  BY <1>i1, <1>i2, <1>i3, Zenon

(* ... and then itself. *)
LEMMA ExitLockSelfStep ==
  ASSUME ProcInv, NEW c \in CPUs, ExitLockSelf(c) PROVE ProcInv'
<1> PICK p : p = proc[c]
  BY Zenon
<1>1. /\ p \in Slots /\ state[p] = "RUNNING" /\ sched[c] = "run" /\ pc[p] = "x_self"
      /\ \A d \in CPUs : proc[d] = p => d = c
  BY Running, Zenon DEF ExitLockSelf, At
<1> PICK o : o = op[p]
  BY Zenon
<1>2. o \in Slots /\ o # p /\ lock[p] = None
  BY <1>1, Constants DEF ExitLockSelf, Acquire, ProcInv, TypeOK, ExitInv
<1>3. /\ pc' = [pc EXCEPT ![p] = "x_reparent"] /\ lock' = [lock EXCEPT ![p] = c]
      /\ UNCHANGED <<state, parent, pid, killed, proc, sched, i, np, havekids, op, nextpid>>
  BY Zenon DEF ExitLockSelf, Acquire, Goto, harts
<1> USE <1>1, <1>2, <1>3, Constants DEF ProcInv
<1>i1. TypeOK'
  BY Zenon DEF TypeOK, Labels, States
<1>i2. HartInv' /\ LockInv' /\ PlaceInv' /\ IndexInv'
  BY DEF TypeOK, HartInv, LockInv, Owns, PlaceInv, Locking, IndexInv
<1>i3. FamilyInv' /\ ScanInv' /\ ExitInv' /\ WaitInv'
  BY DEF TypeOK, PlaceInv, FamilyInv, ScanInv, Locking, IndexInv, ExitInv,
     Exiting, WaitInv
<1> QED
  BY <1>i1, <1>i2, <1>i3, Zenon

(* reparent() passes the slots in order. *)
LEMMA ReparentScanStep ==
  ASSUME ProcInv, NEW c \in CPUs, ReparentScan(c) PROVE ProcInv'
<1> PICK p : p = proc[c]
  BY Zenon
<1>1. /\ p \in Slots /\ state[p] = "RUNNING" /\ sched[c] = "run" /\ pc[p] = "x_reparent"
      /\ \A d \in CPUs : proc[d] = p => d = c
  BY Running, Zenon DEF ReparentScan, At
<1> PICK s : s = i[p]
  BY Zenon
<1>2. UNCHANGED <<state, parent, pid, killed, lock, proc, sched, havekids, op, nextpid>>
  BY Zenon DEF ReparentScan, harts
<1> USE <1>1, <1>2, Constants DEF ProcInv
<1>3. CASE s = NPROC
  <2>1. /\ pc' = [pc EXCEPT ![p] = "x_zombie"] /\ i' = [i EXCEPT ![p] = 0]
        /\ UNCHANGED np
    BY <1>3, Zenon DEF ReparentScan, Goto
  <2>2. ASSUME NEW x \in Slots PROVE parent[x] # p
    <3>1. x < i[p]
      BY <1>3, Zenon
    <3> QED
      BY <3>1 DEF ExitInv
  <2> USE <1>3, <2>1, <2>2
  <2>i1. TypeOK'
    BY Zenon DEF TypeOK, Labels, States
  <2>i2. HartInv' /\ LockInv' /\ PlaceInv' /\ IndexInv'
    BY DEF TypeOK, HartInv, LockInv, Owns, PlaceInv, Locking, IndexInv
  <2>i3. FamilyInv' /\ ScanInv' /\ ExitInv' /\ WaitInv'
    BY DEF TypeOK, PlaceInv, FamilyInv, ScanInv, Locking, ExitInv, Exiting, WaitInv
  <2> QED
    BY <2>i1, <2>i2, <2>i3, Zenon
<1>4. CASE s # NPROC /\ parent[s] = p
  <2>1. s \in Slots
    BY <1>4, Zenon DEF TypeOK
  <2>2. /\ pc' = [pc EXCEPT ![p] = "x_adopt"] /\ np' = [np EXCEPT ![p] = s]
        /\ UNCHANGED i
    BY <1>4, Zenon DEF ReparentScan, Goto
  <2> USE <1>4, <2>1, <2>2
  <2>i1. TypeOK'
    BY Zenon DEF TypeOK, Labels, States
  <2>i2. HartInv' /\ LockInv' /\ PlaceInv' /\ IndexInv'
    BY DEF TypeOK, HartInv, LockInv, Owns, PlaceInv, Locking, IndexInv
  <2>i3. FamilyInv' /\ ScanInv' /\ ExitInv' /\ WaitInv'
    BY DEF TypeOK, PlaceInv, FamilyInv, ScanInv, Locking, ExitInv, Exiting, WaitInv
  <2> QED
    BY <2>i1, <2>i2, <2>i3, Zenon
<1>5. CASE s # NPROC /\ parent[s] # p
  <2>1. s \in Slots
    BY <1>5, Zenon DEF TypeOK
  <2>2. i' = [i EXCEPT ![p] = s + 1] /\ UNCHANGED <<pc, np>>
    BY <1>5, Zenon DEF ReparentScan, Goto
  <2> USE <1>5, <2>1, <2>2
  <2>i1. TypeOK'
    BY Zenon DEF TypeOK, Labels, States
  <2>i2. HartInv' /\ LockInv' /\ PlaceInv' /\ IndexInv'
    BY DEF TypeOK, HartInv, LockInv, Owns, PlaceInv, Locking, IndexInv
  <2>i3. FamilyInv' /\ ScanInv' /\ ExitInv' /\ WaitInv'
    BY DEF TypeOK, PlaceInv, FamilyInv, ScanInv, Locking, ExitInv, Exiting, WaitInv
  <2> QED
    BY <2>i1, <2>i2, <2>i3, Zenon
<1> QED
  BY <1>3, <1>4, <1>5, Zenon

(* A child goes to init, the root, which is older. *)
LEMMA ReparentAdoptStep ==
  ASSUME ProcInv, NEW c \in CPUs, ReparentAdopt(c) PROVE ProcInv'
<1> PICK p : p = proc[c]
  BY Zenon
<1>1. /\ p \in Slots /\ state[p] = "RUNNING" /\ sched[c] = "run" /\ pc[p] = "x_adopt"
      /\ \A d \in CPUs : proc[d] = p => d = c
  BY Running, Zenon DEF ReparentAdopt, At
<1> PICK s : s = np[p]
  BY Zenon
<1>2. /\ s \in Slots /\ s = i[p] /\ parent[s] = p /\ p # initproc /\ s # initproc
      /\ state[s] # "UNUSED" /\ pid[s] > 1 /\ s # p
  BY <1>1, Constants DEF ProcInv, TypeOK, ScanInv, ExitInv, Exiting, FamilyInv
<1>3. /\ parent' = [parent EXCEPT ![s] = initproc] /\ np' = [np EXCEPT ![p] = None]
      /\ i' = [i EXCEPT ![p] = s + 1] /\ pc' = [pc EXCEPT ![p] = "x_reparent"]
      /\ UNCHANGED <<state, pid, killed, lock, proc, sched, havekids, op, nextpid>>
  BY Zenon DEF ReparentAdopt, Goto, harts
<1> USE <1>1, <1>2, <1>3, Constants DEF ProcInv
<1>i1. TypeOK'
  BY Zenon DEF TypeOK, Labels, States
<1>i2. HartInv' /\ LockInv' /\ PlaceInv' /\ IndexInv'
  BY DEF TypeOK, HartInv, LockInv, Owns, PlaceInv, Locking, IndexInv
<1>i3. FamilyInv' /\ ScanInv' /\ ExitInv' /\ WaitInv'
  BY DEF TypeOK, PlaceInv, FamilyInv, ScanInv, Locking, ExitInv, Exiting, WaitInv
<1> QED
  BY <1>i1, <1>i2, <1>i3, Zenon

(* The last step of exit(): the childless process becomes a ZOMBIE, with *)
(* the lock of the parent it wakes still held.                           *)
LEMMA ExitZombieStep ==
  ASSUME ProcInv, NEW c \in CPUs, ExitZombie(c) PROVE ProcInv'
<1> PICK p : p = proc[c]
  BY Zenon
<1>1. /\ p \in Slots /\ state[p] = "RUNNING" /\ sched[c] = "run" /\ pc[p] = "x_zombie"
      /\ \A d \in CPUs : proc[d] = p => d = c
  BY Running, Zenon DEF ExitZombie, At
<1> PICK o : o = op[p]
  BY Zenon
<1>2. /\ o \in Slots /\ o # p /\ lock[o] = c /\ lock[p] = c /\ p # initproc
      /\ parent[p] \in {o, initproc} /\ \A s \in Slots : parent[s] # p
  BY <1>1, Constants DEF ProcInv, TypeOK, ExitInv, Exiting, LockInv, Owns
<1>a. \A d \in CPUs : sched[d] = "back" => proc[d] # o
  BY <1>1, <1>2, Constants DEF ProcInv, LockInv, Owns
<1>b. state' = [state EXCEPT ![o] = Woken(o), ![p] = "ZOMBIE"]
  BY Zenon DEF ExitZombie
<1>3. /\ lock' = [lock EXCEPT ![o] = None] /\ op' = [op EXCEPT ![p] = None]
      /\ sched' = [sched EXCEPT ![c] = "back"]
      /\ UNCHANGED <<parent, pid, killed, proc, pc, i, np, havekids, nextpid>>
  BY Zenon DEF ExitZombie, Release
<1>4. /\ state'[p] = "ZOMBIE" /\ state'[o] # "SLEEPING"
      /\ \A x \in Slots : x # p => \/ state'[x] = state[x]
                                   \/ x = o /\ state[x] = "SLEEPING" /\ state'[x] = "RUNNABLE"
  BY <1>1, <1>2, <1>b, Zenon DEF ProcInv, TypeOK, Woken
<1>5. pc[o] \notin {"w_scan", "w_child"}
  <2> SUFFICES ASSUME pc[o] \in {"w_scan", "w_child"} PROVE FALSE
    BY Zenon
  <2>1. PICK d \in CPUs : sched[d] = "run" /\ proc[d] = o
    BY <1>2, Zenon DEF ProcInv, PlaceInv, Locking
  <2>2. lock[o] = d
    BY <1>2, <2>1 DEF ProcInv, LockInv, Owns
  <2> QED
    BY <1>1, <1>2, <2>1, <2>2, Zenon
<1> USE <1>1, <1>2, <1>a, <1>3, <1>4, <1>5, Constants DEF ProcInv
<1>6. HartInv'
  <2> SUFFICES ASSUME NEW d \in CPUs
               PROVE  /\ sched'[d] = "idle" <=> proc'[d] = None
                      /\ sched'[d] = "run" => state'[proc'[d]] = "RUNNING"
                      /\ sched'[d] = "back" => state'[proc'[d]] \in {"RUNNABLE", "SLEEPING", "ZOMBIE"}
                      /\ \A e \in CPUs : proc'[d] # None /\ proc'[d] = proc'[e] => d = e
    BY Zenon DEF HartInv
  <2>1. CASE d = c
    BY <2>1 DEF TypeOK, HartInv
  <2>2. CASE d # c
    <3>1. sched'[d] = sched[d] /\ proc[d] # p /\ (proc[d] = None \/ proc[d] \in Slots)
      BY <2>2 DEF TypeOK
    <3>2. /\ sched[d] = "idle" <=> proc[d] = None
          /\ sched[d] = "run" => state[proc[d]] = "RUNNING"
          /\ sched[d] = "back" => state[proc[d]] \in {"RUNNABLE", "SLEEPING", "ZOMBIE"}
          /\ \A e \in CPUs : proc[d] # None /\ proc[d] = proc[e] => d = e
      BY DEF HartInv
    <3>3. proc[d] # None => \/ state'[proc[d]] = state[proc[d]]
                            \/ proc[d] = o /\ state[proc[d]] = "SLEEPING" /\ state'[proc[d]] = "RUNNABLE"
      BY <3>1, Zenon
    <3>4. UNCHANGED proc
      BY <1>3, Zenon
    <3> HIDE <1>1, <1>2, <1>a, <1>3, <1>4, <1>5, Constants
    <3> QED
      BY <3>1, <3>2, <3>3, <3>4, Zenon
  <2> QED
    BY <2>1, <2>2, Zenon
<1>7. \A x \in Slots : /\ state'[x] = "UNUSED" <=> state[x] = "UNUSED"
                       /\ state'[x] = "ZOMBIE" <=> state[x] = "ZOMBIE" \/ x = p
  OBVIOUS
<1>8. UNCHANGED <<pc, np, i, parent, pid, nextpid>>
  BY Zenon
<1>9. FamilyInv' /\ ScanInv'
  <2> HIDE <1>1, <1>2, <1>a, <1>3, <1>4, <1>5, Constants
  <2>1. FamilyInv'
    <3>1. state'[initproc] \notin {"UNUSED", "ZOMBIE"}
      BY <1>2, <1>7, Constants, Zenon DEF FamilyInv
    <3>2. \A x \in Slots : parent[x] # None => state'[parent[x]] \notin {"UNUSED", "ZOMBIE"}
      BY <1>2, <1>7 DEF TypeOK, FamilyInv
    <3> QED
      BY <3>1, <3>2, <1>7, <1>8, Zenon DEF FamilyInv
  <2>2. ScanInv'
    BY <1>7, <1>8, Zenon DEF TypeOK, ScanInv
  <2> QED
    BY <2>1, <2>2, Zenon
<1>i1. TypeOK'
  BY <1>b DEF TypeOK, Labels, States, Woken
<1>i2. LockInv' /\ PlaceInv' /\ IndexInv'
  BY DEF TypeOK, HartInv, LockInv, Owns, PlaceInv, Locking, IndexInv
<1>i4. ExitInv' /\ WaitInv'
  BY DEF TypeOK, PlaceInv, FamilyInv, ExitInv, Exiting, WaitInv
<1> QED
  BY <1>i1, <1>i2, <1>6, <1>i4, <1>9, <1>9, Zenon
-----------------------------------------------------------------------------

(* wait() begins. *)
LEMMA WaitCallStep ==
  ASSUME ProcInv, NEW c \in CPUs, WaitCall(c) PROVE ProcInv'
<1> PICK p : p = proc[c]
  BY Zenon
<1>1. /\ p \in Slots /\ state[p] = "RUNNING" /\ sched[c] = "run" /\ pc[p] = "user"
      /\ \A d \in CPUs : proc[d] = p => d = c
  BY Running, Zenon DEF WaitCall, At
<1>2. /\ pc' = [pc EXCEPT ![p] = "w_lock"]
      /\ UNCHANGED <<state, parent, pid, killed, lock, proc, sched, i, np, havekids, op, nextpid>>
  BY Zenon DEF WaitCall, Goto, harts
<1> USE <1>1, <1>2, Constants DEF ProcInv
<1>i1. TypeOK'
  BY Zenon DEF TypeOK, Labels, States
<1>i2. HartInv' /\ LockInv' /\ PlaceInv' /\ IndexInv'
  BY DEF TypeOK, HartInv, LockInv, Owns, PlaceInv, Locking, IndexInv
<1>i3. FamilyInv' /\ ScanInv' /\ ExitInv' /\ WaitInv'
  BY DEF TypeOK, PlaceInv, FamilyInv, ScanInv, Locking, ExitInv, Exiting, WaitInv
<1> QED
  BY <1>i1, <1>i2, <1>i3, Zenon

(* wait() holds p->lock from here on. *)
LEMMA WaitLockStep ==
  ASSUME ProcInv, NEW c \in CPUs, WaitLock(c) PROVE ProcInv'
<1> PICK p : p = proc[c]
  BY Zenon
<1>1. /\ p \in Slots /\ state[p] = "RUNNING" /\ sched[c] = "run" /\ pc[p] = "w_lock"
      /\ \A d \in CPUs : proc[d] = p => d = c
  BY Running, Zenon DEF WaitLock, At
<1>2. /\ pc' = [pc EXCEPT ![p] = "w_scan"] /\ lock[p] = None
      /\ lock' = [lock EXCEPT ![p] = c]
      /\ UNCHANGED <<state, parent, pid, killed, proc, sched, i, np, havekids, op, nextpid>>
  BY Zenon DEF WaitLock, Acquire, Goto, harts
<1> USE <1>1, <1>2, Constants DEF ProcInv
<1>i1. TypeOK'
  BY Zenon DEF TypeOK, Labels, States
<1>i2. HartInv' /\ LockInv' /\ PlaceInv' /\ IndexInv'
  BY DEF TypeOK, HartInv, LockInv, Owns, PlaceInv, Locking, IndexInv
<1>i3. FamilyInv' /\ ScanInv' /\ ExitInv' /\ WaitInv'
  BY DEF TypeOK, PlaceInv, FamilyInv, ScanInv, Locking, ExitInv, Exiting,
     IndexInv, WaitInv
<1> QED
  BY <1>i1, <1>i2, <1>i3, Zenon

(* wait() looks for children without their locks. *)
LEMMA WaitScanStep ==
  ASSUME ProcInv, NEW c \in CPUs, WaitScan(c) PROVE ProcInv'
<1> PICK p : p = proc[c]
  BY Zenon
<1>1. /\ p \in Slots /\ state[p] = "RUNNING" /\ sched[c] = "run" /\ pc[p] = "w_scan"
      /\ \A d \in CPUs : proc[d] = p => d = c
  BY Running, Zenon DEF WaitScan, At
<1> PICK s : s = i[p]
  BY Zenon
<1>2. s \in Slots
  BY <1>1, Constants DEF WaitScan, ProcInv, TypeOK
<1>3. UNCHANGED <<state, parent, pid, killed, lock, proc, sched, havekids, op, nextpid>>
  BY Zenon DEF WaitScan, harts
<1> USE <1>1, <1>2, <1>3, Constants DEF ProcInv
<1>4. CASE parent[s] = p
  <2>1. /\ pc' = [pc EXCEPT ![p] = "w_child"] /\ np' = [np EXCEPT ![p] = s]
        /\ UNCHANGED i
    BY <1>4, Zenon DEF WaitScan, Goto
  <2> USE <1>4, <2>1
  <2>i1. TypeOK'
    BY Zenon DEF TypeOK, Labels, States
  <2>i2. HartInv' /\ LockInv' /\ PlaceInv' /\ IndexInv'
    BY DEF TypeOK, HartInv, LockInv, Owns, PlaceInv, Locking, IndexInv
  <2>i3. FamilyInv' /\ ScanInv' /\ ExitInv' /\ WaitInv'
    BY DEF TypeOK, PlaceInv, FamilyInv, ScanInv, Locking, ExitInv, Exiting, WaitInv
  <2> QED
    BY <2>i1, <2>i2, <2>i3, Zenon
<1>5. CASE parent[s] # p
  <2>1. i' = [i EXCEPT ![p] = s + 1] /\ UNCHANGED <<pc, np>>
    BY <1>5, Zenon DEF WaitScan, Goto
  <2> USE <1>5, <2>1
  <2>i1. TypeOK'
    BY Zenon DEF TypeOK, Labels, States
  <2>i2. HartInv' /\ LockInv' /\ PlaceInv' /\ IndexInv'
    BY DEF TypeOK, HartInv, LockInv, Owns, PlaceInv, Locking, IndexInv
  <2>i3. FamilyInv'
    BY DEF TypeOK, PlaceInv, FamilyInv
  <2>i4. ScanInv'
    BY DEF TypeOK, ScanInv, PlaceInv, Locking, FamilyInv
  <2>i5. ExitInv'
    BY DEF TypeOK, PlaceInv, FamilyInv, ExitInv, Exiting
  <2>i6. WaitInv'
    BY DEF TypeOK, PlaceInv, FamilyInv, WaitInv
  <2> QED
    BY <2>i1, <2>i2, <2>i3, <2>i4, <2>i5, <2>i6, Zenon
<1> QED
  BY <1>4, <1>5, Zenon

(* wait() passes a child that has not exited. *)
LEMMA WaitLiveStep ==
  ASSUME ProcInv, NEW c \in CPUs, WaitLive(c) PROVE ProcInv'
<1> PICK p : p = proc[c]
  BY Zenon
<1>1. /\ p \in Slots /\ state[p] = "RUNNING" /\ sched[c] = "run" /\ pc[p] = "w_child"
      /\ \A d \in CPUs : proc[d] = p => d = c
  BY Running, Zenon DEF WaitLive, At
<1> PICK s : s = np[p]
  BY Zenon
<1>2. s \in Slots /\ s = i[p] /\ state[s] # "ZOMBIE"
  BY <1>1, Zenon DEF WaitLive, ProcInv, ScanInv
<1>3. /\ havekids' = [havekids EXCEPT ![p] = TRUE] /\ np' = [np EXCEPT ![p] = None]
      /\ i' = [i EXCEPT ![p] = s + 1] /\ pc' = [pc EXCEPT ![p] = "w_scan"]
      /\ UNCHANGED <<state, parent, pid, killed, lock, proc, sched, op, nextpid>>
  BY Zenon DEF WaitLive, Goto, harts
<1> USE <1>1, <1>2, <1>3, Constants DEF ProcInv
<1>4. ASSUME NEW q \in Slots \ {initproc}, NEW x \in Slots, parent[x] = q, state[x] = "ZOMBIE"
      PROVE  /\ state[q] # "SLEEPING"
             /\ pc'[q] \in {"w_scan", "w_child"} => x >= i'[q]
  <2>1. state[q] # "SLEEPING" /\ (pc[q] \in {"w_scan", "w_child"} => x >= i[q])
    BY <1>4, Zenon DEF WaitInv
  <2>2. CASE q = p
    <3>1. x >= s /\ x # s
      BY <1>4, <2>1, <2>2, Zenon
    <3> QED
      BY <2>1, <2>2, <3>1 DEF TypeOK
  <2>3. CASE q # p
    BY <2>1, <2>3, Zenon DEF TypeOK
  <2> QED
    BY <2>2, <2>3, Zenon
<1>i1. TypeOK'
  BY ZenonT(40) DEF TypeOK, Labels, States
<1>i2. HartInv' /\ LockInv' /\ PlaceInv' /\ IndexInv'
  BY DEF TypeOK, HartInv, LockInv, Owns, PlaceInv, Locking, IndexInv
<1>i3. FamilyInv' /\ ScanInv' /\ ExitInv'
  BY DEF TypeOK, PlaceInv, FamilyInv, ScanInv, Locking, ExitInv, Exiting
<1>i4. WaitInv'
  BY <1>4 DEF WaitInv
<1> QED
  BY <1>i1, <1>i2, <1>i3, <1>i4, Zenon

(* The returns of wait() that leave the table alone. *)
LEMMA WaitReturnStep ==
  ASSUME ProcInv, NEW c \in CPUs, sched[c] = "run", NEW p, p = proc[c],
         pc[p] \in {"w_scan", "w_child", "w_woken"}, WaitReturn(p),
         UNCHANGED <<state, parent, pid, killed, proc, sched, op, nextpid>>
  PROVE  ProcInv'
<1>1. /\ p \in Slots /\ state[p] = "RUNNING" /\ \A d \in CPUs : proc[d] = p => d = c
  BY Running, Zenon
<1>2. /\ pc' = [pc EXCEPT ![p] = "user"] /\ i' = [i EXCEPT ![p] = 0]
      /\ np' = [np EXCEPT ![p] = None] /\ havekids' = [havekids EXCEPT ![p] = FALSE]
      /\ lock' = [lock EXCEPT ![p] = None]
  BY Zenon DEF WaitReturn, Goto, Release
<1> USE <1>1, <1>2, Constants DEF ProcInv
<1>i1. TypeOK'
  BY ZenonT(40) DEF TypeOK, Labels, States
<1>i2. HartInv' /\ LockInv' /\ PlaceInv' /\ IndexInv'
  BY DEF TypeOK, HartInv, LockInv, Owns, PlaceInv, Locking, IndexInv
<1>i3. FamilyInv' /\ ScanInv' /\ ExitInv' /\ WaitInv'
  BY DEF TypeOK, PlaceInv, FamilyInv, ScanInv, Locking, ExitInv, Exiting, WaitInv
<1> QED
  BY <1>i1, <1>i2, <1>i3, Zenon

(* copyout() of the status fails. *)
LEMMA WaitFaultStep ==
  ASSUME ProcInv, NEW c \in CPUs, WaitFault(c) PROVE ProcInv'
  BY WaitReturnStep, Zenon DEF WaitFault, At, harts

(* wait() finds no child, or p is killed. *)
LEMMA WaitNoneStep ==
  ASSUME ProcInv, NEW c \in CPUs, WaitNone(c) PROVE ProcInv'
  BY WaitReturnStep, Zenon DEF WaitNone, At, harts

(* freeproc(): the ZOMBIE is on no hart and is nobody's parent. *)
LEMMA WaitReapStep ==
  ASSUME ProcInv, NEW c \in CPUs, WaitReap(c) PROVE ProcInv'
<1> PICK p : p = proc[c]
  BY Zenon
<1>1. /\ p \in Slots /\ state[p] = "RUNNING" /\ sched[c] = "run" /\ pc[p] = "w_child"
      /\ \A d \in CPUs : proc[d] = p => d = c
  BY Running, Zenon DEF WaitReap, At
<1> PICK s : s = np[p]
  BY Zenon
<1>b. s \in Slots /\ parent[s] = p /\ state[s] = "ZOMBIE" /\ lock[s] = None
  BY <1>1, Zenon DEF WaitReap, ProcInv, ScanInv
<1>c. s # p /\ s # initproc /\ pc[s] = "x_zombie"
  BY <1>1, <1>b, Zenon DEF ProcInv, PlaceInv, FamilyInv
<1>2. /\ s \in Slots /\ parent[s] = p /\ state[s] = "ZOMBIE" /\ lock[s] = None
      /\ s # p /\ s # initproc /\ pc[s] = "x_zombie" /\ i[s] = 0 /\ op[s] = None
      /\ \A x \in Slots : parent[x] # s
  BY <1>b, <1>c DEF ProcInv, IndexInv, ExitInv
<1>a. \A d \in CPUs : proc[d] # s
  BY <1>2, Constants DEF ProcInv, TypeOK, HartInv, LockInv, Owns
<1>d. lock[p] = c
  BY <1>1 DEF ProcInv, LockInv, Owns
<1>3. /\ state' = [state EXCEPT ![s] = "UNUSED"] /\ parent' = [parent EXCEPT ![s] = None]
      /\ pid' = [pid EXCEPT ![s] = 0] /\ killed' = killed \ {s}
      /\ pc' = [pc EXCEPT ![s] = "user", ![p] = "user"] /\ i' = [i EXCEPT ![p] = 0]
      /\ np' = [np EXCEPT ![p] = None] /\ havekids' = [havekids EXCEPT ![p] = FALSE]
      /\ lock' = [lock EXCEPT ![p] = None] /\ UNCHANGED <<proc, sched, op, nextpid>>
  BY Zenon DEF WaitReap, Release, harts
<1> USE <1>1, <1>2, <1>a, <1>d, <1>3, Constants DEF ProcInv
<1>4. ASSUME NEW d \in CPUs, NEW x \in Slots PROVE (lock[x] = d <=> Owns(d, x))'
  <2>1. lock[x] = d <=> Owns(d, x)
    BY Zenon DEF LockInv
  <2>2. CASE d = c
    BY <2>1, <2>2 DEF TypeOK, Owns
  <2>3. CASE d # c
    <3>1. proc[d] # p /\ proc[d] # s /\ (proc[d] = None \/ proc[d] \in Slots)
      BY <2>3 DEF TypeOK
    <3>2. Owns(d, x)' <=> Owns(d, x)
      BY <3>1, ZenonT(40) DEF TypeOK, Owns, HartInv
    <3> QED
      BY <2>1, <2>3, <3>2 DEF TypeOK
  <2> QED
    BY <2>2, <2>3, Zenon
<1>5. TypeOK'
  <2>1. state' \in [Slots -> States] /\ parent' \in [Slots -> Slots \cup {None}]
    BY Zenon DEF TypeOK, States
  <2>2. pid' \in [Slots -> 0 .. MaxPid]
    BY DEF TypeOK
  <2>5. i' \in [Slots -> 0 .. NPROC] /\ killed' \subseteq Slots
    BY ZenonT(30) DEF TypeOK
  <2>3. pc' \in [Slots -> Labels] /\ lock' \in [Slots -> CPUs \cup {None}]
    BY Zenon DEF TypeOK, Labels
  <2>4. np' \in [Slots -> Slots \cup {None}] /\ havekids' \in [Slots -> BOOLEAN]
    BY Zenon DEF TypeOK
  <2> QED
    BY <2>1, <2>2, <2>3, <2>4, <2>5, Zenon DEF TypeOK
<1>i2. HartInv' /\ PlaceInv' /\ IndexInv'
  BY DEF TypeOK, HartInv, PlaceInv, Locking, IndexInv
<1>i3. LockInv'
  BY <1>4, ZenonT(40) DEF LockInv
<1>i4. FamilyInv' /\ ScanInv' /\ ExitInv' /\ WaitInv'
  BY DEF TypeOK, PlaceInv, FamilyInv, ScanInv, Locking, ExitInv, Exiting, WaitInv
<1> QED
  BY <1>5, <1>i2, <1>i3, <1>i4, Zenon

(* The whole table was scanned under p->lock, so no child is a ZOMBIE when *)
(* the process goes to sleep.                                              *)
LEMMA WaitSleepStep ==
  ASSUME ProcInv, NEW c \in CPUs, WaitSleep(c) PROVE ProcInv'
<1> PICK p : p = proc[c]
  BY Zenon
<1>1. /\ p \in Slots /\ state[p] = "RUNNING" /\ sched[c] = "run" /\ pc[p] = "w_scan"
      /\ \A d \in CPUs : proc[d] = p => d = c
  BY Running, Zenon DEF WaitSleep, At
<1>2. i[p] = NPROC
  BY Zenon DEF WaitSleep
<1>3. /\ state' = [state EXCEPT ![p] = "SLEEPING"] /\ pc' = [pc EXCEPT ![p] = "w_woken"]
      /\ sched' = [sched EXCEPT ![c] = "back"]
      /\ UNCHANGED <<parent, pid, killed, lock, proc, i, np, havekids, op, nextpid>>
  BY Zenon DEF WaitSleep, Goto
<1> USE <1>1, <1>2, <1>3, Constants DEF ProcInv
<1>i1. TypeOK'
  BY Zenon DEF TypeOK, Labels, States
<1>i2. HartInv' /\ LockInv' /\ PlaceInv' /\ IndexInv'
  BY DEF TypeOK, HartInv, LockInv, Owns, PlaceInv, Locking, IndexInv
<1>i3. FamilyInv' /\ ScanInv' /\ ExitInv' /\ WaitInv'
  BY DEF TypeOK, PlaceInv, FamilyInv, ScanInv, Locking, ExitInv, Exiting, WaitInv
<1> QED
  BY <1>i1, <1>i2, <1>i3, Zenon

(* wait() scans again from slot 0, or returns. *)
LEMMA WaitWokenStep ==
  ASSUME ProcInv, NEW c \in CPUs, WaitWoken(c) PROVE ProcInv'
<1> PICK p : p = proc[c]
  BY Zenon
<1>1. /\ p \in Slots /\ state[p] = "RUNNING" /\ sched[c] = "run" /\ pc[p] = "w_woken"
      /\ \A d \in CPUs : proc[d] = p => d = c
  BY Running, Zenon DEF WaitWoken, At
<1>2. CASE p \in killed
  BY <1>1, <1>2, WaitReturnStep, Zenon DEF WaitWoken, harts
<1>3. CASE p \notin killed
  <2>1. /\ pc' = [pc EXCEPT ![p] = "w_scan"] /\ i' = [i EXCEPT ![p] = 0]
        /\ havekids' = [havekids EXCEPT ![p] = FALSE]
        /\ UNCHANGED <<state, parent, pid, killed, lock, proc, sched, np, op, nextpid>>
    BY <1>3, Zenon DEF WaitWoken, Goto, harts
  <2> USE <1>1, <2>1, Constants DEF ProcInv
  <2>i1. TypeOK'
    BY ZenonT(40) DEF TypeOK, Labels, States
  <2>i2. HartInv' /\ LockInv' /\ PlaceInv' /\ IndexInv'
    BY DEF TypeOK, HartInv, LockInv, Owns, PlaceInv, Locking, IndexInv
  <2>i3. FamilyInv' /\ ScanInv' /\ ExitInv' /\ WaitInv'
    BY DEF TypeOK, PlaceInv, FamilyInv, ScanInv, Locking, ExitInv, Exiting, WaitInv
  <2> QED
    BY <2>i1, <2>i2, <2>i3, Zenon
<1> QED
  BY <1>2, <1>3, Zenon

(* kill() changes a process under its lock. *)
LEMMA KillStep ==
  ASSUME ProcInv, NEW c \in CPUs, NEW q \in Slots, Kill(c, q) PROVE ProcInv'
<1>1. lock[q] = None /\ \A d \in CPUs : sched[d] = "back" => proc[d] # q
  BY Constants DEF Kill, ProcInv, LockInv, Owns
<1>2. /\ killed' = killed \cup {q} /\ state' = [state EXCEPT ![q] = Woken(q)]
      /\ UNCHANGED <<parent, pid, lock, proc, sched, pc, i, np, havekids, op, nextpid>>
  BY Zenon DEF Kill, harts
<1> USE <1>1, <1>2, Constants DEF ProcInv, Woken
<1>i1. TypeOK'
  BY DEF TypeOK, Labels, States, FamilyInv
<1>i2. HartInv' /\ LockInv' /\ PlaceInv' /\ IndexInv'
  BY DEF TypeOK, HartInv, LockInv, Owns, PlaceInv, Locking, IndexInv
<1>i3. FamilyInv' /\ ScanInv' /\ ExitInv' /\ WaitInv'
  BY DEF TypeOK, PlaceInv, FamilyInv, ScanInv, Locking, ExitInv, Exiting, WaitInv
<1> QED
  BY <1>i1, <1>i2, <1>i3, Zenon

-----------------------------------------------------------------------------
(* userinit(): the table with init alone. *)
LEMMA InitInv == Init => ProcInv
<1> SUFFICES ASSUME Init PROVE ProcInv
  BY Zenon
<1> USE Constants, ProcAssumption DEF Init
<1>1. TypeOK
  BY DEF TypeOK, States, Labels
<1>2. HartInv /\ LockInv
  BY Zenon DEF HartInv, LockInv, Owns
<1>3. PlaceInv /\ IndexInv
  BY Zenon DEF PlaceInv, IndexInv, Locking
<1>4. FamilyInv
  BY DEF FamilyInv
<1>5. ScanInv /\ ExitInv /\ WaitInv
  BY Zenon DEF ScanInv, ExitInv, Exiting, WaitInv
<1> QED
  BY <1>1, <1>2, <1>3, <1>4, <1>5, Zenon DEF ProcInv

(* Every step of a hart keeps the invariant. *)
LEMMA StepInv == ProcInv /\ [Next]_vars => ProcInv'
<1> SUFFICES ASSUME ProcInv, [Next]_vars PROVE ProcInv'
  BY Zenon
<1>1. ASSUME NEW c \in CPUs, Kernel(c) PROVE ProcInv'
  BY Zenon, <1>1, AllocScanStep, AllocFullStep, ForkDoneStep, ForkFailStep,
     ExitWakeInitStep,
     ExitReadParentStep, ExitLockParentStep, ExitLockSelfStep, ReparentScanStep,
     ReparentAdoptStep, ExitZombieStep, WaitLockStep, WaitScanStep, WaitLiveStep,
     WaitReapStep, WaitFaultStep, WaitNoneStep, WaitSleepStep, WaitWokenStep DEF Kernel
<1>2. ASSUME NEW c \in CPUs, Yield(c) \/ SwitchBack(c) PROVE ProcInv'
  BY <1>2, YieldStep, SwitchBackStep, Zenon
<1>3. ASSUME NEW c \in CPUs, ForkCall(c) \/ ExitCall(c) \/ WaitCall(c) PROVE ProcInv'
  BY <1>3, ForkCallStep, ExitCallStep, WaitCallStep, Zenon
<1>4. ASSUME NEW c \in CPUs, NEW p \in Slots, Dispatch(c, p) \/ Kill(c, p) PROVE ProcInv'
  BY <1>4, DispatchStep, KillStep, ZenonT(40)
<1>5. CASE UNCHANGED vars
  BY <1>5 DEF vars, ProcInv, TypeOK, HartInv, LockInv, Owns, PlaceInv, IndexInv,
     FamilyInv,
              ScanInv, ExitInv, WaitInv
<1> QED
  BY <1>1, <1>2, <1>3, <1>4, <1>5, Zenon DEF Next
-----------------------------------------------------------------------------
(* LockInv says of single locks what LockBalance says of the set a hart holds. *)
LEMMA InvBalance == ProcInv => LockBalance
<1> SUFFICES ASSUME ProcInv, NEW c \in CPUs PROVE Held(c) = Expected(c)
  BY Zenon DEF LockBalance
<1>1. \A s \in Slots : s \in Held(c) <=> Owns(c, s)
  BY Zenon DEF ProcInv, LockInv, Held
<1>2. sched[c] \in {"idle", "run", "back"}
  BY Zenon DEF ProcInv, TypeOK
<1>3. sched[c] # "idle" => proc[c] \in Slots
  BY DEF ProcInv, TypeOK, HartInv
<1>4. CASE sched[c] = "idle"
  <2>1. Expected(c) = {}
    BY <1>4, Zenon DEF Expected
  <2> QED
    BY <1>1, <1>4, <2>1, Zenon DEF Owns, Held
<1>5. CASE sched[c] = "back"
  <2>1. Expected(c) = {proc[c]}
    BY <1>5, Zenon DEF Expected
  <2> QED
    BY <1>1, <1>3, <1>5, <2>1, Zenon DEF Owns, Held
<1>6. CASE sched[c] = "run"
  <2> PICK p : p = proc[c]
    BY Zenon
  <2>1. /\ p \in Slots
        /\ pc[p] = "f_copy" => np[p] \in Slots
        /\ pc[p] \in {"x_self", "x_reparent", "x_adopt", "x_zombie"} => op[p] \in Slots
    BY <1>6, Running, Constants DEF ProcInv, TypeOK, ScanInv, ExitInv
  <2> QED
    BY <1>1, <1>6, <2>1 DEF Expected, Owns, Held
<1> QED
  BY <1>2, <1>4, <1>5, <1>6, Zenon

(* The slots a hart waits for while it holds others. *)
LEMMA Waiting ==
  ASSUME ProcInv, NEW c \in CPUs, Wants(c) # None
  PROVE  /\ sched[c] = "run" /\ proc[c] \in Slots /\ Wants(c) \in Slots
         /\ ~Owns(c, Wants(c))
         /\ pc[proc[c]] \in {"x_adopt", "w_child"} => parent[Wants(c)] = proc[c]
         /\ pc[proc[c]] = "x_self" => Wants(c) = proc[c]
         /\ (\E s \in Slots : Owns(c, s)) => pc[proc[c]] \in {"x_self", "x_adopt", "w_child"}
<1> PICK p : p = proc[c]
  BY Zenon
<1>1. sched[c] = "run"
  BY Zenon DEF Wants
<1>2. p \in Slots /\ state[p] = "RUNNING"
  BY <1>1, Running, Zenon
<1>3. pc[p] \in {"x_init", "x_parent", "x_plock", "x_self", "x_adopt", "w_lock", "w_child"}
  BY <1>1, Zenon DEF Wants
<1>4. pc[p] \in {"x_adopt", "w_child"} => np[p] \in Slots /\ parent[np[p]] = p /\ np[p] # p
  <2>1. parent[p] = p => pid[p] < pid[p] /\ pid[p] \in Int
    BY <1>2, Constants DEF ProcInv, TypeOK, FamilyInv
  <2> QED
    BY <1>2, <2>1 DEF ProcInv, ScanInv
<1>5. op[p] # None => op[p] \in Slots /\ op[p] # p /\ parent[op[p]] # p
  BY <1>2 DEF ProcInv, TypeOK, ExitInv
<1>6. pc[p] \in {"x_plock", "x_self", "x_adopt"} => op[p] # None
  BY <1>2, Zenon DEF ProcInv, ExitInv
<1> QED
  BY <1>1, <1>2, <1>3, <1>4, <1>5, <1>6, Constants, Zenon DEF Wants, Owns

(* acquire() of a lock that the hart holds does not happen. *)
LEMMA InvNoReacquire == ProcInv => NoReacquire
  BY Waiting, Zenon DEF NoReacquire, ProcInv, LockInv

(* A child is younger than its parent, so what harts hold and wait for     *)
(* cannot close into a cycle of parents.                                   *)
LEMMA InvCycle == ProcInv => CycleOnlyIfStale
<1> SUFFICES ASSUME ProcInv, NEW c \in CPUs, NEW d \in CPUs, Cycle(c, d),
                    ~Stale(c), ~Stale(d)
             PROVE  FALSE
  BY Zenon DEF CycleOnlyIfStale
<1> PICK p, q, x, y : p = proc[c] /\ q = proc[d] /\ x = Wants(c) /\ y = Wants(d)
  BY Zenon
<1>1. c # d /\ x # None /\ y # None /\ lock[x] = d /\ lock[y] = c
  BY Zenon DEF Cycle
<1>2. /\ sched[c] = "run" /\ p \in Slots /\ x \in Slots
      /\ sched[d] = "run" /\ q \in Slots /\ y \in Slots
  BY <1>1, Waiting, Zenon
<1>3. Owns(d, x) /\ Owns(c, y)
  BY <1>1, <1>2, Zenon DEF ProcInv, LockInv
<1>4. /\ pc[p] \in {"x_self", "x_adopt", "w_child"}
      /\ pc[q] \in {"x_self", "x_adopt", "w_child"}
  BY <1>1, <1>2, <1>3, Waiting, Zenon
<1>5. x = p \/ parent[x] = p
  BY <1>1, <1>4, Waiting, Zenon
<1>6. y = q \/ parent[y] = q
  BY <1>1, <1>4, Waiting, Zenon
<1>7. /\ pc[p] = "x_self" => x = p
      /\ pc[q] = "x_self" => y = q
  BY <1>1, Waiting, Zenon
<1>8. (y = p /\ pc[p] # "x_self") \/ parent[p] = y
  BY <1>2, <1>3, <1>4, Constants, Zenon DEF Owns, Stale, ProcInv, ExitInv
<1>9. (x = q /\ pc[q] # "x_self") \/ parent[q] = x
  BY <1>2, <1>3, <1>4, Constants, Zenon DEF Owns, Stale, ProcInv, ExitInv
<1>10. p # q
  BY <1>1, <1>2, Running, Zenon
<1>11. \A s, t \in Slots : parent[s] = t => pid[t] < pid[s]
  BY Constants, Zenon DEF ProcInv, FamilyInv
<1>12. \A s \in Slots : pid[s] \in Int
  BY DEF ProcInv, TypeOK
<1>13. pid[x] >= pid[p] /\ pid[p] >= pid[y] /\ pid[y] >= pid[q] /\ pid[q] >= pid[x]
  BY <1>2, <1>5, <1>6, <1>8, <1>9, <1>11, <1>12
<1>14. x = p /\ y = p /\ x = q
  BY <1>2, <1>5, <1>6, <1>8, <1>9, <1>11, <1>12, <1>13
<1> QED
  BY <1>10, <1>14, Zenon

(* A hart has its process for itself until the switch to the scheduler is *)
(* over.                                                                  *)
LEMMA InvStack == ProcInv => StackInUse
  BY Zenon DEF ProcInv, TypeOK, HartInv, StackInUse

(* The invariant contains what the callers of wait() rely on. *)
LEMMA InvFamily == ProcInv => FamilyTree
<1> SUFFICES ASSUME ProcInv PROVE FamilyTree
  BY Zenon
<1>1. NoOrphan
  BY Zenon DEF ProcInv, FamilyInv, NoOrphan
<1>2. ChildStaysChild
  BY Zenon DEF ProcInv, ScanInv, ChildStaysChild
<1>3. NoLostChild
  BY Zenon DEF ProcInv, WaitInv, NoLostChild, Asleep, ZombieChild
<1> QED
  BY <1>1, <1>2, <1>3, Zenon DEF FamilyTree

(* The locks of the process table balance and no hart blocks itself, for   *)
(* every size of the table and number of harts; harts block each other     *)
(* only through the stale original_parent of exit(); and a process that    *)
(* runs, or is on its way out of a hart, belongs to that hart alone.       *)
THEOREM TableIsSound == Spec => []TableSound
<1>1. ProcInv => TableSound
  BY InvBalance, InvNoReacquire, InvCycle, InvStack, Zenon DEF TableSound, ProcInv
<1> QED
  BY <1>1, InitInv, StepInv, PTL DEF Spec

(* fork(), exit(), reparent() and wait() keep the tree of processes whole, *)
(* and a parent other than init is woken for every child that exits.       *)
THEOREM FamilyStaysWhole == Spec => []FamilyTree
  BY InvFamily, InitInv, StepInv, PTL DEF Spec
=============================================================================
