-------------------------------- MODULE Proc --------------------------------
(***************************************************************************)
(* The life of processes in kernel/proc/proc.c: fork(), exit(), wait(),    *)
(* reparent(), kill(), sched(), yield() and the dispatch loop, at the      *)
(* granularity of the p->lock spinlocks.                                   *)
(*                                                                         *)
(* A spinlock belongs to a hart (lk->cpu), not to a process: p->lock is    *)
(* taken by the process and released by the scheduler of the same hart     *)
(* after swtch(), and the other way round.  A step of the model ends where *)
(* the code acquires the next lock or releases one that another hart may   *)
(* be waiting for.  The scheduling policy is module Mlfq: here any         *)
(* RUNNABLE process may be picked.  Sleeping on other channels than        *)
(* wait()'s own is module Sleeplock, so SLEEPING means "in wait()" here, *)
(* with p->chan == p.                                                      *)
(***************************************************************************)
EXTENDS Integers, FiniteSets

CONSTANTS NPROC,     \* slots of the process table
          CPUs,      \* harts
          MaxPid,    \* bound: allocproc() finds no slot once nextpid passes it
          None       \* a null pointer, or no owner of a lock

ASSUME ProcAssumption ==
  /\ NPROC \in Nat /\ NPROC > 1
  /\ MaxPid \in Nat /\ MaxPid > 0
  /\ None \notin CPUs /\ None \notin 0 .. NPROC - 1

Slots == 0 .. NPROC - 1
initproc == 0        \* userinit() runs first and gets the first slot

VARIABLES
  state, parent, pid, \* fields of struct proc
  killed,             \* the slots whose p->killed is set
  lock,               \* lock[p]: the hart that holds proc[p].lock
  proc,               \* proc[c]: c->proc
  sched,              \* what hart c does: "idle" in scheduler(), "run" a
                      \* process, "back" in scheduler() after swtch()
  pc,                 \* where process p is inside the kernel
  i,                  \* loop index of the table scans
  np,                 \* the slot a scan stopped at
  havekids,           \* local of wait()
  op,                 \* original_parent of exit()
  nextpid

vars == <<state, parent, pid, killed, lock, proc, sched, pc, i, np, havekids,
          op, nextpid>>
harts == <<proc, sched>>

States == {"UNUSED", "SLEEPING", "RUNNABLE", "RUNNING", "ZOMBIE"}
Labels == {"user", "f_scan", "f_copy", "x_init", "x_parent", "x_plock",
           "x_self", "x_reparent", "x_adopt", "x_zombie", "w_lock", "w_scan",
           "w_child", "w_woken"}

Held(c) == {p \in Slots : lock[p] = c}
At(c, l) == sched[c] = "run" /\ pc[proc[c]] = l
Goto(p, l) == pc' = [pc EXCEPT ![p] = l]
Acquire(c, p) == lock[p] = None /\ lock' = [lock EXCEPT ![p] = c]
Release(p) == lock' = [lock EXCEPT ![p] = None]

(* procinit() and userinit(): init is the only process. *)
Init ==
  /\ state = [p \in Slots |-> IF p = initproc THEN "RUNNABLE" ELSE "UNUSED"]
  /\ parent = [p \in Slots |-> None]
  /\ pid = [p \in Slots |-> IF p = initproc THEN 1 ELSE 0]
  /\ killed = {}
  /\ lock = [p \in Slots |-> None]
  /\ proc = [c \in CPUs |-> None]
  /\ sched = [c \in CPUs |-> "idle"]
  /\ pc = [p \in Slots |-> "user"]
  /\ i = [p \in Slots |-> 0]
  /\ np = [p \in Slots |-> None]
  /\ havekids = [p \in Slots |-> FALSE]
  /\ op = [p \in Slots |-> None]
  /\ nextpid = 2
-----------------------------------------------------------------------------
(* scheduler(): run_proc() sets RUNNING and switches; the process comes out *)
(* of sched() still holding its lock.  yield() and forkret() release it at  *)
(* once; sleep_on() called with lk == &p->lock keeps it.                    *)
Dispatch(c, p) ==
  /\ sched[c] = "idle" /\ state[p] = "RUNNABLE" /\ lock[p] = None
  /\ state' = [state EXCEPT ![p] = "RUNNING"]
  /\ proc' = [proc EXCEPT ![c] = p]
  /\ sched' = [sched EXCEPT ![c] = "run"]
  /\ lock' = IF pc[p] = "w_woken" THEN [lock EXCEPT ![p] = c] ELSE lock
  /\ UNCHANGED <<parent, pid, killed, pc, i, np, havekids, op, nextpid>>

(* run_proc() after swtch(): c->proc = 0; then release(&p->lock). *)
SwitchBack(c) ==
  /\ sched[c] = "back"
  /\ Release(proc[c])
  /\ proc' = [proc EXCEPT ![c] = None]
  /\ sched' = [sched EXCEPT ![c] = "idle"]
  /\ UNCHANGED <<state, parent, pid, killed, pc, i, np, havekids, op, nextpid>>

(* yield() from a timer interrupt; interrupts are off while a lock is held. *)
Yield(c) ==
  LET p == proc[c] IN
  /\ sched[c] = "run" /\ Held(c) = {}
  /\ Acquire(c, p)
  /\ state' = [state EXCEPT ![p] = "RUNNABLE"]
  /\ sched' = [sched EXCEPT ![c] = "back"]
  /\ UNCHANGED <<parent, pid, killed, proc, pc, i, np, havekids, op, nextpid>>
-----------------------------------------------------------------------------
(* fork(): allocproc() looks at the slots in order, each under its lock. *)
ForkCall(c) ==
  LET p == proc[c] IN
  /\ At(c, "user") /\ p \notin killed /\ nextpid <= MaxPid
  /\ Goto(p, "f_scan") /\ i' = [i EXCEPT ![p] = 0]
  /\ UNCHANGED <<state, parent, pid, killed, lock, harts, np, havekids, op,
                 nextpid>>

AllocScan(c) ==
  LET p == proc[c]  s == i[p] IN
  /\ At(c, "f_scan") /\ s < NPROC /\ lock[s] = None
  /\ IF state[s] = "UNUSED" /\ nextpid <= MaxPid
     THEN /\ Acquire(c, s)
          /\ pid' = [pid EXCEPT ![s] = nextpid]
          /\ nextpid' = nextpid + 1
          /\ np' = [np EXCEPT ![p] = s]
          /\ i' = [i EXCEPT ![p] = 0]
          /\ Goto(p, "f_copy")
     ELSE /\ i' = [i EXCEPT ![p] = s + 1]
          /\ UNCHANGED <<lock, pid, nextpid, np, pc>>
  /\ UNCHANGED <<state, parent, killed, harts, havekids, op>>

AllocFull(c) ==
  LET p == proc[c] IN
  /\ At(c, "f_scan") /\ i[p] = NPROC
  /\ Goto(p, "user") /\ i' = [i EXCEPT ![p] = 0]
  /\ UNCHANGED <<state, parent, pid, killed, lock, harts, np, havekids, op,
                 nextpid>>

(* The child is complete: parent set, RUNNABLE, lock released. *)
ForkDone(c) ==
  LET p == proc[c]  s == np[p] IN
  /\ At(c, "f_copy")
  /\ parent' = [parent EXCEPT ![s] = p]
  /\ state' = [state EXCEPT ![s] = "RUNNABLE"]
  /\ pc' = [pc EXCEPT ![p] = "user", ![s] = "user"]
  /\ np' = [np EXCEPT ![p] = None]
  /\ Release(s)
  /\ UNCHANGED <<pid, killed, harts, i, havekids, op, nextpid>>

(* Mutant: the error path forgets the child's lock. *)
ForkFail_KeepsLock(c) ==
  LET p == proc[c]  s == np[p] IN
  /\ At(c, "f_copy")
  /\ pid' = [pid EXCEPT ![s] = 0]
  /\ np' = [np EXCEPT ![p] = None]
  /\ Goto(p, "user")
  /\ UNCHANGED <<state, parent, killed, lock, harts, i, havekids, op, nextpid>>

(* allocproc() or fork() runs out of memory: freeproc() and -1. *)
ForkFail(c) ==
  LET p == proc[c]  s == np[p] IN
  /\ At(c, "f_copy")
  /\ pid' = [pid EXCEPT ![s] = 0]
  /\ np' = [np EXCEPT ![p] = None]
  /\ Goto(p, "user")
  /\ Release(s)
  /\ UNCHANGED <<state, parent, killed, harts, i, havekids, op, nextpid>>
-----------------------------------------------------------------------------
(* exit(): by choice, or from usertrap() when killed.  init never exits. *)
ExitCall(c) ==
  /\ At(c, "user") /\ proc[c] # initproc
  /\ Goto(proc[c], "x_init")
  /\ UNCHANGED <<state, parent, pid, killed, lock, harts, i, np, havekids, op,
                 nextpid>>

(* wakeup1(): the state a process sleeping in wait() is left in *)
Woken(s) == IF state[s] = "SLEEPING" THEN "RUNNABLE" ELSE state[s]

(* init is woken first, whether or not it will get a child *)
ExitWakeInit(c) ==
  /\ At(c, "x_init") /\ lock[initproc] = None
  /\ state' = [state EXCEPT ![initproc] = Woken(initproc)]
  /\ Goto(proc[c], "x_parent")
  /\ UNCHANGED <<parent, pid, killed, lock, harts, i, np, havekids, op, nextpid>>

(* Mutant: the child keeps its own lock while it locks its parent. *)
ExitReadParent_KeepsLock(c) ==
  LET p == proc[c] IN
  /\ At(c, "x_parent") /\ Acquire(c, p)
  /\ op' = [op EXCEPT ![p] = parent[p]]
  /\ Goto(p, "x_plock")
  /\ UNCHANGED <<state, parent, pid, killed, harts, i, np, havekids, nextpid>>

(* a copy of p->parent is taken and p->lock is released again *)
ExitReadParent(c) ==
  LET p == proc[c] IN
  /\ At(c, "x_parent") /\ lock[p] = None
  /\ op' = [op EXCEPT ![p] = parent[p]]
  /\ Goto(p, "x_plock")
  /\ UNCHANGED <<state, parent, pid, killed, lock, harts, i, np, havekids,
                 nextpid>>

ExitLockParent(c) ==
  LET p == proc[c] IN
  /\ At(c, "x_plock")
  /\ Acquire(c, op[p])
  /\ Goto(p, "x_self")
  /\ UNCHANGED <<state, parent, pid, killed, harts, i, np, havekids, op, nextpid>>

ExitLockSelf(c) ==
  LET p == proc[c] IN
  /\ At(c, "x_self")
  /\ Acquire(c, p)
  /\ Goto(p, "x_reparent")
  /\ UNCHANGED <<state, parent, pid, killed, harts, i, np, havekids, op, nextpid>>

(* Mutant: the last slot of the table is not looked at. *)
ReparentScan_StopsEarly(c) ==
  LET p == proc[c]  s == i[p] IN
  /\ At(c, "x_reparent")
  /\ IF s = NPROC - 1
     THEN Goto(p, "x_zombie") /\ i' = [i EXCEPT ![p] = 0] /\ UNCHANGED np
     ELSE IF parent[s] = p
          THEN Goto(p, "x_adopt") /\ np' = [np EXCEPT ![p] = s] /\ UNCHANGED i
          ELSE i' = [i EXCEPT ![p] = s + 1] /\ UNCHANGED <<pc, np>>
  /\ UNCHANGED <<state, parent, pid, killed, lock, harts, havekids, op, nextpid>>

(* reparent(): pp->parent is read without pp->lock ... *)
ReparentScan(c) ==
  LET p == proc[c]  s == i[p] IN
  /\ At(c, "x_reparent")
  /\ IF s = NPROC
     THEN Goto(p, "x_zombie") /\ i' = [i EXCEPT ![p] = 0] /\ UNCHANGED np
     ELSE IF parent[s] = p
          THEN Goto(p, "x_adopt") /\ np' = [np EXCEPT ![p] = s] /\ UNCHANGED i
          ELSE i' = [i EXCEPT ![p] = s + 1] /\ UNCHANGED <<pc, np>>
  /\ UNCHANGED <<state, parent, pid, killed, lock, harts, havekids, op, nextpid>>

(* ... and set to initproc under it *)
ReparentAdopt(c) ==
  LET p == proc[c]  s == np[p] IN
  /\ At(c, "x_adopt") /\ lock[s] = None
  /\ parent' = [parent EXCEPT ![s] = initproc]
  /\ np' = [np EXCEPT ![p] = None]
  /\ i' = [i EXCEPT ![p] = s + 1]
  /\ Goto(p, "x_reparent")
  /\ UNCHANGED <<state, pid, killed, lock, harts, havekids, op, nextpid>>

(* SIGCHLD is ignored by default (module Signal); the original parent is   *)
(* woken, p becomes a ZOMBIE and enters the scheduler with its lock held.  *)
ExitZombie(c) ==
  LET p == proc[c]  o == op[p] IN
  /\ At(c, "x_zombie")
  /\ state' = [state EXCEPT ![o] = Woken(o), ![p] = "ZOMBIE"]
  /\ Release(o)
  /\ op' = [op EXCEPT ![p] = None]
  /\ sched' = [sched EXCEPT ![c] = "back"]
  /\ UNCHANGED <<parent, pid, killed, proc, pc, i, np, havekids, nextpid>>
-----------------------------------------------------------------------------
(* wait(): p->lock is held through the scan of the table. *)
WaitCall(c) ==
  LET p == proc[c] IN
  /\ At(c, "user") /\ p \notin killed
  /\ Goto(p, "w_lock")
  /\ UNCHANGED <<state, parent, pid, killed, lock, harts, i, np, havekids, op,
                 nextpid>>

WaitLock(c) ==
  LET p == proc[c] IN
  /\ At(c, "w_lock")
  /\ Acquire(c, p)
  /\ Goto(p, "w_scan")
  /\ UNCHANGED <<state, parent, pid, killed, harts, i, np, havekids, op, nextpid>>

WaitScan(c) ==
  LET p == proc[c]  s == i[p] IN
  /\ At(c, "w_scan") /\ s < NPROC
  /\ IF parent[s] = p
     THEN Goto(p, "w_child") /\ np' = [np EXCEPT ![p] = s] /\ UNCHANGED i
     ELSE i' = [i EXCEPT ![p] = s + 1] /\ UNCHANGED <<pc, np>>
  /\ UNCHANGED <<state, parent, pid, killed, lock, harts, havekids, op, nextpid>>

(* a child that has not exited yet *)
WaitLive(c) ==
  LET p == proc[c]  s == np[p] IN
  /\ At(c, "w_child") /\ lock[s] = None /\ state[s] # "ZOMBIE"
  /\ havekids' = [havekids EXCEPT ![p] = TRUE]
  /\ np' = [np EXCEPT ![p] = None]
  /\ i' = [i EXCEPT ![p] = s + 1]
  /\ Goto(p, "w_scan")
  /\ UNCHANGED <<state, parent, pid, killed, lock, harts, op, nextpid>>

WaitReturn(p) ==
  /\ Goto(p, "user")
  /\ i' = [i EXCEPT ![p] = 0]
  /\ np' = [np EXCEPT ![p] = None]
  /\ havekids' = [havekids EXCEPT ![p] = FALSE]
  /\ Release(p)

(* an exited child: freeproc() empties the slot, its pid is returned *)
WaitReap(c) ==
  LET p == proc[c]  s == np[p] IN
  /\ At(c, "w_child") /\ lock[s] = None /\ state[s] = "ZOMBIE"
  /\ state' = [state EXCEPT ![s] = "UNUSED"]
  /\ parent' = [parent EXCEPT ![s] = None]
  /\ pid' = [pid EXCEPT ![s] = 0]
  /\ killed' = killed \ {s}
  /\ pc' = [pc EXCEPT ![s] = "user", ![p] = "user"]
  /\ i' = [i EXCEPT ![p] = 0]
  /\ np' = [np EXCEPT ![p] = None]
  /\ havekids' = [havekids EXCEPT ![p] = FALSE]
  /\ Release(p)
  /\ UNCHANGED <<harts, op, nextpid>>

(* copyout() of the status fails: the child stays a ZOMBIE, wait() gives -1 *)
WaitFault(c) ==
  LET p == proc[c]  s == np[p] IN
  /\ At(c, "w_child") /\ lock[s] = None /\ state[s] = "ZOMBIE"
  /\ WaitReturn(p)
  /\ UNCHANGED <<state, parent, pid, killed, harts, op, nextpid>>

(* the scan is over: no children, or a signal, or sleep until one exits *)
WaitNone(c) ==
  LET p == proc[c] IN
  /\ At(c, "w_scan") /\ i[p] = NPROC /\ (~havekids[p] \/ p \in killed)
  /\ WaitReturn(p)
  /\ UNCHANGED <<state, parent, pid, killed, harts, op, nextpid>>

WaitSleep(c) ==
  LET p == proc[c] IN
  /\ At(c, "w_scan") /\ i[p] = NPROC /\ havekids[p] /\ p \notin killed
  /\ state' = [state EXCEPT ![p] = "SLEEPING"]
  /\ Goto(p, "w_woken")
  /\ sched' = [sched EXCEPT ![c] = "back"]
  /\ UNCHANGED <<parent, pid, killed, lock, proc, i, np, havekids, op, nextpid>>

(* back from sched(), holding p->lock: interrupted, or scan again *)
WaitWoken(c) ==
  LET p == proc[c] IN
  /\ At(c, "w_woken")
  /\ IF p \in killed
     THEN WaitReturn(p)
     ELSE /\ Goto(p, "w_scan")
          /\ i' = [i EXCEPT ![p] = 0]
          /\ havekids' = [havekids EXCEPT ![p] = FALSE]
          /\ UNCHANGED <<lock, np>>
  /\ UNCHANGED <<state, parent, pid, killed, harts, op, nextpid>>
-----------------------------------------------------------------------------

(* kill(): signal_send_pid() finds the slot under its lock; SIGKILL sets    *)
(* p->killed and wakes an interruptible sleep.                              *)
Kill(c, q) ==
  /\ At(c, "user") /\ proc[c] \notin killed
  /\ q # initproc /\ q \notin killed /\ lock[q] = None /\ state[q] # "UNUSED"
  /\ killed' = killed \cup {q}
  /\ state' = [state EXCEPT ![q] = Woken(q)]
  /\ UNCHANGED <<parent, pid, lock, harts, pc, i, np, havekids, op, nextpid>>
-----------------------------------------------------------------------------
(* Steps a process takes by itself inside the kernel. *)
Kernel(c) ==
  \/ AllocScan(c) \/ AllocFull(c) \/ ForkDone(c) \/ ForkFail(c)
  \/ ExitWakeInit(c) \/ ExitReadParent(c) \/ ExitLockParent(c)
  \/ ExitLockSelf(c) \/ ReparentScan(c) \/ ReparentAdopt(c) \/ ExitZombie(c)
  \/ WaitLock(c) \/ WaitScan(c) \/ WaitLive(c) \/ WaitReap(c) \/ WaitFault(c)
  \/ WaitNone(c) \/ WaitSleep(c) \/ WaitWoken(c)

Next ==
  \E c \in CPUs :
    \/ Kernel(c) \/ Yield(c) \/ SwitchBack(c)
    \/ ForkCall(c) \/ ExitCall(c) \/ WaitCall(c)
    \/ \E p \in Slots : Dispatch(c, p) \/ Kill(c, p)

Spec == Init /\ [][Next]_vars

-----------------------------------------------------------------------------
TypeOK ==
  /\ state \in [Slots -> States]
  /\ parent \in [Slots -> Slots \cup {None}]
  /\ pid \in [Slots -> 0 .. MaxPid]
  /\ killed \subseteq Slots
  /\ lock \in [Slots -> CPUs \cup {None}]
  /\ proc \in [CPUs -> Slots \cup {None}]
  /\ sched \in [CPUs -> {"idle", "run", "back"}]
  /\ pc \in [Slots -> Labels]
  /\ i \in [Slots -> 0 .. NPROC]
  /\ np \in [Slots -> Slots \cup {None}]
  /\ havekids \in [Slots -> BOOLEAN]
  /\ op \in [Slots -> Slots \cup {None}]
  /\ nextpid \in 1 .. MaxPid + 1

(* The locks the code holds at each point of the process and scheduler. *)
Expected(c) ==
  LET p == proc[c] IN
  CASE sched[c] = "idle" -> {}
    [] sched[c] = "back" -> {p}
    [] sched[c] = "run" ->
         CASE pc[p] = "f_copy" -> {np[p]}
           [] pc[p] = "x_self" -> {op[p]}
           [] pc[p] \in {"x_reparent", "x_adopt", "x_zombie"} -> {op[p], p}
           [] pc[p] \in {"w_scan", "w_child", "w_woken"} -> {p}
           [] OTHER -> {}

(* Every path through fork(), exit(), wait() and the scheduler balances its *)
(* acquires and releases: a hart holds exactly the locks its position says, *)
(* so sched() never sees noff # 1 ("sched locks", proc.c:872), and release  *)
(* never meets a lock of another hart ("release", spinlock.c:94).           *)
LockBalance == \A c \in CPUs : Held(c) = Expected(c)

(* The lock a hart is about to acquire. *)
Wants(c) ==
  LET p == proc[c] IN
  IF sched[c] # "run" THEN None
  ELSE CASE pc[p] = "x_init" -> initproc
         [] pc[p] \in {"x_parent", "x_self", "w_lock"} -> p
         [] pc[p] = "x_plock" -> op[p]
         [] pc[p] \in {"x_adopt", "w_child"} -> np[p]
         [] OTHER -> None

(* acquire() never spins on a lock its own hart holds (panic "acquire",     *)
(* spinlock.c:61): not in exit(), which takes the stale original_parent,    *)
(* then itself, then each child.                                            *)
NoReacquire == \A c \in CPUs : Wants(c) # None => lock[Wants(c)] # c

Cycle(c, d) ==
  /\ c # d
  /\ Wants(c) # None /\ lock[Wants(c)] = d
  /\ Wants(d) # None /\ lock[Wants(d)] = c

(* The parent-then-child rule (proc.c:739) makes two harts never wait for   *)
(* each other's process locks.  "The result will be a harmless spurious     *)
(* wakeup to a dead or wrong process" (proc.c:730) says a stale parent does *)
(* not change that.                                                         *)
NoLockCycle == \A c, d \in CPUs : ~Cycle(c, d)

(* The lock order of fork(), exit() and wait() is sound as long as          *)
(* original_parent is still the parent: every cycle of waiting harts goes   *)
(* through an exit() that locked a process which has given it away since.   *)
Stale(c) == op[proc[c]] # None /\ parent[proc[c]] # op[proc[c]]
CycleOnlyIfStale == \A c, d \in CPUs : Cycle(c, d) => Stale(c) \/ Stale(d)

(* Every live process but init has a parent that can still wait() for it:   *)
(* exit() hands all its children to init before it becomes a ZOMBIE, though *)
(* reparent() reads pp->parent without the lock.                            *)
NoOrphan ==
  \A p \in Slots \ {initproc} :
    state[p] # "UNUSED" =>
      parent[p] # None /\ state[parent[p]] \notin {"UNUSED", "ZOMBIE"}

(* "np->parent can't change between the check and the acquire()" (proc.c:   *)
(* 681 and 783): between the unlocked test and the lock, the slot stays a   *)
(* child of the process that scans.                                         *)
ChildStaysChild ==
  \A p \in Slots : pc[p] \in {"x_adopt", "w_child"} => parent[np[p]] = p

(* A process runs on at most one hart, and a hart that is still on the      *)
(* kernel stack of a process keeps that stack: wait() cannot free the slot  *)
(* between ZOMBIE and the switch to the scheduler.                          *)
StackInUse ==
  \A c \in CPUs : proc[c] # None =>
    /\ state[proc[c]] # "UNUSED"
    /\ sched[c] = "run" => state[proc[c]] = "RUNNING"
    /\ \A d \in CPUs : proc[d] = proc[c] => c = d

Asleep(p) == state[p] = "SLEEPING" /\ lock[p] = None
ZombieChild(p) == \E s \in Slots : state[s] = "ZOMBIE" /\ parent[s] = p

(* No lost wakeup between exit() and wait(): a parent other than init never *)
(* sleeps while a child of it waits to be reaped.                           *)
NoLostChild == \A p \in Slots \ {initproc} : ~(Asleep(p) /\ ZombieChild(p))

(* The process locks and the harts: acquires and releases balance on every  *)
(* path (panics "sched locks" and "release"), no hart spins on a lock it    *)
(* holds (panic "acquire"), two wait for each other only through a stale    *)
(* original_parent, and nobody runs or reaps a process whose kernel stack   *)
(* another hart still uses (exit(), sched()).                               *)
TableSound ==
  TypeOK /\ LockBalance /\ NoReacquire /\ CycleOnlyIfStale /\ StackInUse

(* Every live process has a parent that can wait() for it, the tests of     *)
(* pp->parent that reparent() and wait() make without a lock stay true, and *)
(* no parent but init sleeps in wait() past the exit of its child.          *)
FamilyTree == NoOrphan /\ ChildStaysChild /\ NoLostChild
=============================================================================
