------------------------------- MODULE MCLocks ------------------------------
(***************************************************************************)
(* The locks that processes wait for, sleep locks (Sleeplock) and the      *)
(* process locks in a family of four processes (MCProc), and the scheduler *)
(* (Mlfq), whose cursors have no lock.  "on" says which of the three       *)
(* models takes steps.                                                     *)
(***************************************************************************)
EXTENDS Sleeplock

CONSTANTS CPUs, NPROC, MaxPid, SchedProcs, BOOST, UINT

VARIABLES
  on,
  mstate, mpc, mi, level, sched_ticks, ticks, last_boost, rr_next, cur,
  need_resched, lev,
  fstate, parent, fpid, killed, lock, proc, sched, fpc, i, np, havekids, op,
  nextpid

M == INSTANCE Mlfq WITH NPROC <- SchedProcs, Slices <- <<1, 2>>,
                        state <- mstate, pc <- mpc, i <- mi
F == INSTANCE MCProc WITH state <- fstate, pid <- fpid, pc <- fpc

mvars == <<mstate, mpc, mi, level, sched_ticks, ticks, last_boost, rr_next, cur,
           need_resched, lev>>
fvars == <<fstate, parent, fpid, killed, lock, proc, sched, fpc, i, np,
           havekids, op, nextpid>>

MCInit ==
  on \in {"sleeplock", "mlfq", "family"} /\ Init /\ M!Init /\ F!FamilyInit

(* The family may come to rest: everybody has exited, and init waits. *)
MCNext ==
  /\ UNCHANGED on
  /\ \/ on = "sleeplock" /\ Next /\ UNCHANGED <<mvars, fvars>>
     \/ on = "mlfq" /\ M!Next /\ UNCHANGED <<vars, fvars>>
     \/ on = "family" /\ F!FamilyNext /\ UNCHANGED <<vars, mvars>>
     \/ on = "family" /\ UNCHANGED <<vars, mvars, fvars>>

(* Processes that can run do run (Mlfq's NoStarvation), and a spinlock is   *)
(* not refused for ever to the one that spins.                              *)
MCSpec ==
  /\ MCInit /\ [][MCNext]_<<on, vars, mvars, fvars>>
  /\ \A p \in Procs : WF_vars(on = "sleeplock" /\ Step(p))

(* pick_next_proc_mlfq() gives a process to one hart, on cursors that two  *)
(* harts share without a lock.                                             *)
OneHart == on = "mlfq" => M!TypeOK /\ M!RunsOnce

(* Two harts wait for each other's process locks only through an exit()    *)
(* that locked a stale original_parent.                                    *)
CycleOnlyIfStale == on = "family" => F!CycleOnlyIfStale
=============================================================================
