------------------------------- MODULE MCProc -------------------------------
(* A process table of three or four slots and two harts. *)
EXTENDS Proc

(* A reachable state: init sleeps in wait(), and each of the other three    *)
(* processes is the parent of the next.                                     *)
FamilyInit ==
  /\ state = [p \in Slots |-> IF p = initproc THEN "SLEEPING" ELSE "RUNNABLE"]
  /\ parent = [p \in Slots |-> IF p = initproc THEN None ELSE p - 1]
  /\ pid = [p \in Slots |-> p + 1]
  /\ killed = {}
  /\ lock = [p \in Slots |-> None]
  /\ proc = [c \in CPUs |-> None]
  /\ sched = [c \in CPUs |-> "idle"]
  /\ pc = [p \in Slots |-> IF p = initproc THEN "w_woken" ELSE "user"]
  /\ i = [p \in Slots |-> IF p = initproc THEN NPROC ELSE 0]
  /\ np = [p \in Slots |-> None]
  /\ havekids = [p \in Slots |-> p = initproc]
  /\ op = [p \in Slots |-> None]
  /\ nextpid = NPROC + 1

(* Nobody is killed, and the programs of the two older processes exit       *)
(* without calling fork() or wait() again.                                  *)
FamilyNext ==
  /\ Next
  /\ killed' = {}
  /\ \A p \in {1, 2} : pc'[p] \notin {"f_scan", "w_lock"}

FamilySpec == FamilyInit /\ [][FamilyNext]_vars
=============================================================================
