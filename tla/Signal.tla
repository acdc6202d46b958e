------------------------------- MODULE Signal -------------------------------
(***************************************************************************)
(* Signals (kernel/proc/signal.c) with the places that send, wait for and  *)
(* deliver them: sigsend(), signal(), sigreturn(), fork(), exec(), exit(), *)
(* interruptible sleep and the way back to user space in usertrap().       *)
(*                                                                         *)
(* Each step is one critical section of p->lock, or the end of a trap.     *)
(* The trap frame is represented by the user code it resumes: a sequence   *)
(* of signals, <<>> for the program itself and <<2, 17>> for the handler   *)
(* of 17 that interrupted the handler of 2; a last element 0 is the loop   *)
(* "j 1b" at the end of the trampoline, from which no code returns.        *)
(***************************************************************************)
EXTENDS Integers, Sequences, Functions

CONSTANTS Procs, Root,     \* Root is there from the start, the others forked
          Sigs,            \* the signals in use, with SIGKILL and SIGCHLD
          MaxSends         \* bound on sigsend() calls

SIGKILL == 9
SIGCHLD == 17

ASSUME SignalAssumption ==
  Root \in Procs /\ Sigs \subseteq Nat \ {0} /\ {SIGKILL, SIGCHLD} \subseteq Sigs
  /\ MaxSends \in Nat

VARIABLES
  st,          \* "UNUSED", "user", "exec" (exec() reads the file),
               \* "ret" (a trap ends), "sleep" (interruptible), "ZOMBIE"
  pending, mask, handlers, handling, current, term, killed, \* sig_* and killed
  frame, saved,  \* trapframe and sig_saved_trapframe
  xstate, parent, sends,
  base         \* history: the frame at birth or exec()

sigs == <<pending, mask, handlers, handling, current, term, killed, saved>>
rest == <<xstate, parent, sends, base>>
vars == <<st, sigs, frame, rest>>

(* signal_proc_init(), procinit() *)
Init ==
  /\ st = [p \in Procs |-> IF p = Root THEN "user" ELSE "UNUSED"]
  /\ pending = [p \in Procs |-> {}] /\ mask = [p \in Procs |-> {}]
  /\ handlers = [p \in Procs |-> [s \in Sigs |-> "DFL"]]
  /\ handling = {} /\ killed = {}
  /\ current = [p \in Procs |-> 0] /\ term = [p \in Procs |-> 0]
  /\ frame = [p \in Procs |-> <<>>] /\ saved = frame /\ base = frame
  /\ xstate = [p \in Procs |-> 0]
  /\ parent = [p \in Procs |-> Root]
  /\ sends = 0

DiscardedBy(h, s) == h = "IGN" \/ (h = "DFL" /\ s = SIGCHLD)
Discarded(p, s) == DiscardedBy(handlers[p][s], s)
Becomes(p, state) == [st EXCEPT ![p] = state]
-----------------------------------------------------------------------------
(* Mutant: a sleeping process is not woken. *)
Mark_NoWake(q, s, state) ==
  IF Discarded(q, s)
  THEN st' = state /\ UNCHANGED <<pending, term, killed>>
  ELSE /\ pending' = [pending EXCEPT ![q] = @ \cup {s}]
       /\ term' = IF s = SIGKILL THEN [term EXCEPT ![q] = s] ELSE term
       /\ killed' = IF s = SIGKILL THEN killed \cup {q} ELSE killed
       /\ st' = state

(* signal_mark_locked(): a signal that is ignored is dropped at once,      *)
(* SIGKILL kills at once, and an interruptible sleep ends.  state is the   *)
(* state of the processes, with what the caller changes in it.             *)
Mark(q, s, state) ==
  IF Discarded(q, s)
  THEN st' = state /\ UNCHANGED <<pending, term, killed>>
  ELSE /\ pending' = [pending EXCEPT ![q] = @ \cup {s}]
       /\ term' = IF s = SIGKILL THEN [term EXCEPT ![q] = s] ELSE term
       /\ killed' = IF s = SIGKILL THEN killed \cup {q} ELSE killed
       /\ st' = [state EXCEPT ![q] = IF @ = "sleep" THEN "ret" ELSE @]

(* A system call: a process that was killed exits instead (see Exit). *)
Syscall(p) ==
  /\ st[p] = "user" /\ p \notin killed
  /\ frame[p] # <<>> => frame[p][Len(frame[p])] # 0

(* sigsend() or kill() of one process *)
Sigsend(p, q, s) ==
  /\ Syscall(p) /\ sends < MaxSends
  /\ st[q] # "UNUSED"
  /\ Mark(q, s, Becomes(p, "ret"))
  /\ sends' = sends + 1
  /\ UNCHANGED <<mask, handlers, handling, current, saved, frame, xstate,
                 parent, base>>

(* signal(): SIGKILL is refused, and what is now ignored is not pending *)
SetHandler(p, s, h) ==
  /\ Syscall(p) /\ s # SIGKILL
  /\ handlers' = [handlers EXCEPT ![p][s] = h]
  /\ pending' = IF DiscardedBy(h, s) THEN [pending EXCEPT ![p] = @ \ {s}]
                                     ELSE pending
  /\ st' = Becomes(p, "ret")
  /\ UNCHANGED <<mask, handling, current, term, killed, saved, frame, rest>>

(* A handler returns to the trampoline, which calls sigreturn() and, if    *)
(* that fails, loops for ever.                                             *)
Sigreturn(p) ==
  /\ Syscall(p) /\ frame[p] # <<>>
  /\ st' = Becomes(p, "ret")
  /\ IF p \in handling
     THEN /\ frame' = [frame EXCEPT ![p] = saved[p]]
          /\ saved' = [saved EXCEPT ![p] = <<>>]
          /\ mask' = [mask EXCEPT ![p] = @ \ {current[p]}]
          /\ handling' = handling \ {p}
          /\ current' = [current EXCEPT ![p] = 0]
          /\ UNCHANGED base
     ELSE /\ frame' = [frame EXCEPT ![p] = Append(@, 0)]
          /\ base' = [base EXCEPT ![p] = frame'[p]]
          /\ UNCHANGED <<saved, mask, handling, current>>
  /\ UNCHANGED <<pending, handlers, term, killed, xstate, parent, sends>>

(* fork() with signal_proc_fork(): the child gets the mask, the handlers   *)
(* and the trap frame, but neither pending signals nor sig_handling.       *)
Fork(p, q) ==
  /\ Syscall(p) /\ st[q] = "UNUSED"
  /\ st' = [st EXCEPT ![p] = "ret", ![q] = "user"]
  /\ mask' = [mask EXCEPT ![q] = mask[p]]
  /\ handlers' = [handlers EXCEPT ![q] = handlers[p]]
  /\ frame' = [frame EXCEPT ![q] = frame[p]]
  /\ base' = [base EXCEPT ![q] = frame[p]]
  /\ parent' = [parent EXCEPT ![q] = p]
  /\ UNCHANGED <<pending, handling, current, term, killed, saved, xstate, sends>>

(* exec() reads the program, a long time in which signals arrive, ... *)
ExecLoad(p) ==
  /\ Syscall(p)
  /\ st' = Becomes(p, "exec")
  /\ UNCHANGED <<sigs, frame, rest>>

ExecFail(p) ==
  /\ st[p] = "exec"
  /\ st' = Becomes(p, "ret")
  /\ UNCHANGED <<sigs, frame, rest>>

(* ... installs it and calls signal_reset_on_exec(). *)
ExecCommit(p) ==
  /\ st[p] = "exec"
  /\ st' = Becomes(p, "ret")
  /\ handlers' = [handlers EXCEPT ![p] =
       [s \in Sigs |-> IF @[s] = "IGN" THEN "IGN" ELSE "DFL"]]
  /\ pending' = [pending EXCEPT ![p] = {}]
  /\ mask' = [mask EXCEPT ![p] = {}]
  /\ handling' = handling \ {p}
  /\ current' = [current EXCEPT ![p] = 0]
  /\ term' = [term EXCEPT ![p] = 0]
  /\ saved' = [saved EXCEPT ![p] = <<>>]
  /\ frame' = [frame EXCEPT ![p] = <<>>]
  /\ base' = [base EXCEPT ![p] = <<>>]
  /\ UNCHANGED <<killed, xstate, parent, sends>>

(* The signals that get through the mask; SIGKILL always does. *)
Deliverable(p) == (pending[p] \ mask[p]) \cup (pending[p] \cap {SIGKILL})

(* signal_pending_locked() *)
SignalPending(p) == p \in killed \/ Deliverable(p) # {}

(* sleep_interruptible(), in sleep(), read(), write() or wait() *)
Sleep(p) ==
  /\ Syscall(p)
  /\ st' = Becomes(p, IF SignalPending(p) THEN "ret" ELSE "sleep")
  /\ UNCHANGED <<sigs, frame, rest>>

(* What p slept for has happened. *)
Wakeup(p) ==
  /\ st[p] = "sleep"
  /\ st' = Becomes(p, "ret")
  /\ UNCHANGED <<sigs, frame, rest>>

(* A device or timer interrupt from user mode. *)
Interrupt(p) ==
  /\ st[p] = "user"
  /\ st' = Becomes(p, "ret")
  /\ UNCHANGED <<sigs, frame, rest>>

(* signal_exit_status() *)
ExitStatus(t) == IF t # 0 THEN -t ELSE -1

(* signal_choose(): SIGKILL first, then by number *)
Chosen(p) ==
  IF SIGKILL \in pending[p] THEN SIGKILL
  ELSE CHOOSE x \in Deliverable(p) : \A y \in Deliverable(p) : x <= y

(* Mutant: any signal may interrupt a handler. *)
Deliver_Nests(p) ==
  LET s == Chosen(p)
  IN /\ st[p] = "ret" /\ p \notin killed
     /\ Deliverable(p) # {} /\ handlers[p][s] = "H"
     /\ st' = Becomes(p, "user")
     /\ pending' = [pending EXCEPT ![p] = @ \ {s}]
     /\ saved' = [saved EXCEPT ![p] = frame[p]]
     /\ frame' = [frame EXCEPT ![p] = Append(@, s)]
     /\ handling' = handling \cup {p}
     /\ current' = [current EXCEPT ![p] = s]
     /\ mask' = [mask EXCEPT ![p] = @ \cup {s}]
     /\ UNCHANGED <<handlers, term, killed, rest>>

(* signal_deliver() finds nothing to do: nothing gets through, or a        *)
(* handler is running.                                                     *)
Return(p) ==
  /\ st[p] = "ret" /\ p \notin killed
  /\ Deliverable(p) = {} \/ (p \in handling /\ SIGKILL \notin pending[p])
  /\ st' = Becomes(p, "user")
  /\ UNCHANGED <<sigs, frame, rest>>

(* signal_deliver() enters a handler. *)
Deliver(p) ==
  LET s == Chosen(p)
  IN /\ st[p] = "ret" /\ p \notin killed
     /\ Deliverable(p) # {} /\ p \notin handling /\ handlers[p][s] = "H"
     /\ st' = Becomes(p, "user")
     /\ pending' = [pending EXCEPT ![p] = @ \ {s}]
     /\ saved' = [saved EXCEPT ![p] = frame[p]]
     /\ frame' = [frame EXCEPT ![p] = Append(@, s)]
     /\ handling' = handling \cup {p}
     /\ current' = [current EXCEPT ![p] = s]
     /\ mask' = [mask EXCEPT ![p] = @ \cup {s}]
     /\ UNCHANGED <<handlers, term, killed, rest>>

(* exit(): the parent gets SIGCHLD; a parent outside the model is init's   *)
(* family, and init is the parent once the parent has exited.              *)
Leave(p, status) ==
  /\ IF p = Root \/ st[parent[p]] = "ZOMBIE"
     THEN st' = Becomes(p, "ZOMBIE") /\ UNCHANGED <<pending, term, killed>>
     ELSE Mark(parent[p], SIGCHLD, Becomes(p, "ZOMBIE"))
  /\ xstate' = [xstate EXCEPT ![p] = status]
  /\ UNCHANGED <<mask, handlers, handling, current, saved, frame, parent, sends,
                 base>>

(* signal_deliver() can act: SIGKILL interrupts even a handler. *)
CanAct(p) == Deliverable(p) # {} /\ (p \notin handling \/ SIGKILL \in pending[p])

(* signal_deliver() meets a signal whose default is to terminate, or whose *)
(* handler is no longer mapped, and usertrap() calls exit().               *)
Terminate(p) ==
  /\ st[p] = "ret" /\ CanAct(p)
  /\ Leave(p, ExitStatus(Chosen(p)))

(* usertrap() finds p->killed on its way in, or on its way out when        *)
(* signal_deliver() has nothing to terminate the process with.             *)
ExitKilled(p) ==
  /\ p \in killed
  /\ \/ st[p] = "user"
     \/ st[p] = "ret" /\ (CanAct(p) => handlers[p][Chosen(p)] = "H")
  /\ Leave(p, ExitStatus(term[p]))

(* exit() called by the program *)
ExitSelf(p) == Syscall(p) /\ Leave(p, 0)

(* usertrap() after an exception it cannot resolve *)
Fault(p) ==
  /\ st[p] = "user"
  /\ killed' = killed \cup {p}
  /\ st' = Becomes(p, "ret")
  /\ UNCHANGED <<pending, mask, handlers, handling, current, term, saved, frame,
                 rest>>
-----------------------------------------------------------------------------
User(p) ==
  \/ \E q \in Procs, s \in Sigs : Sigsend(p, q, s)
  \/ \E s \in Sigs, h \in {"DFL", "IGN", "H"} : SetHandler(p, s, h)
  \/ Sigreturn(p)
  \/ \E q \in Procs : Fork(p, q)
  \/ ExecLoad(p)
  \/ Sleep(p)
  \/ ExitSelf(p)
  \/ Fault(p)

Kernel(p) ==
  \/ ExecFail(p) \/ ExecCommit(p)
  \/ Return(p) \/ Deliver(p) \/ Terminate(p) \/ ExitKilled(p)

Next == \E p \in Procs : User(p) \/ Kernel(p) \/ Wakeup(p) \/ Interrupt(p)

Spec == Init /\ [][Next]_vars
-----------------------------------------------------------------------------
(* The signal state keeps its shape: bit sets over the signals in use, and *)
(* sig_current is a signal exactly while sig_handling is set.              *)
TypeOK ==
  /\ st \in [Procs -> {"UNUSED", "user", "exec", "ret", "sleep", "ZOMBIE"}]
  /\ pending \in [Procs -> SUBSET Sigs] /\ mask \in [Procs -> SUBSET Sigs]
  /\ handlers \in [Procs -> [Sigs -> {"DFL", "IGN", "H"}]]
  /\ handling \subseteq Procs /\ killed \subseteq Procs
  /\ \A p \in Procs : IF p \in handling THEN current[p] \in Sigs
                                        ELSE current[p] = 0
  /\ term \in [Procs -> {0, SIGKILL}]
  /\ sends \in 0 .. MaxSends

(* A handler that signal_deliver() started resumes what it interrupted:    *)
(* the one saved trap frame is that of the code below the handler, and no  *)
(* second handler starts on top of it.                                     *)
HandlerResumes ==
  \A p \in Procs : frame[p] # base[p] =>
    /\ p \in handling
    /\ saved[p] = base[p]
    /\ frame[p] = Append(base[p], current[p])

(* A signal is masked exactly while a handler of it is on the stack of     *)
(* user frames: sigreturn() and exec() leave nothing masked behind.        *)
MaskIsFrames == \A p \in Procs : mask[p] = Range(frame[p]) \ {0}

(* No process sleeps interruptibly through a signal that it should act on: *)
(* the check in sleep_on() and the wakeup in signal_mark_locked() leave no *)
(* gap between them.                                                       *)
NoSleepThroughSignal ==
  \A p \in Procs : st[p] = "sleep" => ~SignalPending(p)

(* An ignored signal is never pending, whatever the order of signal(),     *)
(* sigsend(), fork() and exec(): it can interrupt no sleep.                *)
IgnoredNotPending ==
  \A p \in Procs : \A s \in pending[p] : ~Discarded(p, s)

(* A handler resumes what it interrupted, nothing stays masked without a   *)
(* handler, nobody sleeps through a signal to act on, and an ignored       *)
(* signal is never pending (signal_deliver(), sigreturn(), sleep_on(),     *)
(* signal_mark_locked()).                                                  *)
SignalsSound ==
  TypeOK /\ HandlerResumes /\ MaskIsFrames /\ NoSleepThroughSignal /\ IgnoredNotPending

(* A process that was killed exits, wherever the signal found it: asleep,  *)
(* in a handler, or in the middle of exec().                               *)
KilledExits == \A p \in Procs : p \in killed ~> st[p] = "ZOMBIE"

(* A signal that gets through the mask is acted on, unless it is discarded *)
(* or a handler is still running.                                          *)
Delivered ==
  \A p \in Procs : Deliverable(p) # {} ~>
    (Deliverable(p) = {} \/ p \in handling \/ st[p] = "ZOMBIE")

(* Documented: "when a user handler returns [...] it must call sigreturn() *)
(* to restore the full registers".  No process is left in the loop behind  *)
(* the trampoline's sigreturn().                                           *)
HandlersReturn ==
  \A p \in Procs : frame[p] # <<>> => frame[p][Len(frame[p])] # 0
=============================================================================
