----------------------------- MODULE MCProgress -----------------------------
(***************************************************************************)
(* Progress of processes: the scheduler starves nobody (Mlfq), a killed    *)
(* process exits and signals are acted on (Signal), and ^C ends the job in *)
(* the foreground (Tty).  As in MCProcesses, "on" says which of the models *)
(* takes steps.                                                            *)
(***************************************************************************)
EXTENDS Mlfq

CONSTANTS Procs, Root, Sigs, MaxSends, Pids, Bytes, FIFO, RING, MaxTyped, MaxOps

VARIABLES
  on,
  st, pending, mask, handlers, handling, current, term, killed, frame, saved,
  xstate, parent, sends, base,
  fifo, ring, typed, mode, dropLf, eof, event, fg, owner, sent, tpc, par, grp,
  sig, dfl, rd, sh, kid, back, intr, blank, ops, cut, wiped, bgs, slain

T == INSTANCE Tty WITH pc <- tpc
tvars == <<fifo, ring, typed, mode, dropLf, eof, event, fg, owner, sent, tpc,
           par, grp, sig, dfl, rd, sh, kid, back, intr, blank, ops, cut, wiped,
           bgs, slain>>

S == INSTANCE Signal
svars == <<st, pending, mask, handlers, handling, current, term, killed, frame,
           saved, xstate, parent, sends, base>>

MCInit == on \in {"mlfq", "signal", "tty"} /\ Init /\ S!Init /\ T!Init

MCNext ==
  /\ UNCHANGED on
  /\ \/ on = "mlfq" /\ Next /\ UNCHANGED <<svars, tvars>>
     \/ on = "signal" /\ S!Next /\ UNCHANGED <<vars, tvars>>
     \/ on = "tty" /\ T!Next /\ UNCHANGED <<vars, svars>>

(* The scheduler loop runs, and the timer keeps interrupting every hart. *)
MlfqFairness ==
  \A c \in CPUs : /\ WF_vars(on = "mlfq" /\ Scheduler(c))
                  /\ SF_vars(on = "mlfq" /\ Tick(c))

(* A process in the kernel gets to the end of its trap, for which Mlfq's   *)
(* NoStarvation is the reason, and the timer interrupts one in user space. *)
SignalFairness ==
  \A p \in Procs : /\ WF_svars(on = "signal" /\ S!Kernel(p))
                   /\ WF_svars(on = "signal" /\ S!Interrupt(p))

(* A receive interrupt is served, an event is dispatched at the end of     *)
(* some trap, and a process gets to the end of its system call.            *)
TtyFairness ==
  /\ WF_tvars(on = "tty" /\ T!RxService)
  /\ WF_tvars(on = "tty" /\ (T!DispatchTake \/ T!DispatchSend))
  /\ \A p \in Pids :
       WF_tvars(on = "tty" /\ (\/ T!Tick(p) \/ T!SetModeFlush(p) \/ T!Clear(p)
                               \/ T!ReadEof(p) \/ T!Fetch(p) \/ T!TtyChar(p)))

MCSpec ==
  /\ MCInit /\ [][MCNext]_<<on, vars, svars, tvars>>
  /\ MlfqFairness /\ SignalFairness /\ TtyFairness

MCSlices == <<1, 2>>

(* No starvation: a RUNNABLE process runs again, however often devices     *)
(* promote the others.  The boost (mlfq_boost_if_needed) makes it true.    *)
NoStarvation ==
  \A p \in Slots :
    (on = "mlfq" /\ state[p] = "RUNNABLE") ~> (state[p] = "RUNNING")

(* SIGKILL ends a process wherever it finds it: asleep, in a handler, or   *)
(* in the middle of exec(); and a signal that gets through the mask is     *)
(* acted on, unless it is discarded or a handler is still running.         *)
SignalsAct == S!KilledExits /\ S!Delivered

(* ^C ends the job in the foreground, once its program runs, unless a      *)
(* change of mode wipes the event or the foreground changes                *)
(* (console_rx_observer(), console_dispatch_events(), signal_send_pgrp()). *)
InterruptEndsJob == T!InterruptEndsJob
=============================================================================
