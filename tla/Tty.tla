-------------------------------- MODULE Tty ---------------------------------
(***************************************************************************)
(* The terminal: the receive side of the UARTHS driver                     *)
(* (kernel/driver/uarths.c), the console on top of it                      *)
(* (kernel/devsw/console.c) and the job control of the shell               *)
(* (user/sh/sh.c), which init restarts.                                    *)
(*                                                                         *)
(* A step is one critical section of uarths_rx.lock or cons.lock, or one   *)
(* system call.  Pids are not reused.  The echo is left out, and so are    *)
(* the editing keys of getcmd() and commands with pipes or lists, whose    *)
(* processes share one group.                                              *)
(***************************************************************************)
EXTENDS Integers, Sequences, FiniteSets

CONSTANTS Pids,              \* 1 is the first shell
          Bytes,             \* of "C" (^C), "D" (^D), "x", "CR", "LF"
          FIFO, RING,        \* sizes of the receive FIFO and of the ring
          MaxTyped, MaxOps   \* bounds: key presses, mode changes and flushes

VARIABLES
  fifo, ring, typed,         \* the hardware FIFO, uarths_rx.ring
  mode, dropLf, eof, event,  \* cons: drop_lf_after_cr, eof_pending, tty_events
  fg, owner,                 \* cons: foreground_pgid, foreground_owner_pgid
  sent,                      \* the group a console_dispatch_events() signals
  pc, par, grp, sig, dfl,    \* processes: parent (0: init), pgid, SIGINT
                             \* pending, SIGINT not caught
  rd,                        \* the read() a process is in
  sh, kid, back, intr, blank,   \* the shell: its pid, its last child,
                             \* background, input_interrupted, i = 0
  ops,
  cut, wiped, bgs, slain   \* history: a wait() was interrupted, an
                             \* event was cleared, background pids, pids
                             \* that SIGINT ended

line == <<fifo, ring, typed>>
cons == <<mode, dropLf, eof, event, fg, owner>>
procs == <<pc, par, grp, sig, dfl>>
shell == <<sh, kid, back, intr, blank>>
hist == <<cut, wiped, bgs, slain>>
vars == <<line, cons, sent, procs, rd, shell, ops, hist>>

Idle == [at |-> "idle", raw |-> FALSE, done |-> 0, c |-> "", stale |-> FALSE]

(* consoleinit(), uarthsinit(), and init starting sh *)
Init ==
  /\ fifo = <<>> /\ ring = <<>> /\ typed = 0
  /\ mode = "TTY" /\ dropLf = FALSE /\ eof = FALSE /\ event = FALSE
  /\ fg = 0 /\ owner = 0 /\ sent = 0
  /\ pc = [p \in Pids |-> IF p = 1 THEN "boot" ELSE "none"]
  /\ par = [p \in Pids |-> 0]
  /\ grp = [p \in Pids |-> p]
  /\ sig = {} /\ dfl = Pids
  /\ rd = [p \in Pids |-> Idle]
  /\ sh = 1 /\ kid = 0 /\ back = FALSE /\ intr = FALSE /\ blank = TRUE /\ ops = 0
  /\ cut = FALSE /\ wiped = FALSE /\ bgs = {} /\ slain = {}

Gone == {"none", "gone"}
Kernel == {"zombie", "waiting", "woken", "load", "mode", "clear"}
Exists(g) == \E p \in Pids : pc[p] \notin Gone /\ grp[p] = g
-----------------------------------------------------------------------------
(* Processes, signals and the ends of system calls *)

(* exit(): children go to init, which reaps them, and a parent in wait()   *)
(* is woken.                                                               *)
ExitPc(p) ==
  [q \in Pids |->
     IF q = p THEN IF par[p] = 0 THEN "gone" ELSE "zombie"
     ELSE IF par[q] = p /\ pc[q] = "zombie" THEN "gone"
     ELSE IF q = par[p] /\ pc[q] = "waiting" THEN "woken"
     ELSE pc[q]]

Exit(p) ==
  /\ pc' = ExitPc(p)
  /\ par' = [q \in Pids |-> IF par[q] = p THEN 0 ELSE par[q]]
  /\ sig' = sig \ {p}
  /\ UNCHANGED grp

(* The end of a trap: signal_deliver() ends the process, or the handler    *)
(* shell_sigint() runs first; then the process goes on at `next'.          *)
Return(p, next) ==
  IF p \in sig /\ p \in dfl
  THEN Exit(p) /\ slain' = slain \cup {p} /\ UNCHANGED <<dfl, intr>>
  ELSE /\ pc' = [pc EXCEPT ![p] = next]
       /\ sig' = sig \ {p}
       /\ intr' = (intr \/ (p \in sig /\ p = sh))
       /\ UNCHANGED <<par, grp, dfl, slain>>

(* A timer interrupt taken in user mode *)
Tick(p) ==
  /\ pc[p] \notin Gone \cup Kernel /\ rd[p].at = "idle" /\ p \in sig
  /\ Return(p, pc[p])
  /\ UNCHANGED <<line, cons, sent, rd, sh, kid, back, blank, ops, cut, wiped,
                 bgs>>

(* Mutant: a process asleep in read() is not woken. *)
SendInt_NoWake(g) ==
  LET hit == {p \in Pids : pc[p] \notin Gone \cup {"zombie"} /\ grp[p] = g}
  IN /\ sig' = sig \cup hit
     /\ UNCHANGED <<pc, rd>>

(* signal_send_pgrp(): SIGINT ends an interruptible sleep. *)
SendInt(g) ==
  LET hit == {p \in Pids : pc[p] \notin Gone \cup {"zombie"} /\ grp[p] = g}
  IN /\ sig' = sig \cup hit
     /\ pc' = [p \in Pids |-> IF p \in hit /\ pc[p] = "waiting"
                              THEN "woken" ELSE pc[p]]
     /\ rd' = [p \in Pids |-> IF p \in hit /\ rd[p].at = "sleep"
                              THEN [rd[p] EXCEPT !.at = "awake"] ELSE rd[p]]

(* console_dispatch_events(), at the end of a trap on some hart: the event *)
(* and the foreground group are taken under cons.lock ...                  *)
DispatchTake ==
  /\ event /\ sent = 0
  /\ event' = FALSE /\ sent' = fg
  /\ UNCHANGED <<line, mode, dropLf, eof, fg, owner, procs, rd, shell, ops, hist>>

(* ... and the signal is sent without it. *)
DispatchSend ==
  /\ sent # 0 /\ sent' = 0
  /\ SendInt(sent)
  /\ UNCHANGED <<line, cons, par, grp, dfl, shell, ops, hist>>
-----------------------------------------------------------------------------
(* The line and the receive interrupt *)

(* A key is pressed; the FIFO drops what does not fit. *)
Type(c) ==
  /\ typed < MaxTyped /\ typed' = typed + 1
  /\ fifo' = IF Len(fifo) < FIFO THEN Append(fifo, c)
                                 ELSE fifo
  /\ UNCHANGED <<ring, cons, sent, procs, rd, shell, ops, hist>>

(* uarths_rx_service() for one byte, with console_rx_observer(): ^C in TTY *)
(* mode with a foreground group is an event, anything else goes to the     *)
(* ring, if there is room, and wakes the readers.                          *)
RxService ==
  /\ fifo # <<>> /\ fifo' = Tail(fifo)
  /\ IF mode = "TTY" /\ fg > 0 /\ Head(fifo) = "C"
     THEN event' = TRUE /\ UNCHANGED <<ring, rd>>
     ELSE /\ UNCHANGED event
          /\ IF Len(ring) < RING
             THEN /\ ring' = Append(ring, Head(fifo))
                  /\ rd' = [p \in Pids |-> IF rd[p].at = "sleep"
                              THEN [rd[p] EXCEPT !.at = "awake"] ELSE rd[p]]
             ELSE UNCHANGED <<ring, rd>>
  /\ UNCHANGED <<typed, mode, dropLf, eof, fg, owner, sent, procs, shell, ops,
                 hist>>
-----------------------------------------------------------------------------
(* read() of the console *)

Size(p) == IF p = sh THEN 1 ELSE 2    \* the shell reads byte by byte

(* read() returns `r', a byte, "EOF" for 0 or "" for -1, to the caller:   *)
(* getcmd() gives up the line, ends the shell, or looks at the byte.       *)
ReadReturn(p, r) ==
  LET next == IF intr \/ p \in sig \/ r = "" THEN "flush"
              ELSE IF r = "EOF" \/ (r = "D" /\ blank) THEN "leave"
              ELSE IF r = "LF" THEN "line" ELSE "get"
  IN /\ Return(p, IF p = sh THEN next ELSE "job")
     /\ blank' = (blank /\ (p = sh => r \in {"", "EOF", "D"}))
     /\ rd' = [rd EXCEPT ![p] = Idle]

(* consoleread(): console_mode_get() chooses the kind of read ... *)
ReadStart(p) ==
  /\ pc[p] \in {"get", "job"} /\ rd[p].at = "idle"
  /\ rd' = [rd EXCEPT ![p] = IF mode = "RAW"
                             THEN [Idle EXCEPT !.at = "ring", !.raw = TRUE]
                             ELSE [Idle EXCEPT !.at = "eof"]]
  /\ UNCHANGED <<line, cons, sent, procs, shell, ops, hist>>

Going(p, r) == rd' = [rd EXCEPT ![p] = r] /\ UNCHANGED <<procs, intr, blank, slain>>

(* ... and console_tty_read() looks at eof_pending first. *)
ReadEof(p) ==
  /\ rd[p].at = "eof"
  /\ eof' = FALSE
  /\ IF eof THEN ReadReturn(p, "EOF") ELSE Going(p, [rd[p] EXCEPT !.at = "ring"])
  /\ UNCHANGED <<line, mode, dropLf, event, fg, owner, sent, sh, kid, back, ops,
                 cut, wiped, bgs>>

(* What console_tty_read() and console_raw_read() make of uarths_read() <= 0 *)
Nothing(p, r) == ReadReturn(p, IF rd[p].done > 0 THEN "x" ELSE r)

(* uarths_read() with uarths_rx_wait_data(): a reader that sleeps is       *)
(* interrupted by a signal, and told of a flush; console_raw_read() takes  *)
(* what there is, console_tty_read() one byte.                             *)
Fetch(p) ==
  LET woken == rd[p].at = "awake"
      k == IF Size(p) < Len(ring) THEN Size(p) ELSE Len(ring)
  IN /\ rd[p].at \in {"ring", "awake"}
     /\ IF woken /\ p \in sig
          THEN Nothing(p, "") /\ UNCHANGED ring
        ELSE IF woken /\ rd[p].stale
          THEN Nothing(p, "EOF") /\ UNCHANGED ring
        ELSE IF ring # <<>> /\ rd[p].raw
          THEN /\ ReadReturn(p, ring[1])
               /\ ring' = SubSeq(ring, k + 1, Len(ring))
        ELSE IF ring # <<>>
          THEN /\ Going(p, [rd[p] EXCEPT !.at = "byte", !.c = Head(ring)])
               /\ ring' = Tail(ring)
        ELSE IF p \in sig
          THEN Nothing(p, "") /\ UNCHANGED ring
        ELSE /\ Going(p, [rd[p] EXCEPT !.at = "sleep", !.stale = FALSE])
             /\ UNCHANGED ring
     /\ UNCHANGED <<fifo, typed, cons, sent, sh, kid, back, ops, cut, wiped, bgs>>

(* console_tty_char() and the rest of the loop: a byte that is not for the *)
(* terminal is swallowed, CR is LF and the LF after it is dropped, ^D ends *)
(* the read, and LF or a full buffer does.                                 *)
TtyChar(p) ==
  LET b == rd[p].c
      c == IF b = "CR" THEN "LF" ELSE b
      done == rd[p].done + 1
      again == [rd[p] EXCEPT !.at = "ring", !.c = "", !.stale = FALSE]
  IN /\ rd[p].at = "byte"
     /\ dropLf' = IF mode = "TTY" THEN b = "CR" ELSE dropLf
     /\ IF mode # "TTY" \/ (dropLf /\ b = "LF")
          THEN Going(p, again) /\ UNCHANGED eof
        ELSE IF c = "D"
          THEN /\ Nothing(p, "EOF")
               /\ eof' = (eof \/ rd[p].done > 0)
        ELSE /\ UNCHANGED eof
             /\ IF done = Size(p) \/ c = "LF" THEN ReadReturn(p, c)
                ELSE Going(p, [again EXCEPT !.done = done])
     /\ UNCHANGED <<line, mode, event, fg, owner, sent, sh, kid, back, ops,
                    cut, wiped, bgs>>
-----------------------------------------------------------------------------
(* ioctl() of the console *)

(* uarths_flush_rx() *)
FlushRx ==
  /\ fifo' = <<>> /\ ring' = <<>>
  /\ rd' = [p \in Pids |-> IF rd[p].at \in {"sleep", "awake"}
              THEN [rd[p] EXCEPT !.at = "awake", !.stale = TRUE] ELSE rd[p]]

(* CONSOLE_IOCTL_SET_MODE, by a job: console_set_mode() resets the console *)
(* and then flushes.                                                       *)
SetMode(p, m) ==
  /\ pc[p] = "job" /\ rd[p].at = "idle" /\ ops < MaxOps
  /\ ops' = ops + 1
  /\ mode' = m /\ dropLf' = FALSE /\ eof' = FALSE /\ event' = FALSE
  /\ wiped' = (wiped \/ event)
  /\ pc' = [pc EXCEPT ![p] = "mode"]
  /\ UNCHANGED <<line, fg, owner, sent, par, grp, sig, dfl, rd, shell, cut, bgs,
                 slain>>

SetModeFlush(p) ==
  /\ pc[p] = "mode"
  /\ FlushRx /\ Return(p, "job")
  /\ UNCHANGED <<typed, cons, sent, sh, kid, back, blank, ops, cut, wiped, bgs>>

(* CONSOLE_IOCTL_FLUSH_INPUT, by a job or by the shell after a command or  *)
(* an interrupted line: the input is discarded, then the console is reset. *)
Flush(p) ==
  /\ rd[p].at = "idle"
  /\ \/ pc[p] = "flush" /\ UNCHANGED ops
     \/ pc[p] = "job" /\ ops < MaxOps /\ ops' = ops + 1
  /\ FlushRx
  /\ pc' = [pc EXCEPT ![p] = "clear"]
  /\ UNCHANGED <<typed, cons, sent, par, grp, sig, dfl, shell, hist>>

Clear(p) ==
  /\ pc[p] = "clear"
  /\ dropLf' = FALSE /\ eof' = FALSE
  /\ Return(p, IF p = sh THEN "prompt" ELSE "job")
  /\ UNCHANGED <<line, mode, event, fg, owner, sent, rd, sh, kid, back, blank,
                 ops, cut, wiped, bgs>>

(* CONSOLE_IOCTL_SET_FG_PGRP: an owner that is gone is forgotten, the      *)
(* first caller owns the terminal, and only the owner may change the       *)
(* foreground.  The caller goes on at `next', or panics.  Nobody gives the *)
(* foreground up (pgid 0).                                                 *)
SetFg(p, g, next) ==
  LET dead == owner = 0 \/ ~Exists(owner)
      f == IF dead THEN 0 ELSE fg
      o == IF dead /\ f = 0 THEN grp[p] ELSE owner
      ok == o = grp[p] \/ f = g
  IN /\ IF Exists(g)
        THEN fg' = (IF ok THEN g ELSE f) /\ owner' = o
        ELSE UNCHANGED <<fg, owner>>
     /\ Return(p, IF Exists(g) /\ ok THEN next ELSE "panic")
     /\ UNCHANGED <<line, mode, dropLf, eof, event, sent, rd, sh, kid, back, blank,
                    ops, cut, wiped, bgs>>
-----------------------------------------------------------------------------
(* The shell: main() of sh.c *)

others == <<line, sent, rd, ops, wiped>>

(* signal(SIGINT, shell_sigint), setpgid(0, 0) ... *)
Boot ==
  /\ pc[sh] = "boot"
  /\ pc' = [pc EXCEPT ![sh] = "own fg"]
  /\ grp' = [grp EXCEPT ![sh] = sh] /\ dfl' = dfl \ {sh}
  /\ UNCHANGED <<others, cons, par, sig, shell, cut, bgs, slain>>

(* ... and the terminal is the shell's. *)
BootFg == pc[sh] = "own fg" /\ SetFg(sh, sh, "prompt")

(* getcmd() starts a line. *)
Prompt ==
  /\ pc[sh] = "prompt" /\ sh \notin sig
  /\ pc' = [pc EXCEPT ![sh] = "get"]
  /\ intr' = FALSE /\ blank' = TRUE
  /\ UNCHANGED <<others, cons, par, grp, sig, dfl, sh, kid, back, cut, bgs, slain>>

(* "cd" is done by the shell; anything else is forked. *)
Cd ==
  /\ pc[sh] = "line"
  /\ Return(sh, "prompt")
  /\ UNCHANGED <<others, cons, sh, kid, back, blank, cut, bgs>>

ForkJob(q, b) ==
  /\ pc[sh] = "line" /\ sh \notin sig
  /\ pc[q] = "none" /\ \A r \in Pids : r < q => pc[r] # "none"
  /\ pc' = [pc EXCEPT ![sh] = "pset", ![q] = "child"]
  /\ par' = [par EXCEPT ![q] = sh]
  /\ grp' = [grp EXCEPT ![q] = grp[sh]]
  /\ dfl' = dfl \ {q}
  /\ kid' = q /\ back' = b
  /\ bgs' = IF b THEN bgs \cup {q} ELSE bgs
  /\ UNCHANGED <<others, cons, sig, sh, intr, blank, cut, slain>>

(* Mutant: a background job gets the foreground too. *)
ParentSetpgid_AnyJob ==
  /\ pc[sh] = "pset" /\ sh \notin sig
  /\ grp' = [grp EXCEPT ![kid] = kid]
  /\ pc' = [pc EXCEPT ![sh] = "fg"]
  /\ UNCHANGED <<others, cons, par, sig, dfl, shell, cut, bgs, slain>>

(* setpgid(pid, pid) *)
ParentSetpgid ==
  LET ok == pc[kid] \notin Gone /\ par[kid] = sh
  IN /\ pc[sh] = "pset" /\ sh \notin sig
     /\ grp' = IF ok THEN [grp EXCEPT ![kid] = kid] ELSE grp
     /\ pc' = [pc EXCEPT ![sh] = IF ~ok THEN "panic" ELSE
                                 IF back THEN "wait" ELSE "fg"]
     /\ UNCHANGED <<others, cons, par, sig, dfl, shell, cut, bgs, slain>>

JobFg == pc[sh] = "fg" /\ SetFg(sh, kid, "wait")

(* wait(0): any child that has exited; a signal interrupts the sleep, and  *)
(* the shell goes on as if its job had ended.                              *)
Wait ==
  LET kids == {q \in Pids : par[q] = sh /\ pc[q] \notin Gone}
      dead == {q \in kids : pc[q] = "zombie"}
      next == IF back THEN "flush" ELSE "back"
      look == pc[sh] = "wait" \/ sh \notin sig
  IN /\ pc[sh] \in {"wait", "woken"}
     /\ \/ /\ look
           /\ \E q \in dead :
                pc' = [pc EXCEPT ![q] = "gone", ![sh] = next]
           /\ sig' = sig \ {sh} /\ intr' = (intr \/ sh \in sig)
           /\ UNCHANGED <<cut, slain>>
        \/ /\ kids = {} \/ (sh \in sig /\ (look => dead = {}))
           /\ cut' = (cut \/ kids # {}) /\ Return(sh, next)
        \/ /\ look /\ kids # {} /\ dead = {} /\ sh \notin sig
           /\ pc' = [pc EXCEPT ![sh] = "waiting"]
           /\ UNCHANGED <<sig, intr, cut, slain>>
     /\ UNCHANGED <<others, cons, par, grp, dfl, sh, kid, back, blank, bgs>>

ShellFg == pc[sh] = "back" /\ SetFg(sh, sh, "flush")

(* exit(), at the end of the input or after panic() *)
Leave ==
  /\ pc[sh] \in {"leave", "panic"}
  /\ Exit(sh) /\ sh' = 0
  /\ UNCHANGED <<others, cons, dfl, kid, back, intr, blank, cut, bgs, slain>>

(* init starts another shell. *)
Restart(q) ==
  /\ sh = 0 /\ pc[q] = "none" /\ \A r \in Pids : r < q => pc[r] # "none"
  /\ pc' = [pc EXCEPT ![q] = "boot"] /\ grp' = [grp EXCEPT ![q] = 0]
  /\ sh' = q
  /\ UNCHANGED <<others, cons, par, sig, dfl, kid, back, intr, blank, cut, bgs,
                 slain>>
-----------------------------------------------------------------------------
(* The job: what a child of the shell does in main() and runcmd() *)

ChildSetpgid(p) ==
  /\ pc[p] = "child" /\ p \notin sig
  /\ pc' = [pc EXCEPT ![p] = "own"] /\ grp' = [grp EXCEPT ![p] = p]
  /\ UNCHANGED <<others, cons, par, sig, dfl, shell, cut, bgs, slain>>

(* signal(SIGINT, SIG_DFL): what is pending is delivered at once. *)
ChildDfl(p) ==
  /\ pc[p] = "own"
  /\ dfl' = dfl \cup {p}
  /\ IF p \in sig THEN Exit(p) /\ slain' = slain \cup {p}
     ELSE /\ pc' = [pc EXCEPT ![p] = IF p \in bgs THEN "wrap" ELSE "ready"]
          /\ UNCHANGED <<par, grp, sig, slain>>
  /\ UNCHANGED <<others, cons, shell, cut, bgs>>

(* BACK: another fork, and the wrapper exits. *)
Wrap(p, q) ==
  /\ pc[p] = "wrap" /\ p \notin sig
  /\ pc[q] = "none" /\ \A r \in Pids : r < q => pc[r] # "none"
  /\ pc' = [ExitPc(p) EXCEPT ![q] = "ready"]
  /\ grp' = [grp EXCEPT ![q] = grp[p]]
  /\ bgs' = bgs \cup {q}
  /\ UNCHANGED <<others, cons, par, sig, dfl, shell, cut, slain>>

(* EXEC: exec() reads the program, and forgets the signals that came. *)
ExecLoad(p) ==
  /\ pc[p] = "ready"
  /\ pc' = [pc EXCEPT ![p] = "load"]
  /\ UNCHANGED <<others, cons, par, grp, sig, dfl, shell, cut, bgs, slain>>

ExecCommit(p) ==
  /\ pc[p] = "load"
  /\ pc' = [pc EXCEPT ![p] = "job"] /\ sig' = sig \ {p}
  /\ UNCHANGED <<others, cons, par, grp, dfl, shell, cut, bgs, slain>>

(* The line was empty, or exec() failed: runcmd() exits. *)
ExecFail(p) ==
  /\ pc[p] \in {"ready", "load"}
  /\ Exit(p) /\ slain' = slain \cup ({p} \cap sig)
  /\ UNCHANGED <<others, cons, dfl, shell, cut, bgs>>

JobExit(p) ==
  /\ pc[p] = "job" /\ rd[p].at = "idle"
  /\ Exit(p)
  /\ UNCHANGED <<others, cons, dfl, shell, cut, bgs, slain>>
-----------------------------------------------------------------------------
Line == RxService \/ (\E c \in Bytes : Type(c))
Trap == DispatchTake \/ DispatchSend \/ (\E p \in Pids : Tick(p))
Reading(p) == ReadStart(p) \/ ReadEof(p) \/ Fetch(p) \/ TtyChar(p)
Ioctl(p) == (\E m \in {"TTY", "RAW"} : SetMode(p, m)) \/ SetModeFlush(p)
            \/ Flush(p) \/ Clear(p)
Main == /\ sh # 0
        /\ \/ Boot \/ BootFg \/ Prompt \/ Cd \/ ParentSetpgid \/ JobFg \/ Wait
           \/ ShellFg \/ Leave
           \/ \E q \in Pids, b \in BOOLEAN : ForkJob(q, b)
Job(p) == ChildSetpgid(p) \/ ChildDfl(p) \/ ExecLoad(p) \/ ExecCommit(p)
          \/ ExecFail(p) \/ JobExit(p) \/ (\E q \in Pids : Wrap(p, q))
Next == \/ Line \/ Trap \/ Main \/ (\E q \in Pids : Restart(q))
        \/ \E p \in Pids : Reading(p) \/ Ioctl(p) \/ Job(p)

Spec == Init /\ [][Next]_vars
-----------------------------------------------------------------------------
(* The terminal serves its readers: nobody sleeps in uarths_read() while   *)
(* the ring holds a byte or with SIGINT pending, and the shell never       *)
(* panics: its setpgid() and SET_FG_PGRP succeed however early the job     *)
(* ends, and for the next shell after it exits.                            *)
TerminalServes ==
  /\ \A p \in Pids : rd[p].at = "sleep" => ring = <<>> /\ p \notin sig
  /\ \A p \in Pids : pc[p] # "panic"

(* Jobs: ^C never ends a process of a background job; and unless a signal  *)
(* cut a wait() of the shell short, the shell reads a command only when    *)
(* the foreground is its own and its last child has ended.                 *)
JobsUnlessCut ==
  /\ slain \cap bgs = {}
  /\ ~cut /\ sh # 0 /\ pc[sh] \in {"prompt", "get", "line"}
     => fg = sh /\ (kid # 0 => pc[kid] = "gone")

(* ^C ends the job in the foreground, once its program runs, unless a      *)
(* change of mode wipes the event or the foreground changes.               *)
Ended(p) == pc[p] \in {"zombie", "gone"}
InterruptEndsJob ==
  \A j \in Pids \ {1} :
    (event /\ fg = j /\ pc[j] = "job" /\ ~wiped)
      ~> (Ended(j) \/ fg # j \/ wiped)
=============================================================================
