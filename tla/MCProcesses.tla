---------------------------- MODULE MCProcesses ----------------------------
(***************************************************************************)
(* Safety of processes: the process table (Proc), what the shell makes of  *)
(* a line (Shell) and its terminal and jobs (Tty).  The models share no    *)
(* state, so one run explores them side by side: "on" says which one takes *)
(* steps, and the others stay in their initial states.                     *)
(***************************************************************************)
EXTENDS Proc, Sequences, TLC

CONSTANTS ShellSlots, NOFILE, NFILE, NPIPE, MAXARGS, Input,
          Pids, Bytes, FIFO, RING, MaxTyped, MaxOps

VARIABLES
  on,
  want, cmd, hst, hpar, code, fds, reg, ref, kind, open, full, held, input,
  fifo, ring, typed, mode, dropLf, eof, event, fg, owner, sent, tpc, par, grp,
  sig, dfl, rd, sh, kid, back, intr, blank, ops, cut, wiped, bgs, slain

H == INSTANCE Shell WITH Slots <- ShellSlots, st <- hst, par <- hpar
T == INSTANCE Tty WITH pc <- tpc

hvars == <<want, cmd, hst, hpar, code, fds, reg, ref, kind, open, full, held,
           input>>
tvars == <<fifo, ring, typed, mode, dropLf, eof, event, fg, owner, sent, tpc,
           par, grp, sig, dfl, rd, sh, kid, back, intr, blank, ops, cut, wiped,
           bgs, slain>>

(* Commands: every kind of node inside every other that changes what       *)
(* descriptors or children a process has                                   *)
MCTrees ==
  LET a == H!EXEC(1)
      none == H!EXEC(0)
  IN {a, H!PIPE(a, a), H!PIPE(a, H!PIPE(a, a)), H!PIPE(H!LIST(a, a), a),
      H!LIST(H!BACK(H!PIPE(a, a)), a), H!PIPE(H!REDIR(a, 0), H!REDIR(a, 1)),
      H!REDIR(H!REDIR(H!LIST(none, H!BACK(a)), 0), 1), H!BACK(H!BACK(a)),
      H!PIPE(H!BACK(a), H!EXEC(2)), H!LIST(H!REDIR(H!REDIR(a, 0), 1), none)}

MCInit ==
  /\ on \in {"proc", "shell", "tty"}
  /\ Init /\ T!Init
  /\ H!Init(IF on = "shell" THEN MCTrees ELSE {H!EXEC(1)})

MCNext ==
  /\ UNCHANGED on
  /\ \/ on = "proc" /\ Next /\ UNCHANGED <<hvars, tvars>>
     \/ on = "shell" /\ H!Next /\ UNCHANGED <<vars, tvars>>
     \/ on = "tty" /\ T!Next /\ UNCHANGED <<vars, hvars>>

MCSpec == MCInit /\ [][MCNext]_<<on, vars, hvars, tvars>>

Symmetry == Permutations(CPUs)

(* A command line does what it says and ends: parsecmd() reads it as the   *)
(* tree it means; the counts of the file table are the descriptors that    *)
(* refer to each file, and an end of a pipe is open exactly while some     *)
(* descriptor can use it (fileclose()); and its processes never all wait,  *)
(* for an end of file, for room in a pipe or for a child, before the shell *)
(* prompts (runcmd()).                                                     *)
LineRuns == on = "shell" => H!LineSound /\ H!PipelineNeverStuck

(* The terminal serves its readers, and the shell never panics over its    *)
(* jobs (uarths_read(), console_set_foreground_pgrp(), setpgid()); ^C      *)
(* never ends a background job; and unless a signal cut its wait() short,  *)
(* the shell prompts only when its job is over (main() of sh.c).           *)
JobsUnlessCut == on = "tty" => T!TerminalServes /\ T!JobsUnlessCut
=============================================================================
