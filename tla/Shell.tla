------------------------------- MODULE Shell --------------------------------
(***************************************************************************)
(* What the shell (user/sh/sh.c) does with a line: parsecmd() makes a tree *)
(* of it, and runcmd() runs the tree with fork(), pipe(), dup() and        *)
(* close(), so on the descriptors of kernel/syscall/sysfile.c and the file *)
(* table of kernel/fs/file.c.                                              *)
(*                                                                         *)
(* A line is a sequence of the tokens of gettoken().  The programs copy    *)
(* descriptor 0 to descriptor 1 until the end of file, and may stop early. *)
(* A step is one system call; a pipe holds one byte.                       *)
(***************************************************************************)
EXTENDS Integers, Sequences, FiniteSets

CONSTANTS Slots,           \* slots of the process table
          NOFILE, NFILE,   \* descriptors of a process, files of the table
          NPIPE,           \* pages for pipes
          MAXARGS,
          Input            \* bytes that the terminal has

EXEC(n) == [t |-> "EXEC", argc |-> n]
REDIR(c, fd) == [t |-> "REDIR", cmd |-> c, fd |-> fd]
PIPE(l, r) == [t |-> "PIPE", left |-> l, right |-> r]
LIST(l, r) == [t |-> "LIST", left |-> l, right |-> r]
BACK(c) == [t |-> "BACK", cmd |-> c]
-----------------------------------------------------------------------------
(* The parser: a function takes a position of the line, and returns a tree *)
(* and the position after it, or Syntax when the shell panics.             *)

Syntax == [cmd |-> <<>>, at |-> 0]
Node(c, i) == [cmd |-> c, at |-> i]
Peek(s, i, toks) == i <= Len(s) /\ s[i] \in toks

(* parseredirs() *)
RECURSIVE ParseRedirs(_, _, _)
ParseRedirs(c, s, i) ==
  IF ~Peek(s, i, {"<", ">", ">>"}) THEN Node(c, i)
  ELSE IF ~Peek(s, i + 1, {"a"}) THEN Syntax
  ELSE ParseRedirs(REDIR(c, IF s[i] = "<" THEN 0 ELSE 1), s, i + 2)

(* The words of a command are counted under the redirections so far. *)
RECURSIVE Word(_)
Word(c) == IF c.t = "REDIR" THEN [c EXCEPT !.cmd = Word(c.cmd)]
                            ELSE EXEC(c.argc + 1)
RECURSIVE Argc(_)
Argc(c) == IF c.t = "REDIR" THEN Argc(c.cmd) ELSE c.argc

(* The loop of parseexec() *)
RECURSIVE ParseArgs(_, _)
ParseArgs(n, s) ==
  IF n = Syntax \/ n.at > Len(s) \/ Peek(s, n.at, {"|", ")", "&", ";"}) THEN n
  ELSE IF s[n.at] # "a" \/ Argc(n.cmd) + 1 >= MAXARGS THEN Syntax
  ELSE ParseArgs(ParseRedirs(Word(n.cmd), s, n.at + 1), s)

RECURSIVE Backs(_, _)
Backs(n, s) == IF n # Syntax /\ Peek(s, n.at, {"&"})
               THEN Backs(Node(BACK(n.cmd), n.at + 1), s) ELSE n

RECURSIVE ParseLine(_, _)
RECURSIVE ParsePipe(_, _)
ParseBlock(s, i) ==
  LET n == ParseLine(s, i + 1)
  IN IF n = Syntax \/ ~Peek(s, n.at, {")"}) THEN Syntax
     ELSE ParseRedirs(n.cmd, s, n.at + 1)

ParseExec(s, i) ==
  IF Peek(s, i, {"("}) THEN ParseBlock(s, i)
  ELSE ParseArgs(ParseRedirs(EXEC(0), s, i), s)

ParsePipe(s, i) ==
  LET n == ParseExec(s, i)
      m == ParsePipe(s, n.at + 1)
  IN IF n = Syntax \/ ~Peek(s, n.at, {"|"}) THEN n
     ELSE IF m = Syntax THEN Syntax ELSE Node(PIPE(n.cmd, m.cmd), m.at)

ParseLine(s, i) ==
  LET n == Backs(ParsePipe(s, i), s)
      m == ParseLine(s, n.at + 1)
  IN IF n = Syntax \/ ~Peek(s, n.at, {";"}) THEN n
     ELSE IF m = Syntax THEN Syntax ELSE Node(LIST(n.cmd, m.cmd), m.at)

ParseCmd(s) ==
  LET n == ParseLine(s, 1)
  IN IF n = Syntax \/ n.at <= Len(s) THEN [t |-> "syntax"] ELSE n.cmd

(* Reference: the line that means a tree, by the precedence of "|", "&"    *)
(* and ";", with parentheses where a part binds less than its place.       *)
RECURSIVE Unparse(_, _)
Unparse(c, level) ==
  LET own == CASE c.t = "LIST" -> 0 [] c.t = "BACK" -> 1 [] c.t = "PIPE" -> 2
               [] OTHER -> 3
      text ==
        CASE c.t = "EXEC" -> [k \in 1 .. c.argc |-> "a"]
          [] c.t = "REDIR" -> Unparse(c.cmd, 3) \o <<IF c.fd = 0 THEN "<" ELSE ">", "a">>
          [] c.t = "PIPE" -> Unparse(c.left, 3) \o <<"|">> \o Unparse(c.right, 2)
          [] c.t = "BACK" -> Unparse(c.cmd, 1) \o <<"&">>
          [] c.t = "LIST" -> Unparse(c.left, 1) \o <<";">> \o Unparse(c.right, 0)
  IN IF own < level THEN <<"(">> \o text \o <<")">> ELSE text
-----------------------------------------------------------------------------
(* runcmd(), as the system calls of the process that runs the tree *)

Op(o, x) == [o |-> o, x |-> x]

(* Mutant: the parent of a pipeline keeps the end that it does not use. *)
ParentCloses_ReadEnd == <<Op("closep", 1)>>

(* The parent of a pipeline gives up both ends before it waits. *)
ParentCloses == <<Op("closep", 1), Op("closep", 2)>>

RECURSIVE RunCmd(_)
RunCmd(c) ==
  CASE c.t = "EXEC" -> IF c.argc = 0 THEN <<Op("exit", 0)>> ELSE <<Op("exec", 0)>>
    [] c.t = "REDIR" -> <<Op("close", c.fd), Op("open", 0)>> \o RunCmd(c.cmd)
    [] c.t = "LIST" -> <<Op("fork", RunCmd(c.left)), Op("wait", 0)>> \o RunCmd(c.right)
    [] c.t = "PIPE" ->
         <<Op("pipe", 0),
           Op("fork", <<Op("close", 1), Op("dup", 2), Op("closep", 1),
                        Op("closep", 2)>> \o RunCmd(c.left)),
           Op("fork", <<Op("close", 0), Op("dup", 1), Op("closep", 1),
                        Op("closep", 2)>> \o RunCmd(c.right))>>
         \o ParentCloses \o <<Op("wait", 0), Op("wait", 0), Op("exit", 0)>>
    [] c.t = "BACK" -> <<Op("fork", RunCmd(c.cmd)), Op("exit", 0)>>

VARIABLES want, cmd,       \* the tree of the line, and what the parser made
          st, par, code,   \* processes: "none", "run", "zombie"
          fds, reg,        \* ofile[], and p[] of runcmd()
          ref, kind,       \* ftable: counts, and what a file is
          open, full,      \* pipes: the open ends, the byte
          held, input      \* a byte a program has read, bytes of the terminal

vars == <<want, cmd, st, par, code, fds, reg, ref, kind, open, full, held, input>>

Files == 1 .. NFILE
Pipes == 1 .. NPIPE
Fds == 0 .. NOFILE - 1
Term == [t |-> "device"]
Disk == [t |-> "entry"]
End(i, e) == [t |-> "pipe", id |-> i, end |-> e]
NoFile == [t |-> "none"]
Unread == [t |-> "unread"]
Shell1 == CHOOSE p \in Slots : \A q \in Slots : p <= q

(* The shell with the terminal on 0, 1 and 2, and a line that means one of *)
(* `trees'                                                                 *)
Init(trees) ==
  /\ want \in trees /\ cmd = Unread
  /\ st = [p \in Slots |-> IF p = Shell1 THEN "run" ELSE "none"]
  /\ par = [p \in Slots |-> 0]
  /\ code = [p \in Slots |-> <<>>]
  /\ fds = [p \in Slots |-> [k \in Fds |-> IF p = Shell1 /\ k < 3 THEN 1 ELSE 0]]
  /\ reg = [p \in Slots |-> <<0, 0>>]
  /\ ref = [f \in Files |-> IF f = 1 THEN 3 ELSE 0]
  /\ kind = [f \in Files |-> IF f = 1 THEN Term ELSE NoFile]
  /\ open = [i \in Pipes |-> {}]
  /\ full = {} /\ held = {} /\ input = Input

(* main(): the line is parsed, and a child runs it; or panic("syntax"). *)
Parse ==
  LET c == ParseCmd(Unparse(want, 0))
  IN /\ cmd = Unread /\ cmd' = c
     /\ code' = [code EXCEPT ![Shell1] =
          IF c.t = "syntax" THEN <<Op("exit", 0)>>
          ELSE <<Op("fork", RunCmd(c)), Op("wait", 0), Op("prompt", 0)>>]
     /\ UNCHANGED <<want, st, par, fds, reg, ref, kind, open, full, held, input>>
-----------------------------------------------------------------------------
(* The file table *)

FreeFiles == {f \in Files : ref[f] = 0}
Least(S) == CHOOSE x \in S : \A y \in S : x <= y
FreeFds(p) == {k \in Fds : fds[p][k] = 0}

(* fileclose() of the descriptors ks of p: a file without references is    *)
(* free, and pipeclose() closes its end.                                   *)
CloseAll(p, ks) ==
  LET uses(f) == Cardinality({k \in ks : fds[p][k] = f})
      left == [f \in Files |-> ref[f] - uses(f)]
      dead == {f \in Files : ref[f] > 0 /\ left[f] = 0}
  IN /\ ref' = left
     /\ kind' = [f \in Files |-> IF f \in dead THEN NoFile ELSE kind[f]]
     /\ open' = [i \in Pipes |-> {e \in open[i] : End(i, e) \notin {kind[f] : f \in dead}}]
     /\ full' = {i \in full : open'[i] # {}}

Goes(p) == code' = [code EXCEPT ![p] = Tail(@)]
At(p, o) == st[p] = "run" /\ code[p] # <<>> /\ Head(code[p]).o = o
Arg(p) == Head(code[p]).x

Exits(p) ==
  /\ CloseAll(p, Fds)
  /\ fds' = [fds EXCEPT ![p] = [k \in Fds |-> 0]]
  /\ st' = [q \in Slots |-> IF q = p THEN IF par[p] = 0 THEN "none" ELSE "zombie"
                            ELSE IF par[q] = p /\ st[q] = "zombie" THEN "none"
                            ELSE st[q]]
  /\ par' = [q \in Slots |-> IF par[q] = p THEN 0 ELSE par[q]]
  /\ code' = [code EXCEPT ![p] = <<>>]
  /\ held' = held \ {p}

Panic(p) == Exits(p) /\ UNCHANGED reg

(* sys_close(), of a number and of p[0] or p[1] *)
CloseFd(p, k) ==
  /\ CloseAll(p, IF fds[p][k] = 0 THEN {} ELSE {k})
  /\ fds' = [fds EXCEPT ![p][k] = 0]
  /\ Goes(p) /\ UNCHANGED <<want, cmd, st, par, reg, held, input>>
Close(p) == \/ At(p, "close") /\ CloseFd(p, Arg(p))
            \/ At(p, "closep") /\ CloseFd(p, reg[p][Arg(p)])

(* sys_dup() of p[0] or p[1] *)
Dup(p) ==
  LET f == fds[p][reg[p][Arg(p)]]
  IN /\ At(p, "dup") /\ Goes(p)
     /\ IF f # 0 /\ FreeFds(p) # {}
        THEN /\ fds' = [fds EXCEPT ![p][Least(FreeFds(p))] = f]
             /\ ref' = [ref EXCEPT ![f] = @ + 1]
        ELSE UNCHANGED <<fds, ref>>
     /\ UNCHANGED <<want, cmd, st, par, reg, kind, open, full, held, input>>

(* sys_open() of a file that may not be there *)
Open(p) ==
  /\ At(p, "open")
  /\ \/ /\ FreeFiles # {} /\ FreeFds(p) # {}
        /\ fds' = [fds EXCEPT ![p][Least(FreeFds(p))] = Least(FreeFiles)]
        /\ ref' = [ref EXCEPT ![Least(FreeFiles)] = 1]
        /\ kind' = [kind EXCEPT ![Least(FreeFiles)] = Disk]
        /\ Goes(p) /\ UNCHANGED <<st, par, reg, open, full, held>>
     \/ Panic(p)
  /\ UNCHANGED <<want, cmd, input>>

(* sys_pipe(), with pipealloc(): two files, a page and two descriptors *)
Pipe(p) ==
  LET r == Least(FreeFiles)
      w == Least(FreeFiles \ {r})
      i == Least({j \in Pipes : open[j] = {}})
      a == Least(FreeFds(p))
      b == Least(FreeFds(p) \ {a})
  IN /\ At(p, "pipe")
     /\ IF /\ Cardinality(FreeFiles) > 1 /\ Cardinality(FreeFds(p)) > 1
           /\ \E j \in Pipes : open[j] = {}
        THEN /\ ref' = [ref EXCEPT ![r] = 1, ![w] = 1]
             /\ kind' = [kind EXCEPT ![r] = End(i, "r"), ![w] = End(i, "w")]
             /\ open' = [open EXCEPT ![i] = {"r", "w"}]
             /\ fds' = [fds EXCEPT ![p][a] = r, ![p][b] = w]
             /\ reg' = [reg EXCEPT ![p] = <<a, b>>]
             /\ Goes(p) /\ UNCHANGED <<st, par, full, held>>
        ELSE Panic(p)
     /\ UNCHANGED <<want, cmd, input>>

(* fork1(): the child shares the files, filedup() for each descriptor *)
Shared(p) == [f \in Files |-> ref[f] + Cardinality({k \in Fds : fds[p][k] = f})]
Fork(p) ==
  LET q == Least({s \in Slots : st[s] = "none"})
  IN /\ At(p, "fork")
     /\ IF \E s \in Slots : st[s] = "none"
        THEN /\ st' = [st EXCEPT ![q] = "run"]
             /\ par' = [par EXCEPT ![q] = p]
             /\ code' = [code EXCEPT ![p] = Tail(@), ![q] = Arg(p)]
             /\ fds' = [fds EXCEPT ![q] = fds[p]]
             /\ reg' = [reg EXCEPT ![q] = reg[p]]
             /\ ref' = Shared(p)
             /\ UNCHANGED <<kind, open, full, held>>
        ELSE Panic(p)
     /\ UNCHANGED <<want, cmd, input>>

(* wait(0): one child, any, or none is left *)
Wait(p) ==
  LET kids == {q \in Slots : par[q] = p /\ st[q] # "none"}
  IN /\ At(p, "wait") /\ Goes(p)
     /\ \/ kids = {} /\ UNCHANGED <<st, par>>
        \/ \E q \in kids : /\ st[q] = "zombie"
                           /\ st' = [st EXCEPT ![q] = "none"]
                           /\ par' = [par EXCEPT ![q] = 0]
     /\ UNCHANGED <<want, cmd, fds, reg, ref, kind, open, full, held, input>>

(* exec() runs a program, or fails and the process exits. *)
Exec(p) ==
  /\ At(p, "exec")
  /\ \/ /\ code' = [code EXCEPT ![p] = <<Op("copy", 0)>>]
        /\ UNCHANGED <<st, par, fds, reg, ref, kind, open, full, held>>
     \/ Panic(p)
  /\ UNCHANGED <<want, cmd, input>>

Exit(p) == At(p, "exit") /\ Panic(p) /\ UNCHANGED <<want, cmd, input>>
-----------------------------------------------------------------------------
(* A program: piperead() or the read of another file, then pipewrite() *)

In(p) == IF fds[p][0] = 0 THEN NoFile ELSE kind[fds[p][0]]
Out(p) == IF fds[p][1] = 0 THEN NoFile ELSE kind[fds[p][1]]

Read(p) ==
  LET i == In(p)
      empty == i.t = "pipe" /\ i.id \notin full
  IN /\ At(p, "copy") /\ p \notin held
     /\ empty => i.end = "w" \/ "w" \notin open[i.id]
     /\ IF (i.t = "device" /\ input > 0) \/ (i.t = "pipe" /\ i.end = "r" /\ ~empty)
        THEN /\ held' = held \cup {p}
             /\ full' = IF i.t = "pipe" THEN full \ {i.id} ELSE full
             /\ input' = IF i.t = "pipe" THEN input ELSE input - 1
             /\ UNCHANGED <<st, par, code, fds, reg, ref, kind, open>>
        ELSE Panic(p) /\ UNCHANGED input
     /\ UNCHANGED <<want, cmd>>

Write(p) ==
  LET o == Out(p)
      lost == o.t = "none" \/ (o.t = "pipe" /\ (o.end = "r" \/ "r" \notin open[o.id]))
  IN /\ At(p, "copy") /\ p \in held
     /\ IF lost THEN Panic(p)
        ELSE /\ o.t = "pipe" => o.id \notin full
             /\ held' = held \ {p}
             /\ full' = IF o.t = "pipe" THEN full \cup {o.id} ELSE full
             /\ UNCHANGED <<st, par, code, fds, reg, ref, kind, open>>
     /\ UNCHANGED <<want, cmd, input>>

(* The program stops before the end of its input. *)
Stop(p) == At(p, "copy") /\ Panic(p) /\ UNCHANGED <<want, cmd, input>>

Step(p) == Close(p) \/ Dup(p) \/ Open(p) \/ Pipe(p) \/ Fork(p) \/ Wait(p)
           \/ Exec(p) \/ Exit(p) \/ Read(p) \/ Write(p) \/ Stop(p)
Next == Parse \/ \E p \in Slots : Step(p)

-----------------------------------------------------------------------------
(* The parser reads a line as the tree it means; and the count of a file   *)
(* in the file table is the number of descriptors that refer to it, and an *)
(* end of a pipe is open exactly while some descriptor can use it.         *)
LineSound ==
  /\ cmd # Unread => cmd = want
  /\ \A f \in Files :
       ref[f] = Cardinality({x \in Slots \X Fds : fds[x[1]][x[2]] = f})
  /\ \A i \in Pipes, e \in {"r", "w"} :
       e \in open[i] <=> \E f \in Files : ref[f] > 0 /\ kind[f] = End(i, e)

(* A process waits: for a child, for a byte, or for room. *)
Blocked(p) ==
  \/ At(p, "prompt")
  \/ At(p, "wait") /\ (\E q \in Slots : par[q] = p /\ st[q] # "none")
                   /\ ~\E q \in Slots : par[q] = p /\ st[q] = "zombie"
  \/ At(p, "copy") /\ p \notin held /\ In(p).t = "pipe" /\ In(p).end = "r"
     /\ In(p).id \notin full /\ "w" \in open[In(p).id]
  \/ At(p, "copy") /\ p \in held /\ Out(p).t = "pipe" /\ Out(p).end = "w"
     /\ Out(p).id \in full /\ "r" \in open[Out(p).id]

(* A command ends: the processes of a line never all wait, for an end of   *)
(* file, for room in a pipe or for a child, before the shell prompts.      *)
(* Every step shortens a program or the input, so this is progress too.    *)
PipelineNeverStuck ==
  cmd # Unread /\ (\A p \in Slots : st[p] = "run" => Blocked(p))
    => st[Shell1] = "none" \/ At(Shell1, "prompt")
=============================================================================
