---------------------------- MODULE SignalProofs ----------------------------
(***************************************************************************)
(* Signals, for any number of processes, any set of signals with SIGKILL   *)
(* and SIGCHLD, and any number of calls of sigsend().                      *)
(***************************************************************************)
EXTENDS Signal, WellFoundedInduction, TLAPS

(* Time for each leaf. *)
USE SMTT(30), Z3T(30), Zenon, SMTT(31)

(* The rest of the types. *)
Codes == Seq(Sigs \cup {0})
Shapes ==
  /\ frame \in [Procs -> Codes] /\ saved \in [Procs -> Codes] /\ base \in [Procs -> Codes]
  /\ current \in [Procs -> Sigs \cup {0}] /\ parent \in [Procs -> Procs]

(* sig_handling is set exactly while a handler is on top of the frame that *)
(* the process was born or exec'd with.  That frame is the saved one, and  *)
(* the handler's signal is not yet masked in it: sigreturn() may take it   *)
(* off the mask.                                                           *)
Frames ==
  \A p \in Procs :
    /\ p \notin handling => frame[p] = base[p]
    /\ p \in handling => /\ saved[p] = base[p] /\ frame[p] = Append(base[p], current[p])
                         /\ current[p] \in Sigs /\ current[p] \notin Range(base[p])

(* SIGKILL has no handler and is not ignored (signal_set_handler()). *)
KillDefault == \A p \in Procs : handlers[p][SIGKILL] = "DFL"

(* A process that was never forked has nothing pending, and nobody has it  *)
(* as a parent.                                                            *)
Unborn ==
  \A p \in Procs :
    /\ st[p] = "UNUSED" => p \notin handling /\ pending[p] = {} /\ p \notin killed
    /\ st[parent[p]] # "UNUSED"

SigInv ==
  /\ TypeOK /\ Shapes /\ Frames /\ MaskIsFrames /\ KillDefault /\ Unborn
  /\ NoSleepThroughSignal /\ IgnoredNotPending
-----------------------------------------------------------------------------
(* Entering a handler puts one code on top of the frame. *)
LEMMA PushCode ==
  ASSUME NEW f \in Codes, NEW s \in Sigs \cup {0}
  PROVE  Append(f, s) \in Codes /\ Range(Append(f, s)) = Range(f) \cup {s}
<1> DEFINE g == Append(f, s)
<1>1. /\ g \in Codes /\ Len(f) \in Nat /\ Len(g) = Len(f) + 1
      /\ DOMAIN f = 1 .. Len(f) /\ DOMAIN g = 1 .. Len(f) + 1
      /\ \A i \in 1 .. Len(f) : g[i] = f[i]
      /\ g[Len(f) + 1] = s
  BY DEF Codes
<1>2. ASSUME NEW x PROVE x \in Range(g) <=> x \in Range(f) \cup {s}
  <2>1. x \in Range(g) <=> \E i \in 1 .. Len(f) + 1 : g[i] = x
    BY <1>1, Zenon DEF Range
  <2>2. x \in Range(f) <=> \E i \in 1 .. Len(f) : f[i] = x
    BY <1>1, Zenon DEF Range
  <2> HIDE DEF g
  <2> QED
    BY <2>1, <2>2, <1>1
<1> QED
  BY <1>1, <1>2, Zenon

(* The signals are numbers from 1 on, with SIGKILL and SIGCHLD. *)
LEMMA Constants ==
  /\ Root \in Procs /\ 0 \notin Sigs /\ SIGKILL \in Sigs /\ SIGCHLD \in Sigs
  /\ SIGKILL # SIGCHLD /\ MaxSends \in Nat /\ \A s \in Sigs : s \in Nat
  BY SignalAssumption DEF SIGKILL, SIGCHLD

States == {"UNUSED", "user", "exec", "ret", "sleep", "ZOMBIE"}

(* A process starts with no handler and nothing pending. *)
LEMMA InitSig == Init => SigInv
<1> SUFFICES ASSUME Init PROVE SigInv
  BY Zenon
<1>1. /\ \A p \in Procs : frame[p] = <<>> /\ base[p] = <<>>
      /\ <<>> \in Codes /\ Range(<<>>) = {}
  BY DEF Init, Codes, Range
<1>2. TypeOK /\ Shapes
  BY <1>1, Constants DEF Init, TypeOK, Shapes
<1>3. Frames /\ MaskIsFrames
  BY <1>1 DEF Init, Frames, MaskIsFrames
<1>4. KillDefault /\ Unborn /\ NoSleepThroughSignal /\ IgnoredNotPending
  BY Constants, Zenon DEF Init, KillDefault, Unborn, NoSleepThroughSignal, IgnoredNotPending
<1> QED
  BY <1>2, <1>3, <1>4, Zenon DEF SigInv

(* Steps that change the state of a process alone: a wakeup, an interrupt, *)
(* a system call that only waits, and the way back to user mode.           *)
LEMMA StateStep ==
  ASSUME SigInv, NEW p \in Procs, NEW l \in States \ {"UNUSED"}, st[p] # "UNUSED",
         st' = Becomes(p, l), l = "sleep" => ~SignalPending(p),
         UNCHANGED <<sigs, frame, rest>>
  PROVE SigInv'
<1> USE DEF SigInv
<1>1. /\ \A q \in Procs : st'[q] = IF q = p THEN l ELSE st[q]
      /\ st' \in [Procs -> States]
  BY Zenon DEF Becomes, TypeOK, States
<1>2. UNCHANGED <<pending, mask, handlers, handling, current, term, killed, saved, frame,
                  xstate, parent, sends, base>>
  BY Zenon DEF sigs, rest
<1>3. TypeOK' /\ Shapes'
  BY <1>1, <1>2, Zenon DEF TypeOK, Shapes, States
<1>4. Frames' /\ MaskIsFrames' /\ KillDefault'
  BY <1>2, Zenon DEF Frames, MaskIsFrames, KillDefault
<1>5. Unborn' /\ IgnoredNotPending'
  BY <1>1, <1>2, Zenon DEF Unborn, IgnoredNotPending, Discarded, Shapes, States
<1>6. NoSleepThroughSignal'
  BY <1>1, <1>2, Zenon DEF NoSleepThroughSignal, SignalPending, Deliverable
<1> QED
  BY <1>3, <1>4, <1>5, <1>6, Zenon

(* signal_mark_locked() in a system call of p that ends the call or p. *)
LEMMA MarkStep ==
  ASSUME SigInv, NEW p \in Procs, NEW q \in Procs, NEW s \in Sigs,
         NEW l \in {"ret", "ZOMBIE"}, st[p] # "UNUSED", st[q] # "UNUSED",
         Mark(q, s, Becomes(p, l)), sends' \in 0 .. MaxSends,
         UNCHANGED <<mask, handlers, handling, current, saved, frame, parent, base>>
  PROVE SigInv'
<1> USE DEF SigInv
<1>1. /\ st' \in [Procs -> States] /\ st'[p] # "sleep" /\ st'[p] # "UNUSED"
      /\ \A r \in Procs : /\ st'[r] = "UNUSED" <=> st[r] = "UNUSED"
                          /\ st'[r] = "sleep" => st[r] = "sleep"
      /\ pending' # pending \/ killed' # killed => st'[q] # "sleep"
  <2>1. CASE Discarded(q, s)
    BY <2>1, Zenon DEF Mark, Becomes, TypeOK, States
  <2>2. CASE ~Discarded(q, s)
    BY <2>2 DEF Mark, Becomes, TypeOK, States
  <2> QED
    BY <2>1, <2>2, Zenon
<1>2. /\ pending' \in [Procs -> SUBSET Sigs] /\ term' \in [Procs -> {0, SIGKILL}]
      /\ killed' \subseteq Procs
      /\ \A r \in Procs : /\ r # q => pending'[r] = pending[r] /\ (r \in killed' <=> r \in killed)
                          /\ \A x \in pending'[r] :
                               x \in pending[r] \/ (r = q /\ x = s /\ ~Discarded(q, s))
  <2>1. CASE Discarded(q, s)
    BY <2>1, Zenon DEF Mark, TypeOK
  <2>2. CASE ~Discarded(q, s)
    BY <2>2 DEF Mark, TypeOK
  <2> QED
    BY <2>1, <2>2, Zenon
<1>3. TypeOK' /\ Shapes'
  BY <1>1, <1>2, Zenon DEF TypeOK, Shapes, States
<1>4. Frames' /\ MaskIsFrames' /\ KillDefault'
  BY Zenon DEF Frames, MaskIsFrames, KillDefault
<1>5. Unborn'
  BY <1>1, <1>2, ZenonT(40) DEF Unborn, Shapes
<1>6. IgnoredNotPending'
  BY <1>2, Zenon DEF IgnoredNotPending, Discarded
<1>7. NoSleepThroughSignal'
  <2> SUFFICES ASSUME NEW r \in Procs, st'[r] = "sleep" PROVE ~SignalPending(r)'
    BY Zenon DEF NoSleepThroughSignal
  <2>1. ~SignalPending(r)
    BY <1>1, Zenon DEF NoSleepThroughSignal
  <2>2. pending'[r] = pending[r] /\ (r \in killed' <=> r \in killed) /\ mask'[r] = mask[r]
    BY <1>1, <1>2, Zenon
  <2> QED
    BY <2>1, <2>2, Zenon DEF SignalPending, Deliverable
<1> QED
  BY <1>3, <1>4, <1>5, <1>6, <1>7, Zenon

(* exit() marks SIGCHLD for a parent that is there. *)
LEMMA LeaveStep ==
  ASSUME SigInv, NEW p \in Procs, NEW x, st[p] # "UNUSED", Leave(p, x)
  PROVE SigInv'
<1>1. CASE p = Root \/ st[parent[p]] = "ZOMBIE"
  <2>1. /\ st' = Becomes(p, "ZOMBIE") /\ UNCHANGED <<sigs, frame, parent, sends, base>>
    BY <1>1, Zenon DEF Leave, sigs
  <2>2. /\ st' \in [Procs -> States]
        /\ \A r \in Procs : st'[r] = IF r = p THEN "ZOMBIE" ELSE st[r]
    BY <2>1, Zenon DEF SigInv, TypeOK, Becomes, States
  <2>3. TypeOK' /\ Shapes'
    BY <2>1, <2>2, Zenon DEF SigInv, TypeOK, Shapes, States, sigs
  <2>4. Frames' /\ MaskIsFrames' /\ KillDefault' /\ IgnoredNotPending'
    BY <2>1, Zenon DEF SigInv, Frames, MaskIsFrames, KillDefault, IgnoredNotPending,
       Discarded, sigs
  <2>5. Unborn' /\ NoSleepThroughSignal'
    BY <2>1, <2>2, Zenon DEF SigInv, Unborn, Shapes, NoSleepThroughSignal, SignalPending,
       Deliverable, sigs
  <2> QED
    BY <2>3, <2>4, <2>5, Zenon DEF SigInv
<1>2. CASE ~(p = Root \/ st[parent[p]] = "ZOMBIE")
  <2>1. parent[p] \in Procs /\ st[parent[p]] # "UNUSED" /\ sends \in 0 .. MaxSends
    BY Zenon DEF SigInv, Shapes, Unborn, TypeOK
  <2>2. /\ Mark(parent[p], SIGCHLD, Becomes(p, "ZOMBIE"))
        /\ UNCHANGED <<mask, handlers, handling, current, saved, frame, parent, sends, base>>
    BY <1>2, Zenon DEF Leave
  <2> QED
    BY <2>1, <2>2, Constants, MarkStep, Zenon
<1> QED
  BY <1>1, <1>2, Zenon

(* signal(): what is now discarded is no longer pending. *)
LEMMA SetHandlerStep ==
  ASSUME SigInv, NEW p \in Procs, NEW s \in Sigs, NEW h \in {"DFL", "IGN", "H"},
         SetHandler(p, s, h)
  PROVE SigInv'
<1> USE DEF SigInv
<1>1. /\ UNCHANGED <<mask, handling, current, term, killed, saved, frame, parent, sends, base>>
      /\ st[p] = "user" /\ s # SIGKILL
      /\ st' \in [Procs -> States] /\ \A r \in Procs : st'[r] = IF r = p THEN "ret" ELSE st[r]
  BY Zenon DEF SetHandler, Syscall, Becomes, rest, TypeOK, States
<1>2. /\ handlers' \in [Procs -> [Sigs -> {"DFL", "IGN", "H"}]]
      /\ \A r \in Procs, x \in Sigs :
           handlers'[r][x] = IF r = p /\ x = s THEN h ELSE handlers[r][x]
  BY DEF SetHandler, TypeOK
<1>3. /\ pending' \in [Procs -> SUBSET Sigs]
      /\ \A r \in Procs : pending'[r] \subseteq pending[r]
      /\ DiscardedBy(h, s) => s \notin pending'[p]
  <2>1. CASE DiscardedBy(h, s)
    BY <2>1 DEF SetHandler, TypeOK
  <2>2. CASE ~DiscardedBy(h, s)
    BY <2>2, Zenon DEF SetHandler, TypeOK
  <2> QED
    BY <2>1, <2>2, Zenon
<1>4. TypeOK' /\ Shapes'
  BY <1>1, <1>2, <1>3, Zenon DEF TypeOK, Shapes, States
<1>5. Frames' /\ MaskIsFrames'
  BY <1>1, Zenon DEF Frames, MaskIsFrames
<1>6. KillDefault'
  BY <1>1, <1>2, Constants, Zenon DEF KillDefault
<1>7. Unborn'
  BY <1>1, <1>3, Zenon DEF Unborn, Shapes
<1>8. IgnoredNotPending'
  <2> SUFFICES ASSUME NEW r \in Procs, NEW x \in pending'[r] PROVE ~Discarded(r, x)'
    BY Zenon DEF IgnoredNotPending
  <2>1. x \in pending[r] /\ x \in Sigs /\ ~DiscardedBy(handlers[r][x], x)
    BY <1>3, Zenon DEF IgnoredNotPending, Discarded, TypeOK
  <2>2. ~DiscardedBy(handlers'[r][x], x)
    BY <2>1, <1>2, <1>3, Zenon
  <2> QED
    BY <2>2, Zenon DEF Discarded
<1>9. NoSleepThroughSignal'
  <2> SUFFICES ASSUME NEW r \in Procs, st'[r] = "sleep" PROVE ~SignalPending(r)'
    BY Zenon DEF NoSleepThroughSignal
  <2>1. ~SignalPending(r)
    BY <1>1, Zenon DEF NoSleepThroughSignal
  <2> QED
    BY <2>1, <1>1, <1>3, Zenon DEF SignalPending, Deliverable
<1> QED
  BY <1>4, <1>5, <1>6, <1>7, <1>8, <1>9, Zenon

(* sigreturn(): the saved frame is the one below the handler.  In the      *)
(* child of a fork() inside a handler it fails.                            *)
LEMMA SigreturnStep ==
  ASSUME SigInv, NEW p \in Procs, Sigreturn(p)
  PROVE SigInv'
<1> USE DEF SigInv
<1>1. /\ UNCHANGED <<pending, handlers, term, killed, parent, sends>>
      /\ st[p] = "user"
      /\ st' \in [Procs -> States] /\ \A r \in Procs : st'[r] = IF r = p THEN "ret" ELSE st[r]
  BY Zenon DEF Sigreturn, Syscall, Becomes, TypeOK, States
<1>2. KillDefault' /\ IgnoredNotPending'
  BY <1>1, Zenon DEF KillDefault, IgnoredNotPending, Discarded
<1>3. CASE p \in handling
  <2>1. /\ base' = base /\ handling' = handling \ {p}
        /\ frame' = [frame EXCEPT ![p] = saved[p]] /\ saved' = [saved EXCEPT ![p] = <<>>]
        /\ mask' = [mask EXCEPT ![p] = @ \ {current[p]}] /\ current' = [current EXCEPT ![p] = 0]
    BY <1>3, Zenon DEF Sigreturn
  <2>2. /\ \A r \in Procs : r # p => /\ frame'[r] = frame[r] /\ saved'[r] = saved[r]
                                      /\ mask'[r] = mask[r] /\ current'[r] = current[r]
      /\ frame'[p] = base[p] /\ mask'[p] = mask[p] \ {current[p]} /\ current'[p] = 0
    BY <1>3, <2>1, Zenon DEF TypeOK, Shapes, Frames
  <2>3. TypeOK' /\ Shapes'
    <3>1. <<>> \in Codes
      BY DEF Codes
    <3>2. mask' \in [Procs -> SUBSET Sigs] /\ handling' \subseteq Procs
      BY <2>1, Zenon DEF TypeOK
    <3>3. frame' \in [Procs -> Codes] /\ saved' \in [Procs -> Codes]
          /\ current' \in [Procs -> Sigs \cup {0}]
      BY <3>1, <2>1, Zenon DEF Shapes
    <3> QED
      BY <3>2, <3>3, <2>1, <2>2, <1>1, ZenonT(40) DEF TypeOK, Shapes, States
  <2>4. Frames'
    BY <2>1, <2>2, ZenonT(40) DEF Frames
  <2>5. mask'[p] = Range(frame'[p]) \ {0}
    <3>1. /\ frame[p] = Append(base[p], current[p]) /\ current[p] \in Sigs
          /\ current[p] \notin Range(base[p]) /\ mask[p] = Range(frame[p]) \ {0}
      BY <1>3, Zenon DEF Frames, MaskIsFrames
    <3>2. Range(frame[p]) = Range(base[p]) \cup {current[p]}
      BY <3>1, PushCode, Zenon DEF Shapes
    <3> QED
      BY <3>1, <3>2, <2>2, Zenon
  <2>6. MaskIsFrames'
    BY <2>2, <2>5, Zenon DEF MaskIsFrames
  <2>7. Unborn'
    BY <1>1, <2>1, Zenon DEF Unborn, Shapes
  <2>8. NoSleepThroughSignal'
    BY <1>1, <2>2, Zenon DEF NoSleepThroughSignal, SignalPending, Deliverable
  <2> QED
    BY <1>2, <2>3, <2>4, <2>6, <2>7, <2>8, Zenon
<1>4. CASE p \notin handling
  <2>1. /\ UNCHANGED <<saved, mask, handling, current>>
        /\ frame' = [frame EXCEPT ![p] = Append(frame[p], 0)]
        /\ base' = [base EXCEPT ![p] = frame'[p]]
    BY <1>4, Zenon DEF Sigreturn
  <2>2. /\ Append(frame[p], 0) \in Codes
        /\ Range(Append(frame[p], 0)) = Range(frame[p]) \cup {0}
    BY PushCode, Zenon DEF Shapes
  <2>3. /\ \A r \in Procs : r # p => frame'[r] = frame[r] /\ base'[r] = base[r]
        /\ frame'[p] = Append(frame[p], 0) /\ base'[p] = frame'[p]
    BY <2>1, Zenon DEF Shapes
  <2>4. TypeOK' /\ Shapes'
    <3>0. base' = [base EXCEPT ![p] = Append(frame[p], 0)]
      BY <2>1, <2>3, Zenon
    <3>1. frame' \in [Procs -> Codes] /\ base' \in [Procs -> Codes]
      BY <3>0, <2>1, <2>2 DEF Shapes
    <3> QED
      BY <3>1, <2>1, <1>1, Zenon DEF TypeOK, Shapes, States
  <2>5. Frames'
    BY <1>4, <2>1, <2>3, Zenon DEF Frames
  <2>6. MaskIsFrames'
    BY <2>1, <2>2, <2>3, Zenon DEF MaskIsFrames
  <2>7. Unborn' /\ NoSleepThroughSignal'
    BY <1>1, <2>1, Zenon DEF Unborn, Shapes, NoSleepThroughSignal, SignalPending, Deliverable
  <2> QED
    BY <1>2, <2>4, <2>5, <2>6, <2>7, Zenon
<1> QED
  BY <1>3, <1>4, Zenon

(* fork(): the child begins with the frame and the mask of the parent. *)
LEMMA ForkStep ==
  ASSUME SigInv, NEW p \in Procs, NEW q \in Procs, Fork(p, q)
  PROVE SigInv'
<1> USE DEF SigInv
<1>1. /\ UNCHANGED <<pending, handling, current, term, killed, saved, sends>>
      /\ st[p] = "user" /\ st[q] = "UNUSED" /\ p # q
      /\ q \notin handling /\ q \notin killed /\ pending[q] = {}
  BY Zenon DEF Fork, Syscall, Unborn
<1>2. /\ st' = [st EXCEPT ![p] = "ret", ![q] = "user"]
      /\ mask' = [mask EXCEPT ![q] = mask[p]]
      /\ handlers' = [handlers EXCEPT ![q] = handlers[p]]
      /\ frame' = [frame EXCEPT ![q] = frame[p]]
      /\ base' = [base EXCEPT ![q] = frame[p]]
      /\ parent' = [parent EXCEPT ![q] = p]
  BY Zenon DEF Fork
<1>3. /\ st' \in [Procs -> States]
      /\ \A r \in Procs : /\ r # q => st'[r] = "UNUSED" <=> st[r] = "UNUSED"
                          /\ st'[r] = "sleep" => st[r] = "sleep"
      /\ st'[q] = "user" /\ st'[p] = "ret"
  BY <1>1, <1>2 DEF TypeOK, States
<1>4. /\ \A r \in Procs : r # q =>
           /\ mask'[r] = mask[r] /\ handlers'[r] = handlers[r]
           /\ frame'[r] = frame[r] /\ base'[r] = base[r] /\ parent'[r] = parent[r]
      /\ mask'[q] = mask[p] /\ handlers'[q] = handlers[p] /\ frame'[q] = frame[p]
      /\ base'[q] = frame[p] /\ parent'[q] = p
  BY <1>2, Zenon DEF TypeOK, Shapes
<1>5. TypeOK' /\ Shapes'
  <2>1. /\ mask' \in [Procs -> SUBSET Sigs]
        /\ handlers' \in [Procs -> [Sigs -> {"DFL", "IGN", "H"}]]
    BY <1>2, Zenon DEF TypeOK
  <2>2. /\ frame' \in [Procs -> Codes] /\ base' \in [Procs -> Codes]
        /\ parent' \in [Procs -> Procs]
    BY <1>2, Zenon DEF Shapes
  <2> QED
    BY <2>1, <2>2, <1>1, <1>3, Zenon DEF TypeOK, Shapes, States
<1>6. Frames' /\ MaskIsFrames' /\ KillDefault'
  BY <1>1, <1>4 DEF Frames, MaskIsFrames, KillDefault
<1>7. Unborn'
  BY <1>1, <1>3, <1>4 DEF Unborn, Shapes
<1>8. IgnoredNotPending' /\ NoSleepThroughSignal'
  BY <1>1, <1>3, <1>4, Zenon DEF IgnoredNotPending, Discarded, NoSleepThroughSignal,
     SignalPending, Deliverable
<1> QED
  BY <1>5, <1>6, <1>7, <1>8, Zenon

(* exec() leaves no handler, no mask and nothing pending. *)
LEMMA ExecCommitStep ==
  ASSUME SigInv, NEW p \in Procs, ExecCommit(p)
  PROVE SigInv'
<1> USE DEF SigInv
<1>1. /\ UNCHANGED <<killed, parent, sends>> /\ st[p] = "exec"
      /\ st' \in [Procs -> States] /\ \A r \in Procs : st'[r] = IF r = p THEN "ret" ELSE st[r]
      /\ handling' = handling \ {p}
  BY Zenon DEF ExecCommit, Becomes, TypeOK, States
<1>2. /\ handlers' \in [Procs -> [Sigs -> {"DFL", "IGN", "H"}]]
      /\ \A r \in Procs : r # p => handlers'[r] = handlers[r]
      /\ \A s \in Sigs : handlers[p][s] = "DFL" => handlers'[p][s] = "DFL"
  BY DEF ExecCommit, TypeOK
<1>3. /\ pending' = [pending EXCEPT ![p] = {}] /\ mask' = [mask EXCEPT ![p] = {}]
      /\ current' = [current EXCEPT ![p] = 0] /\ term' = [term EXCEPT ![p] = 0]
      /\ saved' = [saved EXCEPT ![p] = <<>>] /\ frame' = [frame EXCEPT ![p] = <<>>]
      /\ base' = [base EXCEPT ![p] = <<>>]
  BY Zenon DEF ExecCommit
<1>4. /\ \A r \in Procs : r # p =>
           /\ pending'[r] = pending[r] /\ mask'[r] = mask[r] /\ current'[r] = current[r]
           /\ saved'[r] = saved[r] /\ frame'[r] = frame[r] /\ base'[r] = base[r]
      /\ pending'[p] = {} /\ mask'[p] = {} /\ current'[p] = 0
      /\ frame'[p] = <<>> /\ base'[p] = <<>>
  BY <1>3, Zenon DEF TypeOK, Shapes
<1>5. <<>> \in Codes /\ Range(<<>>) = {}
  BY DEF Codes, Range
<1>6. TypeOK' /\ Shapes'
  <2>1. /\ pending' \in [Procs -> SUBSET Sigs] /\ mask' \in [Procs -> SUBSET Sigs]
        /\ term' \in [Procs -> {0, SIGKILL}]
    BY <1>3, Zenon DEF TypeOK
  <2>2. /\ frame' \in [Procs -> Codes] /\ base' \in [Procs -> Codes]
        /\ saved' \in [Procs -> Codes] /\ current' \in [Procs -> Sigs \cup {0}]
    BY <1>3, <1>5, Zenon DEF Shapes
  <2>3. handling' \subseteq Procs
        /\ \A r \in Procs : IF r \in handling' THEN current'[r] \in Sigs ELSE current'[r] = 0
    BY <1>1, <1>4, Zenon DEF TypeOK
  <2> QED
    BY <2>1, <2>2, <2>3, <1>1, <1>2, Zenon DEF TypeOK, Shapes, States
<1>7. Frames' /\ MaskIsFrames'
  BY <1>1, <1>4, <1>5 DEF Frames, MaskIsFrames
<1>8. KillDefault' /\ IgnoredNotPending'
  BY <1>2, <1>4, Constants, ZenonT(40) DEF KillDefault, IgnoredNotPending, Discarded
<1>9. Unborn' /\ NoSleepThroughSignal'
  BY <1>1, <1>4 DEF Unborn, Shapes, NoSleepThroughSignal, SignalPending, Deliverable
<1> QED
  BY <1>6, <1>7, <1>8, <1>9, Zenon

(* The least of some numbers exists. *)
LEMMA LeastNat ==
  ASSUME NEW T, T \subseteq Nat, T # {} PROVE \E x \in T : \A y \in T : x <= y
<1>1. PICK x \in T : \A y \in T : ~(<<y, x>> \in OpToRel(<, Nat))
  BY WFMin, NatLessThanWellFounded, Zenon
<1>2. ASSUME NEW y \in T PROVE ~(y < x)
  BY <1>1, Zenon DEF OpToRel
<1> QED
  BY <1>2

(* signal_choose() returns a pending signal; one with a handler is not     *)
(* SIGKILL, and so not masked.                                             *)
LEMMA ChosenDeliverable ==
  ASSUME SigInv, NEW p \in Procs, Deliverable(p) # {}, handlers[p][Chosen(p)] = "H"
  PROVE Chosen(p) \in pending[p] /\ Chosen(p) \in Sigs /\ Chosen(p) \notin mask[p]
<1>1. SIGKILL \notin pending[p]
  BY Zenon DEF SigInv, KillDefault, Chosen
<1>2. /\ Deliverable(p) \subseteq pending[p] \ mask[p] /\ Deliverable(p) \subseteq Sigs
      /\ Deliverable(p) \subseteq Nat
  BY <1>1, Constants, Zenon DEF SigInv, TypeOK, Deliverable
<1>3. Chosen(p) = CHOOSE x \in Deliverable(p) : \A y \in Deliverable(p) : x <= y
  BY <1>1, Zenon DEF Chosen
<1>4. Chosen(p) \in Deliverable(p)
  BY <1>2, <1>3, LeastNat, Zenon
<1> QED
  BY <1>2, <1>4, Zenon

(* signal_deliver() enters a handler on top of the frame it saves. *)
LEMMA DeliverStep ==
  ASSUME SigInv, NEW p \in Procs, Deliver(p)
  PROVE SigInv'
<1> USE DEF SigInv
<1> DEFINE s == Chosen(p)
<1>1. /\ UNCHANGED <<handlers, term, killed, parent, sends, base>>
      /\ st[p] = "ret" /\ p \notin handling /\ handling' = handling \cup {p}
      /\ st' \in [Procs -> States] /\ \A r \in Procs : st'[r] = IF r = p THEN "user" ELSE st[r]
  BY Zenon DEF Deliver, Becomes, rest, TypeOK, States
<1>2. /\ pending' = [pending EXCEPT ![p] = @ \ {s}] /\ mask' = [mask EXCEPT ![p] = @ \cup {s}]
      /\ saved' = [saved EXCEPT ![p] = frame[p]] /\ current' = [current EXCEPT ![p] = s]
      /\ frame' = [frame EXCEPT ![p] = Append(frame[p], s)]
  BY Zenon DEF Deliver
<1>3. s \in Sigs /\ s \notin mask[p]
  BY ChosenDeliverable, Zenon DEF Deliver
<1> HIDE DEF s
<1>4. /\ Append(frame[p], s) \in Codes
      /\ Range(Append(frame[p], s)) = Range(frame[p]) \cup {s}
  BY <1>3, PushCode, Zenon DEF Shapes
<1>5. /\ \A r \in Procs : r # p =>
           /\ pending'[r] = pending[r] /\ mask'[r] = mask[r] /\ saved'[r] = saved[r]
           /\ current'[r] = current[r] /\ frame'[r] = frame[r]
      /\ pending'[p] = pending[p] \ {s} /\ mask'[p] = mask[p] \cup {s}
      /\ saved'[p] = frame[p] /\ current'[p] = s /\ frame'[p] = Append(frame[p], s)
  BY <1>2, Zenon DEF TypeOK, Shapes
<1>6. TypeOK' /\ Shapes'
  <2>1. pending' \in [Procs -> SUBSET Sigs] /\ mask' \in [Procs -> SUBSET Sigs]
    BY <1>2, <1>3 DEF TypeOK
  <2>2. /\ frame' \in [Procs -> Codes] /\ saved' \in [Procs -> Codes]
        /\ current' \in [Procs -> Sigs \cup {0}]
    BY <1>2, <1>3, <1>4 DEF Shapes
  <2>3. handling' \subseteq Procs
        /\ \A r \in Procs : IF r \in handling' THEN current'[r] \in Sigs ELSE current'[r] = 0
    BY <1>1, <1>3, <1>5 DEF TypeOK
  <2> QED
    BY <2>1, <2>2, <2>3, <1>1, Zenon DEF TypeOK, Shapes, States
<1>7. Frames'
  <2>1. frame[p] = base[p] /\ s \notin Range(base[p])
    BY <1>1, <1>3, Constants, Zenon DEF Frames, MaskIsFrames
  <2> QED
    BY <2>1, <1>1, <1>3, <1>5 DEF Frames
<1>8. MaskIsFrames'
  <2>1. mask'[p] = Range(frame'[p]) \ {0}
    BY <1>3, <1>4, <1>5, Constants, Zenon DEF MaskIsFrames
  <2> QED
    BY <2>1, <1>5, Zenon DEF MaskIsFrames
<1>9. KillDefault' /\ IgnoredNotPending'
  BY <1>1, <1>5 DEF KillDefault, IgnoredNotPending, Discarded
<1>10. Unborn' /\ NoSleepThroughSignal'
  BY <1>1, <1>5 DEF Unborn, Shapes, NoSleepThroughSignal, SignalPending, Deliverable
<1> QED
  BY <1>6, <1>7, <1>8, <1>9, <1>10, Zenon

(* An exception kills a process that is not asleep. *)
LEMMA FaultStep ==
  ASSUME SigInv, NEW p \in Procs, Fault(p)
  PROVE SigInv'
<1> USE DEF SigInv
<1>1. /\ UNCHANGED <<pending, mask, handlers, handling, current, term, saved, frame, parent,
                     sends, base>>
      /\ st[p] = "user" /\ killed' = killed \cup {p}
      /\ st' \in [Procs -> States] /\ \A r \in Procs : st'[r] = IF r = p THEN "ret" ELSE st[r]
  BY Zenon DEF Fault, Becomes, rest, TypeOK, States
<1>2. TypeOK' /\ Shapes'
  BY <1>1, Zenon DEF TypeOK, Shapes, States
<1>3. Frames' /\ MaskIsFrames' /\ KillDefault' /\ IgnoredNotPending'
  BY <1>1, Zenon DEF Frames, MaskIsFrames, KillDefault, IgnoredNotPending, Discarded
<1>4. Unborn' /\ NoSleepThroughSignal'
  BY <1>1 DEF Unborn, Shapes, NoSleepThroughSignal, SignalPending, Deliverable
<1> QED
  BY <1>2, <1>3, <1>4, Zenon

(* Every step of the processes and of the kernel keeps the invariant. *)
LEMMA SigStep == SigInv /\ [Next]_vars => SigInv'
<1> SUFFICES ASSUME SigInv, [Next]_vars PROVE SigInv'
  BY Zenon
<1>1. CASE UNCHANGED vars
  BY <1>1, Zenon DEF vars, sigs, rest, SigInv, TypeOK, Shapes, Frames, MaskIsFrames,
     KillDefault, Unborn, NoSleepThroughSignal, IgnoredNotPending, SignalPending,
     Deliverable, Discarded
<1>2. ASSUME NEW p \in Procs, NEW q \in Procs, NEW s \in Sigs, Sigsend(p, q, s) PROVE SigInv'
  <2>1. /\ st[p] = "user" /\ st[q] # "UNUSED" /\ Mark(q, s, Becomes(p, "ret"))
        /\ UNCHANGED <<mask, handlers, handling, current, saved, frame, parent, base>>
    BY <1>2, Zenon DEF Sigsend, Syscall
  <2>2. sends' \in 0 .. MaxSends
    BY <1>2, Constants DEF Sigsend, SigInv, TypeOK
  <2> QED
    BY <2>1, <2>2, MarkStep, Zenon
<1>3. ASSUME NEW p \in Procs, \E s \in Sigs, h \in {"DFL", "IGN", "H"} : SetHandler(p, s, h)
      PROVE SigInv'
  BY <1>3, SetHandlerStep, Zenon
<1>4. ASSUME NEW p \in Procs, Sigreturn(p) \/ \E q \in Procs : Fork(p, q) PROVE SigInv'
  BY <1>4, SigreturnStep, ForkStep, Zenon
<1>5. ASSUME NEW p \in Procs, ExecLoad(p) \/ ExecFail(p) \/ Sleep(p) \/ Return(p) \/ Wakeup(p)
             \/ Interrupt(p)
      PROVE SigInv'
  <2>1. PICK l \in States \ {"UNUSED"} :
          /\ st[p] # "UNUSED" /\ st' = Becomes(p, l) /\ (l = "sleep" => ~SignalPending(p))
          /\ UNCHANGED <<sigs, frame, rest>>
    <3>1. CASE ExecLoad(p)
      BY <3>1, Zenon DEF ExecLoad, Syscall, States
    <3>2. CASE Sleep(p)
      BY <3>2, Zenon DEF Sleep, Syscall, States
    <3>3. CASE ExecFail(p) \/ Return(p) \/ Wakeup(p) \/ Interrupt(p)
      BY <3>3, Zenon DEF ExecFail, Return, Wakeup, Interrupt, States
    <3> QED
      BY <1>5, <3>1, <3>2, <3>3, Zenon
  <2> QED
    BY <2>1, StateStep, Zenon
<1>6. ASSUME NEW p \in Procs, ExecCommit(p) \/ Deliver(p) \/ Fault(p) PROVE SigInv'
  BY <1>6, ExecCommitStep, DeliverStep, FaultStep, Zenon
<1>7. ASSUME NEW p \in Procs, ExitSelf(p) \/ Terminate(p) \/ ExitKilled(p) PROVE SigInv'
  <2>1. \E x : st[p] # "UNUSED" /\ Leave(p, x)
    <3>1. CASE ExitSelf(p)
      BY <3>1, Zenon DEF ExitSelf, Syscall
    <3>2. CASE Terminate(p)
      BY <3>2, Zenon DEF Terminate
    <3>3. CASE ExitKilled(p)
      BY <3>3, Zenon DEF ExitKilled
    <3> QED
      BY <1>7, <3>1, <3>2, <3>3, Zenon
  <2> QED
    BY <2>1, LeaveStep, Zenon
<1> QED
  BY <1>1, <1>2, <1>3, <1>4, <1>5, <1>6, <1>7, Zenon DEF Next, User, Kernel

(* Signals keep their promises whatever the order of sigsend(), signal(),  *)
(* sigreturn(), fork(), exec(), sleep and exit: a handler resumes what it  *)
(* interrupted, no signal stays masked behind it, none is slept through,   *)
(* and none that is ignored is pending.                                    *)
THEOREM SignalsKept == Spec => []SignalsSound
<1>1. SigInv => SignalsSound
  BY Zenon DEF SigInv, SignalsSound, HandlerResumes, Frames
<1> QED
  BY <1>1, InitSig, SigStep, PTL DEF Spec
=============================================================================
