------------------------------- MODULE Ecache -------------------------------
(***************************************************************************)
(* The cache of directory entries (kernel/fs/fat32.c) under the system     *)
(* calls that walk paths (kernel/syscall/sysfile.c): references, entry     *)
(* locks, parent pointers and the LRU list.  Paths have two components, a  *)
(* directory of the root and a name in it.  The volume is the set of the   *)
(* paths that exist; an entry remembers in "obj" which path it was made    *)
(* for, which the code has no way to know.                                 *)
(***************************************************************************)
EXTENDS Integers, Sequences, SequencesExt, FiniteSets, FiniteSetsExt

CONSTANTS Procs, Ents, Root, Dirs, Names, None,
          MaxCalls      \* bound on the number of system calls with a path

Nodes == Ents \cup {Root}
Paths == {<<d>> : d \in Dirs} \cup {<<d, n>> : d \in Dirs, n \in Names}

VARIABLES
  disk,                     \* paths that exist
  lru,                      \* root.next ... root.prev
  ref, valid, parent, obj,  \* fields of the entries; name = Last(obj)
  lock,                     \* entry -> owner of the sleep lock, or None
  pc, op, path, cur, held,  \* process: place, call, rest of the path, entry at
                            \* hand, entry of its open file
  seen, eparent,            \* eput(): what ref-- left, and the parent read before
  calls,
  panicked, raced           \* history: a panic; two eput() of one entry overlapped

ents == <<lru, ref, valid, parent, obj>>
proc == <<pc, op, path, cur, held>>
puts == <<seen, eparent, calls>>
vars == <<disk, ents, lock, proc, puts, panicked, raced>>

Init ==
  /\ disk = Paths
  /\ lru = SetToSeq(Ents)
  /\ ref = [e \in Nodes |-> IF e = Root THEN Cardinality(Procs) ELSE 0]  \* p->cwd
  /\ valid = [e \in Nodes |-> IF e = Root THEN 1 ELSE 0]
  /\ parent = [e \in Nodes |-> None] /\ obj = [e \in Nodes |-> <<>>]
  /\ lock = [e \in Nodes |-> None]
  /\ pc = [p \in Procs |-> "user"] /\ op = [p \in Procs |-> None]
  /\ path = [p \in Procs |-> <<>>] /\ cur = [p \in Procs |-> None]
  /\ held = [p \in Procs |-> None]
  /\ seen = [p \in Procs |-> 0] /\ eparent = [p \in Procs |-> None]
  /\ calls = 0 /\ panicked = "no" /\ raced = FALSE
-----------------------------------------------------------------------------
Goto(p, l) == pc' = [pc EXCEPT ![p] = l]
Quiet == UNCHANGED <<panicked, raced>>

(* eget(), under ecache.lock: the cached entry of a name, ... *)
Hits(dp, name) == {e \in Ents : valid[e] = 1 /\ parent[e] = dp /\ Last(obj[e]) = name}

(* ... or the unused entry that is nearest to the end of the list. *)
Unused == {i \in DOMAIN lru : ref[lru[i]] = 0}
Victim == lru[CHOOSE i \in Unused : \A j \in Unused : j <= i]

(* Mutant: the parent gets its reference back only with a new entry. *)
RefHit_KeepsParent(ep, dp) == [ref EXCEPT ![ep] = @ + 1]

(* What eget() and edup() do to the references when ep is found. *)
RefHit(ep, dp) ==
  [ref EXCEPT ![ep] = @ + 1, ![dp] = IF ref[ep] = 0 THEN @ + 1 ELSE @]

(* elock(e) that is released again before anything else is locked, so that *)
(* the critical section is one step; without a reference it panics.        *)
Elocked(e) == e # None /\ ref[e] > 0 /\ lock[e] = None
ElockPanics(p, e) ==
  /\ (IF e = None THEN TRUE ELSE ref[e] < 1) /\ panicked' = "elock"
  /\ UNCHANGED <<disk, ents, lock, proc, puts, raced>>

(* A system call with a path begins: lookup_path() takes the root. *)
Call(p, o, f) ==
  /\ pc[p] = "user" /\ held[p] = None /\ calls < MaxCalls /\ calls' = calls + 1
  /\ op' = [op EXCEPT ![p] = o] /\ path' = [path EXCEPT ![p] = f]
  /\ cur' = [cur EXCEPT ![p] = Root] /\ ref' = [ref EXCEPT ![Root] = @ + 1]
  /\ Goto(p, "walk") /\ Quiet
  /\ UNCHANGED <<disk, lru, valid, parent, obj, lock, held, seen, eparent>>

(* create() gets its directory from enameparent() and locks it again. *)
AtParent(p) == op[p] = "create" /\ Len(path[p]) = 1

(* dirlookup() of a name that is cached or on the volume: next is e. *)
Found(p, e) ==
  LET dp == cur[p] name == Head(path[p]) IN
  IF Hits(dp, name) # {}
  THEN /\ e \in Hits(dp, name) /\ ref' = RefHit(e, dp)
       /\ UNCHANGED <<valid, parent, obj>>
  ELSE /\ Unused # {} /\ e = Victim
       /\ obj[dp] \o <<name>> \in disk \/ AtParent(p)
       /\ ref' = [ref EXCEPT ![e] = 1, ![dp] = @ + 1]
       /\ valid' = [valid EXCEPT ![e] = 1]
       /\ parent' = [parent EXCEPT ![e] = dp]
       /\ obj' = [obj EXCEPT ![e] = obj[dp] \o <<name>>]

(* dirlookup(), and for the last name of create() ealloc(), which also     *)
(* writes the new entry to the directory.                                  *)
Lookup(p) ==
  LET dp == cur[p] name == Head(path[p]) IN
  /\ pc[p] = "walk" /\ Elocked(dp) /\ valid[dp] = 1
  /\ \E e \in Ents :
       /\ Found(p, e)
       /\ disk' = IF AtParent(p) THEN disk \cup {obj'[e]} ELSE disk
       /\ held' = [held EXCEPT ![p] = e]
  /\ path' = [path EXCEPT ![p] = Tail(@)]
  /\ Goto(p, "put") /\ Quiet
  /\ UNCHANGED <<lru, lock, op, cur, puts>>

(* The name does not exist, or the directory has been removed: the entry   *)
(* that eget() took is given back unused.                                  *)
Missing(p) ==
  LET dp == cur[p] name == Head(path[p]) IN
  /\ pc[p] = "walk" /\ Elocked(dp)
  /\ valid[dp] # 1 \/ (/\ Hits(dp, name) = {} /\ ~AtParent(p)
                       /\ obj[dp] \o <<name>> \notin disk /\ Unused # {})
  /\ valid' = IF valid[dp] # 1 THEN valid ELSE [valid EXCEPT ![Victim] = 0]
  /\ path' = [path EXCEPT ![p] = <<>>] /\ Goto(p, "put") /\ Quiet
  /\ UNCHANGED <<disk, lru, ref, parent, obj, lock, op, cur, held, puts>>

(* panic("eget: insufficient ecache") *)
Insufficient(p) ==
  /\ pc[p] = "walk" /\ Elocked(cur[p]) /\ valid[cur[p]] = 1 /\ Unused = {}
  /\ Hits(cur[p], Head(path[p])) = {}
  /\ panicked' = "full"
  /\ UNCHANGED <<disk, ents, lock, proc, puts, raced>>
-----------------------------------------------------------------------------
(* eput(), under ecache.lock, of the last reference: the entry is locked   *)
(* and moves to the front.  acquiresleep() with a spinlock held must not   *)
(* have to wait.                                                           *)
LastRef(e) == e \in Ents /\ valid[e] # 0 /\ ref[e] = 1

ToFront(e) == <<e>> \o SelectSeq(lru, LAMBDA x : x # e)

PutLast(p) ==
  LET e == cur[p] IN
  /\ pc[p] = "put" /\ LastRef(e)
  /\ IF lock[e] = None
     THEN /\ lock' = [lock EXCEPT ![e] = p] /\ lru' = ToFront(e)
          /\ Goto(p, IF valid[e] = -1 THEN "unlock" ELSE "update") /\ Quiet
     ELSE /\ panicked' = "sched" /\ UNCHANGED <<lock, lru, pc, raced>>
  /\ UNCHANGED <<disk, ref, valid, parent, obj, op, path, cur, held, puts>>

(* What a process does next when its eput() is done. *)
Goes(p) ==
  IF path[p] # <<>> THEN "walk"
  ELSE IF held[p] = None \/ op[p] = None THEN "user"
  ELSE IF op[p] = "remove" THEN "remove" ELSE "open"

Advance(p) ==
  /\ Goto(p, Goes(p))
  /\ cur' = [cur EXCEPT ![p] = IF Goes(p) \in {"walk", "remove"} THEN held[p] ELSE None]
  /\ held' = [held EXCEPT ![p] = IF Goes(p) \in {"walk", "remove"} THEN None ELSE @]
  /\ op' = [op EXCEPT ![p] = IF Goes(p) = "user" THEN None ELSE @]
  /\ UNCHANGED path

PutMore(p) ==
  /\ pc[p] = "put" /\ cur[p] # None /\ ~LastRef(cur[p])
  /\ ref' = [ref EXCEPT ![cur[p]] = @ - 1]
  /\ raced' = (raced \/ \E q \in Procs : pc[q] = "drop" /\ cur[q] = cur[p])
  /\ Advance(p)
  /\ UNCHANGED <<panicked, disk, lru, valid, parent, obj, lock, puts>>

(* eupdate() needs the lock of the parent; etrunc() does not. *)
Update(p) ==
  /\ pc[p] = "update" /\ Elocked(parent[cur[p]])
  /\ Goto(p, "unlock") /\ Quiet
  /\ UNCHANGED <<disk, ents, lock, op, path, cur, held, puts>>

(* releasesleep(), the parent is read, ... *)
PutUnlock(p) ==
  /\ pc[p] = "unlock"
  /\ lock' = [lock EXCEPT ![cur[p]] = None]
  /\ eparent' = [eparent EXCEPT ![p] = parent[cur[p]]]
  /\ Goto(p, "drop") /\ Quiet
  /\ UNCHANGED <<disk, ents, op, path, cur, held, seen, calls>>

(* ... the reference goes, ... *)
PutDrop(p) ==
  LET e == cur[p] IN
  /\ pc[p] = "drop"
  /\ ref' = [ref EXCEPT ![e] = @ - 1] /\ seen' = [seen EXCEPT ![p] = ref[e] - 1]
  /\ Goto(p, "dropped") /\ Quiet
  /\ UNCHANGED <<eparent, calls, disk, lru, valid, parent, obj, lock, op, path, cur, held>>

(* ... and without the lock entry->ref is read again: if it is 0, the      *)
(* reference to the parent goes too.                                       *)
Again(p) == ref[cur[p]]

PutParent(p) ==
  /\ pc[p] = "dropped"
  /\ raced' = (raced \/ (Again(p) = 0) # (seen[p] = 0))
  /\ IF Again(p) = 0
     THEN /\ cur' = [cur EXCEPT ![p] = eparent[p]] /\ Goto(p, "put")
          /\ UNCHANGED <<op, path, held>>
     ELSE Advance(p)
  /\ seen' = [seen EXCEPT ![p] = 0] /\ eparent' = [eparent EXCEPT ![p] = None]
  /\ UNCHANGED <<disk, ents, lock, calls, panicked>>

(* sys_open() and sys_chdir() hold the lock for a moment. *)
Opened(p) ==
  /\ pc[p] = "open" /\ Elocked(held[p])
  /\ Goto(p, "user") /\ op' = [op EXCEPT ![p] = None] /\ Quiet
  /\ UNCHANGED <<disk, ents, lock, path, cur, held, puts>>
-----------------------------------------------------------------------------
(* sys_remove() locks the entry, which may not be a directory in use, ... *)
DirEmpty(e) == \A f \in disk : ~IsStrictPrefix(obj[e], f)

RemoveBusy(p) ==
  /\ pc[p] = "remove" /\ Elocked(cur[p]) /\ ~DirEmpty(cur[p])
  /\ Goto(p, "put") /\ Quiet
  /\ UNCHANGED <<disk, ents, lock, op, path, cur, held, puts>>

RemoveLock(p) ==
  /\ pc[p] = "remove" /\ Elocked(cur[p]) /\ DirEmpty(cur[p])
  /\ lock' = [lock EXCEPT ![cur[p]] = p] /\ Goto(p, "erase") /\ Quiet
  /\ UNCHANGED <<disk, ents, op, path, cur, held, puts>>

(* ... and its parent; eremove() erases it, unless another process has. *)
Erase(p) ==
  LET e == cur[p] IN
  /\ pc[p] = "erase" /\ Elocked(parent[e])
  /\ disk' = IF valid[e] = 1 THEN disk \ {obj[e]} ELSE disk
  /\ valid' = [valid EXCEPT ![e] = IF @ = 1 THEN -1 ELSE @]
  /\ lock' = [lock EXCEPT ![e] = None]
  /\ Goto(p, "put") /\ Quiet
  /\ UNCHANGED <<lru, ref, parent, obj, op, path, cur, held, puts>>

(* close() of the open file, or chdir() away from the directory. *)
Close(p) ==
  /\ pc[p] = "user" /\ held[p] # None
  /\ cur' = [cur EXCEPT ![p] = held[p]] /\ held' = [held EXCEPT ![p] = None]
  /\ Goto(p, "put") /\ Quiet
  /\ UNCHANGED <<disk, ents, lock, op, path, puts>>

(* fat32_invalidate() *)
Invalidate ==
  /\ valid' = [e \in Nodes |-> IF e \in Ents /\ ref[e] = 0 THEN 0 ELSE valid[e]]
  /\ parent' = [e \in Nodes |-> IF e \in Ents /\ ref[e] = 0 THEN None ELSE parent[e]]
  /\ Quiet /\ UNCHANGED <<disk, lru, ref, obj, lock, proc, puts>>

(* The entry that p locks next *)
Wants(p) ==
  CASE pc[p] \in {"walk", "remove"} -> cur[p]
    [] pc[p] \in {"update", "erase"} -> parent[cur[p]]
    [] pc[p] = "open" -> held[p]

Step(p) ==
  \/ \E o \in {"open", "create", "remove"}, f \in Paths : Call(p, o, f)
  \/ Lookup(p) \/ Missing(p) \/ Insufficient(p) \/ Opened(p)
  \/ PutLast(p) \/ PutMore(p) \/ Update(p) \/ PutUnlock(p) \/ PutDrop(p) \/ PutParent(p)
  \/ RemoveLock(p) \/ RemoveBusy(p) \/ Erase(p) \/ Close(p)
  \/ pc[p] \in {"walk", "remove", "update", "erase", "open"} /\ ElockPanics(p, Wants(p))
  \/ pc[p] = "put" /\ cur[p] = None /\ ElockPanics(p, None)

Next == panicked = "no" /\ (Invalidate \/ \E p \in Procs : Step(p))
Spec == Init /\ [][Next]_vars
-----------------------------------------------------------------------------
TypeOK ==
  /\ disk \subseteq Paths /\ ToSet(lru) = Ents /\ Len(lru) = Cardinality(Ents)
  /\ \A e \in Nodes : ref[e] \in Nat /\ valid[e] \in -1 .. 1
  /\ \A e \in Nodes : lock[e] \in Procs \cup {None}

(* The references to e in the hands of the processes *)
Taken(e) ==
  Cardinality({p \in Procs : cur[p] = e /\ pc[p] # "dropped"})
  + Cardinality({p \in Procs : held[p] = e})
  + Cardinality({p \in Procs : pc[p] = "dropped" /\ seen[p] = 0 /\ eparent[p] = e})

(* The references of an entry are those of the processes that hold it and  *)
(* one for all the users of each child, and the entry that a name finds in *)
(* the cache is the file of that name in that directory, cached once -     *)
(* although parents are recycled and the cache only compares pointers to   *)
(* them; and no assertion of elock() or eput() fails.  All this unless two *)
(* eput() of one entry overlapped: the second between releasesleep() and   *)
(* ref-- of the first, which leaves a child nearer to the front of the     *)
(* list than its parent, or between ref-- and the second look at ref.      *)
CacheSoundUnlessRaced ==
  raced \/
  /\ TypeOK /\ panicked \notin {"elock", "sched"}
  /\ \A e \in Nodes :
       ref[e] = (IF e = Root THEN Cardinality(Procs) ELSE 0)
                + Cardinality({c \in Ents : parent[c] = e /\ valid[c] # 0 /\ ref[c] > 0})
                + Taken(e)
  /\ \A e \in Ents : valid[e] = 1 =>
       /\ obj[e] \in disk /\ obj[e] = obj[parent[e]] \o <<Last(obj[e])>>
       /\ Cardinality(Hits(parent[e], Last(obj[e]))) = 1
=============================================================================
