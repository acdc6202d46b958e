--------------------------------- MODULE Fat ---------------------------------
(***************************************************************************)
(* Cluster chains (kernel/fs/fat32.c): the allocation table, the entries   *)
(* of files in memory with their place in the chain (cur_clus, clus_cnt),  *)
(* and the directory entries on the volume, written when a file is closed. *)
(* An operation on an entry runs under its lock and alloc_clus() under the *)
(* lock of a buffer, so operations are single steps.                       *)
(***************************************************************************)
EXTENDS Integers, Sequences, FiniteSets, FiniteSetsExt

CONSTANTS
  Files, Devs,      \* files, and device nodes
  Major,            \* first_clus of a device node holds its major number
  DataClus,         \* fat.data_clus_cnt
  FatEnts,          \* entries of the table: fat_sz * ent_per_sec
  BPC,              \* fat.byts_per_clus, in the unit of the offsets
  Lens, MaxSize     \* lengths of transfers; bounds on the sizes of the files

EOC == 100                        \* FAT32_EOC and above
Clusters == 2 .. FatEnts - 1
Absent == [st |-> "absent"]
Blank == [i \in 0 .. BPC - 1 |-> 0]

VARIABLES
  fat, data,        \* the table, and what the clusters hold
  dent,             \* directory entries on the volume: first cluster and size
  ent,              \* entries in the cache
  odd               \* history: what happened that the code does not handle

vars == <<fat, data, dent, ent, odd>>

Init ==
  /\ fat = [c \in 0 .. FatEnts - 1 |-> IF c < 2 THEN EOC ELSE 0]
  /\ data = [c \in Clusters |-> Blank]
  /\ dent = [f \in Files \cup Devs |-> Absent]
  /\ ent = [f \in Files |-> Absent]
  /\ odd = {}
-----------------------------------------------------------------------------
(* read_fat(): a cluster behind the volume has no successor. *)
ReadFat(t, c) == IF c >= EOC THEN c ELSE IF c > DataClus + 1 THEN 0 ELSE t[c]

WriteFat(t, c, x) == IF c > DataClus + 1 THEN t ELSE [t EXCEPT ![c] = x]

(* An operation works on v: the table, the clusters, one entry, and "bad", *)
(* set when alloc_clus() panics or takes an entry of the table that has no *)
(* cluster of the volume (the table may be longer than the volume).        *)
Volume(f) == [fat |-> fat, data |-> data, e |-> ent[f], bad |-> FALSE]

(* alloc_clus(), zero_clus(): the first free entry of the table. *)
FreeClus(v) == {c \in DOMAIN v.fat : v.fat[c] = 0}
AllocClus(v) ==
  IF FreeClus(v) = {} THEN [v EXCEPT !.bad = TRUE]
  ELSE LET c == Min(FreeClus(v)) IN
       [v EXCEPT !.fat[c] = EOC, !.data[c] = Blank,
                 !.bad = c > DataClus + 1]

(* reloc_clus(): forward along the chain, and past its end if the caller   *)
(* may extend it; ...                                                      *)
RECURSIVE Forward(_, _, _)
Forward(v, num, alloc) ==
  LET next == ReadFat(v.fat, v.e.cur)
      a == AllocClus(v)
      Onto(u, c) == [u EXCEPT !.e.cur = c, !.e.cnt = @ + 1]
  IN IF v.bad \/ num <= v.e.cnt THEN v
     ELSE IF next < EOC THEN Forward(Onto(v, next), num, alloc)
     ELSE IF ~alloc THEN [v EXCEPT !.e.cur = v.e.first, !.e.cnt = 0]
     ELSE IF a.bad THEN a
     ELSE LET c == Min(FreeClus(v)) IN
          Forward(Onto([a EXCEPT !.fat = WriteFat(@, v.e.cur, c)], c), num, alloc)

(* Mutant: clus_cnt is reset, cur_clus is not. *)
RelocClus_KeepsCur(v, off, alloc) ==
  LET num == off \div BPC IN
  IF num >= v.e.cnt THEN Forward(v, num, alloc) ELSE Forward([v EXCEPT !.e.cnt = 0], num, FALSE)

(* ... back to its first cluster if the offset lies before cur_clus. *)
RelocClus(v, off, alloc) ==
  LET num == off \div BPC IN
  IF num >= v.e.cnt THEN Forward(v, num, alloc)
  ELSE Forward([v EXCEPT !.e.cur = v.e.first, !.e.cnt = 0], num, FALSE)

(* The part of a transfer that lies in the cluster of its offset *)
Piece(off, n) == Min({BPC - (off % BPC), n})

(* eread(): what is read, and the entry, whose place in the chain moved. *)
RECURSIVE ReadLoop(_, _, _)
ReadLoop(v, off, n) ==
  IF n = 0 \/ v.e.cur >= EOC THEN [v |-> v, out |-> <<>>]
  ELSE LET u == RelocClus(v, off, FALSE)
           m == Piece(off, n)
           r == ReadLoop(u, off + m, n - m)
       IN [v |-> r.v,
           out |-> [i \in 1 .. m |-> u.data[u.e.cur][(off % BPC) + i - 1]] \o r.out]

Eread(v, off, n) ==
  IF off > v.e.size THEN [v |-> v, out |-> <<>>]
  ELSE ReadLoop(v, off, Min({n, v.e.size - off}))

(* ewrite(): the content of a file is what tells it and its offsets from   *)
(* others.                                                                 *)
Unit(f, off) == <<f, off>>
RECURSIVE WriteLoop(_, _, _, _)
WriteLoop(v, f, off, n) ==
  IF n = 0 \/ v.bad THEN v
  ELSE LET u == RelocClus(v, off, TRUE)
           m == Piece(off, n)
           at == off % BPC
       IN IF u.bad THEN u
          ELSE WriteLoop([u EXCEPT !.data[u.e.cur] =
                            [i \in DOMAIN @ |-> IF i \in at .. at + m - 1
                                             THEN Unit(f, off + i - at) ELSE @[i]]],
                         f, off + m, n - m)

FirstClus(v) ==
  IF v.e.first # 0 THEN v
  ELSE LET a == AllocClus(v) IN
       IF a.bad THEN a
       ELSE LET c == Min(FreeClus(v)) IN
            [a EXCEPT !.e.first = c, !.e.cur = c, !.e.cnt = 0, !.e.dirty = TRUE]

Ewrite(v, f, off, n) ==
  LET w == WriteLoop(FirstClus(v), f, off, n) IN
  IF off + n > v.e.size THEN [w EXCEPT !.e.size = off + n, !.e.dirty = TRUE] ELSE w

(* etrunc(): the chain is freed, cur_clus and clus_cnt stay.  What a free  *)
(* cluster holds is forgotten: alloc_clus() clears it before it is used.   *)
RECURSIVE FreeChain(_, _)
FreeChain(t, c) ==
  IF c < 2 \/ c >= EOC THEN t ELSE FreeChain(WriteFat(t, c, 0), ReadFat(t, c))

Etrunc(v) ==
  LET t == FreeChain(v.fat, v.e.first) IN
  [v EXCEPT !.fat = t, !.data = [c \in Clusters |-> IF t[c] = 0 THEN Blank ELSE @[c]],
            !.e.size = 0, !.e.first = 0, !.e.dirty = TRUE]
-----------------------------------------------------------------------------
Cached(f) == ent[f] # Absent
InUse(f) == Cached(f) /\ ent[f].open

Entry(first, size) ==
  [st |-> "valid", first |-> first, size |-> size, cur |-> first, cnt |-> 0,
   dirty |-> FALSE, open |-> TRUE]

Apply(f, v) ==
  /\ fat' = v.fat /\ data' = v.data /\ ent' = [ent EXCEPT ![f] = v.e]
  /\ odd' = IF v.bad THEN odd \cup {"full"} ELSE odd

(* ealloc() of a file, as emake() writes it *)
Create(f) ==
  /\ dent[f] = Absent /\ ~Cached(f)
  /\ ent' = [ent EXCEPT ![f] = Entry(0, 0)]
  /\ dent' = [dent EXCEPT ![f] = [first |-> 0, size |-> 0]]
  /\ UNCHANGED <<fat, data, odd>>

(* read_entry_info() from the volume, or the entry that is still cached *)
Open(f) ==
  /\ dent[f] # Absent /\ ~InUse(f)
  /\ ent' = [ent EXCEPT ![f] = IF Cached(f) THEN [@ EXCEPT !.open = TRUE]
                               ELSE Entry(dent[f].first, dent[f].size)]
  /\ UNCHANGED <<fat, data, dent, odd>>

Read(f, off, n) ==
  /\ InUse(f) /\ Apply(f, Eread(Volume(f), off, n).v)
  /\ UNCHANGED dent

Write(f, off, n) ==
  /\ InUse(f) /\ off <= ent[f].size /\ off + n <= MaxSize[f]
  /\ Apply(f, Ewrite(Volume(f), f, off, n)) /\ UNCHANGED dent

(* open(O_TRUNC) *)
Trunc(f) ==
  /\ InUse(f) /\ Apply(f, Etrunc(Volume(f))) /\ UNCHANGED dent

(* eremove() *)
Remove(f) ==
  /\ InUse(f) /\ ent[f].st = "valid"
  /\ ent' = [ent EXCEPT ![f].st = "removed"] /\ dent' = [dent EXCEPT ![f] = Absent]
  /\ UNCHANGED <<fat, data, odd>>

(* eput() of the last reference: etrunc() of an entry that was removed,    *)
(* eupdate() of another.                                                   *)
Close(f) ==
  /\ InUse(f)
  /\ IF ent[f].st = "removed"
     THEN LET v == Etrunc(Volume(f)) IN
          /\ fat' = v.fat /\ data' = v.data /\ ent' = [ent EXCEPT ![f] = Absent]
          /\ UNCHANGED dent
     ELSE /\ dent' = [dent EXCEPT ![f] = [first |-> ent[f].first, size |-> ent[f].size]]
          /\ ent' = [ent EXCEPT ![f].dirty = FALSE, ![f].open = FALSE]
          /\ UNCHANGED <<fat, data>>
  /\ UNCHANGED odd

(* eget() takes the entry for another name. *)
Recycle(f) ==
  /\ Cached(f) /\ ~ent[f].open /\ ent' = [ent EXCEPT ![f] = Absent]
  /\ UNCHANGED <<fat, data, dent, odd>>

(* mknod(), and the two calls that truncate: open(O_TRUNC), which excludes *)
(* only directories, and remove().  The chain that a device node loses is  *)
(* the one of the cluster with the number of its major.                    *)
MkNod(f) ==
  /\ dent[f] = Absent /\ dent' = [dent EXCEPT ![f] = [first |-> Major, size |-> 0]]
  /\ UNCHANGED <<fat, data, ent, odd>>
TruncNode(f) ==
  LET v == Etrunc([fat |-> fat, data |-> data, e |-> Entry(dent[f].first, 0)]) IN
  /\ dent[f] # Absent /\ fat' = v.fat /\ data' = v.data
  /\ dent' \in {[dent EXCEPT ![f] = x] : x \in {[first |-> 0, size |-> 0], Absent}}
  /\ odd' = IF v.fat # fat THEN odd \cup {"node"} ELSE odd
  /\ UNCHANGED ent

(* The power goes: what the cache knew better than the volume is lost. *)
Reset ==
  /\ odd' = IF \E f \in Files : InUse(f) /\ (ent[f].dirty \/ ent[f].st = "removed")
            THEN odd \cup {"torn"} ELSE odd
  /\ ent' = [f \in Files |-> Absent]
  /\ UNCHANGED <<fat, data, dent>>

Next ==
  /\ odd = {}
  /\ \/ \E f \in Files :
          \/ Create(f) \/ Open(f) \/ Trunc(f) \/ Remove(f) \/ Close(f) \/ Recycle(f)
          \/ \E off \in 0 .. MaxSize[f] - 1, n \in Lens : Read(f, off, n) \/ Write(f, off, n)
     \/ \E f \in Devs : MkNod(f) \/ TruncNode(f)
     \/ Reset
Spec == Init /\ [][Next]_vars
-----------------------------------------------------------------------------
(* The chain that starts at c *)
RECURSIVE Chain(_)
Chain(c) == IF c < 2 \/ c >= EOC THEN <<>> ELSE <<c>> \o Chain(fat[c])
FirstOf(f) == IF Cached(f) THEN ent[f].first
            ELSE IF dent[f] = Absent THEN 0 ELSE dent[f].first
Owned(f) == {Chain(FirstOf(f))[i] : i \in DOMAIN Chain(FirstOf(f))}

(* The chains of the files are disjoint, end, and hold every cluster that  *)
(* is allocated; a chain is as long as its file; the place that an entry   *)
(* remembers is in its chain; an entry that is not dirty agrees with the   *)
(* volume; and eread() gives at every offset what was written there.  All  *)
(* this until the volume was full, a device node was truncated, or the     *)
(* power went while an entry was dirty or removed.                         *)
FilesSoundUnlessTorn ==
  odd # {} \/
  /\ \A f, g \in Files : f # g => Owned(f) \cap Owned(g) = {}
  /\ UNION {Owned(f) : f \in Files} = {c \in Clusters : fat[c] # 0}
  /\ \A f \in Files : Cached(f) =>
       LET e == ent[f] chain == Chain(e.first) IN
       /\ Len(chain) = (e.size + BPC - 1) \div BPC
       /\ e.first # 0 => e.cnt < Len(chain) /\ chain[e.cnt + 1] = e.cur
       /\ ~e.dirty /\ e.st = "valid" => dent[f] = [first |-> e.first, size |-> e.size]
       /\ \A off \in 0 .. MaxSize[f] : Eread(Volume(f), off, MaxSize[f]).out
            = [i \in 1 .. e.size - off |-> Unit(f, off + i - 1)]
=============================================================================
