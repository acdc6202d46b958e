-------------------------------- MODULE Fdir ---------------------------------
(***************************************************************************)
(* The slots of a directory (kernel/fs/fat32.c): a file has slots with the *)
(* parts of its long name, the last part first, and one short slot with    *)
(* its data; a removed file leaves empty slots, and the first slot never   *)
(* used ends the directory.  The directory is the root, without "." and    *)
(* "..", or a subdirectory, which begins with them.  Its lock is held by   *)
(* every operation.                                                        *)
(***************************************************************************)
EXTENDS Integers, Sequences, FiniteSets, FiniteSetsExt

CONSTANTS
  Parts,        \* name -> number of its parts of 13 characters
  PerClus,      \* slots of a cluster
  First,        \* a name of one part, of the first file of the root
  MaxSlots      \* bound on the slots of the directory

Names == DOMAIN Parts
End == [k |-> "end"]
Empty == [k |-> "empty"]
Long(n, i) == [k |-> "long", name |-> n, order |-> i, last |-> i = Parts[n]]
Short(n, x) == [k |-> "short", name |-> n, info |-> x]
Dot(i) == [k |-> "dot", name |-> <<".", "..">>[i]]
None == -1

VARIABLES
  root,     \* whether the directory is the root
  slot,     \* its clusters, slot after slot; offsets count slots from 0
  off,      \* name -> offset in its entry in the cache, None if it has none
  info,     \* name -> first cluster and size in that entry
  odd       \* history: what happened that the code does not handle

vars == <<root, slot, off, info, odd>>
At(s, o) == s[o + 1]

Init ==
  /\ root \in BOOLEAN
  /\ LET two == IF root THEN <<Long(First, 1), Short(First, 0)>> ELSE <<Dot(1), Dot(2)>>
     IN slot = [i \in 1 .. PerClus |-> IF i <= 2 THEN two[i] ELSE End]
  /\ off = [n \in Names |-> None] /\ info = [n \in Names |-> 0] /\ odd = {}
-----------------------------------------------------------------------------
(* enext(): what lies at o: the end, a run of empty slots, or a file, and  *)
(* over how many slots it goes.  A run of empty slots that reaches the end *)
(* of the directory is the end.                                            *)
Run(o) ==
  LET stop == {j \in o .. Len(slot) - 1 : At(slot, j) # Empty}
  IN IF stop = {} THEN Len(slot) ELSE Min(stop)
Enext(o) ==
  LET r == Run(o) IN
  IF r >= Len(slot) THEN [type |-> -1, count |-> 0]
  ELSE LET s == At(slot, r) IN
       IF s.k = "end" THEN [type |-> -1, count |-> 0]
       ELSE IF r > o THEN [type |-> 0, count |-> r - o]
       ELSE IF s.k = "long"
       THEN [type |-> 1, count |-> s.order + 1, name |-> s.name, short |-> At(slot, o + s.order)]
       ELSE [type |-> 1, count |-> 1, name |-> s.name, short |-> s]

(* Mutant: the search ends at the first empty slots. *)
DirLookup_FirstHole(n) ==
  LET g[o \in 0 .. Len(slot)] ==
        LET e == Enext(o) IN
        IF e.type = -1 THEN [found |-> FALSE, off |-> o]
        ELSE IF e.type = 0 THEN [found |-> FALSE, off |-> o]
        ELSE IF e.name = n THEN [found |-> TRUE, off |-> o, info |-> e.short.info]
        ELSE g[o + e.count]
  IN g[0]

(* dirlookup(): the offset and data of the file, or the offset for a new   *)
(* one.  "type = enext(...) != -1" makes type 1 for a run of empty slots,  *)
(* so that the run is not offered to poff: its filename is "", which no    *)
(* name equals, and the search goes on behind it.                          *)
DirLookup(n) ==
  LET g[o \in 0 .. Len(slot)] ==
        LET e == Enext(o) IN
        IF e.type = -1 THEN [found |-> FALSE, off |-> o]
        ELSE IF e.type = 1 /\ e.name = n THEN [found |-> TRUE, off |-> o, info |-> e.short.info]
        ELSE g[o + e.count]
  IN g[0]

(* reloc_clus(..., 1) behind the end of the chain: a cluster of zeros *)
Grown(n) ==
  LET len == Max({Len(slot), ((n + PerClus - 1) \div PerClus) * PerClus})
  IN [i \in 1 .. len |-> IF i <= Len(slot) THEN slot[i] ELSE End]

(* emake(): in the first two slots of a directory every entry becomes "."  *)
(* or "..".                                                                *)
Emake(n, o) ==
  IF o <= 1 THEN [Grown(o + 1) EXCEPT ![o + 1] = Dot(o + 1)]
  ELSE LET p == Parts[n] IN
       [i \in DOMAIN Grown(o + p + 1) |->
          IF i - 1 \in o .. o + p - 1 THEN Long(n, p - (i - 1 - o))
          ELSE IF i - 1 = o + p THEN Short(n, 0) ELSE Grown(o + p + 1)[i]]

(* eget(), dirlookup(): a hit in the cache does not look at the directory. *)
Lookup(n) ==
  /\ off[n] = None /\ DirLookup(n).found
  /\ off' = [off EXCEPT ![n] = DirLookup(n).off]
  /\ info' = [info EXCEPT ![n] = DirLookup(n).info]
  /\ UNCHANGED <<root, slot, odd>>

(* ealloc() *)
Create(n) ==
  LET o == DirLookup(n).off IN
  /\ off[n] = None /\ ~DirLookup(n).found /\ o + Parts[n] + 1 <= MaxSlots
  /\ slot' = Emake(n, o) /\ off' = [off EXCEPT ![n] = o] /\ info' = [info EXCEPT ![n] = 0]
  /\ odd' = IF o <= 1 THEN odd \cup {"dot"} ELSE odd
  /\ UNCHANGED root

(* eupdate(): the order of the slot at off tells where the short one is. *)
Entries(n) == At(slot, off[n]).order
Update(n) ==
  /\ off[n] # None /\ info[n] = 0
  /\ info' = [info EXCEPT ![n] = 1]
  /\ slot' = [slot EXCEPT ![off[n] + Entries(n) + 1].info = 1]
  /\ UNCHANGED <<root, off, odd>>

(* eremove(), and the entry leaves the cache. *)
Remove(n) ==
  /\ off[n] # None /\ off' = [off EXCEPT ![n] = None]
  /\ slot' = [i \in DOMAIN slot |->
                IF i - 1 \in off[n] .. off[n] + Entries(n) THEN Empty ELSE slot[i]]
  /\ UNCHANGED <<root, info, odd>>

(* eget() takes an unused entry for another name. *)
Recycle(n) ==
  /\ off[n] # None /\ off' = [off EXCEPT ![n] = None]
  /\ UNCHANGED <<root, slot, info, odd>>

Next ==
  /\ odd = {}
  /\ \E n \in Names : Lookup(n) \/ Create(n) \/ Update(n) \/ Remove(n) \/ Recycle(n)
Spec == Init /\ [][Next]_vars
-----------------------------------------------------------------------------
(* sys_readdir(), called until it answers 0: dirnext() steps over runs of  *)
(* empty slots.                                                            *)
Listing ==
  LET g[o \in 0 .. Len(slot)] ==
        LET e == Enext(o) IN
        IF e.type = -1 THEN <<>>
        ELSE IF e.type = 0 THEN g[o + e.count] ELSE <<e.name>> \o g[o + e.count]
  IN g[0]

(* What is on the volume *)
Live == {n \in Names : \E i \in DOMAIN slot : slot[i] = Long(n, Parts[n])}

(* Files come and go, and neither disturbs another: every file is found at *)
(* the offset that its entry in the cache remembers, with its own data,    *)
(* and readdir lists every file once; after "." and "..", and as long as   *)
(* no file was created in the first two slots of the root.                 *)
DirSoundUnlessDot ==
  odd # {} \/
  /\ \A n \in Names : off[n] # None => n \in Live
  /\ \A n \in Names :
       LET d == DirLookup(n) IN
       /\ d.found <=> n \in Live
       /\ n \in Live => slot[d.off + Parts[n] + 1].k = "short"
                        /\ slot[d.off + Parts[n] + 1].name = n
       /\ off[n] # None => d.off = off[n] /\ d.info = info[n]
  /\ LET l == Listing IN
     /\ {l[i] : i \in DOMAIN l} \cap Names = Live
     /\ Len(l) = Cardinality(Live) + (IF root THEN 0 ELSE 2)
=============================================================================
