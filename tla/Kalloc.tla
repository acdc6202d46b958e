------------------------------- MODULE Kalloc -------------------------------
(***************************************************************************)
(* The page allocator (kernel/vm/kalloc.c): a free list per hart, and a    *)
(* reference count per page (cow_quota, one byte) by which fork() shares   *)
(* pages.  Each step is one critical section of a kmem lock or of          *)
(* cow_map.lock.  The references are page-table entries ("slots").         *)
(* Threads are processes in the kernel; between push_off() and pop_off() a *)
(* thread stays on its hart and has it for itself.                         *)
(***************************************************************************)
EXTENDS Integers, FiniteSets

CONSTANTS Threads, NCPU, Pages, Slots, None

CPUs == 0 .. NCPU - 1
Bytes == 256                 \* char is unsigned on RISC-V

ASSUME KallocAssumption ==
  /\ NCPU \in Nat \ {0}
  /\ IsFiniteSet(Slots) /\ Cardinality(Slots) < Bytes
  /\ None \notin Threads /\ None \notin Pages

VARIABLES
  free,     \* hart -> pages on its list
  quota,    \* page -> cow_quota
  map,      \* slot -> page, or None
  pc, cpu,  \* thread: place in the code, hart it is pinned to (or -1)
  n,        \* thread: the hart from which kalloc_page() steals next
  r         \* thread: the page it has in its hands

vars == <<free, quota, map, pc, cpu, n, r>>

(* freerange() spreads the pages over the harts, with a count of 0.  Which *)
(* hart has which page is left open, because user pages come and go.       *)
Init ==
  /\ \E hart \in [Pages -> CPUs] :
       free = [c \in CPUs |-> {pg \in Pages : hart[pg] = c}]
  /\ quota = [pg \in Pages |-> 0]
  /\ map = [s \in Slots |-> None]
  /\ pc = [t \in Threads |-> "idle"] /\ cpu = [t \in Threads |-> -1]
  /\ n = [t \in Threads |-> 0] /\ r = [t \in Threads |-> None]

(* The first hart from d on that is not c. *)
Other(c, d) == IF d = c THEN d + 1 ELSE d
-----------------------------------------------------------------------------
(* kalloc_page() takes a page from the hart's own list, ... *)
AllocLocal(t, c) ==
  /\ pc[t] = "idle" /\ \A u \in Threads : cpu[u] # c
  /\ IF free[c] # {}
     THEN \E pg \in free[c] :
            /\ free' = [free EXCEPT ![c] = @ \ {pg}]
            /\ r' = [r EXCEPT ![t] = pg]
            /\ pc' = [pc EXCEPT ![t] = "count"]
            /\ UNCHANGED <<cpu, n>>
     ELSE /\ Other(c, 0) < NCPU
          /\ cpu' = [cpu EXCEPT ![t] = c]
          /\ n' = [n EXCEPT ![t] = Other(c, 0)]
          /\ pc' = [pc EXCEPT ![t] = "steal"]
          /\ UNCHANGED <<free, r>>
  /\ UNCHANGED <<quota, map>>

(* ... or steals one from another hart, ... *)
Steal(t) ==
  /\ pc[t] = "steal"
  /\ \E pg \in free[n[t]] :
       /\ free' = [free EXCEPT ![n[t]] = @ \ {pg}]
       /\ r' = [r EXCEPT ![t] = pg]
       /\ pc' = [pc EXCEPT ![t] = "count"]
       /\ cpu' = [cpu EXCEPT ![t] = -1] /\ n' = [n EXCEPT ![t] = 0]
  /\ UNCHANGED <<quota, map>>

(* ... goes on to the next hart, or returns 0. *)
StealNext(t) ==
  LET d == Other(cpu[t], n[t] + 1)
  IN /\ pc[t] = "steal" /\ free[n[t]] = {}
     /\ IF d < NCPU
        THEN n' = [n EXCEPT ![t] = d] /\ UNCHANGED <<pc, cpu>>
        ELSE /\ n' = [n EXCEPT ![t] = 0]
             /\ pc' = [pc EXCEPT ![t] = "idle"]
             /\ cpu' = [cpu EXCEPT ![t] = -1]
     /\ UNCHANGED <<free, quota, map, r>>

(* The count becomes 1, and the caller maps the page; a caller that fails  *)
(* to map it frees it at once.                                             *)
Count(t) ==
  /\ pc[t] = "count"
  /\ \E s \in Slots : map[s] = None /\ map' = [map EXCEPT ![s] = r[t]]
  /\ quota' = [quota EXCEPT ![r[t]] = 1]
  /\ r' = [r EXCEPT ![t] = None]
  /\ pc' = [pc EXCEPT ![t] = "idle"]
  /\ UNCHANGED <<free, cpu, n>>

(* kaddquota(): uvmcopy_range() maps a page of the parent in the child. *)
Share(t, s, u) ==
  /\ pc[t] = "idle" /\ map[s] # None /\ map[u] = None
  /\ map' = [map EXCEPT ![u] = map[s]]
  /\ quota' = [quota EXCEPT ![map[s]] = (@ + 1) % Bytes]
  /\ UNCHANGED <<free, pc, cpu, n, r>>

(* Mutant: the page goes to the list with one reference left. *)
Free_Early(t, c, s) ==
  /\ pc[t] = "idle" /\ map[s] # None
  /\ \A u \in Threads : cpu[u] # c
  /\ map' = [map EXCEPT ![s] = None]
  /\ quota' = [quota EXCEPT ![map[s]] = (@ - 1) % Bytes]
  /\ IF quota[map[s]] <= 2
     THEN /\ pc' = [pc EXCEPT ![t] = "push"]
          /\ cpu' = [cpu EXCEPT ![t] = c]
          /\ r' = [r EXCEPT ![t] = map[s]]
     ELSE UNCHANGED <<pc, cpu, r>>
  /\ UNCHANGED <<free, n>>

(* kfree_page(): the reference of an unmapped slot is given up; the page   *)
(* is free when the count reaches 0, ...                                   *)
Free(t, c, s) ==
  /\ pc[t] = "idle" /\ map[s] # None
  /\ \A u \in Threads : cpu[u] # c
  /\ map' = [map EXCEPT ![s] = None]
  /\ quota' = [quota EXCEPT ![map[s]] = (@ - 1) % Bytes]
  /\ IF quota[map[s]] = 1
     THEN /\ pc' = [pc EXCEPT ![t] = "push"]
          /\ cpu' = [cpu EXCEPT ![t] = c]
          /\ r' = [r EXCEPT ![t] = map[s]]
     ELSE UNCHANGED <<pc, cpu, r>>
  /\ UNCHANGED <<free, n>>

(* ... and goes to the hart's own list. *)
Push(t) ==
  /\ pc[t] = "push"
  /\ free' = [free EXCEPT ![cpu[t]] = @ \cup {r[t]}]
  /\ r' = [r EXCEPT ![t] = None]
  /\ pc' = [pc EXCEPT ![t] = "idle"] /\ cpu' = [cpu EXCEPT ![t] = -1]
  /\ UNCHANGED <<quota, map, n>>

Next ==
  \E t \in Threads :
    \/ \E c \in CPUs : AllocLocal(t, c) \/ \E s \in Slots : Free(t, c, s)
    \/ Steal(t) \/ StealNext(t) \/ Count(t) \/ Push(t)
    \/ \E s, u \in Slots : Share(t, s, u)

Spec == Init /\ [][Next]_vars
-----------------------------------------------------------------------------
TypeOK ==
  /\ free \in [CPUs -> SUBSET Pages]
  /\ quota \in [Pages -> 0 .. Bytes - 1]
  /\ map \in [Slots -> Pages \cup {None}]
  /\ pc \in [Threads -> {"idle", "steal", "count", "push"}]
  /\ cpu \in [Threads -> CPUs \cup {-1}]
  /\ n \in [Threads -> CPUs]
  /\ r \in [Threads -> Pages \cup {None}]

Users(pg) == {s \in Slots : map[s] = pg}
Carriers(pg) == {t \in Threads : r[t] = pg}
Lists(pg) == {c \in CPUs : pg \in free[c]}

(* A page is in one place: on one free list, in the hands of one thread,   *)
(* or mapped.  Allocation, stealing and freeing on several harts neither   *)
(* hand a page out twice nor free it while it is mapped nor lose it.       *)
OnePlace ==
  \A pg \in Pages :
    \/ Cardinality(Lists(pg)) = 1 /\ Carriers(pg) = {} /\ Users(pg) = {}
    \/ Lists(pg) = {} /\ Cardinality(Carriers(pg)) = 1 /\ Users(pg) = {}
    \/ Lists(pg) = {} /\ Carriers(pg) = {} /\ Users(pg) # {}

(* The count of a page is the number of page-table entries that refer to   *)
(* it: the COW handler writes to a page in place when the count is 1.      *)
QuotaExact == \A pg \in Pages : quota[pg] = Cardinality(Users(pg))

(* What kalloc_page(), kaddquota() and kfree_page() promise of the pages,  *)
(* between any two critical sections.                                      *)
PagesSound == OnePlace /\ QuotaExact
=============================================================================
