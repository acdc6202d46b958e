---------------------------- MODULE KallocProofs -----------------------------
(* The page allocator hands out no page twice, loses none, and counts the   *)
(* references to each, for any number of threads, harts and pages and up to *)
(* 255 page-table entries.                                                  *)
EXTENDS Kalloc, FiniteSetTheorems, TLAPS

(* Time for each leaf. *)
USE SMTT(30), Z3T(30), Zenon, SMTT(31)

(* What a thread has in its hands fits its place in the code. *)
Hands ==
  \A t \in Threads :
    /\ r[t] # None <=> pc[t] \in {"count", "push"}
    /\ cpu[t] \in CPUs <=> pc[t] \in {"steal", "push"}

(* OnePlace without cardinalities *)
Apart(pg) ==
  /\ \A c, d \in CPUs : pg \in free[c] /\ pg \in free[d] => c = d
  /\ \A t, u \in Threads : r[t] = pg /\ r[u] = pg => t = u
  /\ \A c \in CPUs, t \in Threads : ~(pg \in free[c] /\ r[t] = pg)
  /\ \A c \in CPUs, s \in Slots : ~(pg \in free[c] /\ map[s] = pg)
  /\ \A t \in Threads, s \in Slots : ~(r[t] = pg /\ map[s] = pg)
Somewhere(pg) ==
  \/ \E c \in CPUs : pg \in free[c]
  \/ \E t \in Threads : r[t] = pg
  \/ \E s \in Slots : map[s] = pg
Placed == \A pg \in Pages : Apart(pg) /\ Somewhere(pg)

KInv == TypeOK /\ Hands /\ Placed /\ QuotaExact

(* Of one set at most one element is in it, and so its size is 1. *)
LEMMA OneElement ==
  ASSUME NEW S, NEW x \in S, \A y \in S : y = x PROVE Cardinality(S) = 1
<1>1. S = {x}
  OBVIOUS
<1> QED
  BY <1>1, FS_Singleton

(* The page-table entries of a page are few, and counted. *)
LEMMA UsersFinite ==
  ASSUME NEW pg
  PROVE /\ IsFiniteSet(Users(pg))
        /\ Cardinality(Users(pg)) \in 0 .. Bytes - 1
        /\ Cardinality(Users(pg)) = 0 <=> Users(pg) = {}
<1>1. Users(pg) \subseteq Slots
  BY DEF Users
<1>2. IsFiniteSet(Users(pg)) /\ Cardinality(Users(pg)) <= Cardinality(Slots)
  BY <1>1, KallocAssumption, FS_Subset DEF KallocAssumption
<1>3. Cardinality(Users(pg)) \in Nat /\ Cardinality(Slots) \in Nat
  BY <1>2, KallocAssumption, FS_CardinalityType DEF KallocAssumption
<1>4. Cardinality(Users(pg)) = 0 <=> Users(pg) = {}
  BY <1>2, FS_EmptySet
<1> QED
  BY <1>2, <1>3, <1>4, KallocAssumption DEF KallocAssumption, Bytes

(* freerange() establishes the invariant. *)
LEMMA InitInv == Init => KInv
<1> SUFFICES ASSUME Init PROVE KInv
  OBVIOUS
<1>1. PICK hart \in [Pages -> CPUs] :
        free = [c \in CPUs |-> {pg \in Pages : hart[pg] = c}]
  BY DEF Init
<1>2. TypeOK
  BY <1>1, KallocAssumption DEF Init, TypeOK, CPUs, Bytes
<1>3. Hands
  BY DEF Init, Hands, CPUs
<1>4. Placed
  BY <1>1, KallocAssumption DEF Init, Placed, Apart, Somewhere
<1>5. \A pg \in Pages : Users(pg) = {}
  BY KallocAssumption DEF Init, Users
<1>6. QuotaExact
  BY <1>5, FS_EmptySet, Zenon DEF Init, QuotaExact
<1> QED
  BY <1>2, <1>3, <1>4, <1>6 DEF KInv

(* While the counts and the mappings stay, so does QuotaExact. *)
LEMMA QuotaStays ==
  ASSUME KInv, UNCHANGED <<quota, map>> PROVE QuotaExact'
  BY DEF KInv, QuotaExact, Users

(* kalloc_page() preserves the invariant. *)
LEMMA AllocLocalStep ==
  ASSUME KInv, NEW t \in Threads, NEW c \in CPUs, AllocLocal(t, c) PROVE KInv'
<1>1. CASE free[c] # {}
  <2>1. PICK pg \in free[c] : /\ free' = [free EXCEPT ![c] = @ \ {pg}]
                              /\ r' = [r EXCEPT ![t] = pg]
                              /\ pc' = [pc EXCEPT ![t] = "count"]
                              /\ UNCHANGED <<cpu, n, quota, map>>
    BY <1>1 DEF AllocLocal
  <2>2. pc[t] = "idle" /\ r[t] = None /\ pg \in Pages
    BY DEF AllocLocal, KInv, TypeOK, Hands
  <2>3. TypeOK' /\ Hands'
    BY <2>1, <2>2, KallocAssumption DEF KInv, TypeOK, Hands
  <2>4. Placed'
    BY <2>1, <2>2, KallocAssumption DEF KInv, TypeOK, Placed, Apart, Somewhere
  <2> QED
    BY <2>1, <2>3, <2>4, QuotaStays DEF KInv
<1>2. CASE free[c] = {}
  <2>1. /\ Other(c, 0) < NCPU /\ pc[t] = "idle"
        /\ cpu' = [cpu EXCEPT ![t] = c]
        /\ n' = [n EXCEPT ![t] = Other(c, 0)]
        /\ pc' = [pc EXCEPT ![t] = "steal"]
        /\ UNCHANGED <<free, r, quota, map>>
    BY <1>2 DEF AllocLocal
  <2>2. Other(c, 0) \in CPUs
    BY <2>1, KallocAssumption DEF Other, CPUs
  <2>3. TypeOK' /\ Hands'
    BY <2>1, <2>2 DEF KInv, TypeOK, Hands
  <2>4. Placed'
    BY <2>1 DEF KInv, Placed, Apart, Somewhere
  <2> QED
    BY <2>1, <2>3, <2>4, QuotaStays DEF KInv
<1> QED
  BY <1>1, <1>2

(* kalloc_page() takes a page from another hart. *)
LEMMA StealStep ==
  ASSUME KInv, NEW t \in Threads, Steal(t) PROVE KInv'
<1>1. PICK pg \in free[n[t]] : /\ free' = [free EXCEPT ![n[t]] = @ \ {pg}]
                               /\ r' = [r EXCEPT ![t] = pg]
                               /\ pc' = [pc EXCEPT ![t] = "count"]
                               /\ cpu' = [cpu EXCEPT ![t] = -1]
                               /\ n' = [n EXCEPT ![t] = 0]
                               /\ UNCHANGED <<quota, map>>
  BY Zenon DEF Steal
<1>2. pc[t] = "steal" /\ r[t] = None /\ n[t] \in CPUs /\ pg \in Pages
  BY DEF Steal, KInv, TypeOK, Hands
<1>3. 0 \in CPUs /\ -1 \notin CPUs
  BY KallocAssumption DEF CPUs
<1>4. TypeOK' /\ Hands'
  BY <1>1, <1>2, <1>3, KallocAssumption DEF KInv, TypeOK, Hands
<1>5. Placed'
  BY <1>1, <1>2, KallocAssumption DEF KInv, TypeOK, Placed, Apart, Somewhere
<1> QED
  BY <1>1, <1>4, <1>5, QuotaStays DEF KInv

(* kalloc_page() goes on to the next hart, or fails. *)
LEMMA StealNextStep ==
  ASSUME KInv, NEW t \in Threads, StealNext(t) PROVE KInv'
<1>1. pc[t] = "steal" /\ UNCHANGED <<free, quota, map, r>>
  BY DEF StealNext
<1>2. 0 \in CPUs /\ -1 \notin CPUs
  BY KallocAssumption DEF CPUs
<1>3. cpu[t] \in CPUs /\ n[t] \in CPUs
  BY <1>1 DEF KInv, TypeOK, Hands
<1>4. TypeOK' /\ Hands'
  <2> DEFINE d == Other(cpu[t], n[t] + 1)
  <2>1. CASE d < NCPU
    <3>1. d \in CPUs
      BY <1>3, <2>1, KallocAssumption DEF Other, CPUs
    <3>2. n' = [n EXCEPT ![t] = d] /\ UNCHANGED <<pc, cpu>>
      BY <2>1 DEF StealNext
    <3> QED
      BY <1>1, <3>1, <3>2 DEF KInv, TypeOK, Hands
  <2>2. CASE ~(d < NCPU)
    <3>1. /\ n' = [n EXCEPT ![t] = 0] /\ pc' = [pc EXCEPT ![t] = "idle"]
          /\ cpu' = [cpu EXCEPT ![t] = -1]
      BY <2>2 DEF StealNext
    <3> QED
      BY <1>1, <1>2, <3>1 DEF KInv, TypeOK, Hands
  <2> QED
    BY <2>1, <2>2
<1>5. Placed'
  BY <1>1 DEF KInv, Placed, Apart, Somewhere
<1> QED
  BY <1>1, <1>4, <1>5, QuotaStays DEF KInv

(* kalloc_page() sets the count of the page it took to 1. *)
LEMMA CountStep ==
  ASSUME KInv, NEW t \in Threads, Count(t) PROVE KInv'
<1>1. PICK s \in Slots : map[s] = None /\ map' = [map EXCEPT ![s] = r[t]]
  BY Zenon DEF Count
<1>2. /\ quota' = [quota EXCEPT ![r[t]] = 1] /\ r' = [r EXCEPT ![t] = None]
      /\ pc' = [pc EXCEPT ![t] = "idle"] /\ UNCHANGED <<free, cpu, n>>
      /\ pc[t] = "count"
  BY DEF Count
<1>3. r[t] \in Pages
  BY <1>2 DEF KInv, TypeOK, Hands
<1>4. TypeOK' /\ Hands'
  BY <1>1, <1>2, <1>3, KallocAssumption DEF KInv, TypeOK, Hands, Bytes
<1>5. Placed'
  BY <1>1, <1>2, <1>3, KallocAssumption DEF KInv, TypeOK, Placed, Apart, Somewhere
<1>6. ASSUME NEW pg \in Pages PROVE quota'[pg] = Cardinality(Users(pg)')
  <2>1. CASE pg = r[t]
    <3>1. Users(pg)' = {s}
      BY <1>1, <1>3, <2>1, KallocAssumption DEF KInv, TypeOK, Placed, Apart, Users
    <3>2. quota'[pg] = 1
      BY <1>2, <2>1 DEF KInv, TypeOK
    <3> QED
      BY <3>1, <3>2, FS_Singleton, Zenon
  <2>2. CASE pg # r[t]
    <3>1. Users(pg)' = Users(pg) /\ quota'[pg] = quota[pg]
      BY <1>1, <1>2, <2>2, KallocAssumption DEF KInv, TypeOK, Users
    <3> QED
      BY <3>1 DEF KInv, QuotaExact
  <2> QED
    BY <2>1, <2>2
<1> QED
  BY <1>4, <1>5, <1>6 DEF KInv, QuotaExact

(* kaddquota() counts one more entry, and the byte does not wrap. *)
LEMMA ShareStep ==
  ASSUME KInv, NEW t \in Threads, NEW s \in Slots, NEW u \in Slots, Share(t, s, u)
  PROVE KInv'
<1>1. /\ map[s] # None /\ map[u] = None /\ map' = [map EXCEPT ![u] = map[s]]
      /\ quota' = [quota EXCEPT ![map[s]] = (@ + 1) % Bytes]
      /\ UNCHANGED <<free, pc, cpu, n, r>>
  BY DEF Share
<1>2. PICK g \in Pages : g = map[s]
  BY <1>1 DEF KInv, TypeOK
<1>3. Users(g)' = Users(g) \cup {u} /\ u \notin Users(g)
  BY <1>1, <1>2, KallocAssumption DEF KInv, TypeOK, Users
<1>4. Cardinality(Users(g)') = quota[g] + 1
  <2>1. IsFiniteSet(Users(g))
    BY UsersFinite
  <2>2. Cardinality(Users(g) \cup {u}) = Cardinality(Users(g)) + 1
    BY <1>3, <2>1, FS_AddElement, Zenon
  <2> QED
    BY <1>2, <1>3, <2>2 DEF KInv, QuotaExact
<1>5. Cardinality(Users(g)') \in 0 .. Bytes - 1
  <2>1. Users(g)' \subseteq Slots
    BY <1>3 DEF Users
  <2>2. /\ IsFiniteSet(Users(g)') /\ Cardinality(Users(g)') <= Cardinality(Slots)
    BY <2>1, KallocAssumption, FS_Subset
  <2>3. Cardinality(Users(g)') \in Nat /\ Cardinality(Slots) \in Nat
    BY <2>2, KallocAssumption, FS_CardinalityType
  <2> QED
    BY <2>2, <2>3, KallocAssumption DEF Bytes
<1>6. quota'[g] = quota[g] + 1
  BY <1>1, <1>2, <1>4, <1>5 DEF KInv, TypeOK, Bytes
<1>7. TypeOK' /\ Hands'
  <2>1. quota' \in [Pages -> 0 .. Bytes - 1]
    BY <1>1, <1>2, <1>4, <1>5, <1>6 DEF KInv, TypeOK
  <2> QED
    BY <1>1, <1>2, <2>1 DEF KInv, TypeOK, Hands
<1>8. Placed'
  BY <1>1, <1>2, KallocAssumption DEF KInv, TypeOK, Placed, Apart, Somewhere
<1>9. ASSUME NEW pg \in Pages PROVE quota'[pg] = Cardinality(Users(pg)')
  <2>1. CASE pg # g
    <3>1. Users(pg)' = Users(pg) /\ quota'[pg] = quota[pg]
      BY <1>1, <1>2, <2>1, KallocAssumption DEF KInv, TypeOK, Users
    <3> QED
      BY <3>1 DEF KInv, QuotaExact
  <2> QED
    BY <1>4, <1>6, <2>1
<1> QED
  BY <1>7, <1>8, <1>9 DEF KInv, QuotaExact

(* kfree_page() gives up one entry; the thread that sees 1 was the last. *)
LEMMA FreeStep ==
  ASSUME KInv, NEW t \in Threads, NEW c \in CPUs, NEW s \in Slots, Free(t, c, s)
  PROVE KInv'
<1>1. /\ pc[t] = "idle" /\ map[s] # None /\ map' = [map EXCEPT ![s] = None]
      /\ quota' = [quota EXCEPT ![map[s]] = (@ - 1) % Bytes]
      /\ UNCHANGED <<free, n>>
  BY DEF Free
<1>2. PICK g \in Pages : g = map[s] /\ r[t] = None
  BY <1>1 DEF KInv, TypeOK, Hands
<1>3. Users(g)' = Users(g) \ {s} /\ s \in Users(g)
  BY <1>1, <1>2, KallocAssumption DEF KInv, TypeOK, Users
<1>4. Cardinality(Users(g)') = quota[g] - 1
  BY <1>2, <1>3, UsersFinite, FS_RemoveElement, ZenonT(30) DEF KInv, QuotaExact
<1>5. quota[g] \in 1 .. Bytes - 1
  <2>1. Users(g) # {} /\ quota[g] = Cardinality(Users(g))
    BY <1>2, <1>3 DEF KInv, QuotaExact
  <2> QED
    BY <2>1, UsersFinite DEF Bytes
<1>6. quota'[g] = quota[g] - 1
  BY <1>1, <1>2, <1>5 DEF KInv, TypeOK, Bytes
<1>7. quota' \in [Pages -> 0 .. Bytes - 1] /\ map' \in [Slots -> Pages \cup {None}]
  <2>1. (quota[g] - 1) % Bytes \in 0 .. Bytes - 1
    BY <1>5 DEF Bytes
  <2> QED
    BY <1>1, <1>2, <2>1 DEF KInv, TypeOK
<1>8. ASSUME NEW pg \in Pages PROVE quota'[pg] = Cardinality(Users(pg)')
  <2>1. CASE pg # g
    <3>1. Users(pg)' = Users(pg) /\ quota'[pg] = quota[pg]
      BY <1>1, <1>2, <2>1, KallocAssumption DEF KInv, TypeOK, Users
    <3> QED
      BY <3>1 DEF KInv, QuotaExact
  <2> QED
    BY <1>4, <1>6, <2>1
<1>9. Users(g)' = {} <=> quota[g] = 1
  <2>1. IsFiniteSet(Users(g)')
    BY <1>3, UsersFinite, FS_RemoveElement
  <2> QED
    BY <1>4, <1>5, <2>1, FS_EmptySet
<1>10. CASE quota[g] = 1
  <2>1. /\ pc' = [pc EXCEPT ![t] = "push"] /\ cpu' = [cpu EXCEPT ![t] = c]
        /\ r' = [r EXCEPT ![t] = g]
    BY <1>2, <1>10 DEF Free
  <2>2. \A x \in Slots : map'[x] # g
    BY <1>9, <1>10 DEF Users
  <2>3. TypeOK' /\ Hands'
    BY <1>1, <1>2, <1>7, <2>1, KallocAssumption DEF KInv, TypeOK, Hands
  <2>4. Placed'
    BY <1>1, <1>2, <2>1, <2>2, KallocAssumption DEF KInv, TypeOK, Placed, Apart,
       Somewhere
  <2> QED
    BY <1>8, <2>3, <2>4 DEF KInv, QuotaExact
<1>11. CASE quota[g] # 1
  <2>1. UNCHANGED <<pc, cpu, r>>
    BY <1>2, <1>11 DEF Free
  <2>2. \E x \in Slots : map'[x] = g
    BY <1>9, <1>11 DEF Users
  <2>3. TypeOK' /\ Hands'
    BY <1>1, <1>7, <2>1 DEF KInv, TypeOK, Hands
  <2>4. Placed'
    BY <1>1, <1>2, <2>1, <2>2, KallocAssumption DEF KInv, TypeOK, Placed, Apart,
       Somewhere
  <2> QED
    BY <1>8, <2>3, <2>4 DEF KInv, QuotaExact
<1> QED
  BY <1>10, <1>11

(* kfree_page() puts the page it was the last to use on the list of its hart. *)
LEMMA PushStep ==
  ASSUME KInv, NEW t \in Threads, Push(t) PROVE KInv'
<1>1. /\ free' = [free EXCEPT ![cpu[t]] = @ \cup {r[t]}]
      /\ r' = [r EXCEPT ![t] = None] /\ pc' = [pc EXCEPT ![t] = "idle"]
      /\ cpu' = [cpu EXCEPT ![t] = -1] /\ UNCHANGED <<quota, map, n>>
      /\ pc[t] = "push"
  BY DEF Push
<1>2. r[t] \in Pages /\ cpu[t] \in CPUs /\ -1 \notin CPUs
  BY <1>1 DEF KInv, TypeOK, Hands, CPUs
<1>3. TypeOK' /\ Hands'
  BY <1>1, <1>2, KallocAssumption DEF KInv, TypeOK, Hands
<1>4. Placed'
  BY <1>1, <1>2, KallocAssumption DEF KInv, TypeOK, Placed, Apart, Somewhere
<1> QED
  BY <1>1, <1>3, <1>4, QuotaStays DEF KInv

(* The invariant of the allocator: what a thread carries fits its place in  *)
(* kalloc_page() or kfree_page(), a page is in exactly one place, and the   *)
(* counts are exact.                                                        *)
THEOREM AllocatorInvariant == Spec => []KInv
<1>1. KInv /\ [Next]_vars => KInv'
  <2> SUFFICES ASSUME KInv, [Next]_vars PROVE KInv'
    OBVIOUS
  <2>1. CASE UNCHANGED vars
    BY <2>1 DEF vars, KInv, TypeOK, Hands, Placed, Apart, Somewhere, QuotaExact,
       Users
  <2>2. CASE Next
    BY <2>2, AllocLocalStep, StealStep, StealNextStep, CountStep, ShareStep,
       FreeStep,
       PushStep DEF Next
  <2> QED
    BY <2>1, <2>2
<1> QED
  BY <1>1, InitInv, PTL DEF Spec

(* kalloc_page(), kaddquota() and kfree_page() on any number of harts: a    *)
(* page is on one free list, in one thread's hands, or mapped, and never    *)
(* two of these.                                                            *)
THEOREM PagesHaveOnePlace == Spec => []OnePlace
<1>1. KInv => OnePlace
  <2> SUFFICES ASSUME KInv, NEW pg \in Pages
               PROVE \/ Cardinality(Lists(pg)) = 1 /\ Carriers(pg) = {} /\ Users(pg) = {}
                     \/ Lists(pg) = {} /\ Cardinality(Carriers(pg)) = 1 /\ Users(pg) = {}
                     \/ Lists(pg) = {} /\ Carriers(pg) = {} /\ Users(pg) # {}
    BY DEF OnePlace
  <2>1. Apart(pg) /\ Somewhere(pg)
    BY DEF KInv, Placed
  <2>2. ASSUME NEW c \in CPUs, pg \in free[c]
        PROVE Cardinality(Lists(pg)) = 1 /\ Carriers(pg) = {} /\ Users(pg) = {}
    <3>1. c \in Lists(pg) /\ \A d \in Lists(pg) : d = c
      BY <2>1, <2>2 DEF Apart, Lists
    <3> QED
      BY <2>1, <2>2, <3>1, OneElement DEF Apart, Carriers, Users
  <2>3. ASSUME NEW t \in Threads, r[t] = pg
        PROVE Lists(pg) = {} /\ Cardinality(Carriers(pg)) = 1 /\ Users(pg) = {}
    <3>1. t \in Carriers(pg) /\ \A u \in Carriers(pg) : u = t
      BY <2>1, <2>3 DEF Apart, Carriers
    <3> QED
      BY <2>1, <2>3, <3>1, OneElement DEF Apart, Lists, Users
  <2>4. ASSUME NEW s \in Slots, map[s] = pg
        PROVE Lists(pg) = {} /\ Carriers(pg) = {} /\ Users(pg) # {}
    BY <2>1, <2>4 DEF Apart, Lists, Carriers, Users
  <2> QED
    BY <2>1, <2>2, <2>3, <2>4 DEF Somewhere
<1> QED
  BY <1>1, AllocatorInvariant, PTL

(* cow_quota is the number of page-table entries of a page, so the COW      *)
(* handler that reads 1 is the only user of the page.                       *)
THEOREM QuotasAreExact == Spec => []QuotaExact
<1>1. KInv => QuotaExact
  BY DEF KInv
<1> QED
  BY <1>1, AllocatorInvariant, PTL

(* Both together, as run memory checks them on two harts: the allocator     *)
(* neither loses a page nor hands it out twice, and its counts are exact.   *)
THEOREM PagesAreSound == Spec => []PagesSound
<1>1. OnePlace /\ QuotaExact => PagesSound
  BY DEF PagesSound
<1> QED
  BY <1>1, PagesHaveOnePlace, QuotasAreExact, PTL
=============================================================================
