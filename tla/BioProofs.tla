------------------------------ MODULE BioProofs ------------------------------
(* The buffer cache of kernel/fs/bio.c for any number of processes, buffers *)
(* and buckets: bget() neither loses nor doubles a buffer while it moves it *)
(* from one bucket to another, no buffer is recycled under its user, and a  *)
(* valid buffer agrees with the disk.                                       *)
EXTENDS Bio, FiniteSetTheorems, WellFoundedInduction, TLAPS

(* Time for each leaf. *)
USE SMTT(30), Z3T(30), Zenon, SMTT(31)

(* A buffer is live when it may be read or is being used. *)
Live(b) == valid[b] \/ refcnt[b] > 0

(* a comes before b when bget() looks through l. *)
Precedes(l, a, b) == \E m, n \in DOMAIN l : m < n /\ l[m] = a /\ l[n] = b

Types ==
  /\ TypeOK /\ valid \in [Bufs -> BOOLEAN] /\ want \in [Procs -> Blocks]
  /\ pc \in [Procs -> {"idle", "scan", "insert", "lock", "read", "use", "drop", "panic"}]
  /\ \A p \in Procs : Using(p) \/ pc[p] = "insert" => mine[p] \in Bufs
  /\ data = [b \in Bufs |-> data[b]] /\ disk = [k \in Blocks |-> disk[k]]

(* A buffer is in one bucket or with one process. *)
Placed ==
  /\ \A i \in Buckets : IsInjective(list[i])
  /\ \A i, j \in Buckets : i # j => Range(list[i]) \cap Range(list[j]) = {}
  /\ \A p \in Procs : pc[p] = "insert" => \A i \in Buckets : mine[p] \notin Range(list[i])
  /\ \A p, q \in Procs : pc[p] = "insert" /\ pc[q] = "insert" /\ mine[p] = mine[q] => p = q
  /\ \A b \in Bufs : \/ \E i \in Buckets : b \in Range(list[i])
                     \/ \E p \in Procs : pc[p] = "insert" /\ mine[p] = b

(* A live buffer is in the bucket of its block, where bget() finds it; and  *)
(* unless the block was inserted twice, finds no other before it.           *)
Settled ==
  \A i \in Buckets : \A b \in Range(list[i]) : Live(b) => HASH(blockno[b]) = i
OneLive ==
  \A k \in Blocks \ raced : \A a, b \in Bufs :
    Precedes(list[HASH(k)], a, b) /\ blockno[a] = k /\ blockno[b] = k => ~Live(b)

(* What is in a bucket and may be read is what is on the disk. *)
Coherent ==
  \A i \in Buckets : \A b \in Range(list[i]) : valid[b] =>
    data[b] = disk[blockno[b]] \/ blockno[b] \in raced \cup stale

BioInv ==
  Types /\ Placed /\ HandInList /\ UseIsStable /\ Settled /\ OneLive /\ Coherent
-----------------------------------------------------------------------------
(* A bucket index is in the table. *)
LEMMA Modulo == ASSUME NEW a \in Nat, NEW m \in Nat \ {0} PROVE a % m \in 0 .. m - 1
OBVIOUS

(* HASH(blockno) is a bucket, and so is (bid + i) % NBUCKET. *)
LEMMA Hashed ==
  /\ \A k \in Blocks : HASH(k) \in Buckets
  /\ \A k \in Blocks, s \in 0 .. NBUCKET : (HASH(k) + s) % NBUCKET \in Buckets
<1>1. ASSUME NEW k \in Blocks PROVE HASH(k) \in Buckets
  BY BioAssumption, Modulo DEF HASH, Buckets
<1>2. ASSUME NEW k \in Blocks, NEW s \in 0 .. NBUCKET
      PROVE (HASH(k) + s) % NBUCKET \in Buckets
  <2>1. HASH(k) + s \in Nat
    BY <1>1 DEF Buckets
  <2> QED
    BY <2>1, BioAssumption, Modulo DEF Buckets
<1> QED
  BY <1>1, <1>2, Zenon

(* The loops over a list stop at the first element they look for. *)
LEMMA LeastNat ==
  ASSUME NEW T, T \subseteq Nat, T # {} PROVE Least(T) \in T /\ \A y \in T : Least(T) <= y
<1>1. PICK x \in T : \A y \in T : ~(<<y, x>> \in OpToRel(<, Nat))
  BY WFMin, NatLessThanWellFounded, Zenon
<1>2. ASSUME NEW y \in T PROVE ~(y < x)
  BY <1>1, Zenon DEF OpToRel
<1>3. \A y \in T : x <= y
  BY <1>2
<1> QED
  BY <1>3, Zenon DEF Least

(* b->prev and b->next lead to where b is in its list. *)
LEMMA PositionIn ==
  ASSUME NEW l \in Seq(Bufs), IsInjective(l), NEW b \in Range(l)
  PROVE Position(l, b) \in DOMAIN l /\ l[Position(l, b)] = b
BY Zenon DEF Position, Range

(* Unlinking b leaves the others, in their order. *)
LEMMA Unlinked ==
  ASSUME NEW l \in Seq(Bufs), IsInjective(l), NEW b \in Range(l)
  PROVE /\ Unlink(l, b) \in Seq(Bufs) /\ IsInjective(Unlink(l, b))
        /\ Range(Unlink(l, b)) = Range(l) \ {b}
        /\ \A x, y : Precedes(Unlink(l, b), x, y) => Precedes(l, x, y)
<1> DEFINE P == Position(l, b)
<1> DEFINE U == Unlink(l, b)
<1>1. P \in 1 .. Len(l) /\ l[P] = b /\ DOMAIN l = 1 .. Len(l) /\ Len(l) \in Nat
  BY PositionIn
<1>2. /\ U \in Seq(Bufs) /\ DOMAIN U = 1 .. Len(l) - 1
      /\ \A m \in 1 .. Len(l) - 1 : U[m] = IF m < P THEN l[m] ELSE l[m + 1]
  <2>1. U = [m \in 1 .. Len(l) - 1 |-> IF m < P THEN l[m] ELSE l[m + 1]]
    BY Zenon DEF Unlink
  <2> QED
    BY <2>1, <1>1
<1> HIDE DEF P, U
<1>3. \A m \in 1 .. Len(l) - 1 : \E n \in 1 .. Len(l) :
        n # P /\ U[m] = l[n] /\ n = IF m < P THEN m ELSE m + 1
  BY <1>1, <1>2
<1>4. \A n \in 1 .. Len(l) : n # P => \E m \in 1 .. Len(l) - 1 : U[m] = l[n]
  <2> SUFFICES ASSUME NEW n \in 1 .. Len(l), n # P
               PROVE \E m \in 1 .. Len(l) - 1 : U[m] = l[n]
    BY Zenon
  <2>1. CASE n < P
    BY <2>1, <1>1, <1>2
  <2>2. CASE n > P
    <3>1. n - 1 \in 1 .. Len(l) - 1 /\ ~(n - 1 < P) /\ n - 1 + 1 = n
      BY <2>2, <1>1
    <3> QED
      BY <3>1, <1>2
  <2> QED
    BY <2>1, <2>2, <1>1
<1>5. IsInjective(U)
  <2> SUFFICES ASSUME NEW m \in 1 .. Len(l) - 1, NEW n \in 1 .. Len(l) - 1, U[m] = U[n]
               PROVE m = n
    BY <1>2, Zenon DEF IsInjective
  <2>1. PICK x \in 1 .. Len(l) : U[m] = l[x] /\ x = IF m < P THEN m ELSE m + 1
    BY <1>3, Zenon
  <2>2. PICK y \in 1 .. Len(l) : U[n] = l[y] /\ y = IF n < P THEN n ELSE n + 1
    BY <1>3, Zenon
  <2>3. x = y
    BY <2>1, <2>2, <1>1, Zenon DEF IsInjective
  <2> QED
    BY <2>1, <2>2, <2>3, <1>1
<1>6. ASSUME NEW x PROVE x \in Range(U) <=> x \in Range(l) /\ x # b
  <2>1. x \in Range(U) => x \in Range(l) /\ x # b
    <3> SUFFICES ASSUME x \in Range(U) PROVE x \in Range(l) /\ x # b
      BY Zenon
    <3>1. PICK m \in 1 .. Len(l) - 1 : x = U[m]
      BY <1>2, Zenon DEF Range
    <3>2. PICK n \in 1 .. Len(l) : n # P /\ U[m] = l[n]
      BY <1>3, Zenon
    <3> QED
      BY <3>1, <3>2, <1>1, Zenon DEF Range, IsInjective
  <2>2. x \in Range(l) /\ x # b => x \in Range(U)
    <3> SUFFICES ASSUME x \in Range(l), x # b PROVE x \in Range(U)
      BY Zenon
    <3>1. PICK n \in 1 .. Len(l) : x = l[n] /\ n # P
      BY <1>1, Zenon DEF Range
    <3>2. PICK m \in 1 .. Len(l) - 1 : U[m] = l[n]
      BY <1>4, <3>1, Zenon
    <3> QED
      BY <3>1, <3>2, <1>2, Zenon DEF Range
  <2> QED
    BY <2>1, <2>2, Zenon
<1>7. ASSUME NEW x, NEW y, Precedes(U, x, y) PROVE Precedes(l, x, y)
  <2>1. PICK m, n \in 1 .. Len(l) - 1 : m < n /\ U[m] = x /\ U[n] = y
    BY <1>2, <1>7, Zenon DEF Precedes
  <2>2. PICK c \in 1 .. Len(l) : U[m] = l[c] /\ c = IF m < P THEN m ELSE m + 1
    BY <1>3, Zenon
  <2>3. PICK d \in 1 .. Len(l) : U[n] = l[d] /\ d = IF n < P THEN n ELSE n + 1
    BY <1>3, Zenon
  <2>4. c < d
    BY <2>1, <2>2, <2>3, <1>1
  <2> QED
    BY <2>1, <2>2, <2>3, <2>4, <1>1, Zenon DEF Precedes
<1>8. Range(U) = Range(l) \ {b}
  BY <1>6, Zenon
<1> QED
  BY <1>2, <1>5, <1>7, <1>8, Zenon DEF U

(* A buffer linked behind the head comes before all the others. *)
LEMMA Pushed ==
  ASSUME NEW l \in Seq(Bufs), IsInjective(l), NEW b \in Bufs, b \notin Range(l)
  PROVE /\ <<b>> \o l \in Seq(Bufs) /\ IsInjective(<<b>> \o l)
        /\ Range(<<b>> \o l) = Range(l) \cup {b}
        /\ \A x, y : Precedes(<<b>> \o l, x, y) =>
             Precedes(l, x, y) \/ (x = b /\ y \in Range(l))
<1> DEFINE U == <<b>> \o l
<1>1. /\ U \in Seq(Bufs) /\ DOMAIN U = 1 .. Len(l) + 1
      /\ DOMAIN l = 1 .. Len(l) /\ Len(l) \in Nat
      /\ \A m \in 1 .. Len(l) + 1 : U[m] = IF m = 1 THEN b ELSE l[m - 1]
  OBVIOUS
<1> HIDE DEF U
<1>2. \A m \in 1 .. Len(l) + 1 : m = 1 \/ (m - 1 \in 1 .. Len(l) /\ U[m] = l[m - 1])
  BY <1>1
<1>3. \A n \in 1 .. Len(l) : n + 1 \in 1 .. Len(l) + 1 /\ U[n + 1] = l[n]
  BY <1>1
<1>4. 1 \in 1 .. Len(l) + 1 /\ U[1] = b
  BY <1>1
<1>5. IsInjective(U)
  <2> SUFFICES ASSUME NEW m \in 1 .. Len(l) + 1, NEW n \in 1 .. Len(l) + 1, U[m] = U[n]
               PROVE m = n
    BY <1>1, Zenon DEF IsInjective
  <2>0. \A x \in 1 .. Len(l) + 1 : x # 1 => U[x] # b
    <3> SUFFICES ASSUME NEW x \in 1 .. Len(l) + 1, x # 1 PROVE U[x] # b
      BY Zenon
    <3>1. x - 1 \in DOMAIN l /\ U[x] = l[x - 1]
      BY <1>1, <1>2, Zenon
    <3> QED
      BY <3>1, Zenon DEF Range
  <2>1. CASE m = 1 \/ n = 1
    BY <2>0, <2>1, <1>4, Zenon
  <2>2. CASE m # 1 /\ n # 1
    <3>1. m - 1 \in DOMAIN l /\ n - 1 \in DOMAIN l /\ U[m] = l[m - 1] /\ U[n] = l[n - 1]
      BY <2>2, <1>1, <1>2, Zenon
    <3>2. m - 1 = n - 1
      BY <3>1, Zenon DEF IsInjective
    <3> QED
      BY <3>2
  <2> QED
    BY <2>1, <2>2, Zenon
<1>6. ASSUME NEW x PROVE x \in Range(U) <=> x \in Range(l) \/ x = b
  <2>1. ASSUME x \in Range(U) PROVE x \in Range(l) \/ x = b
    <3>1. PICK m \in 1 .. Len(l) + 1 : x = U[m]
      BY <2>1, <1>1, Zenon DEF Range
    <3> QED
      BY <3>1, <1>1, <1>2, <1>4, Zenon DEF Range
  <2>2. ASSUME x \in Range(l) PROVE x \in Range(U)
    <3>1. PICK n \in 1 .. Len(l) : x = l[n]
      BY <2>2, <1>1, Zenon DEF Range
    <3> QED
      BY <3>1, <1>1, <1>3, ZenonT(40) DEF Range
  <2>3. b \in Range(U)
    BY <1>1, <1>4, Zenon DEF Range
  <2> QED
    BY <2>1, <2>2, <2>3, Zenon
<1>7. ASSUME NEW x, NEW y, Precedes(U, x, y)
      PROVE Precedes(l, x, y) \/ (x = b /\ y \in Range(l))
  <2>1. PICK m, n \in 1 .. Len(l) + 1 : m < n /\ U[m] = x /\ U[n] = y
    BY <1>1, <1>7, Zenon DEF Precedes
  <2>2. n # 1 /\ (m # 1 => m - 1 < n - 1)
    BY <2>1
  <2>3. y \in Range(l)
    BY <2>1, <2>2, <1>1, <1>2, Zenon DEF Range
  <2>4. CASE m = 1
    BY <2>1, <2>3, <2>4, <1>4, Zenon
  <2>5. CASE m # 1
    BY <2>1, <2>2, <2>5, <1>1, <1>2, ZenonT(40) DEF Precedes
  <2> QED
    BY <2>4, <2>5, Zenon
<1>8. Range(U) = Range(l) \cup {b}
  BY <1>6, Zenon
<1> QED
  BY <1>1, <1>5, <1>7, <1>8, Zenon DEF U

(* The lists hold buffers. *)
LEMMA Members ==
  ASSUME BioInv, NEW i \in Buckets
  PROVE /\ list[i] \in Seq(Bufs) /\ IsInjective(list[i])
        /\ Range(list[i]) \subseteq Bufs /\ \A b \in Range(list[i]) : b \in Bufs
<1>1. list[i] \in Seq(Bufs) /\ IsInjective(list[i])
  BY Zenon DEF BioInv, Types, TypeOK, Placed
<1>2. \A n \in DOMAIN list[i] : list[i][n] \in Bufs
  BY <1>1
<1> QED
  BY <1>1, <1>2, Zenon DEF Range

(* The hand moves to another buffer of the bucket, or to its head. *)
LEMMA AfterIn ==
  ASSUME NEW l \in Seq(Bufs), IsInjective(l), NEW b \in Range(l)
  PROVE After(l, b) \in (Range(l) \ {b}) \cup {None}
<1>1. Position(l, b) \in 1 .. Len(l) /\ l[Position(l, b)] = b /\ DOMAIN l = 1 .. Len(l)
  BY PositionIn
<1>2. CASE Position(l, b) = Len(l)
  BY <1>2, Zenon DEF After
<1>3. CASE Position(l, b) # Len(l)
  <2>1. Position(l, b) + 1 \in 1 .. Len(l) /\ Position(l, b) + 1 # Position(l, b)
    BY <1>1, <1>3
  <2>2. l[Position(l, b) + 1] \in Range(l) /\ l[Position(l, b) + 1] # b
    BY <1>1, <2>1, Zenon DEF Range, IsInjective
  <2> QED
    BY <1>3, <2>2, Zenon DEF After
<1> QED
  BY <1>2, <1>3, Zenon

(* clock_victim() meets the buffers of the bucket. *)
LEMMA FromHandIn ==
  ASSUME BioInv, NEW i \in Buckets
  PROVE /\ DOMAIN FromHand(i) = 1 .. Len(list[i]) /\ Len(list[i]) \in Nat
        /\ Len(FromHand(i)) = Len(list[i])
        /\ \A m \in 1 .. Len(list[i]) : FromHand(i)[m] \in Range(list[i])
<1> DEFINE l == list[i]
<1> DEFINE at == IF hand[i] = None THEN 0 ELSE Position(l, hand[i]) - 1
<1>1. l \in Seq(Bufs) /\ IsInjective(l) /\ (hand[i] # None => hand[i] \in Range(l))
  BY Zenon DEF BioInv, Types, TypeOK, Placed, HandInList
<1>2. DOMAIN l = 1 .. Len(l) /\ Len(l) \in Nat
  BY <1>1
<1>3. CASE l = <<>>
  <2>1. DOMAIN FromHand(i) = DOMAIN l
    BY Zenon DEF FromHand
  <2>2. FromHand(i) = <<>>
    BY <2>1, <1>3 DEF FromHand
  <2> QED
    BY <1>2, <1>3, <2>2
<1>4. CASE l # <<>>
  <2>1. at \in 0 .. Len(l) - 1
    <3>1. hand[i] # None => Position(l, hand[i]) \in 1 .. Len(l)
      BY <1>1, <1>2, PositionIn, Zenon
    <3>2. Len(l) > 0
      BY <1>1, <1>4
    <3> HIDE DEF l
    <3> QED
      BY <3>1, <3>2, <1>2
  <2>2. FromHand(i) = [m \in DOMAIN l |-> IF at + m <= Len(l) THEN l[at + m]
                                           ELSE l[at + m - Len(l)]]
    BY Zenon DEF FromHand
  <2> HIDE DEF l, at
  <2>3. \A m \in 1 .. Len(l) : IF at + m <= Len(l) THEN at + m \in 1 .. Len(l)
                                                   ELSE at + m - Len(l) \in 1 .. Len(l)
    BY <1>2, <2>1
  <2>4. \A m \in 1 .. Len(l) : FromHand(i)[m] \in Range(l)
    BY <1>2, <2>2, <2>3, Zenon DEF Range
  <2>5. FromHand(i) \in Seq(Range(l)) /\ Len(FromHand(i)) = Len(l)
    BY <1>2, <2>2, <2>4
  <2> QED
    BY <1>2, <2>2, <2>4, <2>5, Zenon DEF l
<1> QED
  BY <1>3, <1>4, Zenon

(* The first buffer of a block that bget() meets is before all others. *)
LEMMA FirstHit ==
  ASSUME BioInv, NEW k \in Blocks, Hits(HASH(k), k) # {}
  PROVE LET b == list[HASH(k)][Least(Hits(HASH(k), k))] IN
        /\ b \in Range(list[HASH(k)]) /\ b \in Bufs /\ blockno[b] = k
        /\ \A a \in Bufs : blockno[a] = k => ~Precedes(list[HASH(k)], a, b)
<1> DEFINE l == list[HASH(k)]
<1> DEFINE N == Least(Hits(HASH(k), k))
<1>1. l \in Seq(Bufs) /\ IsInjective(l)
  BY Hashed, Zenon DEF BioInv, Types, TypeOK, Placed
<1>2. DOMAIN l = 1 .. Len(l) /\ Len(l) \in Nat
  BY <1>1
<1>3. Hits(HASH(k), k) \subseteq Nat
  BY <1>2 DEF Hits
<1>4. N \in Hits(HASH(k), k) /\ \A y \in Hits(HASH(k), k) : N <= y
  BY <1>3, LeastNat, Zenon
<1>5. N \in DOMAIN l /\ blockno[l[N]] = k
  BY <1>4, Zenon DEF Hits
<1> HIDE DEF N
<1>6. ASSUME NEW a \in Bufs, blockno[a] = k, Precedes(l, a, l[N]) PROVE FALSE
  <2>1. PICK m, n \in DOMAIN l : m < n /\ l[m] = a /\ l[n] = l[N]
    BY <1>6, Zenon DEF Precedes
  <2>2. n = N
    BY <1>1, <1>5, <2>1, Zenon DEF IsInjective
  <2>3. m \in Hits(HASH(k), k)
    BY <1>6, <2>1, Zenon DEF Hits
  <2>4. N <= m
    BY <1>4, <2>3, Zenon
  <2> HIDE DEF l
  <2> QED
    BY <1>2, <1>5, <2>1, <2>2, <2>4
<1>7. l[N] \in Range(l) /\ l[N] \in Bufs
  <2>1. l[N] \in Bufs
    BY <1>1, <1>2, <1>5
  <2> QED
    BY <1>5, <2>1, Zenon DEF Range
<1> QED
  BY <1>5, <1>6, <1>7, Zenon DEF N

(* The users of a buffer can be counted. *)
LEMMA UsersFinite ==
  ASSUME NEW b
  PROVE /\ IsFiniteSet(Users(b)) /\ Cardinality(Users(b)) \in Nat
        /\ Cardinality(Users(b)) = 0 <=> Users(b) = {}
<1>1. Users(b) \subseteq Procs
  BY Zenon DEF Users
<1>2. IsFiniteSet(Users(b))
  BY <1>1, BioAssumption, FS_Subset, Zenon
<1> QED
  BY <1>2, FS_CardinalityType, FS_EmptySet, Zenon
-----------------------------------------------------------------------------
(* binit() puts every buffer into one bucket. *)
LEMMA InitBio == Init => BioInv
<1> SUFFICES ASSUME Init PROVE BioInv
  BY Zenon
<1>1. /\ Buckets = 0 .. NBUCKET - 1 /\ Bufs = 1 .. NBUF
      /\ NBUF \in Nat \ {0} /\ NBUCKET \in Nat \ {0} /\ 0 \in Blocks
  BY BioAssumption, Zenon DEF Buckets, Bufs
<1>2. \A i \in Buckets : list[i] \in Seq(Bufs) /\ DOMAIN list[i] = 1 .. Len(list[i])
  <2> SUFFICES ASSUME NEW i \in Buckets
               PROVE list[i] \in Seq(Bufs) /\ DOMAIN list[i] = 1 .. Len(list[i])
    BY Zenon
  <2>0. list[i] \in UNION {[1 .. n -> Bufs] : n \in 0 .. NBUF}
    BY Zenon DEF Init, Lists
  <2>1. PICK n \in 0 .. NBUF : list[i] \in [1 .. n -> Bufs]
    BY <2>0
  <2> QED
    BY <2>1, <1>1
<1>3. list \in [Buckets -> Seq(Bufs)]
  <2>1. DOMAIN list = Buckets /\ list = [i \in DOMAIN list |-> list[i]]
    BY Zenon DEF Init
  <2> QED
    BY <2>1, <1>2, Zenon
<1>4. Types
  <2>1. NBUCKET \in 0 .. NBUCKET /\ 0 \in 0 .. NBUCKET
    BY <1>1
  <2>2. data = [b \in Bufs |-> data[b]] /\ disk = [k \in Blocks |-> disk[k]]
    BY Zenon DEF Init
  <2>3. TypeOK
    BY <1>1, <1>3, <2>1 DEF Init, TypeOK, None
  <2> QED
    BY <1>1, <2>2, <2>3 DEF Init, Types, Using
<1>5. \A i \in Buckets : IsInjective(list[i])
  <2> SUFFICES ASSUME NEW i \in Buckets, NEW m \in DOMAIN list[i], NEW n \in DOMAIN list[i],
                      list[i][m] = list[i][n]
               PROVE m = n
    BY Zenon DEF IsInjective
  <2>1. list[i][m] \in Bufs /\ list[i][n] \in Bufs /\ m \in Nat /\ n \in Nat
    BY <1>2
  <2>2. /\ m < n => list[i][m] > list[i][n]
        /\ n < m => list[i][n] > list[i][m]
    BY Zenon DEF Init
  <2>3. ~(m < n) /\ ~(n < m)
    BY <2>1, <2>2, <1>1
  <2> QED
    BY <2>1, <2>3
<1>6. \A b \in Bufs : (b - 1) % NBUCKET \in Buckets
  <2> SUFFICES ASSUME NEW b \in Bufs PROVE (b - 1) % NBUCKET \in Buckets
    BY Zenon
  <2>1. b - 1 \in Nat
    BY <1>1
  <2> QED
    BY <2>1, <1>1, Modulo, Zenon
<1>7. Placed
  <2>1. \A b \in Bufs : \A i \in Buckets : b \in Range(list[i]) <=> (b - 1) % NBUCKET = i
    BY Zenon DEF Init
  <2>2. \A i \in Buckets : Range(list[i]) \subseteq Bufs
    BY Zenon DEF Init
  <2>3. \A p \in Procs : pc[p] = "idle"
    BY Zenon DEF Init
  <2> QED
    BY <1>5, <1>6, <2>1, <2>2, <2>3, ZenonT(40) DEF Placed
<1>8. \A b \in Bufs : ~Live(b)
  BY DEF Init, Live
<1>9. \A i \in Buckets : Range(list[i]) \subseteq Bufs
  BY Zenon DEF Init
<1>10. UseIsStable
  <2>1. \A p \in Procs : ~Using(p)
    BY Zenon DEF Init, Using
  <2>2. \A b \in Bufs : Users(b) = {}
    BY <2>1, Zenon DEF Users
  <2>3. \A b \in Bufs : refcnt[b] = 0
    BY Zenon DEF Init
  <2> QED
    BY <2>1, <2>2, <2>3, FS_EmptySet, Zenon DEF UseIsStable
<1>11. HandInList
  BY Zenon DEF Init, HandInList
<1>12. Coherent
  BY <1>8, <1>9, Zenon DEF Coherent, Live
<1> QED
  BY <1>4, <1>7, <1>8, <1>9, <1>10, <1>11, <1>12, Zenon DEF BioInv, Settled, OneLive

(* Nothing is inserted or taken off a list. *)
LEMMA PlacedKept ==
  ASSUME BioInv, list' = list,
         \A p \in Procs : pc'[p] = "insert" <=> pc[p] = "insert",
         \A p \in Procs : pc[p] = "insert" => mine'[p] = mine[p]
  PROVE Placed'
BY ZenonT(40) DEF BioInv, Placed

(* No reference comes or goes. *)
LEMMA UsersKept ==
  ASSUME BioInv, UNCHANGED <<list, blockno, refcnt>>,
         \A p \in Procs : Using(p)' <=> Using(p),
         \A p \in Procs : Using(p) => mine'[p] = mine[p] /\ want'[p] = want[p]
  PROVE UseIsStable'
<1>1. \A b \in Bufs : Users(b)' = Users(b)
  BY Zenon DEF Users
<1>2. \A b \in Bufs : refcnt'[b] = Cardinality(Users(b)')
  BY <1>1, Zenon DEF BioInv, UseIsStable
<1>3. \A p \in Procs : Using(p)' => /\ blockno'[mine'[p]] = want'[p]
                                    /\ mine'[p] \in Range(list'[HASH(want'[p])])
  BY Zenon DEF BioInv, UseIsStable
<1> QED
  BY <1>2, <1>3, Zenon DEF UseIsStable, HASH

(* Lists and blocks stay, and no buffer comes to life. *)
LEMMA LiveKept ==
  ASSUME BioInv, UNCHANGED <<list, blockno, raced>>,
         \A b \in Bufs : Live(b)' => Live(b)
  PROVE Settled' /\ OneLive'
<1>1. \A i \in Buckets : Range(list[i]) \subseteq Bufs
  BY Members, Zenon
<1> QED
  BY <1>1, Zenon DEF BioInv, Settled, OneLive, HASH

(* A buffer that a process uses is counted, and in the bucket of its block. *)
LEMMA InUse ==
  ASSUME BioInv, NEW p \in Procs, Using(p)
  PROVE /\ mine[p] \in Bufs /\ want[p] \in Blocks /\ HASH(want[p]) \in Buckets
        /\ mine[p] \in Range(list[HASH(want[p])]) /\ blockno[mine[p]] = want[p]
        /\ refcnt[mine[p]] \in Nat \ {0} /\ refcnt[mine[p]] > 0 /\ Live(mine[p])
<1>1. mine[p] \in Bufs /\ want[p] \in Blocks
  BY Zenon DEF BioInv, Types
<1>2. p \in Users(mine[p])
  BY Zenon DEF Users
<1>3. refcnt[mine[p]] \in Nat \ {0}
  BY <1>1, <1>2, UsersFinite, Zenon DEF BioInv, UseIsStable
<1>4. refcnt[mine[p]] > 0
  BY <1>3
<1> QED
  BY <1>1, <1>3, <1>4, Hashed, Zenon DEF BioInv, UseIsStable, Live

(* bget() finds the block: the buffer is in its bucket, and first there. *)
LEMMA HitStep ==
  ASSUME BioInv, NEW p \in Procs, NEW k \in Blocks, Hit(p, k) PROVE BioInv'
<1>0. PICK b : b = list[HASH(k)][Least(Hits(HASH(k), k))]
  BY Zenon
<1>1. /\ pc[p] = "idle" /\ Hits(HASH(k), k) # {}
      /\ refcnt' = [refcnt EXCEPT ![b] = @ + 1]
      /\ want' = [want EXCEPT ![p] = k] /\ mine' = [mine EXCEPT ![p] = b]
      /\ pc' = [pc EXCEPT ![p] = "lock"]
      /\ UNCHANGED <<list, hand, blockno, valid, data, owner, disk, scan, sweep, raced, stale>>
  BY <1>0, Zenon DEF Hit, lists
<1>2. /\ b \in Range(list[HASH(k)]) /\ b \in Bufs /\ blockno[b] = k
      /\ \A a \in Bufs : blockno[a] = k => ~Precedes(list[HASH(k)], a, b)
  BY <1>0, <1>1, FirstHit, Zenon
<1>3. Types /\ TypeOK /\ HASH(k) \in Buckets
  BY Hashed, Zenon DEF BioInv, Types
<1>4. /\ want' \in [Procs -> Blocks] /\ mine' \in [Procs -> Bufs \cup {None}]
      /\ pc' \in [Procs -> {"idle", "scan", "insert", "lock", "read", "use", "drop", "panic"}]
      /\ refcnt' \in [Bufs -> Nat] /\ refcnt'[b] = refcnt[b] + 1
      /\ \A c \in Bufs : c # b => refcnt'[c] = refcnt[c]
      /\ mine'[p] = b /\ want'[p] = k /\ pc'[p] = "lock"
      /\ \A q \in Procs : q # p => mine'[q] = mine[q] /\ want'[q] = want[q] /\ pc'[q] = pc[q]
  BY <1>1, <1>2, <1>3 DEF Types, TypeOK
<1>5. /\ ~Using(p) /\ Using(p)' /\ pc'[p] # "insert" /\ pc[p] # "insert"
      /\ \A q \in Procs : q # p => (Using(q)' <=> Using(q))
  BY <1>1, <1>4, Zenon DEF Using
<1>6. Types'
  <2>1. \A q \in Procs : Using(q)' \/ pc'[q] = "insert" => mine'[q] \in Bufs
    BY <1>2, <1>3, <1>4, <1>5, Zenon DEF Types
  <2>2. TypeOK'
    BY <1>1, <1>3, <1>4, Zenon DEF TypeOK
  <2> QED
    BY <1>1, <1>3, <1>4, <2>1, <2>2, Zenon DEF Types
<1>7. Placed'
  BY <1>1, <1>4, <1>5, PlacedKept, Zenon
<1>8. HandInList'
  BY <1>1, Zenon DEF BioInv, HandInList
<1>9. UseIsStable'
  <2>1. \A c \in Bufs : c # b => Users(c)' = Users(c)
    BY <1>4, <1>5, Zenon DEF Users
  <2>2. Users(b)' = Users(b) \cup {p} /\ p \notin Users(b)
    BY <1>4, <1>5, Zenon DEF Users
  <2>3. Cardinality(Users(b)') = Cardinality(Users(b)) + 1
    BY <2>2, UsersFinite, FS_AddElement, Zenon
  <2>4. \A c \in Bufs : refcnt'[c] = Cardinality(Users(c)')
    BY <1>4, <2>1, <2>3, Zenon DEF BioInv, UseIsStable
  <2>5. \A q \in Procs : Using(q)' => /\ blockno'[mine'[q]] = want'[q]
                                      /\ mine'[q] \in Range(list'[HASH(want'[q])])
    BY <1>1, <1>2, <1>4, <1>5, ZenonT(40) DEF BioInv, UseIsStable
  <2> QED
    BY <2>4, <2>5, Zenon DEF UseIsStable, HASH
<1>10. \A c \in Bufs : c # b => (Live(c)' <=> Live(c))
  BY <1>1, <1>4, Zenon DEF Live
<1>11. Settled'
  <2> SUFFICES ASSUME NEW i \in Buckets, NEW c \in Range(list[i]), Live(c)'
               PROVE HASH(blockno[c]) = i
    BY <1>1, Zenon DEF Settled, HASH
  <2>1. c \in Bufs
    BY Members, Zenon
  <2>2. CASE c = b
    BY <2>2, <1>2, <1>3, Zenon DEF BioInv, Placed
  <2>3. CASE c # b
    BY <2>1, <2>3, <1>10, Zenon DEF BioInv, Settled
  <2> QED
    BY <2>2, <2>3, Zenon
<1>12. OneLive'
  <2> SUFFICES ASSUME NEW h \in Blocks \ raced, NEW a \in Bufs, NEW c \in Bufs,
                      Precedes(list[HASH(h)], a, c), blockno[a] = h, blockno[c] = h
               PROVE ~Live(c)'
    BY <1>1 DEF OneLive, HASH, Precedes
  <2>1. CASE c = b
    BY <2>1, <1>2, Zenon
  <2>2. CASE c # b
    BY <2>2, <1>10, Zenon DEF BioInv, OneLive
  <2> QED
    BY <2>1, <2>2, Zenon
<1>13. Coherent'
  BY <1>1, Zenon DEF BioInv, Coherent
<1> QED
  BY <1>6, <1>7, <1>8, <1>9, <1>11, <1>12, <1>13, Zenon DEF BioInv

(* A process's place in bget() changes, and no buffer. *)
LEMMA PlaceStep ==
  ASSUME BioInv, Types', UNCHANGED <<list, hand, blockno, valid, refcnt, data, disk, raced, stale>>,
         \A p \in Procs : pc'[p] = "insert" <=> pc[p] = "insert",
         \A p \in Procs : pc[p] = "insert" => mine'[p] = mine[p],
         \A p \in Procs : Using(p)' <=> Using(p),
         \A p \in Procs : Using(p) => mine'[p] = mine[p] /\ want'[p] = want[p]
  PROVE BioInv'
<1>1. Placed' /\ UseIsStable'
  BY PlacedKept, UsersKept, Zenon
<1>2. \A b \in Bufs : Live(b)' => Live(b)
  BY Zenon DEF Live
<1>3. Settled' /\ OneLive'
  BY <1>2, LiveKept, Zenon
<1>4. HandInList'
  BY Zenon DEF BioInv, HandInList
<1>5. Coherent'
  BY Zenon DEF BioInv, Coherent
<1> QED
  BY <1>1, <1>3, <1>4, <1>5, Zenon DEF BioInv

(* bget() does not find the block, and drops the bucket lock. *)
LEMMA MissStep ==
  ASSUME BioInv, NEW p \in Procs, NEW k \in Blocks, Miss(p, k) PROVE BioInv'
<1>1. /\ pc[p] = "idle" /\ want' = [want EXCEPT ![p] = k] /\ scan' = [scan EXCEPT ![p] = 0]
      /\ pc' = [pc EXCEPT ![p] = "scan"]
      /\ UNCHANGED <<list, hand, blockno, valid, refcnt, data, owner, disk, mine, sweep, raced,
                     stale>>
  BY Zenon DEF Miss, lists, bufs
<1>2. Types /\ TypeOK
  BY Zenon DEF BioInv, Types
<1>3. 0 \in 0 .. NBUCKET
  BY BioAssumption
<1>4. /\ want' \in [Procs -> Blocks] /\ scan' \in [Procs -> 0 .. NBUCKET]
      /\ pc' \in [Procs -> {"idle", "scan", "insert", "lock", "read", "use", "drop", "panic"}]
      /\ pc'[p] = "scan" /\ \A q \in Procs : q # p => pc'[q] = pc[q] /\ want'[q] = want[q]
  BY <1>1, <1>2, <1>3 DEF Types, TypeOK
<1>5. /\ pc[p] # "insert" /\ pc'[p] # "insert" /\ ~Using(p) /\ ~Using(p)'
      /\ \A q \in Procs : q # p => (Using(q)' <=> Using(q))
  BY <1>1, <1>4, Zenon DEF Using
<1>6. Types'
  <2>1. TypeOK'
    BY <1>1, <1>2, <1>4, Zenon DEF TypeOK
  <2>2. \A q \in Procs : Using(q)' \/ pc'[q] = "insert" => mine'[q] \in Bufs
    BY <1>1, <1>2, <1>4, <1>5, Zenon DEF Types
  <2> QED
    BY <1>1, <1>2, <1>4, <2>1, <2>2, Zenon DEF Types
<1> QED
  BY <1>1, <1>4, <1>5, <1>6, PlaceStep, Zenon

(* clock_victim() takes a buffer that no process uses. *)
LEMMA Victim ==
  ASSUME BioInv, NEW i \in Buckets, Free(FromHand(i)) # {}
  PROVE LET l == FromHand(i)
            b == l[Least(IF Cold(l) # {} THEN Cold(l) ELSE Free(l))]
        IN b \in Range(list[i]) /\ b \in Bufs /\ refcnt[b] = 0 /\ Users(b) = {}
<1> DEFINE l == FromHand(i)
<1> DEFINE T == IF Cold(l) # {} THEN Cold(l) ELSE Free(l)
<1>1. DOMAIN l = 1 .. Len(list[i]) /\ \A m \in DOMAIN l : l[m] \in Range(list[i])
  BY FromHandIn, Zenon
<1>2. Cold(l) \subseteq Free(l) /\ Free(l) \subseteq DOMAIN l
  BY Zenon DEF Cold, Free
<1>3. T \subseteq Free(l) /\ T # {}
  BY <1>2, Zenon
<1>4. T \subseteq Nat
  BY <1>1, <1>2, <1>3
<1>5. Least(T) \in T
  BY <1>3, <1>4, LeastNat, Zenon
<1>6. l[Least(T)] \in Range(list[i]) /\ refcnt[l[Least(T)]] = 0
  BY <1>1, <1>2, <1>3, <1>5, Zenon DEF Free
<1>7. l[Least(T)] \in Bufs
  BY <1>6, Members, Zenon
<1>8. Users(l[Least(T)]) = {}
  BY <1>6, <1>7, UsersFinite, Zenon DEF BioInv, UseIsStable
<1> QED
  BY <1>6, <1>7, <1>8, Zenon

(* A victim is taken off its list. *)
LEMMA ScanStep ==
  ASSUME BioInv, NEW p \in Procs, Scan(p) PROVE BioInv'
<1>0. PICK i : i = (HASH(want[p]) + scan[p]) % NBUCKET
  BY Zenon
<1>1. Types /\ TypeOK /\ i \in Buckets
  BY <1>0, Hashed, Zenon DEF BioInv, Types, TypeOK
<1>2. PICK b : b = FromHand(i)[Least(IF Cold(FromHand(i)) # {} THEN Cold(FromHand(i))
                                                              ELSE Free(FromHand(i)))]
  BY Zenon
<1>3. /\ pc[p] = "scan" /\ Free(FromHand(i)) # {}
      /\ hand' = [hand EXCEPT ![i] = After(list[i], b)]
      /\ list' = [list EXCEPT ![i] = Unlink(@, b)]
      /\ mine' = [mine EXCEPT ![p] = b] /\ scan' = [scan EXCEPT ![p] = 0]
      /\ pc' = [pc EXCEPT ![p] = "insert"]
      /\ UNCHANGED <<blockno, valid, refcnt, data, owner, disk, want, sweep, raced, stale>>
  BY <1>0, <1>2, Zenon DEF Scan
<1>4. b \in Range(list[i]) /\ b \in Bufs /\ Users(b) = {}
  BY <1>1, <1>2, <1>3, Victim, Zenon
<1>5. list[i] \in Seq(Bufs) /\ IsInjective(list[i])
  BY <1>1, Members, Zenon
<1>6. /\ Unlink(list[i], b) \in Seq(Bufs) /\ IsInjective(Unlink(list[i], b))
      /\ Range(Unlink(list[i], b)) = Range(list[i]) \ {b}
      /\ \A x, y : Precedes(Unlink(list[i], b), x, y) => Precedes(list[i], x, y)
      /\ After(list[i], b) \in (Range(list[i]) \ {b}) \cup {None}
  BY <1>4, <1>5, Unlinked, AfterIn, Zenon
<1>7. After(list[i], b) \in Bufs \cup {None} /\ 0 \in 0 .. NBUCKET
  <2>1. After(list[i], b) \in Bufs \cup {None}
    BY <1>1, <1>6, Members, Zenon
  <2> QED
    BY <2>1, BioAssumption
<1>8. /\ list'[i] = Unlink(list[i], b) /\ \A j \in Buckets : j # i => list'[j] = list[j]
      /\ hand'[i] = After(list[i], b) /\ \A j \in Buckets : j # i => hand'[j] = hand[j]
      /\ mine'[p] = b /\ \A q \in Procs : q # p => mine'[q] = mine[q] /\ pc'[q] = pc[q]
      /\ pc'[p] = "insert"
  BY <1>1, <1>3, Zenon DEF Types, TypeOK
<1>9. /\ list' \in [Buckets -> Seq(Bufs)] /\ hand' \in [Buckets -> Bufs \cup {None}]
      /\ mine' \in [Procs -> Bufs \cup {None}] /\ scan' \in [Procs -> 0 .. NBUCKET]
      /\ pc' \in [Procs -> {"idle", "scan", "insert", "lock", "read", "use", "drop", "panic"}]
  <2>1. list' \in [Buckets -> Seq(Bufs)] /\ hand' \in [Buckets -> Bufs \cup {None}]
    BY <1>1, <1>3, <1>6, <1>7, Zenon DEF TypeOK
  <2>2. mine' \in [Procs -> Bufs \cup {None}] /\ scan' \in [Procs -> 0 .. NBUCKET]
    BY <1>1, <1>3, <1>4, <1>7, Zenon DEF TypeOK
  <2>3. pc' \in [Procs -> {"idle", "scan", "insert", "lock", "read", "use", "drop", "panic"}]
    BY <1>1, <1>3, Zenon DEF Types
  <2> QED
    BY <2>1, <2>2, <2>3, Zenon
<1>10. ~Using(p) /\ ~Using(p)' /\ \A q \in Procs : q # p => (Using(q)' <=> Using(q))
  BY <1>3, <1>8, Zenon DEF Using
<1>11. Types'
  <2>1. TypeOK'
    BY <1>1, <1>3, <1>9, Zenon DEF TypeOK
  <2>2. \A q \in Procs : Using(q)' \/ pc'[q] = "insert" => mine'[q] \in Bufs
    BY <1>1, <1>4, <1>8, <1>10, Zenon DEF Types
  <2> QED
    BY <1>1, <1>3, <1>9, <2>1, <2>2, Zenon DEF Types
<1>12. /\ \A j \in Buckets : Range(list'[j]) \subseteq Range(list[j]) \ {b}
       /\ \A j \in Buckets : Range(list[j]) \ {b} \subseteq Range(list'[j])
  <2>1. \A j \in Buckets : j # i => b \notin Range(list[j])
    BY <1>1, <1>4, Zenon DEF BioInv, Placed
  <2>2. \A j \in Buckets : Range(list'[j]) = Range(list[j]) \ {b}
    BY <2>1, <1>6, <1>8, ZenonT(40)
  <2> QED
    BY <2>2, Zenon
<1>13. Placed'
  <2>1. \A j \in Buckets : IsInjective(list'[j])
    BY <1>6, <1>8, Zenon DEF BioInv, Placed
  <2>2. \A j, m \in Buckets : j # m => Range(list'[j]) \cap Range(list'[m]) = {}
    BY <1>12, ZenonT(40) DEF BioInv, Placed
  <2>3. \A q \in Procs : pc'[q] = "insert" => \A j \in Buckets : mine'[q] \notin Range(list'[j])
    <3> SUFFICES ASSUME NEW q \in Procs, pc'[q] = "insert", NEW j \in Buckets
                 PROVE mine'[q] \notin Range(list'[j])
      BY Zenon
    <3>1. CASE q = p
      BY <3>1, <1>8, <1>12, Zenon
    <3>2. CASE q # p
      <4>1. mine'[q] \notin Range(list[j])
        BY <3>2, <1>8, Zenon DEF BioInv, Placed
      <4> QED
        BY <4>1, <1>12, Zenon
    <3> QED
      BY <3>1, <3>2, Zenon
  <2>4. \A q, r \in Procs : pc'[q] = "insert" /\ pc'[r] = "insert" /\ mine'[q] = mine'[r]
                            => q = r
    <3>1. \A q \in Procs : pc[q] = "insert" => mine[q] # b
      BY <1>1, <1>4, ZenonT(40) DEF BioInv, Placed
    <3>2. \A q \in Procs : q # p /\ pc'[q] = "insert" => mine'[q] # b
      BY <3>1, <1>8, Zenon
    <3>3. \A q, r \in Procs : pc[q] = "insert" /\ pc[r] = "insert" /\ mine[q] = mine[r]
                              => q = r
      BY Zenon DEF BioInv, Placed
    <3> QED
      BY <3>2, <3>3, <1>8, ZenonT(40)
  <2>5. \A c \in Bufs : \/ \E j \in Buckets : c \in Range(list'[j])
                        \/ \E q \in Procs : pc'[q] = "insert" /\ mine'[q] = c
    <3> SUFFICES ASSUME NEW c \in Bufs, c # b
                 PROVE \/ \E j \in Buckets : c \in Range(list'[j])
                       \/ \E q \in Procs : pc'[q] = "insert" /\ mine'[q] = c
      BY <1>8, Zenon
    <3>1. CASE \E j \in Buckets : c \in Range(list[j])
      BY <3>1, <1>12, Zenon
    <3>2. CASE \E q \in Procs : pc[q] = "insert" /\ mine[q] = c
      BY <3>2, <1>3, <1>8, Zenon
    <3> QED
      BY <3>1, <3>2, Zenon DEF BioInv, Placed
  <2> QED
    BY <2>1, <2>2, <2>3, <2>4, <2>5, Zenon DEF Placed
<1>14. HandInList'
  <2> SUFFICES ASSUME NEW j \in Buckets, hand'[j] # None PROVE hand'[j] \in Range(list'[j])
    BY Zenon DEF HandInList
  <2>1. CASE j = i
    BY <2>1, <1>6, <1>8, Zenon
  <2>2. CASE j # i
    BY <2>2, <1>8, Zenon DEF BioInv, HandInList
  <2> QED
    BY <2>1, <2>2, Zenon
<1>15. UseIsStable'
  <2>1. \A c \in Bufs : Users(c)' = Users(c)
    BY <1>8, <1>10, Zenon DEF Users
  <2>2. \A c \in Bufs : refcnt'[c] = Cardinality(Users(c)')
    BY <1>3, <2>1, Zenon DEF BioInv, UseIsStable
  <2>3. ASSUME NEW q \in Procs, Using(q)'
        PROVE blockno'[mine'[q]] = want'[q] /\ mine'[q] \in Range(list'[HASH(want'[q])])
    <3>1. q # p /\ Using(q) /\ mine'[q] = mine[q]
      BY <2>3, <1>8, <1>10, Zenon
    <3>2. mine[q] # b
      BY <3>1, <1>4, Zenon DEF Users
    <3>3. /\ mine[q] \in Range(list[HASH(want[q])]) /\ blockno[mine[q]] = want[q]
          /\ HASH(want[q]) \in Buckets
      BY <3>1, InUse, Zenon
    <3> QED
      BY <3>1, <3>2, <3>3, <1>3, <1>12, Zenon
  <2> QED
    BY <2>2, <2>3, Zenon DEF UseIsStable, HASH
<1>16. \A c \in Bufs : Live(c)' <=> Live(c)
  BY <1>3, Zenon DEF Live
<1>17. Settled'
  <2> SUFFICES ASSUME NEW j \in Buckets, NEW c \in Range(list'[j]), Live(c)'
               PROVE HASH(blockno[c]) = j
    BY <1>3, Zenon DEF Settled, HASH
  <2>1. c \in Range(list[j])
    BY <1>12, Zenon
  <2>2. c \in Bufs
    BY <2>1, Members, Zenon
  <2> QED
    BY <2>1, <2>2, <1>16, Zenon DEF BioInv, Settled
<1>18. OneLive'
  <2> SUFFICES ASSUME NEW h \in Blocks \ raced, NEW a \in Bufs, NEW c \in Bufs,
                      Precedes(list'[HASH(h)], a, c), blockno[a] = h, blockno[c] = h
               PROVE ~Live(c)'
    BY <1>3 DEF OneLive, HASH, Precedes
  <2>1. Precedes(list[HASH(h)], a, c)
    BY <1>6, <1>8, Hashed, Zenon
  <2> QED
    BY <2>1, <1>16, Zenon DEF BioInv, OneLive
<1>19. Coherent'
  <2> SUFFICES ASSUME NEW j \in Buckets, NEW c \in Range(list'[j]), valid[c]
               PROVE data[c] = disk[blockno[c]] \/ blockno[c] \in raced \cup stale
    BY <1>3, Zenon DEF Coherent
  <2> QED
    BY <1>12, Zenon DEF BioInv, Coherent
<1> QED
  BY <1>11, <1>13, <1>14, <1>15, <1>17, <1>18, <1>19, Zenon DEF BioInv

(* A bucket without a victim: the hand has gone round and stays in it. *)
LEMMA ScanOnStep ==
  ASSUME BioInv, NEW p \in Procs, ScanOn(p) PROVE BioInv'
<1>0. PICK i : i = (HASH(want[p]) + scan[p]) % NBUCKET
  BY Zenon
<1>1. Types /\ TypeOK /\ i \in Buckets /\ scan[p] \in 0 .. NBUCKET
  BY <1>0, Hashed, Zenon DEF BioInv, Types, TypeOK
<1>2. PICK h : h = IF FromHand(i) = <<>> THEN None
                   ELSE After(list[i], FromHand(i)[((2 * NBUF - 1) % Len(FromHand(i))) + 1])
  BY Zenon
<1>3. /\ pc[p] = "scan" /\ scan[p] < NBUCKET /\ hand' = [hand EXCEPT ![i] = h]
      /\ scan' = [scan EXCEPT ![p] = @ + 1]
      /\ pc' = [pc EXCEPT ![p] = IF scan[p] + 1 = NBUCKET THEN "panic" ELSE "scan"]
      /\ UNCHANGED <<list, blockno, valid, refcnt, data, owner, disk, want, mine, sweep, raced,
                     stale>>
  BY <1>0, <1>2, Zenon DEF ScanOn, bufs
<1>4. h \in Range(list[i]) \cup {None}
  <2>1. CASE FromHand(i) = <<>>
    BY <2>1, <1>2, Zenon
  <2>2. CASE FromHand(i) # <<>>
    <3>1. /\ DOMAIN FromHand(i) = 1 .. Len(list[i]) /\ Len(list[i]) \in Nat
          /\ Len(FromHand(i)) = Len(list[i])
          /\ \A m \in 1 .. Len(list[i]) : FromHand(i)[m] \in Range(list[i])
      BY <1>1, FromHandIn, Zenon
    <3>2. Len(list[i]) \in Nat \ {0}
      <4>1. CASE Len(list[i]) = 0
        <5>1. DOMAIN FromHand(i) = {}
          BY <3>1, <4>1
        <5>2. FromHand(i) = <<>>
          BY <5>1 DEF FromHand
        <5> QED
          BY <2>2, <5>2, Zenon
      <4> QED
        BY <3>1, <4>1
    <3>3. 2 * NBUF - 1 \in Nat
      BY BioAssumption
    <3>4. (2 * NBUF - 1) % Len(list[i]) \in 0 .. Len(list[i]) - 1
      BY <3>2, <3>3, Modulo, Zenon
    <3>5. ((2 * NBUF - 1) % Len(list[i])) + 1 \in 1 .. Len(list[i])
      BY <3>2, <3>4
    <3>6. FromHand(i)[((2 * NBUF - 1) % Len(FromHand(i))) + 1] \in Range(list[i])
      BY <3>1, <3>5, Zenon
    <3> QED
      BY <2>2, <3>6, <1>1, <1>2, Members, AfterIn, Zenon
  <2> QED
    BY <2>1, <2>2, Zenon
<1>5. h \in Bufs \cup {None}
  BY <1>1, <1>4, Members, Zenon
<1>6. /\ hand' \in [Buckets -> Bufs \cup {None}]
      /\ hand'[i] = h /\ \A j \in Buckets : j # i => hand'[j] = hand[j]
  BY <1>1, <1>3, <1>5, Zenon DEF TypeOK
<1>7. scan' \in [Procs -> 0 .. NBUCKET]
  <2>1. scan[p] + 1 \in 0 .. NBUCKET
    BY <1>1, <1>3, BioAssumption
  <2> QED
    BY <2>1, <1>1, <1>3, Zenon DEF TypeOK
<1>8. /\ pc' \in [Procs -> {"idle", "scan", "insert", "lock", "read", "use", "drop", "panic"}]
      /\ pc'[p] \in {"panic", "scan"} /\ \A q \in Procs : q # p => pc'[q] = pc[q]
  BY <1>1, <1>3, Zenon DEF Types
<1>9. /\ pc[p] # "insert" /\ pc'[p] # "insert" /\ ~Using(p) /\ ~Using(p)'
      /\ \A q \in Procs : q # p => (Using(q)' <=> Using(q))
  BY <1>3, <1>8 DEF Using
<1>10. Types'
  <2>1. TypeOK'
    BY <1>1, <1>3, <1>6, <1>7, Zenon DEF TypeOK
  <2>2. \A q \in Procs : Using(q)' \/ pc'[q] = "insert" => mine'[q] \in Bufs
    BY <1>1, <1>3, <1>8, <1>9, Zenon DEF Types
  <2> QED
    BY <1>1, <1>3, <1>8, <2>1, <2>2, Zenon DEF Types
<1>11. Placed' /\ UseIsStable'
  BY <1>3, <1>8, <1>9, PlacedKept, UsersKept, Zenon
<1>12. Settled' /\ OneLive'
  <2>1. \A b \in Bufs : Live(b)' => Live(b)
    BY <1>3, Zenon DEF Live
  <2> QED
    BY <2>1, <1>3, LiveKept, Zenon
<1>13. HandInList'
  BY <1>3, <1>4, <1>6, Zenon DEF BioInv, HandInList
<1>14. Coherent'
  BY <1>3, Zenon DEF BioInv, Coherent
<1> QED
  BY <1>10, <1>11, <1>12, <1>13, <1>14, Zenon DEF BioInv

(* The buffer that bget() inserts is in no other list and nobody uses it. *)
LEMMA InsertStep ==
  ASSUME BioInv, NEW p \in Procs, Insert(p) PROVE BioInv'
<1>0. PICK b, k, i : b = mine[p] /\ k = want[p] /\ i = HASH(want[p])
  BY Zenon
<1>1. /\ pc[p] = "insert" /\ list' = [list EXCEPT ![i] = <<b>> \o @]
      /\ blockno' = [blockno EXCEPT ![b] = k]
      /\ valid' = [valid EXCEPT ![b] = FALSE] /\ data' = [data EXCEPT ![b] = 0]
      /\ refcnt' = [refcnt EXCEPT ![b] = 1]
      /\ raced' = (IF Hits(i, k) # {} THEN raced \cup {k} ELSE raced)
      /\ pc' = [pc EXCEPT ![p] = "lock"]
      /\ UNCHANGED <<hand, owner, disk, want, scan, mine, sweep, stale>>
  BY <1>0, Zenon DEF Insert
<1>2. /\ Types /\ TypeOK /\ b \in Bufs /\ k \in Blocks /\ i \in Buckets /\ i = HASH(k)
      /\ \A j \in Buckets : b \notin Range(list[j])
  BY <1>0, <1>1, Hashed, Zenon DEF BioInv, Types, TypeOK, Placed
<1>3. list[i] \in Seq(Bufs) /\ IsInjective(list[i])
  BY <1>2, Members, Zenon
<1>4. /\ <<b>> \o list[i] \in Seq(Bufs) /\ IsInjective(<<b>> \o list[i])
      /\ Range(<<b>> \o list[i]) = Range(list[i]) \cup {b}
      /\ \A x, y : Precedes(<<b>> \o list[i], x, y) =>
           Precedes(list[i], x, y) \/ (x = b /\ y \in Range(list[i]))
  BY <1>2, <1>3, Pushed, Zenon
<1>5. /\ list'[i] = <<b>> \o list[i] /\ \A j \in Buckets : j # i => list'[j] = list[j]
      /\ blockno'[b] = k /\ valid'[b] = FALSE /\ refcnt'[b] = 1 /\ pc'[p] = "lock"
      /\ \A c \in Bufs : c # b => /\ blockno'[c] = blockno[c] /\ valid'[c] = valid[c]
                                  /\ refcnt'[c] = refcnt[c] /\ data'[c] = data[c]
      /\ \A q \in Procs : q # p => pc'[q] = pc[q]
  <2>1. list'[i] = <<b>> \o list[i] /\ \A j \in Buckets : j # i => list'[j] = list[j]
    BY <1>1, <1>2, Zenon DEF TypeOK
  <2>2. /\ blockno'[b] = k /\ valid'[b] = FALSE /\ refcnt'[b] = 1
        /\ \A c \in Bufs : c # b => /\ blockno'[c] = blockno[c] /\ valid'[c] = valid[c]
                                    /\ refcnt'[c] = refcnt[c]
    BY <1>1, <1>2, Zenon DEF Types, TypeOK
  <2>3. \A c \in Bufs : c # b => data'[c] = data[c]
    BY <1>1, <1>2, Zenon DEF Types
  <2>4. pc'[p] = "lock" /\ \A q \in Procs : q # p => pc'[q] = pc[q]
    BY <1>1, <1>2, Zenon DEF Types
  <2> QED
    BY <2>1, <2>2, <2>3, <2>4, Zenon
<1>6. ~Using(p) /\ Using(p)' /\ \A q \in Procs : q # p => (Using(q)' <=> Using(q))
  BY <1>1, <1>5, Zenon DEF Using
<1>7. Types'
  <2>1. list' \in [Buckets -> Seq(Bufs)]
    BY <1>1, <1>2, <1>4, Zenon DEF TypeOK
  <2>2. 1 \in Nat
    OBVIOUS
  <2>3. refcnt' \in [Bufs -> Nat] /\ blockno' \in [Bufs -> Blocks]
    BY <1>1, <1>2, <2>2, Zenon DEF TypeOK
  <2>4. TypeOK'
    BY <1>1, <1>2, <2>1, <2>3, Zenon DEF TypeOK
  <2>5. \A q \in Procs : Using(q)' \/ pc'[q] = "insert" => mine'[q] \in Bufs
    BY <1>0, <1>1, <1>2, <1>5, <1>6, Zenon DEF Types
  <2>6. /\ pc' \in [Procs -> {"idle", "scan", "insert", "lock", "read", "use", "drop", "panic"}]
        /\ valid' \in [Bufs -> BOOLEAN]
    BY <1>1, <1>2 DEF Types
  <2>7. data' = [c \in Bufs |-> data'[c]]
    BY <1>1, <1>2 DEF Types
  <2> QED
    BY <1>1, <1>2, <2>4, <2>5, <2>6, <2>7, ZenonT(40) DEF Types
<1>8. /\ \A j \in Buckets : \A c \in Range(list[j]) : c \in Range(list'[j])
      /\ \A j \in Buckets : \A c \in Range(list'[j]) : c \in Range(list[j]) \/ (j = i /\ c = b)
      /\ b \in Range(list'[i])
  <2>1. Range(list'[i]) = Range(list[i]) \cup {b}
    BY <1>4, <1>5, Zenon
  <2>2. \A j \in Buckets : j # i => Range(list'[j]) = Range(list[j])
    BY <1>5, Zenon
  <2>3. ASSUME NEW j \in Buckets
        PROVE /\ \A c \in Range(list[j]) : c \in Range(list'[j])
              /\ \A c \in Range(list'[j]) : c \in Range(list[j]) \/ (j = i /\ c = b)
    BY <2>1, <2>2, Zenon
  <2> QED
    BY <2>1, <2>3, Zenon
<1>9. Placed'
  <2>1. \A j \in Buckets : IsInjective(list'[j])
    BY <1>4, <1>5, ZenonT(40) DEF BioInv, Placed
  <2>2. ASSUME NEW j \in Buckets, NEW m \in Buckets, j # m
        PROVE Range(list'[j]) \cap Range(list'[m]) = {}
    <3>1. Range(list[j]) \cap Range(list[m]) = {}
      BY <2>2, Zenon DEF BioInv, Placed
    <3> QED
      BY <2>2, <3>1, <1>2, <1>8, Zenon
  <2>3. ASSUME NEW q \in Procs, pc'[q] = "insert"
        PROVE q # p /\ pc[q] = "insert" /\ mine'[q] = mine[q] /\ mine[q] # b
    <3>1. q # p /\ pc[q] = "insert"
      BY <2>3, <1>5, Zenon
    <3> QED
      BY <3>1, <1>0, <1>1, Zenon DEF BioInv, Placed
  <2>4. ASSUME NEW q \in Procs, pc'[q] = "insert", NEW j \in Buckets
        PROVE mine'[q] \notin Range(list'[j])
    <3>1. pc[q] = "insert" /\ mine'[q] = mine[q] /\ mine[q] # b
      BY <2>3, <2>4, Zenon
    <3>2. mine[q] \notin Range(list[j])
      BY <3>1, Zenon DEF BioInv, Placed
    <3> QED
      BY <3>1, <3>2, <1>8, Zenon
  <2>5. \A q, r \in Procs : pc'[q] = "insert" /\ pc'[r] = "insert" /\ mine'[q] = mine'[r]
                            => q = r
    BY <2>3, ZenonT(40) DEF BioInv, Placed
  <2>6. ASSUME NEW c \in Bufs
        PROVE \/ \E j \in Buckets : c \in Range(list'[j])
              \/ \E q \in Procs : pc'[q] = "insert" /\ mine'[q] = c
    <3>1. CASE \E j \in Buckets : c \in Range(list[j])
      BY <3>1, <1>8, Zenon
    <3>2. CASE c = b
      BY <3>2, <1>2, <1>8, Zenon
    <3>3. ASSUME NEW q \in Procs, pc[q] = "insert", mine[q] = c, c # b
          PROVE pc'[q] = "insert" /\ mine'[q] = c
      BY <3>3, <1>0, <1>1, <1>5, Zenon
    <3> QED
      BY <3>1, <3>2, <3>3, Zenon DEF BioInv, Placed
  <2> QED
    BY <2>1, <2>2, <2>4, <2>5, <2>6, Zenon DEF Placed
<1>10. HandInList'
  BY <1>1, <1>8, Zenon DEF BioInv, HandInList
<1>11. \A q \in Procs : Using(q) => mine[q] # b
  BY <1>2, InUse, ZenonT(40)
<1>12. UseIsStable'
  <2>1. \A c \in Bufs : c # b => Users(c)' = Users(c)
    BY <1>0, <1>1, <1>6, Zenon DEF Users
  <2>2. Users(b)' = {p}
    BY <1>0, <1>1, <1>6, <1>11, Zenon DEF Users
  <2>3. Cardinality(Users(b)') = 1
    BY <2>2, FS_Singleton, Zenon
  <2>4. \A c \in Bufs : refcnt'[c] = Cardinality(Users(c)')
    BY <1>5, <2>1, <2>3, Zenon DEF BioInv, UseIsStable
  <2>5. ASSUME NEW q \in Procs, Using(q)'
        PROVE blockno'[mine'[q]] = want'[q] /\ mine'[q] \in Range(list'[HASH(want'[q])])
    <3>1. CASE q = p
      <4>1. mine'[q] = b /\ want'[q] = k
        BY <3>1, <1>0, <1>1, Zenon
      <4> QED
        BY <4>1, <1>2, <1>5, <1>8, Zenon
    <3>2. CASE q # p
      <4>1. Using(q)
        BY <2>5, <3>2, <1>6, Zenon
      <4>2. /\ mine[q] \in Bufs /\ mine[q] \in Range(list[HASH(want[q])])
            /\ blockno[mine[q]] = want[q] /\ HASH(want[q]) \in Buckets /\ mine[q] # b
        BY <4>1, <1>11, InUse, Zenon
      <4>3. mine'[q] = mine[q] /\ want'[q] = want[q]
        BY <1>1, Zenon
      <4>4. mine[q] \in Range(list'[HASH(want[q])]) /\ blockno'[mine[q]] = blockno[mine[q]]
        BY <4>2, <1>5, <1>8, Zenon
      <4> QED
        BY <4>2, <4>3, <4>4, Zenon
    <3> QED
      BY <3>1, <3>2, Zenon
  <2> QED
    BY <2>4, <2>5, Zenon DEF UseIsStable, HASH
<1>13. \A c \in Bufs : c # b => (Live(c)' <=> Live(c))
  BY <1>5, Zenon DEF Live
<1>14. Settled'
  <2> SUFFICES ASSUME NEW j \in Buckets, NEW c \in Range(list'[j]), Live(c)'
               PROVE HASH(blockno'[c]) = j
    BY Zenon DEF Settled, HASH
  <2>1. CASE c = b
    <3>1. j = i
      BY <2>1, <1>2, <1>8, Zenon
    <3> QED
      BY <2>1, <3>1, <1>2, <1>5, Zenon
  <2>2. CASE c # b
    <3>1. c \in Range(list[j])
      BY <2>2, <1>8, Zenon
    <3>2. c \in Bufs
      BY <3>1, Members, Zenon
    <3> QED
      BY <2>2, <3>1, <3>2, <1>5, <1>13, ZenonT(40) DEF BioInv, Settled
  <2> QED
    BY <2>1, <2>2, Zenon
<1>15. OneLive'
  <2> SUFFICES ASSUME NEW h \in Blocks \ raced', NEW a \in Bufs, NEW c \in Bufs,
                      Precedes(list'[HASH(h)], a, c), blockno'[a] = h, blockno'[c] = h
               PROVE ~Live(c)'
    BY DEF OneLive, HASH, Precedes
  <2>1. h \notin raced /\ HASH(h) \in Buckets
    BY <1>1, Hashed, Zenon
  <2>2. CASE Precedes(list[HASH(h)], a, c)
    <3>1. a \in Range(list[HASH(h)]) /\ c \in Range(list[HASH(h)])
      BY <2>2, Zenon DEF Precedes, Range
    <3>2. a # b /\ c # b
      BY <3>1, <2>1, <1>2, Zenon
    <3> QED
      BY <2>1, <2>2, <3>2, <1>5, <1>13, ZenonT(40) DEF BioInv, OneLive
  <2>3. CASE ~Precedes(list[HASH(h)], a, c)
    <3>1. HASH(h) = i /\ a = b /\ c \in Range(list[i])
      BY <2>1, <2>3, <1>4, <1>5, Zenon
    <3>2. h = k /\ blockno[c] = k
      BY <3>1, <1>2, <1>5, Zenon
    <3>3. PICK n \in DOMAIN list[i] : list[i][n] = c
      BY <3>1, Zenon DEF Range
    <3>4. Hits(i, k) # {}
      BY <3>2, <3>3, Zenon DEF Hits
    <3> QED
      BY <3>2, <3>4, <1>1, Zenon
  <2> QED
    BY <2>2, <2>3, Zenon
<1>16. Coherent'
  <2> SUFFICES ASSUME NEW j \in Buckets, NEW c \in Range(list'[j]), valid'[c]
               PROVE data'[c] = disk[blockno'[c]] \/ blockno'[c] \in raced' \cup stale
    BY <1>1, Zenon DEF Coherent
  <2>1. c # b
    BY <1>5, Zenon
  <2>2. c \in Range(list[j])
    BY <2>1, <1>8, Zenon
  <2>3. c \in Bufs
    BY <2>2, Members, Zenon
  <2>4. valid[c] /\ data'[c] = data[c] /\ blockno'[c] = blockno[c] /\ raced \subseteq raced'
    BY <2>1, <2>3, <1>1, <1>5, Zenon
  <2> QED
    BY <2>2, <2>4, Zenon DEF BioInv, Coherent
<1> QED
  BY <1>7, <1>9, <1>10, <1>12, <1>14, <1>15, <1>16, Zenon DEF BioInv

(* A user goes on to another step with the same buffer. *)
LEMMA UserStep ==
  ASSUME BioInv, NEW p \in Procs, Using(p), NEW at \in {"read", "use", "drop"},
         pc' = [pc EXCEPT ![p] = at], UNCHANGED <<want, mine>>
  PROVE /\ pc' \in [Procs -> {"idle", "scan", "insert", "lock", "read", "use", "drop", "panic"}]
        /\ \A q \in Procs : pc'[q] = "insert" <=> pc[q] = "insert"
        /\ \A q \in Procs : Using(q)' <=> Using(q)
        /\ \A q \in Procs : Using(q)' \/ pc'[q] = "insert" => mine'[q] \in Bufs
<1>1. pc \in [Procs -> {"idle", "scan", "insert", "lock", "read", "use", "drop", "panic"}]
  BY Zenon DEF BioInv, Types
<1>2. /\ pc' \in [Procs -> {"idle", "scan", "insert", "lock", "read", "use", "drop", "panic"}]
      /\ pc'[p] = at /\ \A q \in Procs : q # p => pc'[q] = pc[q]
  BY <1>1
<1>3. Using(p)' /\ pc[p] # "insert" /\ pc'[p] # "insert"
  BY <1>2 DEF Using
<1>4. \A q \in Procs : Using(q)' <=> Using(q)
  BY <1>2, <1>3, Zenon DEF Using
<1>5. \A q \in Procs : pc'[q] = "insert" <=> pc[q] = "insert"
  BY <1>2, <1>3, Zenon
<1> QED
  BY <1>2, <1>4, <1>5, Zenon DEF BioInv, Types

(* acquiresleep() and releasesleep() change no list and no buffer. *)
LEMMA LockStep ==
  ASSUME BioInv, NEW p \in Procs, Lock(p) \/ Unlock(p) PROVE BioInv'
<1>1. PICK at \in {"read", "drop"}, o \in Procs \cup {None} :
        /\ pc[p] \in {"lock", "use"} /\ pc' = [pc EXCEPT ![p] = at]
        /\ owner' = [owner EXCEPT ![mine[p]] = o]
        /\ UNCHANGED <<list, hand, blockno, valid, refcnt, data, disk, want, scan, mine, sweep,
                       raced, stale>>
  BY Zenon DEF Lock, Unlock, lists, bufs
<1>2. Using(p) /\ Types /\ TypeOK
  BY <1>1, Zenon DEF Using, BioInv, Types
<1>3. /\ pc' \in [Procs -> {"idle", "scan", "insert", "lock", "read", "use", "drop", "panic"}]
      /\ \A q \in Procs : pc'[q] = "insert" <=> pc[q] = "insert"
      /\ \A q \in Procs : Using(q)' <=> Using(q)
      /\ \A q \in Procs : Using(q)' \/ pc'[q] = "insert" => mine'[q] \in Bufs
  BY <1>1, <1>2, UserStep, Zenon
<1>4. owner' \in [Bufs -> Procs \cup {None}]
  BY <1>1, <1>2, Zenon DEF TypeOK
<1>5. TypeOK'
  BY <1>1, <1>2, <1>4, Zenon DEF TypeOK
<1>6. Types'
  BY <1>1, <1>2, <1>3, <1>5, Zenon DEF Types
<1> QED
  BY <1>1, <1>3, <1>6, PlaceStep, Zenon

(* bread() fills the buffer from the disk when it is not valid. *)
LEMMA ReadStep ==
  ASSUME BioInv, NEW p \in Procs, Read(p) PROVE BioInv'
<1>0. PICK b : b = mine[p]
  BY Zenon
<1>1. /\ pc[p] = "read" /\ pc' = [pc EXCEPT ![p] = "use"]
      /\ data' = [data EXCEPT ![b] = IF valid[b] THEN @ ELSE disk[blockno[b]]]
      /\ valid' = [valid EXCEPT ![b] = TRUE]
      /\ UNCHANGED <<list, hand, blockno, refcnt, owner, disk, want, scan, mine, sweep, raced,
                     stale>>
  BY <1>0, Zenon DEF Read, lists
<1>2. Using(p) /\ Types /\ TypeOK
  BY <1>1, Zenon DEF Using, BioInv, Types
<1>3. b \in Bufs /\ Live(b)
  BY <1>0, <1>2, InUse, Zenon
<1>4. /\ pc' \in [Procs -> {"idle", "scan", "insert", "lock", "read", "use", "drop", "panic"}]
      /\ \A q \in Procs : pc'[q] = "insert" <=> pc[q] = "insert"
      /\ \A q \in Procs : Using(q)' <=> Using(q)
      /\ \A q \in Procs : Using(q)' \/ pc'[q] = "insert" => mine'[q] \in Bufs
  BY <1>1, <1>2, UserStep, Zenon
<1>5. /\ valid' \in [Bufs -> BOOLEAN] /\ data' = [c \in Bufs |-> data'[c]]
      /\ data'[b] = (IF valid[b] THEN data[b] ELSE disk[blockno[b]])
      /\ \A c \in Bufs : c # b => data'[c] = data[c] /\ valid'[c] = valid[c]
  <2>1. valid' \in [Bufs -> BOOLEAN] /\ \A c \in Bufs : c # b => valid'[c] = valid[c]
    BY <1>1, <1>2, Zenon DEF Types
  <2>2. /\ data' = [c \in Bufs |-> data'[c]]
        /\ data'[b] = (IF valid[b] THEN data[b] ELSE disk[blockno[b]])
        /\ \A c \in Bufs : c # b => data'[c] = data[c]
    BY <1>1, <1>2, <1>3 DEF Types
  <2> QED
    BY <2>1, <2>2, Zenon
<1>6. Types'
  <2>1. TypeOK'
    BY <1>1, <1>2, Zenon DEF TypeOK
  <2> QED
    BY <1>1, <1>2, <1>4, <1>5, <2>1, ZenonT(40) DEF Types
<1>7. Placed' /\ UseIsStable'
  BY <1>1, <1>4, PlacedKept, UsersKept, Zenon
<1>8. Settled' /\ OneLive'
  <2>1. \A c \in Bufs : Live(c)' => Live(c)
    BY <1>1, <1>3, <1>5, Zenon DEF Live
  <2> QED
    BY <2>1, <1>1, LiveKept, Zenon
<1>9. HandInList'
  BY <1>1, Zenon DEF BioInv, HandInList
<1>10. Coherent'
  <2> SUFFICES ASSUME NEW i \in Buckets, NEW c \in Range(list[i]), valid'[c]
               PROVE data'[c] = disk[blockno[c]] \/ blockno[c] \in raced \cup stale
    BY <1>1, Zenon DEF Coherent
  <2>1. c \in Bufs
    BY Members, Zenon
  <2>2. CASE c = b /\ ~valid[b]
    BY <2>2, <1>5, Zenon
  <2>3. CASE c # b \/ valid[b]
    <3>1. valid[c] /\ data'[c] = data[c]
      BY <2>1, <2>3, <1>5, Zenon
    <3> QED
      BY <3>1, Zenon DEF BioInv, Coherent
  <2> QED
    BY <2>2, <2>3, Zenon
<1> QED
  BY <1>6, <1>7, <1>8, <1>9, <1>10, Zenon DEF BioInv

(* Two buffers of a list: one comes before the other. *)
LEMMA InOrder ==
  ASSUME NEW l \in Seq(Bufs), NEW a \in Range(l), NEW b \in Range(l), a # b
  PROVE Precedes(l, a, b) \/ Precedes(l, b, a)
<1>1. PICK m, n \in DOMAIN l : l[m] = a /\ l[n] = b
  BY Zenon DEF Range
<1>2. m # n
  BY <1>1, Zenon
<1>3. m < n \/ n < m
  BY <1>2
<1> QED
  BY <1>1, <1>3, Zenon DEF Precedes

(* bwrite() changes the buffer and the disk; no other buffer of the block  *)
(* may be read, unless it was inserted twice.                              *)
LEMMA WriteStep ==
  ASSUME BioInv, NEW p \in Procs, NEW v \in Vals, Write(p, v) PROVE BioInv'
<1>0. PICK b, k : b = mine[p] /\ k = blockno[mine[p]]
  BY Zenon
<1>1. /\ pc[p] = "use" /\ data' = [data EXCEPT ![b] = v] /\ disk' = [disk EXCEPT ![k] = v]
      /\ UNCHANGED <<list, hand, blockno, valid, refcnt, owner, pc, want, scan, mine, sweep,
                     raced, stale>>
  BY <1>0, Zenon DEF Write, lists, procs
<1>2. Using(p) /\ Types /\ TypeOK
  BY <1>1, Zenon DEF Using, BioInv, Types
<1>3. /\ b \in Bufs /\ Live(b) /\ k \in Blocks /\ blockno[b] = k
      /\ b \in Range(list[HASH(k)]) /\ HASH(k) \in Buckets
  BY <1>0, <1>2, InUse, Zenon
<1>4. /\ data' = [c \in Bufs |-> data'[c]] /\ disk' = [h \in Blocks |-> disk'[h]]
      /\ data'[b] = v /\ disk'[k] = v
      /\ \A c \in Bufs : c # b => data'[c] = data[c]
      /\ \A h \in Blocks : h # k => disk'[h] = disk[h]
  <2>1. /\ data' = [c \in Bufs |-> data'[c]] /\ data'[b] = v
        /\ \A c \in Bufs : c # b => data'[c] = data[c]
    BY <1>1, <1>2, <1>3 DEF Types
  <2>2. /\ disk' = [h \in Blocks |-> disk'[h]] /\ disk'[k] = v
        /\ \A h \in Blocks : h # k => disk'[h] = disk[h]
    BY <1>1, <1>2, <1>3 DEF Types
  <2> QED
    BY <2>1, <2>2, Zenon
<1>5. \A q \in Procs : Using(q)' <=> Using(q)
  BY <1>1, Zenon DEF Using
<1>6. Types'
  <2>1. TypeOK'
    BY <1>1, <1>2, Zenon DEF TypeOK
  <2>2. \A q \in Procs : Using(q)' \/ pc'[q] = "insert" => mine'[q] \in Bufs
    BY <1>1, <1>2, <1>5, Zenon DEF Types
  <2> QED
    BY <1>1, <1>2, <1>4, <2>1, <2>2, Zenon DEF Types
<1>7. Placed' /\ UseIsStable'
  BY <1>1, <1>5, PlacedKept, UsersKept, Zenon
<1>8. Settled' /\ OneLive'
  <2>1. \A c \in Bufs : Live(c)' => Live(c)
    BY <1>1, Zenon DEF Live
  <2> QED
    BY <2>1, <1>1, LiveKept, Zenon
<1>9. HandInList'
  BY <1>1, Zenon DEF BioInv, HandInList
<1>10. Coherent'
  <2> SUFFICES ASSUME NEW i \in Buckets, NEW c \in Range(list[i]), valid[c], c # b,
                      blockno[c] \notin raced
               PROVE data'[c] = disk'[blockno[c]] \/ blockno[c] \in raced \cup stale
    BY <1>1, <1>3, <1>4, ZenonT(40) DEF Coherent
  <2>1. c \in Bufs /\ Live(c) /\ HASH(blockno[c]) = i /\ blockno[c] \in Blocks
    BY <1>2, Members, Zenon DEF BioInv, Settled, Live, TypeOK
  <2>2. blockno[c] # k
    <3> SUFFICES ASSUME blockno[c] = k PROVE FALSE
      BY Zenon
    <3>1. Precedes(list[HASH(k)], b, c) \/ Precedes(list[HASH(k)], c, b)
      BY <2>1, <1>3, InOrder, Members, Zenon
    <3> QED
      BY <2>1, <3>1, <1>3, Zenon DEF BioInv, OneLive
  <2> QED
    BY <2>1, <2>2, <1>4, Zenon DEF BioInv, Coherent
<1> QED
  BY <1>6, <1>7, <1>8, <1>9, <1>10, Zenon DEF BioInv

(* brelse() gives up one of the counted references. *)
LEMMA DropStep ==
  ASSUME BioInv, NEW p \in Procs, Drop(p) PROVE BioInv'
<1>0. PICK b : b = mine[p]
  BY Zenon
<1>1. /\ pc[p] = "drop" /\ refcnt' = [refcnt EXCEPT ![b] = @ - 1]
      /\ mine' = [mine EXCEPT ![p] = None] /\ want' = [want EXCEPT ![p] = 0]
      /\ pc' = [pc EXCEPT ![p] = "idle"]
      /\ UNCHANGED <<list, hand, blockno, valid, data, owner, disk, scan, sweep, raced, stale>>
  BY <1>0, Zenon DEF Drop, lists
<1>2. Using(p) /\ Types /\ TypeOK /\ 0 \in Blocks
  BY <1>1, BioAssumption, Zenon DEF Using, BioInv, Types
<1>3. b \in Bufs /\ Live(b) /\ refcnt[b] \in Nat \ {0}
  BY <1>0, <1>2, InUse, Zenon
<1>4. refcnt[b] - 1 \in Nat
  BY <1>3
<1>5. /\ pc' \in [Procs -> {"idle", "scan", "insert", "lock", "read", "use", "drop", "panic"}]
      /\ pc'[p] = "idle" /\ want' \in [Procs -> Blocks] /\ mine' \in [Procs -> Bufs \cup {None}]
      /\ \A q \in Procs : q # p => pc'[q] = pc[q] /\ want'[q] = want[q] /\ mine'[q] = mine[q]
  BY <1>1, <1>2, Zenon DEF Types, TypeOK
<1>6. /\ refcnt' \in [Bufs -> Nat] /\ refcnt'[b] = refcnt[b] - 1
      /\ \A c \in Bufs : c # b => refcnt'[c] = refcnt[c]
  BY <1>1, <1>2, <1>3, <1>4, Zenon DEF TypeOK
<1>7. /\ ~Using(p)' /\ pc[p] # "insert" /\ pc'[p] # "insert"
      /\ \A q \in Procs : q # p => (Using(q)' <=> Using(q))
  BY <1>1, <1>5, Zenon DEF Using
<1>8. Types'
  <2>1. TypeOK'
    BY <1>1, <1>2, <1>5, <1>6, Zenon DEF TypeOK
  <2>2. \A q \in Procs : Using(q)' \/ pc'[q] = "insert" => mine'[q] \in Bufs
    BY <1>2, <1>5, <1>7, Zenon DEF Types
  <2> QED
    BY <1>1, <1>2, <1>5, <2>1, <2>2, Zenon DEF Types
<1>9. Placed'
  BY <1>1, <1>5, <1>7, PlacedKept, Zenon
<1>10. UseIsStable'
  <2>1. \A c \in Bufs : c # b => Users(c)' = Users(c)
    BY <1>0, <1>5, <1>7, Zenon DEF Users
  <2>2. Users(b)' = Users(b) \ {p} /\ p \in Users(b)
    BY <1>0, <1>2, <1>5, <1>7, Zenon DEF Users
  <2>3. Cardinality(Users(b)') = Cardinality(Users(b)) - 1
    BY <2>2, UsersFinite, FS_RemoveElement, Zenon
  <2>4. \A c \in Bufs : refcnt'[c] = Cardinality(Users(c)')
    BY <1>6, <2>1, <2>3, Zenon DEF BioInv, UseIsStable
  <2>5. ASSUME NEW q \in Procs, Using(q)'
        PROVE blockno'[mine'[q]] = want'[q] /\ mine'[q] \in Range(list'[HASH(want'[q])])
    <3>1. Using(q) /\ mine'[q] = mine[q] /\ want'[q] = want[q]
      BY <2>5, <1>5, <1>7, Zenon
    <3> QED
      BY <3>1, <1>1, Zenon DEF BioInv, UseIsStable
  <2> QED
    BY <2>4, <2>5, Zenon DEF UseIsStable, HASH
<1>11. Settled' /\ OneLive'
  <2>1. \A c \in Bufs : Live(c)' => Live(c)
    BY <1>1, <1>3, <1>6, Zenon DEF Live
  <2> QED
    BY <2>1, <1>1, LiveKept, Zenon
<1>12. HandInList'
  BY <1>1, Zenon DEF BioInv, HandInList
<1>13. Coherent'
  BY <1>1, Zenon DEF BioInv, Coherent
<1> QED
  BY <1>8, <1>9, <1>10, <1>11, <1>12, <1>13, Zenon DEF BioInv

(* What no process does leaves lists, references and blocks alone. *)
LEMMA OutsideStep ==
  ASSUME BioInv, UNCHANGED <<list, hand, blockno, refcnt, owner, procs, raced>>,
         valid' \in [Bufs -> BOOLEAN], \A b \in Bufs : valid'[b] => valid[b],
         data' = [b \in Bufs |-> data'[b]], disk' = [k \in Blocks |-> disk'[k]],
         sweep' \in 0 .. NBUCKET, Coherent'
  PROVE BioInv'
<1>1. Types /\ TypeOK /\ UNCHANGED <<pc, want, scan, mine>>
  BY Zenon DEF BioInv, Types, procs
<1>2. \A q \in Procs : Using(q)' <=> Using(q)
  BY <1>1, Zenon DEF Using
<1>3. Types'
  <2>1. TypeOK'
    BY <1>1, Zenon DEF TypeOK
  <2>2. \A q \in Procs : Using(q)' \/ pc'[q] = "insert" => mine'[q] \in Bufs
    BY <1>1, <1>2, Zenon DEF Types
  <2> QED
    BY <1>1, <2>1, <2>2, Zenon DEF Types
<1>4. Placed' /\ UseIsStable'
  BY <1>1, <1>2, PlacedKept, UsersKept, Zenon
<1>5. Settled' /\ OneLive'
  <2>1. \A b \in Bufs : Live(b)' => Live(b)
    BY Zenon DEF Live
  <2> QED
    BY <2>1, LiveKept, Zenon
<1>6. HandInList'
  BY Zenon DEF BioInv, HandInList
<1> QED
  BY <1>3, <1>4, <1>5, <1>6, Zenon DEF BioInv

(* A raw write makes its block stale. *)
LEMMA RawWriteStep ==
  ASSUME BioInv, NEW k \in Blocks, NEW v \in Vals, RawWrite(k, v) PROVE BioInv'
<1>1. /\ disk' = [disk EXCEPT ![k] = v] /\ stale' = stale \cup {k}
      /\ UNCHANGED <<list, hand, blockno, valid, refcnt, data, owner, procs, sweep, raced>>
  BY Zenon DEF RawWrite, lists, bufs
<1>2. Types /\ TypeOK
  BY Zenon DEF BioInv, Types
<1>3. disk' = [h \in Blocks |-> disk'[h]] /\ \A h \in Blocks : h # k => disk'[h] = disk[h]
  BY <1>1, <1>2 DEF Types
<1>4. Coherent'
  <2> SUFFICES ASSUME NEW i \in Buckets, NEW c \in Range(list[i]), valid[c]
               PROVE data[c] = disk'[blockno[c]] \/ blockno[c] \in raced \cup stale'
    BY <1>1, Zenon DEF Coherent
  <2>1. blockno[c] \in Blocks
    BY <1>2, Members, Zenon DEF TypeOK
  <2> QED
    BY <2>1, <1>1, <1>3, Zenon DEF BioInv, Coherent
<1>5. valid' \in [Bufs -> BOOLEAN] /\ data' = [b \in Bufs |-> data'[b]] /\ sweep' \in 0 .. NBUCKET
  BY <1>1, <1>2, Zenon DEF Types, TypeOK
<1> QED
  BY <1>1, <1>3, <1>4, <1>5, OutsideStep, Zenon

(* binvalidate() begins with the first bucket. *)
LEMMA InvalidateStartStep ==
  ASSUME BioInv, InvalidateStart PROVE BioInv'
<1>1. /\ sweep' = 0
      /\ UNCHANGED <<list, hand, blockno, valid, refcnt, data, owner, disk, procs, raced, stale>>
  BY Zenon DEF InvalidateStart, lists, bufs
<1>2. sweep' \in 0 .. NBUCKET
  BY <1>1, BioAssumption
<1>3. /\ valid' \in [Bufs -> BOOLEAN] /\ data' = [b \in Bufs |-> data'[b]]
      /\ disk' = [k \in Blocks |-> disk'[k]]
  BY <1>1, Zenon DEF BioInv, Types
<1>4. Coherent'
  BY <1>1, Zenon DEF BioInv, Coherent
<1> QED
  BY <1>1, <1>2, <1>3, <1>4, OutsideStep, Zenon

(* A block is stale no more when the sweep of its bucket leaves no buffer  *)
(* of it in use: the valid ones of the block were all in that bucket.      *)
LEMMA InvalidateStep ==
  ASSUME BioInv, Invalidate PROVE BioInv'
<1>0. PICK s, U : s = sweep /\ U = {b \in Range(list[sweep]) : refcnt[b] = 0}
  BY Zenon
<1>1. /\ s < NBUCKET /\ valid' = [b \in Bufs |-> valid[b] /\ b \notin U]
      /\ data' = [b \in Bufs |-> IF b \in U THEN 0 ELSE data[b]]
      /\ stale' = {k \in stale : HASH(k) = s => \E b \in Bufs : blockno[b] = k /\ refcnt[b] > 0}
      /\ sweep' = s + 1
      /\ UNCHANGED <<list, hand, blockno, refcnt, owner, disk, procs, raced>>
  BY <1>0, Zenon DEF Invalidate, lists
<1>2. Types /\ TypeOK
  BY Zenon DEF BioInv, Types
<1>3. sweep' \in 0 .. NBUCKET
  <2>1. s \in 0 .. NBUCKET
    BY <1>0, <1>2, Zenon DEF TypeOK
  <2> QED
    BY <2>1, <1>1, BioAssumption
<1>4. /\ valid' \in [Bufs -> BOOLEAN] /\ disk' = [k \in Blocks |-> disk'[k]]
      /\ data' = [b \in Bufs |-> data'[b]]
      /\ \A b \in Bufs : valid'[b] => valid[b] /\ b \notin U /\ data'[b] = data[b]
  <2>1. valid' \in [Bufs -> BOOLEAN] /\ \A b \in Bufs : valid'[b] => valid[b] /\ b \notin U
    BY <1>1, Zenon
  <2>2. /\ data' = [b \in Bufs |-> data'[b]]
        /\ \A b \in Bufs : b \notin U => data'[b] = data[b]
    BY <1>1, Zenon
  <2>3. disk' = [k \in Blocks |-> disk'[k]]
    BY <1>1, <1>2, Zenon DEF Types
  <2> QED
    BY <2>1, <2>2, <2>3, Zenon
<1>5. Coherent'
  <2> SUFFICES ASSUME NEW i \in Buckets, NEW c \in Range(list[i]), valid'[c]
               PROVE data'[c] = disk[blockno[c]] \/ blockno[c] \in raced \cup stale'
    BY <1>1, Zenon DEF Coherent
  <2>1. c \in Bufs
    BY Members, Zenon
  <2>2. valid[c] /\ c \notin U /\ data'[c] = data[c]
    BY <2>1, <1>4, Zenon
  <2>3. data[c] = disk[blockno[c]] \/ blockno[c] \in raced \cup stale
    BY <2>2, Zenon DEF BioInv, Coherent
  <2>4. ASSUME blockno[c] \in stale, HASH(blockno[c]) = s PROVE refcnt[c] > 0
    <3>1. i = s
      BY <2>2, <2>4, Zenon DEF BioInv, Settled, Live
    <3>2. refcnt[c] # 0 /\ refcnt[c] \in Nat
      BY <2>1, <2>2, <3>1, <1>0, <1>2, Zenon DEF TypeOK
    <3> QED
      BY <3>2
  <2>5. blockno[c] \in stale => blockno[c] \in stale'
    BY <2>1, <2>4, <1>1, Zenon
  <2> QED
    BY <2>2, <2>3, <2>5, Zenon
<1> QED
  BY <1>1, <1>3, <1>4, <1>5, OutsideStep, Zenon
-----------------------------------------------------------------------------
(* Every step of bget(), bread(), bwrite(), brelse() and binvalidate()     *)
(* keeps the invariant.                                                    *)
LEMMA BioStep == BioInv /\ [Next]_vars => BioInv'
<1> SUFFICES ASSUME BioInv, [Next]_vars PROVE BioInv'
  BY Zenon
<1>1. CASE UNCHANGED vars
  <2>1. UNCHANGED <<list, hand, blockno, valid, refcnt, data, owner, disk, procs, sweep, raced,
                    stale>>
    BY <1>1, Zenon DEF vars, lists, bufs
  <2>2. /\ valid' \in [Bufs -> BOOLEAN] /\ data' = [b \in Bufs |-> data'[b]]
        /\ disk' = [k \in Blocks |-> disk'[k]] /\ sweep' \in 0 .. NBUCKET
    BY <2>1, Zenon DEF BioInv, Types, TypeOK
  <2>3. Coherent'
    BY <2>1, Zenon DEF BioInv, Coherent
  <2> QED
    BY <2>1, <2>2, <2>3, OutsideStep, Zenon
<1>2. CASE Next
  BY <1>2, HitStep, MissStep, ScanStep, ScanOnStep, InsertStep, LockStep, ReadStep, WriteStep,
     DropStep, RawWriteStep, InvalidateStartStep, InvalidateStep, ZenonT(40) DEF Next
<1> QED
  BY <1>1, <1>2, Zenon

(* A set with one element has cardinality 1. *)
LEMMA OneElement ==
  ASSUME NEW S, NEW x \in S, \A y \in S : y = x PROVE Cardinality(S) = 1
<1>1. S = {x}
  BY Zenon
<1> QED
  BY <1>1, FS_Singleton, Zenon

(* The invariant says what the cache promises. *)
LEMMA BioInvSound == BioInv => BuffersSound
<1> SUFFICES ASSUME BioInv PROVE BuffersSound
  BY Zenon
<1>1. EachBufferOnce
  <2> SUFFICES ASSUME NEW b \in Bufs
               PROVE \/ Cardinality(Homes(b)) = 1 /\ Takers(b) = {}
                     \/ Homes(b) = {} /\ Cardinality(Takers(b)) = 1
    BY Zenon DEF BioInv, Placed, EachBufferOnce
  <2>1. ASSUME NEW i \in Buckets, b \in Range(list[i])
        PROVE Cardinality(Homes(b)) = 1 /\ Takers(b) = {}
    <3>1. i \in Homes(b) /\ \A j \in Homes(b) : j = i
      BY <2>1, Zenon DEF Homes, BioInv, Placed
    <3>2. \A p \in Procs : pc[p] = "insert" => mine[p] # b
      BY <2>1, ZenonT(40) DEF BioInv, Placed
    <3>3. Takers(b) = {}
      BY <3>2, Zenon DEF Takers
    <3> QED
      BY <3>1, <3>3, OneElement, Zenon
  <2>2. ASSUME NEW p \in Procs, pc[p] = "insert", mine[p] = b
        PROVE Homes(b) = {} /\ Cardinality(Takers(b)) = 1
    <3>1. p \in Takers(b) /\ \A q \in Takers(b) : q = p
      BY <2>2, Zenon DEF Takers, BioInv, Placed
    <3>2. Homes(b) = {}
      BY <2>2, Zenon DEF Homes, BioInv, Placed
    <3> QED
      BY <3>1, <3>2, OneElement, Zenon
  <2> QED
    BY <2>1, <2>2, Zenon DEF BioInv, Placed
<1>2. CoherentUnlessRaced
  <2> SUFFICES ASSUME NEW b \in Bufs, valid[b], \A p \in Procs : pc[p] = "insert" => mine[p] # b
               PROVE data[b] = disk[blockno[b]] \/ blockno[b] \in raced \cup stale
    BY Zenon DEF CoherentUnlessRaced
  <2>1. PICK i \in Buckets : b \in Range(list[i])
    BY Zenon DEF BioInv, Placed
  <2> QED
    BY <2>1, Zenon DEF BioInv, Coherent
<1> QED
  BY <1>1, <1>2, Zenon DEF BioInv, Types, BuffersSound

(* For any number of processes, buffers, buckets and blocks: bget() never  *)
(* loses or doubles a buffer, a CLOCK hand stays in its bucket, no buffer  *)
(* is recycled while bread()'s callers use it, and a buffer they read      *)
(* agrees with the disk unless its block was cached twice or written       *)
(* around the cache.                                                       *)
THEOREM BuffersKept == Spec => []BuffersSound
<1>1. Init => BioInv
  BY InitBio
<1>2. BioInv /\ [Next]_vars => BioInv'
  BY BioStep
<1>3. BioInv => BuffersSound
  BY BioInvSound
<1> QED
  BY <1>1, <1>2, <1>3, PTL DEF Spec
=============================================================================
