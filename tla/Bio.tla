--------------------------------- MODULE Bio ---------------------------------
(***************************************************************************)
(* The buffer cache (kernel/fs/bio.c): hash buckets of buffers, a CLOCK    *)
(* hand per bucket, and bget()'s search for a victim, which holds one      *)
(* bucket lock at a time.  Each step is a critical section of one bucket   *)
(* lock, a change of a buffer's sleeping lock, or a use of the buffer.     *)
(* There is one device.  Raw writes to the SD card go around the cache.    *)
(***************************************************************************)
EXTENDS Integers, FiniteSets, Sequences, Functions

CONSTANTS Procs, NBUF, NBUCKET, Blocks, Vals,
          MaxStale          \* bound on blocks written around the cache at once

None == 0                              \* no buffer; as a hand, the list head
Bufs == 1 .. NBUF
Buckets == 0 .. NBUCKET - 1

ASSUME BioAssumption ==
  /\ NBUF \in Nat \ {0} /\ NBUCKET \in Nat \ {0}
  /\ IsFiniteSet(Procs) /\ None \notin Procs
  /\ Blocks \subseteq Nat /\ 0 \in Blocks

VARIABLES
  list, hand,              \* bucket -> buffers from head.next on; CLOCK hand
  blockno, valid, refcnt, referenced, data,   \* struct buf
  owner,                   \* holder of b->lock
  disk,
  pc, want, scan, mine,    \* process: where it is in bget() and with what
  sweep,                   \* the bucket that binvalidate() looks at next
  raced,                   \* history: blocks that were inserted twice
  stale                    \* history: written around the cache since a sweep

bufs == <<blockno, valid, refcnt, referenced, data>>
lists == <<list, hand>>
procs == <<pc, want, scan, mine>>
vars == <<lists, bufs, owner, disk, procs, sweep, raced, stale>>

HASH(b) == b % NBUCKET

(* binit(): round-robin, each buffer inserted at the head of its bucket. *)
Lists == UNION {[1 .. n -> Bufs] : n \in 0 .. NBUF}
Init ==
  /\ list \in [Buckets -> Lists]
  /\ \A i \in Buckets :
       /\ Range(list[i]) = {b \in Bufs : (b - 1) % NBUCKET = i}
       /\ \A m, n \in DOMAIN list[i] : m < n => list[i][m] > list[i][n]
  /\ hand = [i \in Buckets |-> None]
  /\ blockno = [b \in Bufs |-> 0] /\ valid = [b \in Bufs |-> FALSE]
  /\ refcnt = [b \in Bufs |-> 0] /\ referenced = [b \in Bufs |-> FALSE]
  /\ data = [b \in Bufs |-> 0]
  /\ owner = [b \in Bufs |-> None]
  /\ disk = [k \in Blocks |-> 0]
  /\ pc = [p \in Procs |-> "idle"] /\ want = [p \in Procs |-> 0]
  /\ scan = [p \in Procs |-> 0] /\ mine = [p \in Procs |-> None]
  /\ sweep = NBUCKET /\ raced = {} /\ stale = {}

Hits(i, k) == {n \in DOMAIN list[i] : blockno[list[i][n]] = k}
Least(ns) == CHOOSE n \in ns : \A m \in ns : n <= m
-----------------------------------------------------------------------------
(* bget(), the block is cached. *)
Hit(p, k) ==
  LET i == HASH(k)
      b == list[i][Least(Hits(i, k))]
  IN /\ pc[p] = "idle" /\ Hits(i, k) # {}
     /\ refcnt' = [refcnt EXCEPT ![b] = @ + 1]
     /\ referenced' = [referenced EXCEPT ![b] = TRUE]
     /\ want' = [want EXCEPT ![p] = k] /\ mine' = [mine EXCEPT ![p] = b]
     /\ pc' = [pc EXCEPT ![p] = "lock"]
     /\ UNCHANGED <<lists, blockno, valid, data, owner, disk, scan, sweep, raced,
                    stale>>

(* bget(), the block is not cached: the bucket lock is dropped. *)
Miss(p, k) ==
  /\ pc[p] = "idle" /\ Hits(HASH(k), k) = {}
  /\ want' = [want EXCEPT ![p] = k]
  /\ scan' = [scan EXCEPT ![p] = 0]
  /\ pc' = [pc EXCEPT ![p] = "scan"]
  /\ UNCHANGED <<lists, bufs, owner, disk, mine, sweep, raced, stale>>

(* The buffers of bucket i in the order in which the hand meets them. *)
Position(l, b) == CHOOSE n \in DOMAIN l : l[n] = b
FromHand(i) ==
  LET l == list[i]
      at == IF hand[i] = None THEN 0 ELSE Position(l, hand[i]) - 1
  IN [m \in DOMAIN l |-> IF at + m <= Len(l) THEN l[at + m] ELSE l[at + m - Len(l)]]

(* b->next, and the list without b *)
After(l, b) == IF Position(l, b) = Len(l) THEN None ELSE l[Position(l, b) + 1]
Unlink(l, b) ==
  [m \in 1 .. Len(l) - 1 |-> IF m < Position(l, b) THEN l[m] ELSE l[m + 1]]

(* clock_victim(): the first pass takes an unused buffer whose reference   *)
(* bit is clear and clears the bits it meets; the second takes the first   *)
(* unused buffer.  NBUF bounds the length of a list, so that the loop's    *)
(* 2 * NBUF steps are two passes at least.                                 *)
Free(l) == {n \in DOMAIN l : refcnt[l[n]] = 0}
Cold(l) == {n \in Free(l) : ~referenced[l[n]]}

(* Mutant: the hand stays on the buffer that is taken. *)
Scan_HandStays(p) ==
  LET i == (HASH(want[p]) + scan[p]) % NBUCKET
      l == FromHand(i)
      b == l[Least(IF Cold(l) # {} THEN Cold(l) ELSE Free(l))]
  IN /\ pc[p] = "scan" /\ scan[p] < NBUCKET /\ Free(l) # {}
     /\ referenced' = [c \in Bufs |->
          referenced[c] /\ ~(\E n \in Free(l) : l[n] = c /\
                              (Cold(l) # {} => n < Least(Cold(l))))]
     /\ hand' = [hand EXCEPT ![i] = b]
     /\ list' = [list EXCEPT ![i] = Unlink(@, b)]
     /\ mine' = [mine EXCEPT ![p] = b] /\ scan' = [scan EXCEPT ![p] = 0]
     /\ pc' = [pc EXCEPT ![p] = "insert"]
     /\ UNCHANGED <<blockno, valid, refcnt, data, owner, disk, want, sweep,
                    raced, stale>>

(* A bucket yields a victim, which is taken off its list. *)
Scan(p) ==
  LET i == (HASH(want[p]) + scan[p]) % NBUCKET
      l == FromHand(i)
      b == l[Least(IF Cold(l) # {} THEN Cold(l) ELSE Free(l))]
  IN /\ pc[p] = "scan" /\ scan[p] < NBUCKET /\ Free(l) # {}
     /\ referenced' = [c \in Bufs |->
          referenced[c] /\ ~(\E n \in Free(l) : l[n] = c /\
                              (Cold(l) # {} => n < Least(Cold(l))))]
     /\ hand' = [hand EXCEPT ![i] = After(list[i], b)]
     /\ list' = [list EXCEPT ![i] = Unlink(@, b)]
     /\ mine' = [mine EXCEPT ![p] = b] /\ scan' = [scan EXCEPT ![p] = 0]
     /\ pc' = [pc EXCEPT ![p] = "insert"]
     /\ UNCHANGED <<blockno, valid, refcnt, data, owner, disk, want, sweep,
                    raced, stale>>

(* A bucket yields none: after 2 * NBUF steps the hand moves to the next   *)
(* bucket.  With all of them scanned bget() panics.                        *)
ScanOn(p) ==
  LET i == (HASH(want[p]) + scan[p]) % NBUCKET
      l == FromHand(i)
  IN /\ pc[p] = "scan" /\ scan[p] < NBUCKET /\ Free(l) = {}
     /\ hand' = [hand EXCEPT ![i] =
          IF l = <<>> THEN None
          ELSE After(list[i], l[((2 * NBUF - 1) % Len(l)) + 1])]
     /\ scan' = [scan EXCEPT ![p] = @ + 1]
     /\ pc' = [pc EXCEPT ![p] = IF scan[p] + 1 = NBUCKET THEN "panic" ELSE "scan"]
     /\ UNCHANGED <<list, bufs, owner, disk, want, mine, sweep, raced, stale>>

(* Mutant: the recycled buffer keeps its valid bit. *)
Insert_KeepsValid(p) ==
  LET b == mine[p]
      k == want[p]
  IN /\ pc[p] = "insert"
     /\ list' = [list EXCEPT ![HASH(k)] = <<b>> \o @]
     /\ blockno' = [blockno EXCEPT ![b] = k]
     /\ refcnt' = [refcnt EXCEPT ![b] = 1]
     /\ referenced' = [referenced EXCEPT ![b] = TRUE]
     /\ raced' = IF Hits(HASH(k), k) # {} THEN raced \cup {k} ELSE raced
     /\ pc' = [pc EXCEPT ![p] = "lock"]
     /\ UNCHANGED <<hand, valid, data, owner, disk, want, scan, mine, sweep, stale>>

(* bget() inserts the victim for its block, without looking whether        *)
(* another process has inserted one in the meantime.  What a buffer that   *)
(* is not valid holds is forgotten: bread() fills it before it is used.    *)
Insert(p) ==
  LET b == mine[p]
      k == want[p]
  IN /\ pc[p] = "insert"
     /\ list' = [list EXCEPT ![HASH(k)] = <<b>> \o @]
     /\ blockno' = [blockno EXCEPT ![b] = k]
     /\ valid' = [valid EXCEPT ![b] = FALSE] /\ data' = [data EXCEPT ![b] = 0]
     /\ refcnt' = [refcnt EXCEPT ![b] = 1]
     /\ referenced' = [referenced EXCEPT ![b] = TRUE]
     /\ raced' = IF Hits(HASH(k), k) # {} THEN raced \cup {k} ELSE raced
     /\ pc' = [pc EXCEPT ![p] = "lock"]
     /\ UNCHANGED <<hand, owner, disk, want, scan, mine, sweep, stale>>

(* acquiresleep(&b->lock) *)
Lock(p) ==
  /\ pc[p] = "lock" /\ owner[mine[p]] = None
  /\ owner' = [owner EXCEPT ![mine[p]] = p]
  /\ pc' = [pc EXCEPT ![p] = "read"]
  /\ UNCHANGED <<lists, bufs, disk, want, scan, mine, sweep, raced, stale>>

(* bread() fills a buffer that is not valid. *)
Read(p) ==
  LET b == mine[p]
  IN /\ pc[p] = "read"
     /\ data' = [data EXCEPT ![b] = IF valid[b] THEN @ ELSE disk[blockno[b]]]
     /\ valid' = [valid EXCEPT ![b] = TRUE]
     /\ pc' = [pc EXCEPT ![p] = "use"]
     /\ UNCHANGED <<lists, blockno, refcnt, referenced, owner, disk, want, scan,
                    mine, sweep, raced, stale>>

(* The caller changes the buffer and calls bwrite(). *)
Write(p, v) ==
  LET b == mine[p]
  IN /\ pc[p] = "use" /\ data[b] # v
     /\ data' = [data EXCEPT ![b] = v]
     /\ disk' = [disk EXCEPT ![blockno[b]] = v]
     /\ UNCHANGED <<lists, blockno, valid, refcnt, referenced, owner, procs,
                    sweep, raced, stale>>

(* brelse(): releasesleep() first, ... *)
Unlock(p) ==
  /\ pc[p] = "use"
  /\ owner' = [owner EXCEPT ![mine[p]] = None]
  /\ pc' = [pc EXCEPT ![p] = "drop"]
  /\ UNCHANGED <<lists, bufs, disk, want, scan, mine, sweep, raced, stale>>

(* ... then the reference is given up. *)
Drop(p) ==
  /\ pc[p] = "drop"
  /\ refcnt' = [refcnt EXCEPT ![mine[p]] = @ - 1]
  /\ referenced' = [referenced EXCEPT ![mine[p]] = TRUE]
  /\ mine' = [mine EXCEPT ![p] = None] /\ want' = [want EXCEPT ![p] = 0]
  /\ pc' = [pc EXCEPT ![p] = "idle"]
  /\ UNCHANGED <<lists, blockno, valid, data, owner, disk, scan, sweep,
                 raced, stale>>

(* A raw write to the card. *)
RawWrite(k, v) ==
  /\ sweep = NBUCKET /\ disk[k] # v
  /\ disk' = [disk EXCEPT ![k] = v]
  /\ stale' = stale \cup {k} /\ Cardinality(stale') <= MaxStale
  /\ UNCHANGED <<lists, bufs, owner, procs, sweep, raced>>

(* binvalidate(): one bucket after the other; buffers in use are left. *)
InvalidateStart ==
  /\ sweep = NBUCKET /\ stale # {}
  /\ sweep' = 0
  /\ UNCHANGED <<lists, bufs, owner, disk, procs, raced, stale>>

Invalidate ==
  LET unused == {b \in Range(list[sweep]) : refcnt[b] = 0}
  IN /\ sweep < NBUCKET
     /\ valid' = [b \in Bufs |-> valid[b] /\ b \notin unused]
     /\ data' = [b \in Bufs |-> IF b \in unused THEN 0 ELSE data[b]]
     /\ stale' = {k \in stale : HASH(k) = sweep =>
                                \E b \in Bufs : blockno[b] = k /\ refcnt[b] > 0}
     /\ sweep' = sweep + 1
     /\ UNCHANGED <<lists, blockno, refcnt, referenced, owner, disk, procs, raced>>

(* Nothing runs after a panic. *)
Next ==
  /\ \A p \in Procs : pc[p] # "panic"
  /\ \/ \E p \in Procs :
          \/ \E k \in Blocks : Hit(p, k) \/ Miss(p, k)
          \/ Scan(p) \/ ScanOn(p) \/ Insert(p) \/ Lock(p) \/ Read(p)
          \/ \E v \in Vals : Write(p, v)
          \/ Unlock(p) \/ Drop(p)
     \/ \E k \in Blocks, v \in Vals : RawWrite(k, v)
     \/ InvalidateStart \/ Invalidate

Spec == Init /\ [][Next]_vars
-----------------------------------------------------------------------------
Using(p) == pc[p] \in {"lock", "read", "use", "drop"}

(* Types: buffers, lists and the process's place in bget(); sweep ends     *)
(* behind the last bucket.                                                 *)
TypeOK ==
  /\ list \in [Buckets -> Seq(Bufs)] /\ hand \in [Buckets -> Bufs \cup {None}]
  /\ blockno \in [Bufs -> Blocks] /\ refcnt \in [Bufs -> Nat]
  /\ owner \in [Bufs -> Procs \cup {None}]
  /\ mine \in [Procs -> Bufs \cup {None}]
  /\ scan \in [Procs -> 0 .. NBUCKET] /\ sweep \in 0 .. NBUCKET

(* Every buffer is in exactly one bucket, once, or with the one process    *)
(* that has taken it off its list and not yet inserted it: bget() loses    *)
(* and doubles none, though it changes buckets without a common lock.      *)
Homes(b) == {i \in Buckets : b \in Range(list[i])}
Takers(b) == {p \in Procs : pc[p] = "insert" /\ mine[p] = b}
EachBufferOnce ==
  /\ \A i \in Buckets : IsInjective(list[i])
  /\ \A b \in Bufs : \/ Cardinality(Homes(b)) = 1 /\ Takers(b) = {}
                     \/ Homes(b) = {} /\ Cardinality(Takers(b)) = 1

(* A CLOCK hand points into its own bucket, although other processes take  *)
(* buffers out of the bucket between its moves.                            *)
HandInList ==
  \A i \in Buckets : hand[i] # None => hand[i] \in Range(list[i])

(* A buffer that a process waits for or uses is counted, is in the bucket  *)
(* of the block it asked for and still caches that block: no buffer is     *)
(* recycled under its user, not even between releasesleep() and the        *)
(* decrement in brelse().                                                  *)
Users(b) == {p \in Procs : Using(p) /\ mine[p] = b}
UseIsStable ==
  /\ \A b \in Bufs : refcnt[b] = Cardinality(Users(b))
  /\ \A p \in Procs : Using(p) =>
       /\ blockno[mine[p]] = want[p]
       /\ mine[p] \in Range(list[HASH(want[p])])

(* A valid buffer holds what is on the disk, unless its block was cached   *)
(* twice or written around the cache since the last binvalidate().         *)
CoherentUnlessRaced ==
  \A b \in Bufs : valid[b] /\ (\A p \in Procs : pc[p] = "insert" => mine[p] # b) =>
    \/ data[b] = disk[blockno[b]]
    \/ blockno[b] \in raced \cup stale

(* What bget(), bread(), bwrite(), brelse() and binvalidate() promise,     *)
(* between any two critical sections.                                      *)
BuffersSound ==
  TypeOK /\ EachBufferOnce /\ HandInList /\ UseIsStable /\ CoherentUnlessRaced

(* Documented: the cache is "a synchronization point for disk blocks used  *)
(* by multiple processes", and "only one process at a time can use a       *)
(* buffer".                                                                *)
BlockExclusive ==
  \A p, q \in Procs :
    pc[p] = "use" /\ pc[q] = "use" /\ p # q => want[p] # want[q]
=============================================================================
