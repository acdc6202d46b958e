------------------------------- MODULE Virtio -------------------------------
(***************************************************************************)
(* The virtio disk driver (driver/virtio_disk.c).  A request takes three   *)
(* descriptors, linked in a chain; the device answers requests in any      *)
(* order; the interrupt handler wakes their processes, which free the      *)
(* chains.  A step of a process is a section of vdisk_lock.  At most       *)
(* NUM / 3 requests are under way, so the two rings of the device cannot   *)
(* overflow: they are a set and a sequence here.                           *)
(***************************************************************************)
EXTENDS Integers, Sequences, FiniteSets

CONSTANTS Procs,     \* each with a buffer of its own
          NUM, None

VARIABLES
  pc,
  free, next, head,    \* descriptors: free ones, chains; a request's first
  info,                \* disk.info[].b: whose buffer
  busy,                \* b->disk
  avail, used, irq,    \* what the device has to do, has done; its interrupt
  handler              \* the interrupt handler is between its two steps

vars == <<pc, free, next, head, info, busy, avail, used, irq, handler>>
LockFree == ~handler     \* vdisk_lock
Desc == 0 .. NUM - 1

Init ==
  /\ pc = [p \in Procs |-> "idle"] /\ free = Desc
  /\ next = [d \in Desc |-> None] /\ head = [p \in Procs |-> None]
  /\ info = [d \in Desc |-> None] /\ busy = [p \in Procs |-> FALSE]
  /\ avail = {} /\ used = <<>> /\ irq = FALSE /\ handler = FALSE

(* Processes asleep on &disk.free[0] are woken, p goes on to l. *)
WakeFree(p, l) ==
  pc' = [q \in Procs |-> IF q = p THEN l
                         ELSE IF pc[q] = "nodesc" THEN "retry" ELSE pc[q]]

(* alloc_desc() takes the first free descriptor. *)
First(s) == CHOOSE d \in s : \A e \in s : d <= e

(* virtio_disk_rw() finds three descriptors, and hands its request over. *)
Submit(p) ==
  /\ pc[p] \in {"idle", "retry"} /\ LockFree /\ Cardinality(free) >= 3
  /\ LET d0 == First(free)
         d1 == First(free \ {d0})
         d2 == First(free \ {d0, d1})
     IN /\ free' = free \ {d0, d1, d2}
        /\ next' = [next EXCEPT ![d0] = d1, ![d1] = d2, ![d2] = None]
        /\ head' = [head EXCEPT ![p] = d0] /\ info' = [info EXCEPT ![d0] = p]
        /\ avail' = avail \cup {d0}
  /\ busy' = [busy EXCEPT ![p] = TRUE] /\ pc' = [pc EXCEPT ![p] = "io"]
  /\ UNCHANGED <<used, irq, handler>>

(* It does not: what it got it gives back, which wakes the others that     *)
(* wait, and it sleeps.                                                    *)
NoDesc(p) ==
  /\ pc[p] \in {"idle", "retry"} /\ LockFree /\ Cardinality(free) < 3
  /\ IF free = {} THEN pc' = [pc EXCEPT ![p] = "nodesc"] ELSE WakeFree(p, "nodesc")
  /\ UNCHANGED <<free, next, head, info, busy, avail, used, irq, handler>>

(* The device finishes a request. *)
Device ==
  /\ \E d \in avail : avail' = avail \ {d} /\ used' = Append(used, d)
  /\ irq' = TRUE /\ UNCHANGED <<pc, free, next, head, info, busy, handler>>

Finished == {info[used[k]] : k \in DOMAIN used}

(* virtio_disk_intr() acknowledges the interrupt, with the lock held ... *)
IntrAck ==
  /\ irq /\ LockFree /\ irq' = FALSE /\ handler' = TRUE
  /\ UNCHANGED <<pc, free, next, head, info, busy, avail, used>>

(* ... and takes all that is in the used ring, also what came after the    *)
(* acknowledgement and will be reported again.                             *)
IntrTake ==
  /\ handler /\ handler' = FALSE /\ used' = <<>>
  /\ busy' = [p \in Procs |-> busy[p] /\ p \notin Finished]
  /\ pc' = [p \in Procs |-> IF pc[p] = "io" /\ p \in Finished THEN "done" ELSE pc[p]]
  /\ UNCHANGED <<free, next, head, info, avail, irq>>

(* free_chain(): the descriptors from d on. *)
Chain(d) == {d, next[d]} \cup (IF next[d] = None THEN {} ELSE {next[next[d]]})

(* The process wakes, frees the chain and returns. *)
Return(p) ==
  /\ pc[p] = "done" /\ LockFree /\ ~busy[p]
  /\ info' = [info EXCEPT ![head[p]] = None]
  /\ free' = free \cup (Chain(head[p]) \ {None})
  /\ next' = [d \in Desc |-> IF d \in Chain(head[p]) THEN None ELSE next[d]]
  /\ head' = [head EXCEPT ![p] = None]
  /\ WakeFree(p, "idle")
  /\ UNCHANGED <<busy, avail, used, irq, handler>>

Next ==
  \/ \E p \in Procs : Submit(p) \/ NoDesc(p) \/ Return(p)
  \/ Device \/ IntrAck \/ IntrTake

Spec == Init /\ [][Next]_vars

(* A free descriptor and one in a chain are different things, none is      *)
(* lost, nobody waits for three that are free, and nobody waits for a      *)
(* request that the device has finished and no interrupt will report.      *)
RequestsSound ==
  LET chains == [p \in {q \in Procs : head[q] # None} |-> Chain(head[p])] IN
  /\ \A p \in DOMAIN chains : Cardinality(chains[p]) = 3 /\ info[head[p]] = p
  /\ \A p, q \in DOMAIN chains : p # q => chains[p] \cap chains[q] = {}
  /\ free = Desc \ UNION {chains[p] : p \in DOMAIN chains}
  /\ \A p \in Procs : pc[p] = "nodesc" => Cardinality(free) < 3
  /\ \A p \in Procs : pc[p] = "io" =>
       /\ busy[p]
       /\ head[p] \in avail \/ ((irq \/ handler) /\ \E k \in DOMAIN used : used[k] = head[p])
=============================================================================
