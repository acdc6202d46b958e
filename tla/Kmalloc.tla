------------------------------- MODULE Kmalloc ------------------------------
(***************************************************************************)
(* The allocator of small objects (kernel/vm/kmalloc.c): slabs of one page *)
(* in buckets by size.  kmalloc() gives up the bucket's lock while it gets *)
(* a page, and kfree() gives an empty slab's page back after it has        *)
(* released the lock.  The users here map device buffers (kernel/vm/mmap/  *)
(* mmap_kbuf.c): an object for the buffer, and for each of its pages an    *)
(* object and the page, any of which may fail.                             *)
(*                                                                         *)
(* A step is a critical section of a bucket, or a call of the page         *)
(* allocator (module Kalloc).                                              *)
(***************************************************************************)
EXTENDS Integers, Sequences, FiniteSets, SequencesExt, FiniteSetsExt

CONSTANTS Threads, Pages,
          OBJS,              \* objects in a slab
          MaxPages,          \* pages of a buffer
          MaxCalls           \* buffers mapped

Buckets == {"kbuf", "node"}  \* the sizes of struct kbuf and struct kbuf_page
Null == 0                    \* Pages are numbers from 1

VARIABLES
  free,           \* pages of the page allocator
  slabs,          \* bucket->slabs: sequences of pages
  magic,          \* slab->magic and slab->obj_size: the bucket, or "none"
  flist,          \* slab->free_list: sequences of objects, from 1
  pc, want,       \* of each thread: where it is, the bucket it works on
  page,           \* the page of the slab it makes or gives back
  kbuf, pages,    \* its buffer: the object <<page, index>>, and pairs
  left,           \* of object and page; pages still to get
  calls

vars == <<free, slabs, magic, flist, pc, want, page, kbuf, pages, left, calls>>
heap == <<slabs, magic, flist>>

(* kminit() *)
Init ==
  /\ free = Pages
  /\ slabs = [b \in Buckets |-> <<>>]
  /\ magic = [p \in Pages |-> "none"] /\ flist = [p \in Pages |-> <<>>]
  /\ pc = [t \in Threads |-> "idle"] /\ want = [t \in Threads |-> "kbuf"]
  /\ page = [t \in Threads |-> Null]
  /\ kbuf = [t \in Threads |-> <<>>] /\ pages = [t \in Threads |-> <<>>]
  /\ left = [t \in Threads |-> 0] /\ calls = 0

Goto(t, l) == pc' = [pc EXCEPT ![t] = l]
-----------------------------------------------------------------------------
(* kbuf_create() after kmalloc(): with an object, and without one *)

Gets(t, o) ==
  IF want[t] = "kbuf"
  THEN /\ kbuf' = [kbuf EXCEPT ![t] = o] /\ want' = [want EXCEPT ![t] = "node"]
       /\ Goto(t, "find") /\ UNCHANGED pages
  ELSE /\ pages' = [pages EXCEPT ![t] = Append(@, <<o, Null>>)]
       /\ Goto(t, "address") /\ UNCHANGED <<kbuf, want>>
Fails(t) == Goto(t, IF want[t] = "kbuf" THEN "idle" ELSE "destroy")

(* kmalloc(): the first object of a slab's list goes to the caller. *)
Pop(t, p) ==
  /\ flist' = [flist EXCEPT ![p] = Tail(@)]
  /\ Gets(t, <<p, Head(flist[p])>>)

Find(t) ==
  LET b == want[t]
      k == SelectInSeq(slabs[b], LAMBDA p : flist[p] # <<>>)
  IN /\ pc[t] = "find"
     /\ IF k # 0 THEN Pop(t, slabs[b][k])
                 ELSE Goto(t, "page") /\ UNCHANGED <<flist, kbuf, pages, want>>
     /\ UNCHANGED <<free, slabs, magic, page, left, calls>>

(* The page of a new slab, cut into objects, or none *)
NewSlab(t) ==
  /\ pc[t] = "page"
  /\ IF free = {} THEN Fails(t) /\ UNCHANGED <<free, magic, flist, page>>
     ELSE LET p == Min(free)
          IN /\ free' = free \ {p} /\ page' = [page EXCEPT ![t] = p]
             /\ magic' = [magic EXCEPT ![p] = want[t]]
             /\ flist' = [flist EXCEPT ![p] = [k \in 1 .. OBJS |-> OBJS + 1 - k]]
             /\ Goto(t, "insert")
  /\ UNCHANGED <<slabs, want, kbuf, pages, left, calls>>

(* Mutant: the list as it was when the lock was released. *)
Insert_Alone(t) ==
  /\ pc[t] = "insert"
  /\ slabs' = [slabs EXCEPT ![want[t]] = <<page[t]>>]
  /\ page' = [page EXCEPT ![t] = Null]
  /\ Pop(t, page[t])
  /\ UNCHANGED <<free, magic, left, calls>>

Insert(t) ==
  /\ pc[t] = "insert"
  /\ slabs' = [slabs EXCEPT ![want[t]] = <<page[t]>> \o @]
  /\ page' = [page EXCEPT ![t] = Null]
  /\ Pop(t, page[t])
  /\ UNCHANGED <<free, magic, left, calls>>
-----------------------------------------------------------------------------
(* kfree(): its panics, for an object that it would not take *)
KfreeChecked(o) ==
  /\ magic[o[1]] \in Buckets
  /\ Len(flist[o[1]]) < OBJS
  /\ Len(flist[o[1]]) + 1 = OBJS => Contains(slabs[magic[o[1]]], o[1])

(* With the lock, the object goes on its slab's list, and a slab that is   *)
(* free as a whole leaves the bucket.  `then' is where the caller goes on, *)
(* after it has given that page back.                                      *)
Kfree(t, o, then) ==
  LET p == o[1]
      b == magic[p]
  IN /\ flist' = [flist EXCEPT ![p] = <<o[2]>> \o @]
     /\ IF Len(flist[p]) + 1 < OBJS
        THEN Goto(t, then) /\ UNCHANGED <<slabs, magic, page>>
        ELSE /\ slabs' = [slabs EXCEPT ![b] = SelectSeq(@, LAMBDA q : q # p)]
             /\ magic' = [magic EXCEPT ![p] = "none"]
             /\ page' = [page EXCEPT ![t] = p]
             /\ Goto(t, IF then = "idle" THEN "release last" ELSE "release")

ReleasePage(t) ==
  /\ pc[t] \in {"release", "release last"}
  /\ free' = free \cup {page[t]} /\ page' = [page EXCEPT ![t] = Null]
  /\ flist' = [flist EXCEPT ![page[t]] = <<>>]
  /\ Goto(t, IF pc[t] = "release" THEN "destroy" ELSE "idle")
  /\ UNCHANGED <<slabs, magic, want, kbuf, pages, left, calls>>
-----------------------------------------------------------------------------
(* kbuf_create(), for mmap() of a device *)
Create(t, n) ==
  /\ pc[t] = "idle" /\ kbuf[t] = <<>> /\ calls < MaxCalls
  /\ calls' = calls + 1 /\ left' = [left EXCEPT ![t] = n]
  /\ want' = [want EXCEPT ![t] = "kbuf"] /\ Goto(t, "find")
  /\ UNCHANGED <<free, heap, page, kbuf, pages>>

(* page->address: without a page, the object is freed and then the rest. *)
Address(t) ==
  /\ pc[t] = "address"
  /\ IF free = {}
     THEN /\ Kfree(t, Last(pages[t])[1], "destroy")
          /\ pages' = [pages EXCEPT ![t] = Front(@)] /\ UNCHANGED <<free, left>>
     ELSE LET p == Min(free) IN
          /\ free' = free \ {p}
          /\ pages' = [pages EXCEPT ![t][Len(pages[t])][2] = p]
          /\ left' = [left EXCEPT ![t] = @ - 1]
          /\ Goto(t, IF left[t] = 1 THEN "idle" ELSE "find")
          /\ UNCHANGED <<heap, page>>
  /\ UNCHANGED <<want, kbuf, calls>>

(* kbuf_put() of the last reference *)
Put(t) ==
  /\ pc[t] = "idle" /\ kbuf[t] # <<>> /\ Goto(t, "destroy")
  /\ UNCHANGED <<free, heap, page, want, kbuf, pages, left, calls>>

(* kbuf_destroy(): the pages and their objects, then the buffer's *)
DestroyPage(t) ==
  /\ pc[t] = "destroy" /\ pages[t] # <<>>
  /\ free' = free \cup {Head(pages[t])[2]} /\ Goto(t, "kfree")
  /\ UNCHANGED <<heap, page, want, kbuf, pages, left, calls>>
DestroyNode(t) ==
  /\ pc[t] = "kfree"
  /\ Kfree(t, Head(pages[t])[1], "destroy")
  /\ pages' = [pages EXCEPT ![t] = Tail(@)]
  /\ UNCHANGED <<free, want, kbuf, left, calls>>
Destroy(t) ==
  /\ pc[t] = "destroy" /\ pages[t] = <<>>
  /\ Kfree(t, kbuf[t], "idle")
  /\ kbuf' = [kbuf EXCEPT ![t] = <<>>] /\ left' = [left EXCEPT ![t] = 0]
  /\ UNCHANGED <<free, want, pages, calls>>

Next == \E t \in Threads :
  \/ Find(t) \/ NewSlab(t) \/ Insert(t) \/ ReleasePage(t)
  \/ \E n \in 1 .. MaxPages : Create(t, n)
  \/ Address(t) \/ Put(t) \/ DestroyPage(t) \/ DestroyNode(t) \/ Destroy(t)

Spec == Init /\ [][Next]_vars
-----------------------------------------------------------------------------
(* Every object is on its slab's list or with one thread, and every page   *)
(* free, in one bucket, a slab that one thread makes or gives back, or a   *)
(* page of one buffer; a slab in a bucket has an object in use; kfree()    *)
(* never panics; and when no buffer is left, every page is free again,     *)
(* whichever allocations failed on the way.                                *)
Held(t) == (IF kbuf[t] = <<>> THEN {} ELSE {kbuf[t]})
           \cup {pages[t][k][1] : k \in 1 .. Len(pages[t])}
Mapped(t) == {pages[t][k][2] : k \in 1 .. Len(pages[t])} \ {Null}
SlabsSound ==
  LET slabPages == {p \in Pages : \E b \in Buckets : Contains(slabs[b], p)}
      own(t) == IF page[t] = Null THEN {} ELSE {page[t]}
      mapped(t) == IF pc[t] = "kfree" THEN Mapped(t) \ {Head(pages[t])[2]}
                   ELSE Mapped(t)
  IN /\ \A p \in Pages :
          (IF p \in free THEN 1 ELSE 0)
          + Cardinality({<<b, k>> \in Buckets \X (1 .. Cardinality(Pages)) :
                           k <= Len(slabs[b]) /\ slabs[b][k] = p})
          + Cardinality({t \in Threads : p \in own(t)})
          + Cardinality({t \in Threads : p \in mapped(t)}) = 1
     /\ \A p \in slabPages :
          /\ Contains(slabs[magic[p]], p) /\ Len(flist[p]) < OBJS
          /\ \A k \in 1 .. OBJS :
               Cardinality({j \in 1 .. Len(flist[p]) : flist[p][j] = k})
               + Cardinality({t \in Threads : <<p, k>> \in Held(t)}) = 1
     /\ \A t \in Threads : \A o \in Held(t) : KfreeChecked(o)
     /\ (\A t \in Threads : pc[t] = "idle" /\ kbuf[t] = <<>>) => free = Pages
=============================================================================
