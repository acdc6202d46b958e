--------------------------------- MODULE Vm ---------------------------------
(***************************************************************************)
(* User address spaces: lazily allocated heap, copy-on-write fork, mmap    *)
(* areas, exec, and the copy of the user mappings in the process's kernel  *)
(* page table (kernel/vm/vm.c, vmfault.c, mmap/mmap.c, mmap/mmap_anon.c).  *)
(* Addresses and sizes count pages.  The fixed stack reservation behaves   *)
(* like the heap and is left out.  A frame is free when its count is 0,    *)
(* which Kalloc justifies.  Areas have an anonymous backing.               *)
(***************************************************************************)
EXTENDS Integers, FiniteSets, FiniteSetsExt

CONSTANTS Procs, Root, Frames, Objs, None,
          MMAP_TOP,      \* pages below the stack
          NVMA, Vals,    \* 0 \in Vals
          Forks, Execs   \* bounds on the number of fork() and exec() calls

VA == 0 .. MMAP_TOP - 1
VmaSlots == 1 .. NVMA

VARIABLES
  live,           \* processes with an address space of their own
  sz, pt, kpt,    \* p->sz, p->pagetable, p->kpagetable
  vmas,           \* p->vmas
  quota, mem,     \* frame: cow_quota and contents
  ref, anon,      \* object: refcnt; page index -> frame
  pc, at, fr, ch, \* process: place, page index, frame in hand, child or image
  npt,            \* the page table that exec() builds
  view, sview,    \* history: what p last wrote to a private page, and anyone
                  \* to a page of a shared object
  forks, execs

tables == <<sz, pt, kpt, vmas>>
frames == <<quota, mem>>
objects == <<ref, anon>>
procs == <<pc, at, fr, ch>>
history == <<view, sview>>
vars == <<live, tables, frames, objects, procs, npt, history, forks, execs>>

NoPages == [a \in VA |-> None]
Zero == [a \in VA |-> 0]

Init ==
  /\ live = {Root} /\ sz = [p \in Procs |-> IF p = Root THEN 1 ELSE 0]
  /\ pt = [p \in Procs |-> NoPages] /\ kpt = pt /\ npt = pt
  /\ vmas = [p \in Procs |-> [i \in VmaSlots |-> None]]
  /\ quota = [f \in Frames |-> 0] /\ mem = [f \in Frames |-> 0]
  /\ ref = [o \in Objs |-> 0] /\ anon = [o \in Objs |-> NoPages]
  /\ pc = [p \in Procs |-> "user"] /\ at = [p \in Procs |-> 0]
  /\ fr = [p \in Procs |-> None] /\ ch = [p \in Procs |-> None]
  /\ view = [p \in Procs |-> Zero] /\ sview = [o \in Objs |-> Zero]
  /\ forks = 0 /\ execs = 0
-----------------------------------------------------------------------------
In(a, v) == v # None /\ v.start <= a /\ a < v.end
Overlaps(v, start, end) == v # None /\ start < v.end /\ v.start < end

(* mmap_vma_find(): the area of page a, or None *)
Find(p, a) ==
  IF \E i \in VmaSlots : In(a, vmas[p][i])
  THEN vmas[p][CHOOSE i \in VmaSlots : In(a, vmas[p][i])] ELSE None

Shared(p, a) == Find(p, a) # None /\ Find(p, a).shared
Index(p, a) == Find(p, a).offset + a - Find(p, a).start
Object(p, a) == Find(p, a).obj

(* upg2ukpg(): valid entries of table t are copied, nothing is removed *)
Sync(k, t, S) == [a \in VA |-> IF a \in S /\ t[a] # None THEN t[a] ELSE k[a]]
Without(k, S) == [a \in VA |-> IF a \in S THEN None ELSE k[a]]
PagesFrom(m, n) == {a \in VA : m <= a /\ a < n}
Writable(f) == [pa |-> f, w |-> TRUE, cow |-> FALSE]

(* The counts after the entries S of table t are unmapped with do_free. *)
Unref(q, t, S) ==
  [f \in Frames |-> q[f] - Cardinality({a \in S : t[a] # None /\ t[a].pa = f})]

Users(vs, o) == Cardinality({i \in VmaSlots : vs[i] # None /\ vs[i].obj = o})

(* mmap_object_put() of every object whose count r drops to 0: the counts  *)
(* q of the pages, and the pages of the objects.                           *)
Destroyed(r) == {o \in Objs : ref[o] > 0 /\ r[o] = 0}
PutPages(q, r) ==
  [f \in Frames |->
     q[f] - Cardinality({o \in Destroyed(r) : \E a \in VA : anon[o][a] = f})]
PutAnon(r) == [o \in Objs |-> IF o \in Destroyed(r) THEN NoPages ELSE anon[o]]
-----------------------------------------------------------------------------
Idle(p) == p \in live /\ pc[p] = "user"
Goto(p, l) == pc' = [pc EXCEPT ![p] = l]
SetPte(p, a, e) == pt' = [pt EXCEPT ![p][a] = e]
SyncPage(p, a, e) == kpt' = [kpt EXCEPT ![p][a] = e]

(* p writes v, in user space or by copyout(), to a page mapped writable *)
Written(p, a, f, v) ==
  /\ mem' = [mem EXCEPT ![f] = v]
  /\ IF Shared(p, a)
     THEN sview' = [sview EXCEPT ![Object(p, a)][Index(p, a)] = v] /\ UNCHANGED view
     ELSE view' = [view EXCEPT ![p][a] = v] /\ UNCHANGED sview
  /\ UNCHANGED <<live, tables, quota, objects, procs, npt, forks, execs>>

Store(p, a, v) ==
  Idle(p) /\ pt[p][a] # None /\ pt[p][a].w /\ Written(p, a, pt[p][a].pa, v)
CopyOut(p, a, v) ==
  Idle(p) /\ kpt[p][a] # None /\ kpt[p][a].w /\ Written(p, a, kpt[p][a].pa, v)

(* vm_fault_present(): the entry is valid and allows the access, so only   *)
(* the kernel's copy of it is missing or old                               *)
Resync(p, a) ==
  /\ Idle(p) /\ pt[p][a] # None /\ kpt[p][a] # pt[p][a]
  /\ SyncPage(p, a, pt[p][a])
  /\ UNCHANGED <<live, sz, pt, vmas, frames, objects, procs, npt, history, forks,
                 execs>>

(* uvmcowmalloc(): the only user of the page makes it writable again, ... *)
CowReuse(p, a) ==
  LET e == pt[p][a] IN
  /\ Idle(p) /\ e # None /\ e.cow /\ quota[e.pa] = 1
  /\ SetPte(p, a, Writable(e.pa)) /\ SyncPage(p, a, Writable(e.pa))
  /\ UNCHANGED <<live, sz, vmas, frames, objects, procs, npt, history, forks,
                 execs>>

(* ... another one has seen a larger count, which may be old by the time   *)
(* it copies the page, ...                                                 *)
CowShared(p, a) ==
  /\ Idle(p) /\ pt[p][a] # None /\ pt[p][a].cow /\ quota[pt[p][a].pa] # 1
  /\ Goto(p, "cow") /\ at' = [at EXCEPT ![p] = a]
  /\ UNCHANGED <<live, tables, frames, objects, fr, ch, npt, history, forks, execs>>

CowCopy(p) ==
  LET a == at[p] IN
  /\ pc[p] = "cow"
  /\ \E f \in Frames :
       /\ quota[f] = 0
       /\ quota' = [quota EXCEPT ![f] = 1]
       /\ mem' = [mem EXCEPT ![f] = mem[pt[p][a].pa]]
       /\ SetPte(p, a, Writable(f)) /\ SyncPage(p, a, Writable(f))
  /\ fr' = [fr EXCEPT ![p] = pt[p][a].pa]
  /\ Goto(p, "cowfree") /\ at' = [at EXCEPT ![p] = 0]
  /\ UNCHANGED <<live, sz, vmas, objects, ch, npt, history, forks, execs>>

(* ... which the fault handler gives up without memory, ... *)
CowFail(p) ==
  /\ pc[p] = "cow" /\ Goto(p, "user") /\ at' = [at EXCEPT ![p] = 0]
  /\ UNCHANGED <<live, tables, frames, objects, fr, ch, npt, history, forks, execs>>

(* ... and frees its reference to it *)
CowFree(p) ==
  /\ pc[p] = "cowfree"
  /\ quota' = [quota EXCEPT ![fr[p]] = @ - 1]
  /\ fr' = [fr EXCEPT ![p] = None] /\ Goto(p, "user")
  /\ UNCHANGED <<live, tables, mem, objects, at, ch, npt, history, forks, execs>>

(* vm_resolve_fault() finds no valid entry *)
Missing(p, a) == Idle(p) /\ pt[p][a] = None

(* vm_fault_missing(): a page of zeros.  A failure to allocate or to map   *)
(* it leaves no trace.                                                     *)
ZeroPage(p, a) ==
  /\ \E f \in Frames :
       /\ quota[f] = 0
       /\ quota' = [quota EXCEPT ![f] = 1] /\ mem' = [mem EXCEPT ![f] = 0]
       /\ SetPte(p, a, Writable(f)) /\ SyncPage(p, a, Writable(f))
  /\ UNCHANGED <<live, sz, vmas, objects, procs, npt, history, forks, execs>>

(* uvm_fault_alloc(), and mmap_fault_page() in a private area *)
FaultHeap(p, a) == Missing(p, a) /\ Find(p, a) = None /\ a < sz[p] /\ ZeroPage(p, a)
FaultArea(p, a) ==
  Missing(p, a) /\ Find(p, a) # None /\ ~Shared(p, a) /\ ZeroPage(p, a)

(* anon_page_get(): the object has the page, ... *)
FaultShared(p, a) ==
  /\ Missing(p, a) /\ Shared(p, a)
  /\ LET f == anon[Object(p, a)][Index(p, a)] IN
     /\ f # None
     /\ quota' = [quota EXCEPT ![f] = @ + 1]
     /\ SetPte(p, a, Writable(f)) /\ SyncPage(p, a, Writable(f))
  /\ UNCHANGED <<live, sz, vmas, mem, objects, procs, npt, history, forks, execs>>

(* ... or a candidate is allocated without the lock ... *)
AnonAlloc(p, a) ==
  /\ Missing(p, a) /\ Shared(p, a)
  /\ anon[Object(p, a)][Index(p, a)] = None
  /\ \E f \in Frames :
       /\ quota[f] = 0
       /\ quota' = [quota EXCEPT ![f] = 1] /\ mem' = [mem EXCEPT ![f] = 0]
       /\ fr' = [fr EXCEPT ![p] = f]
  /\ Goto(p, "anon") /\ at' = [at EXCEPT ![p] = a]
  /\ UNCHANGED <<live, tables, objects, ch, npt, history, forks, execs>>

(* Mutant: the second look is left out. *)
AnonInsert_NoSecondLook(p, mapped) ==
  LET a == at[p]  o == Object(p, a)  i == Index(p, a)  f == fr[p] IN
  /\ pc[p] = "anon"
  /\ anon' = [anon EXCEPT ![o][i] = f]
  /\ quota' = [quota EXCEPT ![f] = IF mapped THEN 2 ELSE 1]
  /\ IF mapped THEN SetPte(p, a, Writable(f)) /\ SyncPage(p, a, Writable(f))
               ELSE UNCHANGED <<pt, kpt>>
  /\ Goto(p, "user") /\ at' = [at EXCEPT ![p] = 0] /\ fr' = [fr EXCEPT ![p] = None]
  /\ UNCHANGED <<live, sz, vmas, mem, ref, ch, npt, history, forks, execs>>

(* ... and inserted, unless another process was faster; then the page is   *)
(* mapped, or its reference given back when that fails                     *)
AnonInsert(p, mapped) ==
  LET a == at[p]  o == Object(p, a)  i == Index(p, a)
      f == IF anon[o][i] = None THEN fr[p] ELSE anon[o][i]
      n == IF mapped THEN 1 ELSE 0
  IN /\ pc[p] = "anon"
     /\ anon' = [anon EXCEPT ![o][i] = f]
     /\ quota' = IF f = fr[p] THEN [quota EXCEPT ![f] = @ + n]
                 ELSE [quota EXCEPT ![f] = @ + n, ![fr[p]] = @ - 1]
     /\ IF mapped THEN SetPte(p, a, Writable(f)) /\ SyncPage(p, a, Writable(f))
                  ELSE UNCHANGED <<pt, kpt>>
     /\ Goto(p, "user") /\ at' = [at EXCEPT ![p] = 0] /\ fr' = [fr EXCEPT ![p] = None]
     /\ UNCHANGED <<live, sz, vmas, mem, ref, ch, npt, history, forks, execs>>
-----------------------------------------------------------------------------
(* vma_heap_limit() *)
HeapLimit(p) ==
  Min({MMAP_TOP} \cup {vmas[p][i].start : i \in {j \in VmaSlots : vmas[p][j] # None}})

(* sys_sbrk(): growing is lazy, shrinking unmaps *)
Sbrk(p, n) ==
  LET gone == PagesFrom(n, sz[p]) IN
  /\ Idle(p) /\ n # sz[p] /\ (n > sz[p] => n <= HeapLimit(p))
  /\ sz' = [sz EXCEPT ![p] = n]
  /\ kpt' = [kpt EXCEPT ![p] = Without(@, gone)]
  /\ pt' = [pt EXCEPT ![p] = Without(@, gone)]
  /\ quota' = Unref(quota, pt[p], gone)
  /\ view' = [view EXCEPT ![p] = [a \in VA |-> IF a \in gone THEN 0 ELSE @[a]]]
  /\ UNCHANGED <<live, vmas, mem, objects, procs, npt, sview, forks, execs>>

(* vma_find_address(): from the top down, below the highest area in the    *)
(* way; 0 if there is no room                                              *)
FindAddress(p, len) ==
  LET From[top \in 0 .. MMAP_TOP] ==
        LET start == top - len
            inway == {vmas[p][i].start : i \in {j \in VmaSlots : Overlaps(vmas[p][j], start, top)}}
        IN IF len > top - sz[p] THEN 0
           ELSE IF inway = {} THEN start ELSE From[Max(inway)]
  IN From[MMAP_TOP]

FreeSlots(p) == {i \in VmaSlots : vmas[p][i] = None}

(* vma_map_anon() with mmap_map_create() *)
Mmap(p, len, shared) ==
  LET start == FindAddress(p, len) IN
  /\ Idle(p) /\ FreeSlots(p) # {} /\ start # 0
  /\ \E o \in Objs :
       /\ ref[o] = 0 /\ \A q \in Objs : ref[q] = 0 => o <= q
       /\ ref' = [ref EXCEPT ![o] = 1]
       /\ sview' = [sview EXCEPT ![o] = Zero]
       /\ vmas' = [vmas EXCEPT ![p][Min(FreeSlots(p))] =
            [start |-> start, end |-> start + len, offset |-> 0,
             shared |-> shared, obj |-> o]]
  /\ UNCHANGED <<live, sz, pt, kpt, frames, anon, procs, npt, view, forks, execs>>

(* The objects' counts after the areas of p change to vs. *)
Recount(p, vs) == [o \in Objs |-> ref[o] + Users(vs, o) - Users(vmas[p], o)]

(* Mutant: the head is cut off without moving the offset. *)
Cut_NoOffset(v, addr, end) ==
  IF ~Overlaps(v, addr, end) THEN v
  ELSE IF addr <= v.start /\ v.end <= end THEN None
  ELSE IF addr <= v.start THEN [v EXCEPT !.start = end] ELSE [v EXCEPT !.end = addr]

(* vma_unmap(): areas inside addr .. end go, others are cut at the head or *)
(* the tail, or split in two                                               *)
Cut(v, addr, end) ==
  IF ~Overlaps(v, addr, end) THEN v
  ELSE IF addr <= v.start /\ v.end <= end THEN None
  ELSE IF addr <= v.start
       THEN [v EXCEPT !.start = end, !.offset = @ + end - v.start]
       ELSE [v EXCEPT !.end = addr]

Split(v, addr, end) == v # None /\ v.start < addr /\ end < v.end

Munmap(p, addr, end) ==
  LET old == vmas[p]
      hit == {i \in VmaSlots : Overlaps(old[i], addr, end)}
      split == {i \in VmaSlots : Split(old[i], addr, end)}
      cut == [i \in VmaSlots |-> Cut(old[i], addr, end)]
      new == IF split = {} THEN cut
             ELSE LET v == old[CHOOSE i \in split : TRUE] IN
                  [cut EXCEPT ![Min(FreeSlots(p))] =
                     [v EXCEPT !.start = end, !.offset = @ + end - v.start]]
      gone == {a \in PagesFrom(addr, end) : Find(p, a) # None}
      r == Recount(p, new)
  IN /\ Idle(p) /\ hit # {} /\ (split # {} => FreeSlots(p) # {})
     /\ vmas' = [vmas EXCEPT ![p] = new]
     /\ kpt' = [kpt EXCEPT ![p] = Without(@, gone)]
     /\ pt' = [pt EXCEPT ![p] = Without(@, gone)]
     /\ quota' = PutPages(Unref(quota, pt[p], gone), r)
     /\ ref' = r /\ anon' = PutAnon(r)
     /\ view' = [view EXCEPT ![p] = [a \in VA |-> IF a \in gone THEN 0 ELSE @[a]]]
     /\ UNCHANGED <<live, sz, mem, procs, npt, sview, forks, execs>>
-----------------------------------------------------------------------------
(* fork(): uvmcopy() goes over the heap page by page, vma_fork() copies    *)
(* the areas and then goes over their pages.                               *)
ForkStart(p, c) ==
  /\ Idle(p) /\ c \notin live /\ (\A q \in Procs : ch[q] # c) /\ forks < Forks
  /\ ch' = [ch EXCEPT ![p] = c] /\ Goto(p, "fork") /\ forks' = forks + 1
  /\ UNCHANGED <<live, tables, frames, objects, at, fr, npt, history, execs>>

(* The parent's entry after its page is shared: a private page loses W. *)
CowEntry(p, a) ==
  LET e == pt[p][a] IN
  IF e # None /\ e.w /\ ~Shared(p, a) THEN [e EXCEPT !.w = FALSE, !.cow = TRUE]
  ELSE e

ForkHeap(p) ==
  LET a == at[p]  c == ch[p]  e == CowEntry(p, a) IN
  /\ pc[p] = "fork" /\ a < sz[p]
  /\ pt' = [pt EXCEPT ![p][a] = e, ![c][a] = e]
  /\ quota' = IF e = None THEN quota ELSE [quota EXCEPT ![e.pa] = @ + 1]
  /\ at' = [at EXCEPT ![p] = a + 1]
  /\ UNCHANGED <<live, sz, kpt, vmas, mem, objects, pc, fr, ch, npt, history, forks,
                 execs>>

ForkVmas(p) ==
  LET c == ch[p] IN
  /\ pc[p] = "fork" /\ at[p] >= sz[p]
  /\ sz' = [sz EXCEPT ![c] = sz[p]]
  /\ vmas' = [vmas EXCEPT ![c] = vmas[p]]
  /\ ref' = [o \in Objs |-> ref[o] + Users(vmas[p], o)]
  /\ Goto(p, "forkv")
  /\ UNCHANGED <<live, pt, kpt, frames, anon, at, fr, ch, npt, history, forks, execs>>

ForkVmaPage(p) ==
  LET a == at[p]  c == ch[p]  e == CowEntry(p, a) IN
  /\ pc[p] = "forkv" /\ a < MMAP_TOP
  /\ pt' = [pt EXCEPT ![p][a] = e, ![c][a] = e]
  /\ kpt' = IF e = None THEN kpt
            ELSE [kpt EXCEPT ![p][a] = IF Shared(p, a) THEN @ ELSE e, ![c][a] = e]
  /\ quota' = IF e = None THEN quota ELSE [quota EXCEPT ![e.pa] = @ + 1]
  /\ at' = [at EXCEPT ![p] = a + 1]
  /\ UNCHANGED <<live, sz, vmas, mem, objects, pc, fr, ch, npt, history, forks, execs>>

(* mappages() fails for the child, after the parent's entry was changed:   *)
(* what the child has so far is freed, and the parent's kernel page table  *)
(* is brought up to date                                                   *)
ForkFail(p) ==
  LET a == at[p]  c == ch[p]  e == CowEntry(p, a)
      r == [o \in Objs |-> ref[o] - Users(vmas[c], o)]
  IN
  /\ pc[p] \in {"fork", "forkv"} /\ a \in VA /\ (pc[p] = "fork" => a < sz[p])
  /\ e # None
  /\ pt' = [pt EXCEPT ![p][a] = e, ![c] = NoPages]
  /\ kpt' = [kpt EXCEPT ![p] = Sync(@, pt'[p], PagesFrom(0, sz[p]) \cup {a}), ![c] = NoPages]
  /\ quota' = PutPages(Unref(quota, pt[c], VA), r)
  /\ ref' = r /\ anon' = PutAnon(r)
  /\ sz' = [sz EXCEPT ![c] = 0] /\ vmas' = [vmas EXCEPT ![c] = [i \in VmaSlots |-> None]]
  /\ Goto(p, "user")
  /\ at' = [at EXCEPT ![p] = 0] /\ ch' = [ch EXCEPT ![p] = None]
  /\ UNCHANGED <<live, mem, fr, npt, history, forks, execs>>

(* The child becomes RUNNABLE with its kernel page table filled, ... *)
ForkChild(p) ==
  LET c == ch[p] IN
  /\ pc[p] = "forkv" /\ at[p] >= MMAP_TOP
  /\ kpt' = [kpt EXCEPT ![c] = Sync(@, pt[c], PagesFrom(0, sz[c]))]
  /\ live' = live \cup {c}
  /\ view' = [view EXCEPT ![c] = view[p]]
  /\ Goto(p, "sync") /\ at' = [at EXCEPT ![p] = 0] /\ ch' = [ch EXCEPT ![p] = None]
  /\ UNCHANGED <<sz, pt, vmas, frames, objects, fr, npt, sview, forks, execs>>

(* ... and only then the parent's kernel page table learns of COW *)
ForkSync(p) ==
  /\ pc[p] = "sync" /\ Goto(p, "user")
  /\ kpt' = [kpt EXCEPT ![p] = Sync(@, pt[p], PagesFrom(0, sz[p]))]
  /\ UNCHANGED <<live, sz, pt, vmas, frames, objects, at, fr, ch, npt, history, forks,
                 execs>>
-----------------------------------------------------------------------------
(* exec() builds an image of n pages beside the old one and puts it in the *)
(* kernel page table, so that copyout() reaches it, ...                    *)
ExecStage(p, n) ==
  /\ Idle(p) /\ execs < Execs
  /\ \E g \in [PagesFrom(0, n) -> {f \in Frames : quota[f] = 0}] :
       /\ \A a, b \in PagesFrom(0, n) : g[a] = g[b] => a = b
       /\ npt' = [npt EXCEPT ![p] =
                    [a \in VA |-> IF a < n THEN Writable(g[a]) ELSE None]]
       /\ quota' = [f \in Frames |-> IF \E a \in PagesFrom(0, n) : g[a] = f THEN 1 ELSE quota[f]]
       /\ mem' = [f \in Frames |-> IF \E a \in PagesFrom(0, n) : g[a] = f THEN 0 ELSE mem[f]]
  /\ kpt' = [kpt EXCEPT ![p] = Sync(Without(@, PagesFrom(0, sz[p])), npt'[p], PagesFrom(0, n))]
  /\ at' = [at EXCEPT ![p] = n] /\ Goto(p, "exec") /\ execs' = execs + 1
  /\ UNCHANGED <<live, sz, pt, vmas, objects, fr, ch, history, forks>>

ExecArgs(p, a, v) ==
  /\ pc[p] = "exec" /\ a < at[p] /\ kpt[p][a] # None
  /\ mem' = [mem EXCEPT ![kpt[p][a].pa] = v]
  /\ UNCHANGED <<live, tables, quota, objects, procs, npt, history, forks, execs>>

(* ... goes back to the old image if anything fails, ... *)
ExecFail(p) ==
  /\ pc[p] = "exec"
  /\ kpt' = [kpt EXCEPT ![p] = Sync(Without(@, PagesFrom(0, at[p])), pt[p], PagesFrom(0, sz[p]))]
  /\ quota' = Unref(quota, npt[p], VA)
  /\ npt' = [npt EXCEPT ![p] = NoPages]
  /\ at' = [at EXCEPT ![p] = 0] /\ Goto(p, "user")
  /\ UNCHANGED <<live, sz, pt, vmas, mem, objects, fr, ch, history, forks, execs>>

Mapped(p) == {a \in VA : Find(p, a) # None}
NoVmas == [i \in VmaSlots |-> None]

(* ... or destroys the areas and replaces the page table *)
ExecCommit(p) ==
  LET r == Recount(p, NoVmas) IN
  /\ pc[p] = "exec"
  /\ kpt' = [kpt EXCEPT ![p] = Without(@, Mapped(p))]
  /\ pt' = [pt EXCEPT ![p] = npt[p]] /\ npt' = [npt EXCEPT ![p] = NoPages]
  /\ quota' = PutPages(Unref(quota, pt[p], VA), r)
  /\ ref' = r /\ anon' = PutAnon(r)
  /\ vmas' = [vmas EXCEPT ![p] = NoVmas]
  /\ sz' = [sz EXCEPT ![p] = at[p]] /\ at' = [at EXCEPT ![p] = 0] /\ Goto(p, "user")
  /\ view' = [view EXCEPT ![p] =
       [a \in VA |-> IF npt[p][a] = None THEN 0 ELSE mem[npt[p][a].pa]]]
  /\ UNCHANGED <<live, mem, fr, ch, sview, forks, execs>>

(* exit() destroys the areas; freeproc() in wait() frees the rest *)
Exit(p) ==
  LET r == Recount(p, NoVmas) IN
  /\ Idle(p) /\ p # Root
  /\ live' = live \ {p}
  /\ quota' = PutPages(Unref(quota, pt[p], VA), r)
  /\ ref' = r /\ anon' = PutAnon(r)
  /\ vmas' = [vmas EXCEPT ![p] = NoVmas] /\ sz' = [sz EXCEPT ![p] = 0]
  /\ pt' = [pt EXCEPT ![p] = NoPages] /\ kpt' = [kpt EXCEPT ![p] = NoPages]
  /\ view' = [view EXCEPT ![p] = Zero]
  /\ UNCHANGED <<mem, procs, npt, sview, forks, execs>>

Next ==
  \E p \in Procs :
    \/ \E a \in VA :
         \/ \E v \in Vals : Store(p, a, v) \/ CopyOut(p, a, v) \/ ExecArgs(p, a, v)
         \/ Resync(p, a) \/ CowReuse(p, a) \/ CowShared(p, a)
         \/ FaultHeap(p, a) \/ FaultArea(p, a)
         \/ FaultShared(p, a) \/ AnonAlloc(p, a)
         \/ \E b \in a + 1 .. MMAP_TOP : Munmap(p, a, b)
    \/ CowCopy(p) \/ CowFail(p) \/ CowFree(p)
    \/ \E ok \in BOOLEAN : AnonInsert(p, ok)
    \/ \E n \in 0 .. MMAP_TOP : Sbrk(p, n)
    \/ \E n \in 1 .. MMAP_TOP, shared \in BOOLEAN : Mmap(p, n, shared)
    \/ \E c \in Procs : ForkStart(p, c)
    \/ ForkHeap(p) \/ ForkVmas(p) \/ ForkVmaPage(p) \/ ForkFail(p)
    \/ ForkChild(p) \/ ForkSync(p)
    \/ \E n \in 1 .. MMAP_TOP : ExecStage(p, n)
    \/ ExecFail(p) \/ ExecCommit(p) \/ Exit(p)

Spec == Init /\ [][Next]_vars
-----------------------------------------------------------------------------
Pte == [pa : Frames, w : BOOLEAN, cow : BOOLEAN]
Vma == [start : VA, end : 1 .. MMAP_TOP, offset : VA, shared : BOOLEAN, obj : Objs]

TypeOK ==
  /\ live \subseteq Procs /\ sz \in [Procs -> 0 .. MMAP_TOP]
  /\ {pt, kpt, npt} \subseteq [Procs -> [VA -> Pte \cup {None}]]
  /\ vmas \in [Procs -> [VmaSlots -> Vma \cup {None}]]
  /\ quota \in [Frames -> Nat] /\ mem \in [Frames -> Vals]
  /\ ref \in [Objs -> Nat] /\ anon \in [Objs -> [VA -> Frames \cup {None}]]

(* cow_quota counts the page-table entries, the pages held by objects and  *)
(* the pages in the hands of a fault handler, on every path of fork(),     *)
(* exec(), munmap() and their failures: no page leaks, none is freed early.*)
QuotaExact ==
  \A f \in Frames :
    quota[f] = Cardinality({<<t, p, a>> \in {1, 2} \X Procs \X VA :
                             LET e == IF t = 1 THEN pt[p][a] ELSE npt[p][a]
                             IN e # None /\ e.pa = f})
             + Cardinality({<<o, i>> \in Objs \X VA : anon[o][i] = f})
             + Cardinality({p \in Procs : fr[p] = f})

(* refcnt of an object is the number of areas that use it. *)
ObjectsCounted ==
  \A o \in Objs :
    ref[o] = Cardinality({<<p, i>> \in Procs \X VmaSlots :
                            vmas[p][i] # None /\ vmas[p][i].obj = o})

(* Memory is private or shared as promised: every mapped page reads as     *)
(* what its process wrote last, or anyone to the shared object, whoever    *)
(* forked, copied or freed the page in between.                            *)
Isolation ==
  \A p \in live, a \in VA : pt[p][a] # None =>
    mem[pt[p][a].pa] = IF Shared(p, a) THEN sview[Object(p, a)][Index(p, a)]
                       ELSE view[p][a]

(* Outside fork() and exec() the kernel page table agrees with the user's  *)
(* wherever it has an entry; inside exec() it may show the new image.      *)
KernelMirror ==
  \A p \in live, a \in VA : kpt[p][a] # None =>
    \/ pc[p] \in {"fork", "forkv", "sync"} /\ pt[p][a] # None /\ kpt[p][a].pa = pt[p][a].pa
    \/ kpt[p][a] = pt[p][a]
    \/ pc[p] = "exec" /\ kpt[p][a] = npt[p][a]

(* Heap and areas are disjoint, also after growing, splitting and forking. *)
AreasDisjoint ==
  \A p \in live, i \in VmaSlots : vmas[p][i] # None =>
    /\ sz[p] <= vmas[p][i].start /\ vmas[p][i].start < vmas[p][i].end
    /\ \A j \in VmaSlots \ {i} : ~Overlaps(vmas[p][j], vmas[p][i].start, vmas[p][i].end)

(* munmap() of a part leaves the rest of an area on the same pages of its  *)
(* object: cutting and splitting adjust start and offset together.         *)
Backing(p, a) == IF Find(p, a) = None THEN None ELSE <<Object(p, a), Index(p, a)>>
BackingKept ==
  \A p \in live, a \in VA :
    Backing(p, a) # None => Backing(p, a)' \in {None, Backing(p, a)}

(* vma_find_address() finds the highest room between heap and stack. *)
HighestFit ==
  \A p \in live, n \in 1 .. MMAP_TOP :
    FindAddress(p, n) =
      Max({0} \cup {a \in VA : /\ sz[p] <= a /\ a + n <= MMAP_TOP
                              /\ \A i \in VmaSlots : ~Overlaps(vmas[p][i], a, a + n)})
=============================================================================
