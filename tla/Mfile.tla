------------------------------- MODULE Mfile --------------------------------
(***************************************************************************)
(* Files mapped into memory (kernel/vm/mmap/mmap_file.c): pages are read   *)
(* on the first access, and the resident pages of a shared writable area   *)
(* are written back by munmap(), exec() and exit(), each under the entry   *)
(* lock of its file, which fileread(), filewrite() and exec() also hold    *)
(* while they copy to or from user memory.                                 *)
(*                                                                         *)
(* An area is described by the pages of the file that it shows: Vm checks  *)
(* that they stay the same under cutting and splitting, places the areas   *)
(* and counts their objects.  A file is a row of cells, PG to a page.  The *)
(* contents of private pages never come back to the file and are left out. *)
(***************************************************************************)
EXTENDS Integers, FiniteSets, FiniteSetsExt

CONSTANTS Procs, Root, Files, None,
          ReadOnly,      \* the files with ATTR_READ_ONLY
          PG, NPG,       \* cells of a page, pages of a file
          InitSize,      \* cells of every file at first
          Frames, NVMA, Vals,
          MaxCalls       \* bound on the number of system calls

Areas == 1 .. NVMA
FilePages == 0 .. NPG - 1
Cells == 0 .. NPG * PG - 1
Private == 0             \* in place of the frame of a private page

VARIABLES
  size, data,      \* file: file_size and contents
  elk,             \* file: the holder of the entry lock
  live,            \* processes that exist
  area,            \* p->vmas, with the resident pages
  mem,             \* frame: contents
  pc,
  arg,             \* the arguments of the system call or the fault
  last,            \* history: what was last stored or written to a cell
  crossed,         \* history: pages with two sources of writes
  calls

files == <<size, data>>
history == <<last, crossed>>
vars == <<files, elk, live, area, mem, pc, arg, history, calls>>

NoPages == [k \in FilePages |-> None]
NoAreas == [i \in Areas |-> None]

Init ==
  /\ size = [f \in Files |-> InitSize]
  /\ data = [f \in Files |-> [c \in Cells |-> 0]] /\ last = data
  /\ elk = [f \in Files |-> None]
  /\ live = {Root} /\ area = [p \in Procs |-> NoAreas]
  /\ mem = [g \in Frames |-> [c \in 0 .. PG - 1 |-> 0]]
  /\ pc = [p \in Procs |-> "user"] /\ arg = [p \in Procs |-> None]
  /\ crossed = {} /\ calls = 0
-----------------------------------------------------------------------------
PageOf(c) == c \div PG
Idle(p) == p \in live /\ pc[p] = "user"
Holds(p) == \E f \in Files : elk[f] = p
Goto(p, l, a) == pc' = [pc EXCEPT ![p] = l] /\ arg' = [arg EXCEPT ![p] = a]
Call == calls < MaxCalls /\ calls' = calls + 1
Unlocked(p) == [f \in Files |-> IF elk[f] = p THEN None ELSE elk[f]]
InArea(a, k) == a # None /\ a.lo <= k /\ k < a.hi

(* Frames that a store may change and a write-back copies to page k of f. *)
Sharers(f, k) ==
  {<<p, i>> \in Procs \X Areas :
     LET a == area[p][i] IN
     InArea(a, k) /\ a.f = f /\ a.shared /\ a.w /\ a.pg[k] # None}
Sources(f, k) == {area[s[1]][s[2]].pg[k] : s \in Sharers(f, k)}

FreeFrames ==
  Frames \ {area[x[1]][x[2]].pg[x[3]] :
              x \in {y \in Procs \X Areas \X FilePages : area[y[1]][y[2]] # None}}

(* vma_map_file(): len cells from page lo.  A length that is not a multiple *)
(* of the page size leaves the rest of the last page outside valid_end.     *)
Mmap(p, f, lo, len, shared, w) ==
  LET hi == lo + (len + PG - 1) \div PG IN
  /\ Idle(p) /\ Call
  /\ \E i \in Areas :
       /\ area[p][i] = None /\ \A j \in Areas : area[p][j] = None => i <= j
       /\ area' = [area EXCEPT ![p][i] =
            [f |-> f, lo |-> lo, hi |-> hi, vend |-> lo * PG + len,
             shared |-> shared, w |-> w, pg |-> NoPages]]
  /\ UNCHANGED <<files, elk, live, mem, pc, arg, history>>

(* A user access to a page that is not resident *)
Access(p, i, k) ==
  /\ Idle(p) /\ InArea(area[p][i], k) /\ area[p][i].pg[k] = None
  /\ Goto(p, "fault", <<i, k>>)
  /\ UNCHANGED <<files, elk, live, area, mem, history, calls>>

(* What eread() gives for page k of an area: the cells before valid_end    *)
(* and the end of the file, and zeros.                                     *)
ReadPage(a, k) ==
  [c \in 0 .. PG - 1 |->
     LET d == k * PG + c IN IF d < a.vend /\ d < size[a.f] THEN data[a.f][d] ELSE 0]

(* mmap_file_fault() and mmap_fault_page(), for the page that a user access *)
(* or the copy of a system call has touched                                 *)
Fault(p, i, k) ==
  LET a == area[p][i] IN
  /\ a.pg[k] = None /\ elk[a.f] = None
  /\ IF a.shared
     THEN /\ FreeFrames # {}
          /\ \E g \in FreeFrames :
               /\ \A h \in FreeFrames : g <= h
               /\ area' = [area EXCEPT ![p][i].pg[k] = g]
               /\ mem' = [mem EXCEPT ![g] = ReadPage(a, k)]
     ELSE area' = [area EXCEPT ![p][i].pg[k] = Private] /\ UNCHANGED mem
  /\ crossed' = IF a.shared /\ a.w /\ Sources(a.f, k) # {}
                THEN crossed \cup {<<a.f, k>>} ELSE crossed
  /\ UNCHANGED <<files, elk, live, last, calls>>

UserFault(p) ==
  /\ pc[p] = "fault" /\ Fault(p, arg[p][1], arg[p][2])
  /\ Goto(p, "user", None)

(* Out of memory: the process gets a signal. *)
FaultFail(p) ==
  /\ pc[p] = "fault" /\ Goto(p, "user", None)
  /\ UNCHANGED <<files, elk, live, area, mem, history, calls>>

(* A user store of v to cell c of a resident page of a shared area; the     *)
(* cells past valid_end and past the end of the file are not the file's.    *)
Stored(p, i, c, v) ==
  LET a == area[p][i] IN
  /\ mem' = [mem EXCEPT ![a.pg[PageOf(c)]][c % PG] = v]
  /\ last' = IF c < a.vend /\ c < size[a.f] /\ a.f \notin ReadOnly
             THEN [last EXCEPT ![a.f][c] = v] ELSE last

CanStore(p, i, k) ==
  LET a == area[p][i] IN InArea(a, k) /\ a.shared /\ a.w /\ a.pg[k] # None

Store(p, i, c, v) ==
  /\ Idle(p) /\ CanStore(p, i, PageOf(c)) /\ Stored(p, i, c, v)
  /\ UNCHANGED <<files, elk, live, area, pc, arg, crossed, calls>>
-----------------------------------------------------------------------------
(* fileread() and filewrite() of one cell, through a buffer on the heap     *)
(* (b = None) or in page b[2] of area b[1]: the entry lock is taken, ...    *)
Io(p, op, f, c, b) ==
  /\ Idle(p) /\ elk[f] = None /\ Call
  /\ b # None => InArea(area[p][b[1]], b[2])
  /\ op = "read" => c < size[f]
  /\ op = "write" => c <= size[f] /\ f \notin ReadOnly
  /\ elk' = [elk EXCEPT ![f] = p]
  /\ Goto(p, op, [f |-> f, c |-> c, b |-> b])
  /\ UNCHANGED <<files, live, area, mem, history>>

Copying(p) == pc[p] \in {"read", "write"}
Resident(p) ==
  arg[p].b # None => area[p][arg[p].b[1]].pg[arg[p].b[2]] # None

(* vm_fault_area_allows(): read() stores to its buffer *)
Allowed(p) == pc[p] = "read" => area[p][arg[p].b[1]].w

(* ... a page of the buffer may have to be read first, with the lock held, *)
CopyFault(p) ==
  /\ Copying(p) /\ ~Resident(p) /\ Allowed(p)
  /\ Fault(p, arg[p].b[1], arg[p].b[2])
  /\ UNCHANGED <<pc, arg>>

(* ... and then the cell is copied, ... *)
ReadDone(p) ==
  LET r == arg[p] IN
  /\ pc[p] = "read" /\ Resident(p)
  /\ IF r.b # None /\ CanStore(p, r.b[1], r.b[2])
     THEN Stored(p, r.b[1], r.b[2] * PG, data[r.f][r.c])
     ELSE UNCHANGED <<mem, last>>
  /\ elk' = Unlocked(p) /\ Goto(p, "user", None)
  /\ UNCHANGED <<files, live, area, crossed, calls>>

WriteDone(p, v) ==
  LET r == arg[p] IN
  /\ pc[p] = "write" /\ Resident(p)
  /\ (r.b # None /\ area[p][r.b[1]].shared) => v = mem[area[p][r.b[1]].pg[r.b[2]]][0]
  /\ data' = [data EXCEPT ![r.f][r.c] = v] /\ last' = [last EXCEPT ![r.f][r.c] = v]
  /\ size' = [size EXCEPT ![r.f] = IF r.c = @ THEN @ + 1 ELSE @]
  /\ crossed' = IF Sources(r.f, PageOf(r.c)) # {}
                THEN crossed \cup {<<r.f, PageOf(r.c)>>} ELSE crossed
  /\ elk' = Unlocked(p) /\ Goto(p, "user", None)
  /\ UNCHANGED <<live, area, mem, calls>>

(* ... or not, for lack of memory or of permission: read() is short, and    *)
(* write() panics with "short filewrite"                                    *)
CopyFail(p) ==
  /\ Copying(p) /\ ~Resident(p)
  /\ elk' = Unlocked(p) /\ Goto(p, IF pc[p] = "read" THEN "user" ELSE "panic", None)
  /\ UNCHANGED <<files, live, area, mem, history, calls>>
-----------------------------------------------------------------------------
(* mmap_file_writeback_page() has something to write. *)
Needed(a, k) == a.shared /\ a.w /\ a.pg[k] # None /\ k * PG < a.vend

(* Mutant: the page is written back beyond valid_end. *)
Length_Whole(a, k) == Min({PG, size[a.f] - k * PG})

(* filewrite_at(): up to valid_end and never past the end of the file *)
Length(a, k) == Min({PG, a.vend - k * PG, size[a.f] - k * PG})

Written(a, k) ==
  [c \in Cells |->
     IF k * PG <= c /\ c < k * PG + Length(a, k) THEN mem[a.pg[k]][c - k * PG]
     ELSE data[a.f][c]]

(* p writes page k of area a back: done, ... *)
WriteBack(p, a, k) ==
  /\ elk[a.f] = None
  /\ k * PG < size[a.f] => a.f \notin ReadOnly
  /\ data' = IF k * PG < size[a.f] THEN [data EXCEPT ![a.f] = Written(a, k)] ELSE data
  /\ UNCHANGED elk

(* ... or refused by ewrite() *)
WriteBackFails(p, a, k) ==
  /\ elk[a.f] = None /\ k * PG < size[a.f] /\ a.f \in ReadOnly
  /\ UNCHANGED <<data, elk>>

(* vma_unmap() of the pages lo .. hi - 1 of one area: they are written back *)
(* one by one, and nothing is unmapped if that fails.  A range over several *)
(* areas does the same to each.                                             *)
Munmap(p, i, lo, hi) ==
  LET a == area[p][i] IN
  /\ Idle(p) /\ a # None /\ a.lo <= lo /\ lo < hi /\ hi <= a.hi /\ Call
  /\ (a.lo < lo /\ hi < a.hi) => \E j \in Areas : area[p][j] = None
  /\ Goto(p, "unmap", [i |-> i, lo |-> lo, hi |-> hi, k |-> lo])
  /\ UNCHANGED <<files, elk, live, area, mem, history>>

UnmapPage(p) ==
  LET r == arg[p]  a == area[p][r.i] IN
  /\ pc[p] = "unmap" /\ r.k < r.hi
  /\ \/ /\ Needed(a, r.k) => WriteBack(p, a, r.k)
        /\ ~Needed(a, r.k) => UNCHANGED <<data, elk>>
        /\ Goto(p, "unmap", [r EXCEPT !.k = @ + 1])
     \/ Needed(a, r.k) /\ WriteBackFails(p, a, r.k) /\ Goto(p, "user", None)
  /\ UNCHANGED <<size, live, area, mem, last, crossed, calls>>

Cut(a, lo, hi) ==
  [a EXCEPT !.lo = lo, !.hi = hi, !.vend = Min({@, hi * PG}),
            !.pg = [k \in FilePages |-> IF lo <= k /\ k < hi THEN @[k] ELSE None]]

UnmapDone(p) ==
  LET r == arg[p]  a == area[p][r.i]
      head == IF a.lo < r.lo THEN Cut(a, a.lo, r.lo) ELSE None
      tail == IF r.hi < a.hi THEN Cut(a, r.hi, a.hi) ELSE None
      free == {j \in Areas : area[p][j] = None}
  IN
  /\ pc[p] = "unmap" /\ r.k = r.hi
  /\ area' = IF head # None /\ tail # None
             THEN [area EXCEPT ![p][r.i] = head, ![p][Min(free)] = tail]
             ELSE [area EXCEPT ![p][r.i] = IF head # None THEN head ELSE tail]
  /\ Goto(p, "user", None)
  /\ UNCHANGED <<files, elk, live, mem, history, calls>>
-----------------------------------------------------------------------------
(* exec() keeps the entry lock of the program from reading its header ... *)
Exec(p, f) ==
  /\ Idle(p) /\ elk[f] = None /\ Call
  /\ elk' = [elk EXCEPT ![f] = p] /\ Goto(p, "exec", None)
  /\ UNCHANGED <<files, live, area, mem, history>>

ExecFail(p) ==
  /\ pc[p] = "exec" /\ elk' = Unlocked(p) /\ Goto(p, "user", None)
  /\ UNCHANGED <<files, live, area, mem, history, calls>>

(* ... to the end of vma_destroy_all(), which exit() calls as well. *)
Destroy(p, q) == Goto(p, "destroy", [who |-> q, k |-> 0])

ExecCommit(p) ==
  /\ pc[p] = "exec" /\ Destroy(p, p)
  /\ UNCHANGED <<files, elk, live, area, mem, history, calls>>

Exit(p) ==
  /\ Idle(p) /\ p # Root /\ live' = live \ {p} /\ Destroy(p, p)
  /\ UNCHANGED <<files, elk, area, mem, history, calls>>

(* vma_fork(): the areas, and their resident pages.  Without memory for an  *)
(* entry the pages from area j, page k on are missing and the areas of the  *)
(* child are destroyed again, with np->lock held.                           *)
Fork(p, c) ==
  /\ Idle(p) /\ c \notin live /\ pc[c] = "user" /\ Call
  /\ live' = live \cup {c} /\ area' = [area EXCEPT ![c] = area[p]]
  /\ UNCHANGED <<files, elk, mem, pc, arg, history>>

ForkFail(p, c, j, k) ==
  /\ Idle(p) /\ c \notin live /\ pc[c] = "user" /\ Call
  /\ area[p][j] # None /\ area[p][j].pg[k] # None
  /\ area' = [area EXCEPT ![c] = [i \in Areas |->
       IF area[p][i] = None THEN None
       ELSE [area[p][i] EXCEPT !.pg = [m \in FilePages |->
               IF i < j \/ (i = j /\ m < k) THEN @[m] ELSE None]]]]
  /\ Destroy(p, c)
  /\ UNCHANGED <<files, elk, live, mem, history>>

(* vma_destroy_all(): the pages of the first area are written back, up to   *)
(* the first that fails, and the area goes.                                 *)
First(q) == Min({i \in Areas : area[q][i] # None})
Left(q) == \E i \in Areas : area[q][i] # None

DestroyPage(p) ==
  LET q == arg[p].who  a == area[q][First(q)]  k == Max({a.lo, arg[p].k}) IN
  /\ pc[p] = "destroy" /\ Left(q) /\ k < a.hi
  /\ \/ /\ Needed(a, k) => WriteBack(p, a, k)
        /\ ~Needed(a, k) => UNCHANGED <<data, elk>>
        /\ Goto(p, "destroy", [arg[p] EXCEPT !.k = k + 1])
     \/ /\ Needed(a, k) /\ WriteBackFails(p, a, k)
        /\ Goto(p, "destroy", [arg[p] EXCEPT !.k = a.hi])
  /\ UNCHANGED <<size, live, area, mem, last, crossed, calls>>

DestroyArea(p) ==
  LET q == arg[p].who IN
  /\ pc[p] = "destroy" /\ Left(q) /\ arg[p].k >= area[q][First(q)].hi
  /\ area' = [area EXCEPT ![q][First(q)] = None]
  /\ Goto(p, "destroy", [arg[p] EXCEPT !.k = 0])
  /\ UNCHANGED <<files, elk, live, mem, history, calls>>

DestroyDone(p) ==
  /\ pc[p] = "destroy" /\ ~Left(arg[p].who)
  /\ elk' = Unlocked(p) /\ Goto(p, "user", None)
  /\ UNCHANGED <<files, live, area, mem, history, calls>>

Next ==
  \E p \in Procs :
    \/ \E f \in Files :
         \/ \E lo \in FilePages, shared, w \in BOOLEAN :
              \E len \in 1 .. (NPG - lo) * PG : Mmap(p, f, lo, len, shared, w)
         \/ \E op \in {"read", "write"}, c \in Cells, b \in {None} \cup (Areas \X FilePages) :
              Io(p, op, f, c, b)
         \/ Exec(p, f)
    \/ \E i \in Areas, k \in FilePages :
         \/ Access(p, i, k)
         \/ \E hi \in k + 1 .. NPG : Munmap(p, i, k, hi)
         \/ \E c \in Procs : ForkFail(p, c, i, k)
    \/ \E i \in Areas, c \in Cells, v \in Vals : Store(p, i, c, v)
    \/ UserFault(p) \/ FaultFail(p) \/ CopyFault(p) \/ CopyFail(p) \/ ReadDone(p)
    \/ \E v \in Vals : WriteDone(p, v)
    \/ UnmapPage(p) \/ UnmapDone(p)
    \/ ExecFail(p) \/ ExecCommit(p) \/ Exit(p)
    \/ \E c \in Procs : Fork(p, c)
    \/ DestroyPage(p) \/ DestroyArea(p) \/ DestroyDone(p)

Spec == Init /\ [][Next]_vars
-----------------------------------------------------------------------------
(* A page of a file with one source of writes keeps what was last written:  *)
(* the frame while it is resident in a shared area, the file afterwards,    *)
(* whatever part of the area goes first and by which call; stores past the  *)
(* mapped length, past the end of the file and to private pages do not      *)
(* reach it.                                                                *)
ContentsKept ==
  \A f \in Files, c \in Cells :
    c < size[f] /\ <<f, PageOf(c)>> \notin crossed =>
      LET S == {s \in Sharers(f, PageOf(c)) : c < area[s[1]][s[2]].vend} IN
      IF S = {} \/ f \in ReadOnly THEN data[f][c] = last[f][c]
      ELSE \A s \in S : mem[area[s[1]][s[2]].pg[PageOf(c)]][c % PG] = last[f][c]

(* The file whose entry lock p waits for, or None. *)
Wanted(p) ==
  LET q == arg[p].who
      k == IF Left(q) THEN Max({area[q][First(q)].lo, arg[p].k}) ELSE 0
  IN CASE pc[p] = "fault" -> area[p][arg[p][1]].f
       [] Copying(p) /\ ~Resident(p) /\ Allowed(p) -> area[p][arg[p].b[1]].f
       [] pc[p] = "unmap" /\ arg[p].k < arg[p].hi ->
            IF Needed(area[p][arg[p].i], arg[p].k) THEN area[p][arg[p].i].f ELSE None
       [] pc[p] = "destroy" /\ Left(q) /\ k < area[q][First(q)].hi ->
            IF Needed(area[q][First(q)], k) THEN area[q][First(q)].f ELSE None
       [] OTHER -> None
Blocked(p) == Wanted(p) # None /\ elk[Wanted(p)] # None

(* A process in user space holds no entry lock, and one that has an entry   *)
(* lock waits for another, or for its own, only in a read() or write()     *)
(* whose buffer is mapped and not resident, or in an exec() that has areas  *)
(* to write back: munmap(), exit() and the faults of user code cannot be    *)
(* part of a cycle of waits.                                                *)
LocksReturned ==
  \A p \in Procs : Holds(p) =>
    pc[p] # "user" /\ (Blocked(p) => Copying(p) \/ pc[p] = "destroy")

MappingsUnlessCrossed == ContentsKept /\ LocksReturned
=============================================================================
