------------------------------ MODULE MCMemory ------------------------------
(***************************************************************************)
(* The page allocator (Kalloc), the allocator of small objects with device *)
(* buffers (Kmalloc), user address spaces (Vm) and mapped files (Mfile).   *)
(* Vm in three sizes: "cow", three generations that share one page;        *)
(* "fork", two processes with a heap and an area through fork() and        *)
(* exec(); "areas", one process that cuts and splits its areas.  Mfile     *)
(* too: "cells", an area that ends inside a page; "pages", areas of three  *)
(* pages that are split; "share", two processes and two files, one of      *)
(* them read-only.                                                         *)
(***************************************************************************)
EXTENDS Kalloc, TLC

CONSTANTS p1, p2, p3, fx, file, other, Frames, SlabPages, OBJS, MaxPages, MaxCalls

VARIABLES
  on,
  live, sz, pt, kpt, vmas, vquota, mem, ref, anon, vpc, at, fr, ch, npt, view,
  sview, forks, execs,
  sfree, slabs, magic, flist, spc, want, page, kbuf, pages, left, calls,
  fsize, fdata, elk, flive, area, fmem, fpc, arg, last, crossed, fcalls

C == INSTANCE Vm
       WITH Procs <- {p1, p2, p3}, Root <- p1, Objs <- {1}, MMAP_TOP <- 1, NVMA <- 1,
            Vals <- {0, 1}, Forks <- 2, Execs <- 0, quota <- vquota, pc <- vpc
F == INSTANCE Vm
       WITH Procs <- {p1, p2}, Root <- p1, Objs <- {1}, MMAP_TOP <- 2, NVMA <- 1,
            Vals <- {0, 1}, Forks <- 1, Execs <- 1, quota <- vquota, pc <- vpc
A == INSTANCE Vm
       WITH Procs <- {p1}, Root <- p1, Objs <- {1, 2}, MMAP_TOP <- 4, NVMA <- 2,
            Frames <- {fx}, Vals <- {0}, Forks <- 0, Execs <- 0, quota <- vquota,
            pc <- vpc

K == INSTANCE Kmalloc WITH Pages <- SlabPages, free <- sfree, pc <- spc

Mc == INSTANCE Mfile
        WITH Procs <- {p1}, Root <- p1, Files <- {file}, ReadOnly <- {}, PG <- 2, NPG <- 2,
             InitSize <- 3, Frames <- {1, 2}, NVMA <- 1, Vals <- {0, 1}, MaxCalls <- 3,
             size <- fsize, data <- fdata, live <- flive, mem <- fmem, pc <- fpc,
             calls <- fcalls
Mp == INSTANCE Mfile
        WITH Procs <- {p1}, Root <- p1, Files <- {file}, ReadOnly <- {}, PG <- 1, NPG <- 3,
             InitSize <- 2, Frames <- {1, 2}, NVMA <- 2, Vals <- {0, 1}, MaxCalls <- 2,
             size <- fsize, data <- fdata, live <- flive, mem <- fmem, pc <- fpc,
             calls <- fcalls
Ms == INSTANCE Mfile
        WITH Procs <- {p1, p2}, Root <- p1, Files <- {file, other}, ReadOnly <- {other},
             PG <- 1, NPG <- 1, InitSize <- 1, Frames <- {1, 2}, NVMA <- 1,
             Vals <- {0, 1}, MaxCalls <- 4, size <- fsize, data <- fdata, live <- flive,
             mem <- fmem, pc <- fpc, calls <- fcalls

fvars == <<fsize, fdata, elk, flive, area, fmem, fpc, arg, last, crossed, fcalls>>
kvars == <<sfree, slabs, magic, flist, spc, want, page, kbuf, pages, left, calls>>
vvars == <<live, sz, pt, kpt, vmas, vquota, mem, ref, anon, vpc, at, fr, ch, npt,
           view, sview, forks, execs>>

MCInit ==
  /\ \/ on \in {"kalloc", "slabs", "cow", "cells", "pages", "share"} /\ C!Init
     \/ on = "fork" /\ F!Init
     \/ on = "areas" /\ A!Init
  /\ \/ on = "cells" /\ Mc!Init
     \/ on = "pages" /\ Mp!Init
     \/ on \notin {"cells", "pages"} /\ Ms!Init
  /\ K!Init /\ Init /\ (on # "kalloc" => free[0] = Pages)

MCNext ==
  /\ UNCHANGED on
  /\ \/ on = "kalloc" /\ Next /\ UNCHANGED <<vvars, kvars, fvars>>
     \/ on = "slabs" /\ K!Next /\ UNCHANGED <<vars, vvars, fvars>>
     \/ on = "cow" /\ C!Next /\ UNCHANGED <<vars, kvars, fvars>>
     \/ on = "fork" /\ F!Next /\ UNCHANGED <<vars, kvars, fvars>>
     \/ on = "areas" /\ A!Next /\ UNCHANGED <<vars, kvars, fvars>>
     \/ on = "cells" /\ Mc!Next /\ UNCHANGED <<vars, vvars, kvars>>
     \/ on = "pages" /\ Mp!Next /\ UNCHANGED <<vars, vvars, kvars>>
     \/ on = "share" /\ Ms!Next /\ UNCHANGED <<vars, vvars, kvars>>

MCSpec == MCInit /\ [][MCNext]_<<on, vars, vvars, kvars, fvars>>

Symmetry == Permutations(Frames)

(* cow_quota counts the references to a page and refcnt the areas that use *)
(* an object, through all failures of fork(), exec() and munmap(); an      *)
(* object of kmalloc() is free or in one hand, and no page stays behind    *)
(* when buffers go or could not be made.  The kernel page table of a       *)
(* process agrees with the user's.                                         *)
PagesExact ==
  /\ on = "slabs" => K!SlabsSound
  /\ on = "cow" => C!TypeOK /\ C!QuotaExact /\ C!KernelMirror
  /\ on = "fork" => F!TypeOK /\ F!QuotaExact /\ F!ObjectsCounted /\ F!KernelMirror
  /\ on = "areas" => A!TypeOK /\ A!QuotaExact /\ A!ObjectsCounted /\ A!KernelMirror

(* Processes do not meet where they should not: a private page reads as    *)
(* its process last wrote it and a shared one as anybody last wrote it;    *)
(* heap and mmap areas do not overlap, and mmap() takes the highest room   *)
(* that is left.                                                           *)
Isolation ==
  /\ on = "cow" => C!Isolation
  /\ on = "fork" => F!Isolation /\ F!AreasDisjoint
  /\ on = "areas" => A!AreasDisjoint /\ A!HighestFit

(* What remains of an area after munmap() keeps its pages of the object. *)
BackingStays == [][on = "areas" => A!BackingKept]_vvars

(* A page of a mapped file with one source of writes keeps what was last   *)
(* written, in memory or in the file, and munmap(), exit() and user faults *)
(* hold no entry lock while they wait for one.                             *)
MappingsUnlessCrossed ==
  /\ on = "cells" => Mc!MappingsUnlessCrossed
  /\ on = "pages" => Mp!MappingsUnlessCrossed
  /\ on = "share" => Ms!MappingsUnlessCrossed
=============================================================================
