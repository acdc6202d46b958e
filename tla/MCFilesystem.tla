---------------------------- MODULE MCFilesystem ----------------------------
(***************************************************************************)
(* The parts of the file system, each on its own: the cache of directory   *)
(* entries under path names ("names"), the cluster chains of two files on  *)
(* a volume of three clusters ("chains"), the slots of one directory       *)
(* ("slots"), and the buffer cache in two sizes: three buffers for two     *)
(* blocks of one bucket with their contents ("data"), and three blocks of  *)
(* two buckets whose contents do not matter ("lists").  The buffers of     *)
(* "data" stay as binit() made them while another part runs.               *)
(***************************************************************************)
EXTENDS Bio, TLC

CONSTANTS Ents, Root, Dirs, NoEnt, MaxCalls, f1, f2, DataClus, BPC, MaxSlots

VARIABLES
  on,
  edisk, lru, ref, evalid, parent, obj, lock, epc, op, path, cur, held, seen,
  eparent, calls, panicked, eraced,
  fat, fdata, dent, ent, fodd,
  root, slot, doff, info, dodd,
  llist, lhand, lblockno, lvalid, lrefcnt, lreferenced, ldata, lowner, ldisk, lpc,
  lwant, lscan, lmine, lsweep, lraced, lstale

ecache == <<edisk, lru, ref, evalid, parent, obj, lock, epc, op, path, cur, held,
            seen, eparent, calls, panicked, eraced>>
chains == <<fat, fdata, dent, ent, fodd>>
slots == <<root, slot, doff, info, dodd>>
large == <<llist, lhand, lblockno, lvalid, lrefcnt, lreferenced, ldata, lowner,
           ldisk, lpc, lwant, lscan, lmine, lsweep, lraced, lstale>>
mcvars == <<on, ecache, chains, slots, large, vars>>

Sizes == f1 :> 5 @@ f2 :> 1
Parts == [a |-> 1, b |-> 2, c |-> 1]

E == INSTANCE Ecache WITH Names <- {"n"}, None <- NoEnt, disk <- edisk,
                          valid <- evalid, pc <- epc, raced <- eraced
F == INSTANCE Fat WITH Files <- {f1, f2}, Devs <- {"n"}, Major <- 2, FatEnts <- DataClus + 3,
                       Lens <- {1, 3}, MaxSize <- Sizes,
                       data <- fdata, odd <- fodd
S == INSTANCE Fdir WITH First <- "a", PerClus <- 4,
                        off <- doff, odd <- dodd

L == INSTANCE Bio WITH Blocks <- 0 .. 2, Vals <- {0}, list <- llist,
       hand <- lhand, blockno <- lblockno, valid <- lvalid, refcnt <- lrefcnt,
       referenced <- lreferenced, data <- ldata, owner <- lowner, disk <- ldisk,
       pc <- lpc, want <- lwant, scan <- lscan, mine <- lmine, sweep <- lsweep,
       raced <- lraced, stale <- lstale

(* The variables of the parts that do not run are 0. *)
EcacheOff ==
  /\ edisk = 0 /\ lru = 0 /\ ref = 0 /\ evalid = 0 /\ parent = 0 /\ obj = 0
  /\ lock = 0 /\ epc = 0 /\ op = 0 /\ path = 0 /\ cur = 0 /\ held = 0
  /\ seen = 0 /\ eparent = 0 /\ calls = 0 /\ panicked = 0 /\ eraced = 0
ChainsOff ==
  /\ fat = 0 /\ fdata = 0 /\ dent = 0 /\ ent = 0 /\ fodd = 0
SlotsOff ==
  /\ root = 0 /\ slot = 0 /\ doff = 0 /\ info = 0 /\ dodd = 0
LargeOff ==
  /\ llist = 0 /\ lhand = 0 /\ lblockno = 0 /\ lvalid = 0 /\ lrefcnt = 0
  /\ lreferenced = 0 /\ ldata = 0 /\ lowner = 0 /\ ldisk = 0 /\ lpc = 0
  /\ lwant = 0 /\ lscan = 0 /\ lmine = 0 /\ lsweep = 0 /\ lraced = 0 /\ lstale = 0

MCInit ==
  /\ Init
  /\ \/ on = "names" /\ E!Init /\ ChainsOff /\ SlotsOff /\ LargeOff
     \/ on = "chains" /\ F!Init /\ EcacheOff /\ SlotsOff /\ LargeOff
     \/ on = "slots" /\ S!Init /\ EcacheOff /\ ChainsOff /\ LargeOff
     \/ on = "lists" /\ L!Init /\ EcacheOff /\ ChainsOff /\ SlotsOff
     \/ on = "data" /\ EcacheOff /\ ChainsOff /\ SlotsOff /\ LargeOff

(* A part stops where its property has nothing more to say. *)
MCNext ==
  /\ UNCHANGED on
  /\ \/ on = "names" /\ ~eraced /\ E!Next /\ UNCHANGED <<chains, slots, large, vars>>
     \/ on = "chains" /\ F!Next /\ UNCHANGED <<ecache, slots, large, vars>>
     \/ on = "slots" /\ S!Next /\ UNCHANGED <<ecache, chains, large, vars>>
     \/ on = "lists" /\ L!Next /\ UNCHANGED <<ecache, chains, slots, vars>>
     \/ on = "data" /\ raced # Blocks /\ Next
        /\ UNCHANGED <<ecache, chains, slots, large>>

MCSpec == MCInit /\ [][MCNext]_mcvars

Symmetry == Permutations(Procs) \cup Permutations(Dirs)

(* With buffers that go from bucket to bucket and back: each is in one,    *)
(* once, or in the hands of the one bget() that moves it between buckets,  *)
(* a CLOCK hand stays in its bucket, and no buffer is recycled under a     *)
(* process that waits for it or uses it.                                   *)
ListsSound == on = "lists" => L!BuffersSound

(* The entry cache keeps its references exact and finds by a name only the *)
(* file of that name, unless two eput() of one entry overlapped.           *)
CacheSoundUnlessRaced == on = "names" => E!CacheSoundUnlessRaced

(* Files keep their clusters and read back what was written to them, until *)
(* the volume is full, a device node is truncated, or the power goes while *)
(* an entry is dirty.                                                      *)
FilesSoundUnlessTorn == on = "chains" => F!FilesSoundUnlessTorn

(* A directory finds and lists exactly its files through creations and     *)
(* removals, unless one is created in the first two slots of the root.     *)
DirSoundUnlessDot == on = "slots" => S!DirSoundUnlessDot
=============================================================================
