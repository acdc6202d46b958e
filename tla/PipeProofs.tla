----------------------------- MODULE PipeProofs -----------------------------
(***************************************************************************)
(* Proofs about module Pipe, for every set of processes, every ring size   *)
(* and every counter width that is a multiple of the ring size.            *)
(***************************************************************************)
EXTENDS Pipe, TLAPS

(* Time for each leaf. *)
USE SMTT(30), Z3T(30), Zenon, SMTT(31)

(* Unsigned subtraction: the difference of two counters of the same width. *)
LEMMA UintSub ==
  ASSUME NEW m \in Nat, m > 0, NEW a \in 0 .. m - 1, NEW b \in 0 .. m - 1
  PROVE  (a - b) % m = IF a >= b THEN a - b ELSE a - b + m
  BY Z3

(* Unsigned increment, as in pi->nwrite++ (pipe.c:96). *)
LEMMA UintInc ==
  ASSUME NEW m \in Nat, m > 0, NEW a \in 0 .. m - 1
  PROVE  (a + 1) % m = IF a + 1 = m THEN 0 ELSE a + 1
  BY Z3

(* Unsigned addition, of less than the width. *)
LEMMA UintAdd ==
  ASSUME NEW m \in Nat, m > 0, NEW a \in 0 .. m - 1, NEW k \in 0 .. m - 1
  PROVE  (a + k) % m = IF a + k < m THEN a + k ELSE a + k - m
  BY Z3

(* The index nwrite % PIPESIZE is inside data[] (pipe.c:96). *)
LEMMA RingIndex ==
  ASSUME NEW a \in Nat
  PROVE  a % PIPESIZE \in 0 .. PIPESIZE - 1
  BY PipeAssumption, Z3

(***************************************************************************)
(* The type invariant of the pipe: counters stay unsigned ints, the count  *)
(* of a transfer never passes what was asked for, every process is at a    *)
(* line of pipe.c.                                                         *)
(***************************************************************************)
LEMMA InitType == Init => TypeOK
<1> SUFFICES ASSUME Init PROVE TypeOK
  BY Zenon
<1>1. readopen \in BOOLEAN /\ writeopen \in BOOLEAN /\ freed \in BOOLEAN
  BY Zenon DEF Init
<1> QED BY <1>1, PipeAssumption, SMT DEF Init, TypeOK, Pcs

(* Every step of a system call keeps the types. *)
LEMMA TypeStep == TypeOK /\ [Next]_vars => TypeOK'
<1> SUFFICES ASSUME TypeOK, [Next]_vars PROVE TypeOK'
  BY Zenon
<1>0. i \in [Procs -> 0 .. MaxCount] /\ n \in [Procs -> 0 .. MaxCount]
  BY Zenon DEF TypeOK
<1> USE PipeAssumption DEF TypeOK, Pcs, WritePcs, ReadPcs, ClosePcs
<1>1. CASE UNCHANGED vars
  BY <1>1, Zenon DEF vars
<1>2. ASSUME NEW p \in Procs,
             \/ WriteCall(p) \/ ReadCall(p) \/ CloseWriteFd(p) \/ CloseReadFd(p)
             \/ Kernel(p) \/ Acquires(p) \/ SignalProc(p) \/ Deliver(p)
      PROVE TypeOK'
  <2>1. CASE WriteCall(p)
    BY <2>1, SMTT(60) DEF WriteCall, Goto, ring, ends
  <2>2. CASE ReadCall(p)
    BY <2>2, SMTT(60) DEF ReadCall, Goto, ring, ends
  <2>3. CASE CloseWriteFd(p)
    BY <2>3, Zenon DEF CloseWriteFd, Goto, ring, ends
  <2>4. CASE CloseReadFd(p)
    BY <2>4, Zenon DEF CloseReadFd, Goto, ring, ends
  <2>5. CASE WriteFull(p)
    BY <2>5, Zenon DEF WriteFull, SleepOrInterrupt, WakeReaders, ring, ends
  <2>6. CASE WriteBroken(p)
    BY <2>6 DEF WriteBroken, Return, Goto, ring, ends
  <2>7. CASE WriteByte(p)
    <3>1. nwrite' \in 0 .. UINT - 1
      BY <2>7, UintInc DEF WriteByte
    <3>2. data' \in [0 .. PIPESIZE - 1 -> Byte]
      BY <2>7, RingIndex, Zenon DEF WriteByte
    <3>a. i[p] < n[p] /\ i' = [i EXCEPT ![p] = i[p] + 1]
      BY <2>7, Zenon DEF WriteByte
    <3> HIDE DEF TypeOK
    <3>3. i' \in [Procs -> 0 .. MaxCount]
      BY <1>0, <3>a
    <3> QED BY <2>7, <3>1, <3>2, <3>3, Zenon DEF WriteByte, ends, TypeOK
  <2>8. CASE WriteDone(p)
    BY <2>8 DEF WriteDone, WakeReaders, Return, ring, ends
  <2>9. CASE ReadEmpty(p)
    BY <2>9, Zenon DEF ReadEmpty, SleepOrInterrupt, Goto, ring, ends
  <2>10. CASE ReadReady(p)
    BY <2>10, Zenon DEF ReadReady, Goto, ring, ends
  <2>11. CASE ReadByte(p)
    <3>1. nread' \in 0 .. UINT - 1
      BY <2>11, UintInc DEF ReadByte
    <3>a. i[p] < n[p] /\ i' = [i EXCEPT ![p] = i[p] + 1]
      BY <2>11, Zenon DEF ReadByte
    <3> HIDE DEF TypeOK
    <3>2. i' \in [Procs -> 0 .. MaxCount]
      BY <1>0, <3>a
    <3> QED BY <2>11, <3>1, <3>2, Zenon DEF ReadByte, ends, TypeOK
  <2>12. CASE ReadDone(p)
    BY <2>12 DEF ReadDone, WakeWriters, Return, ring, ends
  <2>13. CASE ReadFault(p)
    BY <2>13, UintInc, SMTT(60) DEF ReadFault, WakeWriters, Return, ends
  <2>14. CASE Resume(p)
    BY <2>14, Zenon DEF Resume, Goto, ring, ends
  <2>15. CASE Lock(p)
    BY <2>15, Zenon DEF Lock, Goto, ring, ends
  <2>16. CASE Relock(p)
    <3>1. ret' \in [Procs -> -1 .. MaxCount]
      BY <2>16 DEF Relock, Return
    <3> HIDE DEF TypeOK
    <3>2. \/ i' = i /\ n' = n
          \/ i' = [i EXCEPT ![p] = 0] /\ n' = [n EXCEPT ![p] = 0]
      BY <2>16, Zenon DEF Relock, Return
    <3>3. /\ i' \in [Procs -> 0 .. MaxCount]
          /\ n' \in [Procs -> 0 .. MaxCount]
      BY <1>0, <3>2
    <3>4. \/ pc' = [pc EXCEPT ![p] = "user"]
          \/ pc' = [pc EXCEPT ![p] = "w_loop"]
          \/ pc' = [pc EXCEPT ![p] = "r_wait"]
      BY <2>16, Zenon DEF Relock, Goto
    <3> QED BY <2>16, <3>1, <3>3, <3>4, Zenon DEF Relock, ring, ends, TypeOK
  <2>17. CASE PipeCloseWrite(p)
    BY <2>17, Zenon DEF PipeCloseWrite, WakeReaders, ring
  <2>18. CASE PipeCloseRead(p)
    BY <2>18, Zenon DEF PipeCloseRead, WakeWriters, ring
  <2>19. CASE SignalProc(p)
    BY <2>19, Zenon DEF SignalProc, ring, ends
  <2>20. CASE Deliver(p)
    BY <2>20, Zenon DEF Deliver, ring, ends
  <2> QED
    BY <1>2, <2>1, <2>2, <2>3, <2>4, <2>5, <2>6, <2>7, <2>8, <2>9, <2>10, <2>11,
       <2>12,
       <2>13, <2>14, <2>15, <2>16, <2>17, <2>18, <2>19, <2>20, Zenon DEF Kernel, Acquires
<1> QED BY <1>1, <1>2, Zenon DEF Next

(* Every reachable state of the pipe is well typed. *)
THEOREM TypeCorrect == Spec => []TypeOK
<1>1. Init => TypeOK
  BY InitType, Zenon
<1> QED BY <1>1, TypeStep, PTL DEF Spec

(* A step that does not move a counter keeps the distance between them. *)
LEMMA BoundedStep == TypeOK /\ RingBounded /\ [Next]_vars => RingBounded'
<1> SUFFICES ASSUME TypeOK, RingBounded, [Next]_vars PROVE RingBounded'
  BY Zenon
<1>u. UINT \in Nat /\ UINT > 0 /\ PIPESIZE \in 0 .. UINT - 1
  BY PipeAssumption
<1>t. nread \in 0 .. UINT - 1 /\ nwrite \in 0 .. UINT - 1
  BY Zenon DEF TypeOK
<1>1. CASE UNCHANGED <<nread, nwrite>>
  BY <1>1, Zenon DEF RingBounded, Used
<1>2. ASSUME nwrite' = (nwrite + 1) % UINT, nread' = nread, ~Full
      PROVE  RingBounded'
  <2>1. nwrite' \in 0 .. UINT - 1
    BY <1>2, <1>u, <1>t, UintInc
  <2>2. (nwrite' - nread) % UINT
          = IF nwrite' >= nread THEN nwrite' - nread ELSE nwrite' - nread + UINT
    BY <2>1, <1>u, <1>t, UintSub, Zenon
  <2>3. Used = IF nwrite >= nread THEN nwrite - nread ELSE nwrite - nread + UINT
    BY <1>u, <1>t, UintSub, Zenon DEF Used
  <2>4. nwrite # (IF nread + PIPESIZE < UINT THEN nread + PIPESIZE
                                            ELSE nread + PIPESIZE - UINT)
    BY <1>2, <1>u, <1>t, UintAdd, Zenon DEF Full
  <2>5. nwrite' = IF nwrite + 1 = UINT THEN 0 ELSE nwrite + 1
    BY <1>2, <1>u, <1>t, UintInc, Zenon
  <2>6. (nwrite' - nread) % UINT <= PIPESIZE
    BY <2>2, <2>3, <2>4, <2>5, <1>u, <1>t DEF RingBounded
  <2> QED BY <2>6, <1>2, Zenon DEF RingBounded, Used
<1>3. ASSUME nread' = (nread + 1) % UINT, nwrite' = nwrite, nread # nwrite
      PROVE  RingBounded'
  <2>1. nread' = IF nread + 1 = UINT THEN 0 ELSE nread + 1
    BY <1>3, <1>u, <1>t, UintInc, Zenon
  <2>2. nread' \in 0 .. UINT - 1
    BY <2>1, <1>u, <1>t
  <2>3. (nwrite - nread') % UINT
          = IF nwrite >= nread' THEN nwrite - nread' ELSE nwrite - nread' + UINT
    BY <2>2, <1>u, <1>t, UintSub, Zenon
  <2>4. Used = IF nwrite >= nread THEN nwrite - nread ELSE nwrite - nread + UINT
    BY <1>u, <1>t, UintSub, Zenon DEF Used
  <2>5. (nwrite - nread') % UINT <= PIPESIZE
    BY <2>1, <2>3, <2>4, <1>3, <1>u, <1>t DEF RingBounded
  <2> QED BY <2>5, <1>3, Zenon DEF RingBounded, Used
<1>4. \/ UNCHANGED <<nread, nwrite>>
      \/ nwrite' = (nwrite + 1) % UINT /\ nread' = nread /\ ~Full
      \/ nread' = (nread + 1) % UINT /\ nwrite' = nwrite /\ nread # nwrite
  BY DEF Next, vars, ring, Kernel, Acquires, WriteCall, ReadCall, CloseWriteFd,
     CloseReadFd, WriteFull, WriteBroken, WriteByte, WriteDone, ReadEmpty,
     ReadReady, ReadByte, ReadDone, ReadFault, Resume, Lock, Relock,
     PipeCloseWrite, PipeCloseRead, SignalProc, Deliver
<1> QED BY <1>1, <1>2, <1>3, <1>4, Zenon

(***************************************************************************)
(* The test nwrite == nread + PIPESIZE (pipe.c:80) keeps the ring from     *)
(* being overrun for every ring size and every counter width, wrapped      *)
(* counters included.                                                      *)
(***************************************************************************)
THEOREM RingNeverOverrun == Spec => []RingBounded
<1>1. Init => TypeOK /\ RingBounded
  <2>1. Init => TypeOK
    BY InitType, Zenon
  <2>2. 0 % UINT = 0
    BY PipeAssumption, Z3
  <2> QED BY <2>1, <2>2, PipeAssumption DEF Init, RingBounded, Used
<1>2. TypeOK /\ RingBounded /\ [Next]_vars => TypeOK' /\ RingBounded'
  BY TypeStep, BoundedStep, Zenon
<1> QED BY <1>1, <1>2, PTL DEF Spec
-----------------------------------------------------------------------------
(***************************************************************************)
(* For any number of readers and writers nobody sleeps on a pipe that      *)
(* could serve it, and the page of the pipe is given back when nobody is   *)
(* inside any more.                                                        *)
(***************************************************************************)
(* pi->lock is held by whoever is in one of the loops. *)
Owner == \A p \in Procs : lock = p <=> pc[p] \in {"w_loop", "r_wait", "r_copy"}

(* Who is inside has a descriptor; an end is open while one is left, and   *)
(* until the process that closed the last one has called pipeclose().      *)
Ends ==
  /\ \A p \in Procs :
       /\ pc[p] \in WritePcs => p \in wfd
       /\ pc[p] \in ReadPcs => p \in rfd
       /\ pc[p] = "c_write" => writeopen /\ wfd = {}
       /\ pc[p] = "c_read" => readopen /\ rfd = {}
  /\ \A p, q \in Procs :
       pc[p] = pc[q] /\ pc[p] \in {"c_write", "c_read"} => p = q
  /\ wfd # {} => writeopen
  /\ rfd # {} => readopen
  /\ freed => ~readopen /\ ~writeopen

(* A sleeper's condition holds, or a process that will wake it is inside. *)
Sleepers ==
  \A p \in Procs :
    /\ pc[p] = "r_sleep" =>
         writeopen /\ (nread = nwrite \/ \E q \in Procs : pc[q] = "w_loop")
    /\ pc[p] = "w_sleep" =>
         readopen /\ (Full \/ \E q \in Procs : pc[q] = "r_copy")

ServeInv == TypeOK /\ Owner /\ Ends /\ Sleepers

(* pipealloc(): both ends are open and nobody is inside. *)
LEMMA InitServe == Init => ServeInv
<1> SUFFICES ASSUME Init PROVE ServeInv
  BY Zenon
<1>1. TypeOK
  BY InitType, Zenon
<1>2. Owner
  BY PipeAssumption, Zenon DEF Init, Owner
<1>3. readopen /\ writeopen /\ ~freed
  BY Zenon DEF Init
<1>4. Ends
  BY <1>3, Zenon DEF Init, Ends, WritePcs, ReadPcs
<1>5. Sleepers
  BY Zenon DEF Init, Sleepers
<1> QED BY <1>1, <1>2, <1>4, <1>5, Zenon DEF ServeInv

(* pi->lock changes hands as acquire(), release() and sleep() say. *)
LEMMA OwnerStep ==
  ASSUME ServeInv, NEW p \in Procs,
         \/ WriteCall(p) \/ ReadCall(p) \/ CloseWriteFd(p) \/ CloseReadFd(p)
         \/ Kernel(p) \/ Acquires(p) \/ SignalProc(p) \/ Deliver(p)
  PROVE  Owner'
<1>t. pc \in [Procs -> Pcs] /\ lock \in Procs \cup {None} /\ None \notin Procs
  BY PipeAssumption, Zenon DEF ServeInv, TypeOK
<1>o. \A q \in Procs : lock = q <=> pc[q] \in {"w_loop", "r_wait", "r_copy"}
  BY Zenon DEF ServeInv, Owner
<1>1. CASE WriteCall(p)
  BY <1>t, <1>o, <1>1, Zenon DEF WriteCall, Goto, Owner
<1>2. CASE ReadCall(p)
  BY <1>t, <1>o, <1>2, Zenon DEF ReadCall, Goto, Owner
<1>3. CASE CloseWriteFd(p)
  BY <1>t, <1>o, <1>3, Zenon DEF CloseWriteFd, Goto, Owner
<1>4. CASE CloseReadFd(p)
  BY <1>t, <1>o, <1>4, Zenon DEF CloseReadFd, Goto, Owner
<1>5. CASE WriteFull(p)
  BY <1>t, <1>o, <1>5, Zenon DEF WriteFull, SleepOrInterrupt, WakeReaders, Owner
<1>6. CASE WriteBroken(p)
  BY <1>t, <1>o, <1>6, Zenon DEF WriteBroken, Goto, Owner
<1>7. CASE WriteByte(p)
  BY <1>t, <1>o, <1>7, Zenon DEF WriteByte, Owner
<1>8. CASE WriteDone(p)
  BY <1>t, <1>o, <1>8, Zenon DEF WriteDone, WakeReaders, Owner
<1>9. CASE ReadEmpty(p)
  BY <1>t, <1>o, <1>9, Zenon DEF ReadEmpty, SleepOrInterrupt, Goto, Owner
<1>10. CASE ReadReady(p)
  BY <1>t, <1>o, <1>10, Zenon DEF ReadReady, Goto, Owner
<1>11. CASE ReadByte(p)
  BY <1>t, <1>o, <1>11, Zenon DEF ReadByte, Owner
<1>12. CASE ReadDone(p)
  BY <1>t, <1>o, <1>12, Zenon DEF ReadDone, WakeWriters, Owner
<1>13. CASE ReadFault(p)
  BY <1>t, <1>o, <1>13, Zenon DEF ReadFault, WakeWriters, Owner
<1>14. CASE Resume(p)
  BY <1>t, <1>o, <1>14, Zenon DEF Resume, Goto, Owner
<1>15. CASE Lock(p)
  BY <1>t, <1>o, <1>15, Zenon DEF Lock, Goto, Owner
<1>16. CASE Relock(p)
  BY <1>t, <1>o, <1>16 DEF Relock, Goto, Owner
<1>17. CASE PipeCloseWrite(p)
  BY <1>t, <1>o, <1>17, Zenon DEF PipeCloseWrite, WakeReaders, Owner
<1>18. CASE PipeCloseRead(p)
  BY <1>t, <1>o, <1>18, Zenon DEF PipeCloseRead, WakeWriters, Owner
<1>19. CASE SignalProc(p)
  BY <1>t, <1>o, <1>19, Zenon DEF SignalProc, Owner
<1>20. CASE Deliver(p)
  BY <1>t, <1>o, <1>20, Zenon DEF Deliver, Owner
<1> QED BY <1>1, <1>2, <1>3, <1>4, <1>5, <1>6, <1>7, <1>8, <1>9, <1>10, <1>11,
           <1>12, <1>13, <1>14, <1>15, <1>16, <1>17, <1>18, <1>19, <1>20,
           Zenon DEF Kernel, Acquires

(* Descriptors and open ends stay in step, whoever closes while others are *)
(* inside.                                                                 *)
LEMMA EndsStep ==
  ASSUME ServeInv, NEW p \in Procs,
         \/ WriteCall(p) \/ ReadCall(p) \/ CloseWriteFd(p) \/ CloseReadFd(p)
         \/ Kernel(p) \/ Acquires(p) \/ SignalProc(p) \/ Deliver(p)
  PROVE  Ends'
<1>t. pc \in [Procs -> Pcs]
  BY Zenon DEF ServeInv, TypeOK
<1>e. Ends
  BY Zenon DEF ServeInv
<1>1. CASE WriteCall(p)
  BY <1>t, <1>e, <1>1, Zenon DEF WriteCall, Goto, Ends, ends, WritePcs, ReadPcs
<1>2. CASE ReadCall(p)
  BY <1>t, <1>e, <1>2, Zenon DEF ReadCall, Goto, Ends, ends, WritePcs, ReadPcs
<1>3. CASE CloseWriteFd(p)
  BY <1>t, <1>e, <1>3, Zenon DEF CloseWriteFd, Goto, Ends, ends, WritePcs, ReadPcs
<1>4. CASE CloseReadFd(p)
  BY <1>t, <1>e, <1>4, Zenon DEF CloseReadFd, Goto, Ends, ends, WritePcs, ReadPcs
<1>5. CASE WriteFull(p)
  BY <1>t, <1>e, <1>5, Zenon DEF WriteFull, SleepOrInterrupt, WakeReaders, Ends,
     ends, WritePcs, ReadPcs
<1>6. CASE WriteBroken(p)
  BY <1>t, <1>e, <1>6, Zenon DEF WriteBroken, Goto, Ends, ends, WritePcs, ReadPcs
<1>7. CASE WriteByte(p)
  BY <1>t, <1>e, <1>7, Zenon DEF WriteByte, Ends, ends, WritePcs, ReadPcs
<1>8. CASE WriteDone(p)
  BY <1>t, <1>e, <1>8, Zenon DEF WriteDone, WakeReaders, Ends, ends, WritePcs,
     ReadPcs
<1>9. CASE ReadEmpty(p)
  BY <1>t, <1>e, <1>9, Zenon DEF ReadEmpty, SleepOrInterrupt, Goto, Ends, ends,
     WritePcs, ReadPcs
<1>10. CASE ReadReady(p)
  BY <1>t, <1>e, <1>10, Zenon DEF ReadReady, Goto, Ends, ends, WritePcs, ReadPcs
<1>11. CASE ReadByte(p)
  BY <1>t, <1>e, <1>11, Zenon DEF ReadByte, Ends, ends, WritePcs, ReadPcs
<1>12. CASE ReadDone(p)
  BY <1>t, <1>e, <1>12, Zenon DEF ReadDone, WakeWriters, Ends, ends, WritePcs,
     ReadPcs
<1>13. CASE ReadFault(p)
  BY <1>t, <1>e, <1>13, Zenon DEF ReadFault, WakeWriters, Ends, ends, WritePcs,
     ReadPcs
<1>14. CASE Resume(p)
  BY <1>t, <1>e, <1>14, Zenon DEF Resume, Goto, Ends, ends, WritePcs, ReadPcs
<1>15. CASE Lock(p)
  BY <1>t, <1>e, <1>15, Zenon DEF Lock, Goto, Ends, ends, WritePcs, ReadPcs
<1>16. CASE Relock(p)
  BY <1>t, <1>e, <1>16 DEF Relock, Goto, Ends, ends, WritePcs, ReadPcs
<1>17. CASE PipeCloseWrite(p)
  BY <1>t, <1>e, <1>17, Zenon DEF PipeCloseWrite, WakeReaders, Ends, ends,
     WritePcs, ReadPcs
<1>18. CASE PipeCloseRead(p)
  BY <1>t, <1>e, <1>18, Zenon DEF PipeCloseRead, WakeWriters, Ends, ends,
     WritePcs, ReadPcs
<1>19. CASE SignalProc(p)
  BY <1>t, <1>e, <1>19 DEF SignalProc, Ends, ends, WritePcs, ReadPcs
<1>20. CASE Deliver(p)
  BY <1>t, <1>e, <1>20, Zenon DEF Deliver, Ends, ends, WritePcs, ReadPcs
<1> QED BY <1>1, <1>2, <1>3, <1>4, <1>5, <1>6, <1>7, <1>8, <1>9, <1>10, <1>11,
           <1>12, <1>13, <1>14, <1>15, <1>16, <1>17, <1>18, <1>19, <1>20,
           Zenon DEF Kernel, Acquires

(* Whoever makes a sleeper's condition true wakes it before it lets go of  *)
(* pi->lock.                                                               *)
LEMMA SleepersStep ==
  ASSUME ServeInv, NEW p \in Procs,
         \/ WriteCall(p) \/ ReadCall(p) \/ CloseWriteFd(p) \/ CloseReadFd(p)
         \/ Kernel(p) \/ Acquires(p) \/ SignalProc(p) \/ Deliver(p)
  PROVE  Sleepers'
<1>t. pc \in [Procs -> Pcs]
  BY Zenon DEF ServeInv, TypeOK
<1>o. \A q \in Procs : lock = q <=> pc[q] \in {"w_loop", "r_wait", "r_copy"}
  BY Zenon DEF ServeInv, Owner
<1>r. ~readopen => \A q \in Procs : pc[q] \notin {"r_sleep", "r_wait", "r_copy"}
  BY Zenon DEF ServeInv, Ends, ReadPcs
<1>s. Sleepers
  BY Zenon DEF ServeInv
<1>1. CASE WriteCall(p)
  BY <1>t, <1>o, <1>s, <1>1, Zenon DEF WriteCall, Goto, Sleepers, ends, ring, Full
<1>2. CASE ReadCall(p)
  BY <1>t, <1>o, <1>s, <1>2, Zenon DEF ReadCall, Goto, Sleepers, ends, ring, Full
<1>3. CASE CloseWriteFd(p)
  BY <1>t, <1>o, <1>s, <1>3, Zenon DEF CloseWriteFd, Goto, Sleepers, ends, ring,
     Full
<1>4. CASE CloseReadFd(p)
  BY <1>t, <1>o, <1>s, <1>4, Zenon DEF CloseReadFd, Goto, Sleepers, ends, ring, Full
<1>5. CASE WriteFull(p)
  BY <1>t, <1>o, <1>s, <1>5, Zenon DEF WriteFull, SleepOrInterrupt, WakeReaders,
     Sleepers, ends, ring, Full
<1>6. CASE WriteBroken(p)
  BY <1>t, <1>o, <1>r, <1>s, <1>6, Zenon DEF WriteBroken, Goto, Sleepers, ends,
     ring, Full
<1>7. CASE WriteByte(p)
  BY <1>t, <1>o, <1>s, <1>7, Zenon DEF WriteByte, Sleepers, ends, ring, Full
<1>8. CASE WriteDone(p)
  BY <1>t, <1>o, <1>s, <1>8, Zenon DEF WriteDone, WakeReaders, Sleepers, ends,
     ring, Full
<1>9. CASE ReadEmpty(p)
  BY <1>t, <1>o, <1>s, <1>9, Zenon DEF ReadEmpty, SleepOrInterrupt, Goto,
     Sleepers, ends, ring, Full
<1>10. CASE ReadReady(p)
  BY <1>t, <1>o, <1>s, <1>10, Zenon DEF ReadReady, Goto, Sleepers, ends, ring, Full
<1>11. CASE ReadByte(p)
  BY <1>t, <1>o, <1>s, <1>11, Zenon DEF ReadByte, Sleepers, ends, ring, Full
<1>12. CASE ReadDone(p)
  BY <1>t, <1>o, <1>s, <1>12, Zenon DEF ReadDone, WakeWriters, Sleepers, ends,
     ring, Full
<1>13. CASE ReadFault(p)
  BY <1>t, <1>o, <1>s, <1>13, Zenon DEF ReadFault, WakeWriters, Sleepers, ends,
     ring, Full
<1>14. CASE Resume(p)
  BY <1>t, <1>o, <1>s, <1>14, Zenon DEF Resume, Goto, Sleepers, ends, ring, Full
<1>15. CASE Lock(p)
  BY <1>t, <1>o, <1>s, <1>15, Zenon DEF Lock, Goto, Sleepers, ends, ring, Full
<1>16. CASE Relock(p)
  BY <1>t, <1>o, <1>s, <1>16 DEF Relock, Goto, Sleepers, ends, ring, Full
<1>17. CASE PipeCloseWrite(p)
  BY <1>t, <1>o, <1>s, <1>17, Zenon DEF PipeCloseWrite, WakeReaders, Sleepers,
     ends, ring, Full
<1>18. CASE PipeCloseRead(p)
  BY <1>t, <1>o, <1>s, <1>18, Zenon DEF PipeCloseRead, WakeWriters, Sleepers,
     ends, ring, Full
<1>19. CASE SignalProc(p)
  BY <1>t, <1>o, <1>s, <1>19, Zenon DEF SignalProc, Sleepers, ends, ring, Full
<1>20. CASE Deliver(p)
  BY <1>t, <1>o, <1>s, <1>20, Zenon DEF Deliver, Sleepers, ends, ring, Full
<1> QED BY <1>1, <1>2, <1>3, <1>4, <1>5, <1>6, <1>7, <1>8, <1>9, <1>10, <1>11,
           <1>12, <1>13, <1>14, <1>15, <1>16, <1>17, <1>18, <1>19, <1>20,
           Zenon DEF Kernel, Acquires

(* Every step, in a system call or outside. *)
LEMMA ServeStep == ServeInv /\ [Next]_vars => ServeInv'
<1> SUFFICES ASSUME ServeInv, [Next]_vars PROVE ServeInv'
  BY Zenon
<1>1. TypeOK'
  BY TypeStep, Zenon DEF ServeInv
<1>2. CASE UNCHANGED vars
  BY <1>1, <1>2, Zenon DEF vars, ring, ends, ServeInv, Owner, Ends, Sleepers, Full
<1>3. CASE Next
  BY <1>1, <1>3, OwnerStep, EndsStep, SleepersStep, Zenon DEF Next, ServeInv
<1> QED BY <1>2, <1>3, Zenon

(* A free lock leaves no process that would still wake a sleeper, and a    *)
(* freed pipe has both ends closed, so nobody inside.                      *)
LEMMA ServeMeaning == ServeInv => PipeServes
<1> SUFFICES ASSUME ServeInv PROVE PipeServes
  BY Zenon
<1>t. TypeOK /\ None \notin Procs
  BY PipeAssumption, Zenon DEF ServeInv
<1>1. NoStrandedSleeper
  BY <1>t, Zenon DEF ServeInv, Owner, Sleepers, NoStrandedSleeper
<1>2. NoUseAfterFree
  <2> SUFFICES ASSUME freed PROVE \A p \in Procs : pc[p] = "user" /\ lock = None
    BY Zenon DEF NoUseAfterFree
  <2>1. \A p \in Procs : pc[p] = "user"
    BY <1>t, Zenon DEF ServeInv, Ends, TypeOK, Pcs, ClosePcs
  <2>2. lock \notin Procs
    BY <2>1, Zenon DEF ServeInv, Owner
  <2> QED BY <1>t, <2>1, <2>2, Zenon DEF TypeOK
<1> QED BY <1>t, <1>1, <1>2, Zenon DEF PipeServes

(***************************************************************************)
(* Whatever the number of readers and writers, the calls, the closes and   *)
(* the signals: pipewrite(), piperead() and pipeclose() leave nobody       *)
(* asleep on a pipe that could serve it, and free the page when nobody is  *)
(* inside.                                                                 *)
(***************************************************************************)
THEOREM PipesServe == Spec => []PipeServes
<1>1. Init => ServeInv
  BY InitServe, Zenon
<1> QED BY <1>1, ServeStep, ServeMeaning, PTL DEF Spec
-----------------------------------------------------------------------------
(***************************************************************************)
(* The ring of a pipe implements a first-in first-out queue of PIPESIZE    *)
(* bytes.                                                                  *)
(***************************************************************************)
INSTANCE SequenceTheorems

(* Division with remainder. *)
LEMMA DivMod ==
  ASSUME NEW m \in Nat, m > 0, NEW a \in Nat
  PROVE  /\ a \div m \in Int
         /\ a = m * (a \div m) + (a % m)
  BY Z3

(* No multiple of m lies strictly between 0 and m on either side. *)
LEMMA NoMultiple ==
  ASSUME NEW m \in Nat, NEW t \in Int, NEW d \in 1 .. m - 1
  PROVE  m * t # d /\ m * t # -d
<1>1. CASE t >= 1
  <2>1. m * t >= m
    BY <1>1, Z3
  <2> QED BY <2>1
<1>2. CASE t = 0
  BY <1>2
<1>3. CASE t <= -1
  <2>1. m * t <= -m
    BY <1>3, Z3
  <2> QED BY <2>1
<1> QED BY <1>1, <1>2, <1>3

(* Two numbers less than m apart, or less than m short of u apart, where m *)
(* divides u, have different remainders: the bytes of a ring are in        *)
(* different cells, also around the wrap of the counters.                  *)
LEMMA CellsDiffer ==
  ASSUME NEW m \in Nat, m > 0, NEW u \in Nat, u % m = 0,
         NEW a \in Nat, NEW b \in Nat, NEW d \in 1 .. m - 1,
         b = a + d \/ b = a + d - u
  PROVE  a % m # b % m
<1> SUFFICES ASSUME a % m = b % m PROVE FALSE
  BY Zenon
<1> DEFINE qa == a \div m
           qb == b \div m
           qu == u \div m
<1>1. /\ qa \in Int /\ qb \in Int /\ qu \in Int
      /\ a = m * qa + (a % m) /\ b = m * qb + (b % m) /\ u = m * qu + (u % m)
  BY DivMod, Zenon
<1>2. a % m \in Int
  BY Z3
<1> HIDE DEF qa, qb, qu
<1>3. CASE b = a + d
  <2>1. qb - qa \in Int /\ m * (qb - qa) = d
    BY <1>1, <1>2, <1>3, Z3
  <2>2. PICK t \in Int : m * t = d
    BY <2>1, Zenon
  <2> QED BY <2>2, NoMultiple, Zenon
<1>4. CASE b = a + d - u
  <2>1. qb + qu - qa \in Int /\ m * (qb + qu - qa) = d
    BY <1>1, <1>2, <1>4, Z3
  <2>2. PICK t \in Int : m * t = d
    BY <2>1, Zenon
  <2> QED BY <2>2, NoMultiple, Zenon
<1> QED BY <1>3, <1>4, Zenon

(* The cell of the k-th byte in the ring. *)
Cell(k) == ((nread + k - 1) % UINT) % PIPESIZE

(* Where the counters stand, without remainders. *)
LEMMA Counters ==
  ASSUME TypeOK, RingBounded
  PROVE  /\ UINT \in Nat /\ UINT > 0 /\ PIPESIZE \in 1 .. UINT - 1
         /\ nread \in 0 .. UINT - 1 /\ nwrite \in 0 .. UINT - 1
         /\ Used \in 0 .. PIPESIZE
         /\ Used = IF nwrite >= nread THEN nwrite - nread ELSE nwrite - nread + UINT
<1>1. /\ UINT \in Nat /\ UINT > 0 /\ PIPESIZE \in 1 .. UINT - 1
      /\ nread \in 0 .. UINT - 1 /\ nwrite \in 0 .. UINT - 1
  BY PipeAssumption DEF TypeOK
<1>2. Used = IF nwrite >= nread THEN nwrite - nread ELSE nwrite - nread + UINT
  BY <1>1, UintSub, Zenon DEF Used
<1> QED BY <1>1, <1>2 DEF RingBounded

(* The content of the ring is a sequence of Used bytes. *)
SeqFacts ==
  /\ Used \in 0 .. PIPESIZE
  /\ Used = IF nwrite >= nread THEN nwrite - nread ELSE nwrite - nread + UINT
  /\ Content \in Seq(Byte) /\ Len(Content) = Used
  /\ \A k \in 1 .. Used : Content[k] = data[Cell(k)]

(* The bytes between the two counters, as a sequence. *)
LEMMA ContentSeq == TypeOK /\ RingBounded => SeqFacts
<1> SUFFICES ASSUME TypeOK, RingBounded PROVE SeqFacts
  BY Zenon
<1>1. Used \in Nat
  BY Counters
<1>2. ASSUME NEW k \in 1 .. Used PROVE data[Cell(k)] \in Byte
  <2>1. nread + k - 1 \in Nat
    BY <1>1, Counters
  <2>2. (nread + k - 1) % UINT \in Nat
    BY <2>1, Counters, Z3
  <2>3. Cell(k) \in 0 .. PIPESIZE - 1
    BY <2>2, RingIndex, Zenon DEF Cell
  <2> QED BY <2>3, Zenon DEF TypeOK
<1>3. Content = [k \in 1 .. Used |-> data[Cell(k)]]
  BY Zenon DEF Content, Cell
<1>4. Content \in [1 .. Used -> Byte]
  BY <1>2, <1>3, Zenon
<1>5. Content \in Seq(Byte)
  BY <1>1, <1>4, SeqDef, Zenon
<1>6. Len(Content) = Used
  BY <1>1, <1>4, <1>5, LenProperties
<1> QED BY <1>3, <1>5, <1>6, Counters, Zenon DEF SeqFacts

(* The same of the next state. *)
LEMMA ContentSeqNext == TypeOK' /\ RingBounded' => SeqFacts'
  BY ContentSeq, PTL

(* pi->data[pi->nwrite++ % PIPESIZE] = ch (pipe.c:96) appends a byte. *)
LEMMA PutStep ==
  ASSUME TypeOK, RingBounded, TypeOK', RingBounded', ~Full, NEW b \in Byte,
         data' = [data EXCEPT ![nwrite % PIPESIZE] = b],
         nwrite' = (nwrite + 1) % UINT, nread' = nread
  PROVE  Fifo!Put
<1>1. SeqFacts /\ SeqFacts'
  BY ContentSeq, ContentSeqNext, Zenon
<1>c. /\ UINT \in Nat /\ UINT > 0 /\ PIPESIZE \in 1 .. UINT - 1
      /\ nread \in 0 .. UINT - 1 /\ nwrite \in 0 .. UINT - 1
      /\ data \in [0 .. PIPESIZE - 1 -> Byte]
  BY Counters, Zenon DEF TypeOK
<1>u. /\ Used \in 0 .. PIPESIZE
      /\ Used = IF nwrite >= nread THEN nwrite - nread ELSE nwrite - nread + UINT
  BY <1>1, Zenon DEF SeqFacts
<1>2. Used < PIPESIZE
  <2>1. nwrite # (IF nread + PIPESIZE < UINT THEN nread + PIPESIZE
                                            ELSE nread + PIPESIZE - UINT)
    BY <1>c, UintAdd DEF Full
  <2> QED BY <1>u, <1>c, <2>1
<1>3. Used' = Used + 1
  <2>1. nwrite' = IF nwrite + 1 = UINT THEN 0 ELSE nwrite + 1
    BY <1>c, UintInc, Zenon
  <2>2. Used' = IF nwrite' >= nread THEN nwrite' - nread ELSE nwrite' - nread + UINT
    BY <1>1, Zenon DEF SeqFacts
  <2> QED BY <1>2, <1>u, <1>c, <2>1, <2>2
<1>4. ASSUME NEW k \in 1 .. Used + 1
      PROVE  /\ (nread + k - 1) % UINT \in Nat
             /\ (nread + k - 1) % UINT = IF nread + k - 1 < UINT THEN nread + k - 1
                                         ELSE nread + k - 1 - UINT
  <2>1. k - 1 \in 0 .. UINT - 1 /\ nread + (k - 1) = nread + k - 1
    BY <1>u, <1>2, <1>c
  <2>2. (nread + (k - 1)) % UINT = IF nread + (k - 1) < UINT THEN nread + (k - 1)
                                  ELSE nread + (k - 1) - UINT
    BY <2>1, <1>c, UintAdd, Zenon
  <2> QED BY <2>1, <2>2, <1>c
<1>5. ASSUME NEW k \in 1 .. Used
      PROVE  Cell(k) # nwrite % PIPESIZE /\ Cell(k) \in 0 .. PIPESIZE - 1
  <2> DEFINE a == (nread + k - 1) % UINT
             d == Used - (k - 1)
  <2>1. a \in Nat /\ d \in 1 .. PIPESIZE - 1
    BY <1>u, <1>2, <1>4, <1>c
  <2>2. nwrite = a + d \/ nwrite = a + d - UINT
    BY <1>u, <1>4, <1>c
  <2> HIDE DEF a, d
  <2>3. a % PIPESIZE # nwrite % PIPESIZE
    <3>1. PIPESIZE \in Nat /\ PIPESIZE > 0 /\ UINT \in Nat /\ UINT % PIPESIZE = 0
      BY <1>c, UintAssumption
    <3>2. nwrite \in Nat
      BY <1>c
    <3> QED BY <2>1, <2>2, <3>1, <3>2, CellsDiffer, Zenon
  <2> QED BY <2>1, <2>3, RingIndex, Zenon DEF Cell, a
<1>6. Cell(Used + 1) = nwrite % PIPESIZE
  <2>1. (nread + (Used + 1) - 1) % UINT = nwrite
    <3>1. Used + 1 \in 1 .. Used + 1 /\ nread + (Used + 1) - 1 = nread + Used
      BY <1>u, <1>c
    <3> QED BY <1>u, <1>4, <1>c, <3>1
  <2> QED BY <2>1, Zenon DEF Cell
<1>7. \A k : Cell(k)' = Cell(k)
  BY Zenon DEF Cell
<1>8. Content' = Append(Content, b)
  <2>1. /\ Append(Content, b) \in Seq(Byte)
        /\ Len(Append(Content, b)) = Used + 1
        /\ \A k \in 1 .. Used : Append(Content, b)[k] = Content[k]
        /\ Append(Content, b)[Used + 1] = b
    BY <1>1, AppendProperties DEF SeqFacts
  <2>2. /\ Content' \in Seq(Byte) /\ Len(Content') = Used + 1
        /\ \A k \in 1 .. Used + 1 : Content'[k] = data'[Cell(k)]
    BY <1>1, <1>3, <1>7, Zenon DEF SeqFacts
  <2>3. ASSUME NEW k \in 1 .. Used + 1 PROVE Content'[k] = Append(Content, b)[k]
    <3>1. CASE k = Used + 1
      <4>a. nwrite \in Nat
        BY <1>c
      <4>1. nwrite % PIPESIZE \in 0 .. PIPESIZE - 1
        BY <4>a, RingIndex, Zenon
      <4> QED BY <2>1, <2>2, <1>6, <1>c, <3>1, <4>1, Zenon
    <3>2. CASE k \in 1 .. Used
      BY <1>1, <2>1, <2>2, <1>5, <1>c, <3>2, Zenon DEF SeqFacts
    <3> QED BY <1>1, <3>1, <3>2 DEF SeqFacts
  <2> QED BY <2>1, <2>2, <2>3, SeqEqual, Zenon
<1> QED BY <1>1, <1>2, <1>8, Zenon DEF Fifo!Put, SeqFacts

(* ch = pi->data[pi->nread++ % PIPESIZE] (pipe.c:120) takes the oldest byte. *)
LEMMA GetStep ==
  ASSUME TypeOK, RingBounded, TypeOK', RingBounded', nread # nwrite,
         nread' = (nread + 1) % UINT, UNCHANGED <<data, nwrite>>
  PROVE  Fifo!Get
<1>1. SeqFacts /\ SeqFacts'
  BY ContentSeq, ContentSeqNext, Zenon
<1>c. /\ UINT \in Nat /\ UINT > 0 /\ PIPESIZE \in 1 .. UINT - 1
      /\ nread \in 0 .. UINT - 1 /\ nwrite \in 0 .. UINT - 1
  BY Counters, Zenon
<1>u. /\ Used \in 0 .. PIPESIZE
      /\ Used = IF nwrite >= nread THEN nwrite - nread ELSE nwrite - nread + UINT
  BY <1>1, Zenon DEF SeqFacts
<1>2. nread' = IF nread + 1 = UINT THEN 0 ELSE nread + 1
  BY <1>c, UintInc, Zenon
<1>3. Used >= 1 /\ Used' = Used - 1
  <2>1. Used' = IF nwrite >= nread' THEN nwrite - nread' ELSE nwrite - nread' + UINT
    BY <1>1, Zenon DEF SeqFacts
  <2> QED BY <1>u, <1>2, <1>c, <2>1
<1>4. ASSUME NEW k \in 1 .. Used - 1 PROVE Cell(k)' = Cell(k + 1)
  <2>1. k - 1 \in 0 .. UINT - 1 /\ k \in 0 .. UINT - 1 /\ nread' \in 0 .. UINT - 1
    BY <1>u, <1>2, <1>c
  <2>2. (nread' + (k - 1)) % UINT = IF nread' + (k - 1) < UINT THEN nread' + (k - 1)
                                   ELSE nread' + (k - 1) - UINT
    BY <2>1, <1>c, UintAdd, Zenon
  <2>3. (nread + k) % UINT = IF nread + k < UINT THEN nread + k ELSE nread + k - UINT
    BY <2>1, <1>c, UintAdd, Zenon
  <2>4. (nread' + (k - 1)) % UINT = (nread + k) % UINT
    BY <2>1, <2>2, <2>3, <1>2, <1>c
  <2>5. nread' + (k - 1) = nread' + k - 1 /\ nread + k = nread + (k + 1) - 1
    BY <2>1, <1>c
  <2> QED BY <2>4, <2>5, Zenon DEF Cell
<1>5. Content # <<>>
  BY <1>1, <1>3, <1>u, EmptySeq DEF SeqFacts
<1>6. Content' = Tail(Content)
  <2>1. /\ Tail(Content) \in Seq(Byte) /\ Len(Tail(Content)) = Used - 1
        /\ \A k \in 1 .. Used - 1 : Tail(Content)[k] = Content[k + 1]
    BY <1>1, <1>5, HeadTailProperties DEF SeqFacts
  <2>2. /\ Content' \in Seq(Byte) /\ Len(Content') = Used - 1
        /\ \A k \in 1 .. Used - 1 : Content'[k] = data[Cell(k)']
    BY <1>1, <1>3, Zenon DEF SeqFacts
  <2>3. ASSUME NEW k \in 1 .. Used - 1 PROVE Content'[k] = Tail(Content)[k]
    <3>1. k + 1 \in 1 .. Used /\ Content[k + 1] = data[Cell(k + 1)]
      BY <1>1, <1>u DEF SeqFacts
    <3> QED BY <2>1, <2>2, <1>4, <3>1, Zenon
  <2> QED BY <2>1, <2>2, <2>3, SeqEqual, Zenon
<1> QED BY <1>5, <1>6, Zenon DEF Fifo!Get

(* Every step of the pipe leaves the ring alone, puts a byte or gets one. *)
LEMMA RingSteps ==
  ASSUME [Next]_vars
  PROVE  \/ UNCHANGED <<data, nread, nwrite>>
         \/ \E b \in Byte : /\ data' = [data EXCEPT ![nwrite % PIPESIZE] = b]
                            /\ nwrite' = (nwrite + 1) % UINT /\ nread' = nread
                            /\ ~Full
         \/ /\ nread' = (nread + 1) % UINT /\ UNCHANGED <<data, nwrite>>
            /\ nread # nwrite
  BY DEF Next, vars, ring, Kernel, Acquires, WriteCall, ReadCall, CloseWriteFd,
     CloseReadFd, WriteFull, WriteBroken, WriteByte, WriteDone, ReadEmpty, ReadReady,
     ReadByte, ReadDone, ReadFault, Resume, Lock, Relock, PipeCloseWrite, PipeCloseRead,
     SignalProc, Deliver

(***************************************************************************)
(* pipewrite() and piperead() implement a bounded queue: for every ring    *)
(* size and counter width no byte is lost, duplicated, reordered or        *)
(* overwritten, also after the counters have wrapped.                      *)
(***************************************************************************)
THEOREM PipeIsFifo == Spec => ImplementsFifo
<1>1. Init => Fifo!Init
  <2> SUFFICES ASSUME Init PROVE Content = <<>>
    BY Zenon DEF Fifo!Init
  <2>1. TypeOK
    BY InitType, Zenon
  <2>2. 0 % UINT = 0
    BY PipeAssumption, Z3
  <2>3. Used = 0 /\ RingBounded
    BY <2>2, PipeAssumption DEF Init, Used, RingBounded
  <2> QED BY <2>1, <2>3, ContentSeq, EmptySeq, Zenon DEF SeqFacts
<1>2. TypeOK /\ RingBounded /\ TypeOK' /\ RingBounded' /\ [Next]_vars
        => [Fifo!Next]_Content
  <2> SUFFICES ASSUME TypeOK, RingBounded, TypeOK', RingBounded', [Next]_vars
               PROVE Fifo!Next \/ Content' = Content
    BY Zenon
  <2>1. CASE UNCHANGED <<data, nread, nwrite>>
    BY <2>1, Zenon DEF Content, Used
  <2>2. ASSUME NEW b \in Byte, data' = [data EXCEPT ![nwrite % PIPESIZE] = b],
               nwrite' = (nwrite + 1) % UINT, nread' = nread, ~Full
        PROVE Fifo!Next
    BY <2>2, PutStep, Zenon DEF Fifo!Next
  <2>3. ASSUME nread' = (nread + 1) % UINT, UNCHANGED <<data, nwrite>>, nread # nwrite
        PROVE Fifo!Next
    BY <2>3, GetStep, Zenon DEF Fifo!Next
  <2> QED BY <2>1, <2>2, <2>3, RingSteps, Zenon
<1> QED
  BY <1>1, <1>2, TypeCorrect, RingNeverOverrun, PTL DEF Spec, ImplementsFifo,
     Fifo!Spec
=============================================================================
