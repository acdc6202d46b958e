-------------------------------- MODULE Burn --------------------------------
(***************************************************************************)
(* Burning an image to the SD card over a serial line: user/app/burn.c on  *)
(* the board and tools/burn.py on the host.  Stop and wait, one frame per  *)
(* sector, with sequence numbers, CRC, NAKs and retries; optionally both   *)
(* ends first switch to a higher baud rate.  The line loses and damages    *)
(* frames; a frame sent at one rate and read at the other is damaged.      *)
(* The payload of DATA frame s is sector s of the image.                   *)
(***************************************************************************)
EXTENDS Integers, Sequences

CONSTANTS NSECT,      \* sectors of the image, at least one
          MAX_RETRY, ChangeBaud, MaxFaults, None

VARIABLES
  h2b, b2h,                       \* frames under way
  hpc, hfast, hsec, attempt,      \* host: phase, rate, sector, attempt
  bpc, bfast, bsec, retries, pos, \* board; pos is the offset in /dev/sdcard
  disk, faults

host == <<hpc, hfast, hsec, attempt>>
board == <<bpc, bfast, bsec, retries, pos, disk>>
vars == <<h2b, b2h, host, board, faults>>

Frame(type, seq, fast) == [type |-> type, seq |-> seq, fast |-> fast]

(* recv_msg(): the type of the next frame, or BAD (CRC, length, rate) *)
Type(ch, fast) == IF Head(ch).fast = fast THEN Head(ch).type ELSE "BAD"
Seq1(ch) == Head(ch).seq

(* The board has entered raw mode and printed "BURN". *)
Init ==
  /\ h2b = <<>> /\ b2h = <<Frame("BURN", 0, FALSE)>>
  /\ hpc = "hello" /\ hfast = FALSE /\ hsec = 0 /\ attempt = 0
  /\ bpc = "info" /\ bfast = FALSE /\ bsec = 0 /\ retries = 0 /\ pos = 0
  /\ disk = [s \in 0 .. NSECT - 1 |-> None] /\ faults = 0

HostSend(type, seq, fast) == h2b' = Append(h2b, Frame(type, seq, fast))
HostGets == b2h # <<>> /\ b2h' = Tail(b2h)
HostGoes(l) == hpc' = l /\ UNCHANGED <<hfast, hsec, attempt>>
-----------------------------------------------------------------------------
(* The host sees BURN and sends INFO. *)
HostInfo ==
  /\ hpc = "hello" /\ HostGets /\ Type(b2h, hfast) = "BURN"
  /\ HostSend("INFO", 0, hfast) /\ HostGoes("info")
  /\ UNCHANGED <<board, faults>>

StartData(fast) ==
  hpc' = "data" /\ HostSend("DATA", 0, fast) /\ hsec' = 0 /\ attempt' = 0

(* The answer to INFO: an ACK starts the change of rate or the data. *)
HostInfoAck ==
  /\ hpc = "info" /\ HostGets
  /\ IF Type(b2h, hfast) # "ACK" THEN HostGoes("dead") /\ UNCHANGED h2b
     ELSE IF ChangeBaud THEN HostGoes("baud") /\ HostSend("BAUD", 0, hfast)
     ELSE StartData(hfast) /\ UNCHANGED hfast
  /\ UNCHANGED <<board, faults>>

(* Whatever comes, or nothing, the host changes its rate, forgets what it  *)
(* has received and sends the first synchronisation.                       *)
SwitchRate ==
  /\ hfast' = TRUE /\ b2h' = <<>> /\ HostSend("BAUD", 0, TRUE)
  /\ hpc' = "sync" /\ attempt' = 0 /\ UNCHANGED hsec
HostBaudReady ==
  /\ hpc = "baud" /\ b2h # <<>> /\ SwitchRate /\ UNCHANGED <<board, faults>>

SyncAgain ==
  IF attempt < 2
  THEN attempt' = attempt + 1 /\ HostSend("BAUD", 0, hfast) /\ UNCHANGED <<hpc, hfast, hsec>>
  ELSE HostGoes("dead") /\ UNCHANGED h2b

HostSync ==
  /\ hpc = "sync" /\ HostGets
  /\ CASE Type(b2h, hfast) = "ACK" -> StartData(hfast) /\ UNCHANGED hfast
       [] Type(b2h, hfast) = "BAD" -> SyncAgain
       [] OTHER -> HostGoes("dead") /\ UNCHANGED h2b
  /\ UNCHANGED <<board, faults>>

Again ==
  IF attempt < MAX_RETRY
  THEN attempt' = attempt + 1 /\ HostSend("DATA", hsec, hfast) /\ UNCHANGED <<hpc, hfast, hsec>>
  ELSE HostGoes("dead") /\ UNCHANGED h2b

NextSector ==
  /\ hsec' = hsec + 1 /\ attempt' = 0 /\ UNCHANGED hfast
  /\ IF hsec + 1 < NSECT THEN HostSend("DATA", hsec + 1, hfast) /\ UNCHANGED hpc
     ELSE HostSend("DONE", NSECT, hfast) /\ hpc' = "done"

(* Mutant: any ACK is good, also a late one of an earlier sector. *)
HostData_AnyAck ==
  /\ hpc = "data" /\ HostGets
  /\ IF Type(b2h, hfast) = "ACK" THEN NextSector ELSE Again
  /\ UNCHANGED <<board, faults>>

(* The answer to DATA: only an ACK of this sector counts. *)
HostData ==
  /\ hpc = "data" /\ HostGets
  /\ IF Type(b2h, hfast) = "ACK" /\ Seq1(b2h) = hsec THEN NextSector ELSE Again
  /\ UNCHANGED <<board, faults>>

(* The host reports success after DONE, whatever the answer is. *)
HostDone ==
  /\ hpc = "done" /\ HostGets /\ HostGoes("ok")
  /\ UNCHANGED <<h2b, board, faults>>

(* Nothing more can come: the board sends nothing by itself, unless it     *)
(* waits for data and times out earlier than the host.                     *)
Silent == h2b = <<>> /\ b2h = <<>> /\ bpc \notin {"data", "done"}

(* Mutant: the host waits for its answer for ever. *)
HostTimeout_Never == FALSE /\ UNCHANGED vars

(* recv_msg() times out; too early counts as a fault. *)
HostTimeout ==
  /\ hpc \in {"info", "baud", "sync", "data", "done"} /\ b2h = <<>>
  /\ \/ Silent /\ UNCHANGED faults
     \/ ~Silent /\ faults < MaxFaults /\ faults' = faults + 1
  /\ CASE hpc = "info" -> HostGoes("dead") /\ UNCHANGED <<h2b, b2h>>
       [] hpc = "baud" -> SwitchRate
       [] hpc = "sync" -> SyncAgain /\ UNCHANGED b2h
       [] hpc = "data" -> Again /\ UNCHANGED b2h
       [] hpc = "done" -> HostGoes("ok") /\ UNCHANGED <<h2b, b2h>>
  /\ UNCHANGED board
-----------------------------------------------------------------------------
BoardGets == h2b # <<>> /\ h2b' = Tail(h2b)
BoardSend(type, seq) == b2h' = Append(b2h, Frame(type, seq, bfast))
BoardGoes(l, fast) == bpc' = l /\ bfast' = fast /\ UNCHANGED <<bsec, retries, pos, disk>>

(* The clean-up at "fail" and "finish" restores the rate of the console. *)
Fail == BoardGoes("failed", FALSE)

(* INFO is accepted if the card is large enough, and acknowledged; the     *)
(* card and the port are checked without an answer.                        *)
BoardInfo ==
  /\ bpc = "info" /\ BoardGets
  /\ \/ /\ Type(h2b, bfast) = "INFO"
        /\ BoardSend("ACK", Seq1(h2b))
        /\ BoardGoes(IF ChangeBaud THEN "baud" ELSE "data", bfast)
     \/ Fail /\ UNCHANGED b2h
  /\ UNCHANGED <<host, faults>>

(* BAUD is acknowledged once at the old rate ... *)
BoardBaud ==
  /\ bpc = "baud" /\ BoardGets
  /\ IF Type(h2b, bfast) = "BAUD" THEN BoardSend("ACK", Seq1(h2b)) /\ BoardGoes("sync", TRUE)
     ELSE Fail /\ UNCHANGED b2h
  /\ UNCHANGED <<host, faults>>

(* ... and once at the new one. *)
BoardSync ==
  /\ bpc = "sync" /\ BoardGets
  /\ IF Type(h2b, bfast) = "BAUD" THEN BoardSend("ACK", Seq1(h2b)) /\ BoardGoes("data", bfast)
     ELSE Fail /\ UNCHANGED b2h
  /\ UNCHANGED <<host, faults>>

(* A NAK uses up one of the retries of the sector. *)
Nak(seq) ==
  /\ BoardSend("NAK", seq)
  /\ IF retries < MAX_RETRY
     THEN retries' = retries + 1 /\ UNCHANGED <<bpc, bfast, bsec, pos, disk>>
     ELSE Fail

Dup == Type(h2b, bfast) = "DATA" /\ Seq1(h2b) < bsec
Wanted == Type(h2b, bfast) = "DATA" /\ Seq1(h2b) = bsec

(* A frame in the data phase is refused, ... *)
BoardNak ==
  /\ bpc = "data" /\ BoardGets /\ ~Dup /\ ~Wanted
  /\ Nak(IF Type(h2b, bfast) = "BAD" THEN bsec ELSE Seq1(h2b))
  /\ UNCHANGED <<host, faults>>

(* ... or repeats one that has been written, and is acknowledged again, ... *)
BoardDup ==
  /\ bpc = "data" /\ BoardGets /\ Dup
  /\ BoardSend("ACK", Seq1(h2b))
  /\ UNCHANGED <<board, host, faults>>

(* ... or is written at the offset of /dev/sdcard, and acknowledged after  *)
(* that; a write can fail for want of memory, and leaves the offset.       *)
BoardWrite ==
  /\ bpc = "data" /\ BoardGets /\ Wanted
  /\ \/ /\ faults < MaxFaults /\ faults' = faults + 1 /\ Nak(bsec)
     \/ /\ disk' = [disk EXCEPT ![pos] = Seq1(h2b)] /\ pos' = pos + 1
        /\ BoardSend("ACK", bsec)
        /\ bsec' = bsec + 1 /\ retries' = 0
        /\ bpc' = IF bsec + 1 < NSECT THEN "data" ELSE "done"
        /\ UNCHANGED <<bfast, faults>>
  /\ UNCHANGED host

(* The line is silent for RX_STALL_NAK_TICKS; a host that is only slow     *)
(* counts as a fault.  Waiting for DONE, the board gives up.               *)
BoardStall ==
  /\ bpc \in {"data", "done"} /\ h2b = <<>>
  /\ \/ b2h = <<>> /\ UNCHANGED faults
     \/ b2h # <<>> /\ faults < MaxFaults /\ faults' = faults + 1
  /\ IF bpc = "data" THEN Nak(bsec) ELSE Fail /\ UNCHANGED b2h
  /\ UNCHANGED <<h2b, host>>

(* DONE is acknowledged and ends the transfer; nothing else may come. *)
BoardDone ==
  /\ bpc = "done" /\ BoardGets
  /\ IF Type(h2b, bfast) = "DONE" THEN BoardSend("ACK", Seq1(h2b)) /\ BoardGoes("ok", FALSE)
     ELSE Fail /\ UNCHANGED b2h
  /\ UNCHANGED <<host, faults>>

(* After the end, frames go to the shell. *)
BoardShell ==
  /\ bpc \in {"ok", "failed"} /\ BoardGets
  /\ UNCHANGED <<b2h, board, host, faults>>
-----------------------------------------------------------------------------
(* The line loses a frame or damages it. *)
Hit(ch) == {Tail(ch), <<[Head(ch) EXCEPT !.type = "BAD"]>> \o Tail(ch)}
Noise ==
  /\ faults < MaxFaults /\ faults' = faults + 1 /\ hpc # "hello"
  /\ \/ h2b # <<>> /\ h2b' \in Hit(h2b) /\ UNCHANGED b2h
     \/ b2h # <<>> /\ b2h' \in Hit(b2h) /\ UNCHANGED h2b
  /\ UNCHANGED <<host, board>>

Host == \/ HostInfo \/ HostInfoAck \/ HostBaudReady \/ HostSync \/ HostData
        \/ HostDone \/ HostTimeout
Board == \/ BoardInfo \/ BoardBaud \/ BoardSync \/ BoardNak \/ BoardDup
         \/ BoardWrite \/ BoardStall \/ BoardDone \/ BoardShell
Next == Host \/ Board \/ Noise

Spec == Init /\ [][Next]_vars

(* Both programs run, and what is sent arrives unless it is lost. *)
FairSpec == Spec /\ WF_vars(Host) /\ WF_vars(Board)
-----------------------------------------------------------------------------
Types == {"BURN", "INFO", "BAUD", "DATA", "DONE", "ACK", "NAK", "BAD"}
Frames == [type : Types, seq : 0 .. NSECT, fast : BOOLEAN]

TypeOK ==
  /\ h2b \in Seq(Frames) /\ b2h \in Seq(Frames)
  /\ hpc \in {"hello", "info", "baud", "sync", "data", "done", "ok", "dead"}
  /\ bpc \in {"info", "baud", "sync", "data", "done", "ok", "failed"}
  /\ hfast \in BOOLEAN /\ bfast \in BOOLEAN
  /\ hsec \in 0 .. NSECT /\ bsec \in 0 .. NSECT /\ pos \in 0 .. NSECT
  /\ attempt \in 0 .. MAX_RETRY + 2 /\ retries \in 0 .. MAX_RETRY
  /\ disk \in [0 .. NSECT - 1 -> 0 .. NSECT - 1 \cup {None}]

(* "ACK only after the 512-byte sector has been written" (burn.c:586): the *)
(* host goes on to the next sector only when this one is on the card, in   *)
(* its place, whatever frames of earlier phases and attempts are still     *)
(* under way; and no sector is ever written to the wrong place.            *)
AckMeansWritten ==
  /\ \A s \in 0 .. hsec - 1 : disk[s] = s
  /\ \A s \in DOMAIN disk : disk[s] # None => disk[s] = s
  /\ bpc = "ok" => \A s \in DOMAIN disk : disk[s] = s

(* burn.py comes to an end, with success or with an error, whatever the    *)
(* line does: all its waits have a timeout and all its retries a limit.    *)
HostEnds == <>(hpc \in {"ok", "dead"})

=============================================================================
