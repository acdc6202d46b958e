------------------------------- MODULE Sdcard -------------------------------
(***************************************************************************)
(* The SD card driver (kernel/driver/sdcard.c), and the raw device on it   *)
(* (kernel/devsw/sdcarddev.c): commands, answers, data and polling over    *)
(* SPI, where every byte sent shifts one in.  sdcard_lock makes a sector   *)
(* one step.                                                               *)
(*                                                                         *)
(* "line" is what the card still has to say: a token is a byte, or a field *)
(* of several bytes that the driver moves in one transfer.  A card answers *)
(* after an idle byte ("ff"), not at all, or with an error; a transfer of  *)
(* a sector that fails inside the SPI driver leaves junk in the buffer,    *)
(* and its result is not looked at.                                        *)
(***************************************************************************)
EXTENDS Integers, Sequences, FiniteSets

CONSTANTS NSECT,             \* sectors of the card
          Vals,              \* contents of a sector
          Cards,             \* the cards: the CSD [ver, size, mult, len]; v1: it
                             \* knows no CMD8; real: its size; odd: a size of
                             \* 2^32, or an unknown CSD version
          TRIES, POLLS,      \* turns of the retry loops and of the polling loops
          MaxCalls, MaxFaults

BSIZE == 512
Sectors == 0 .. NSECT - 1

VARIABLES
  card,       \* the card: mode, csd, mem, and polls until it is ready
  line,
  at, n,      \* where sdcard_init() is; its timeout
  standard, nsect,             \* is_standard_sd, card_nsectors
  pos,        \* ctx->sector of two open files
  got,        \* what the last read returned, and what it should have
  shadow,     \* history: what the driver has written
  calls, faults, failed, far, bad   \* history: a transfer failed, a sector
              \* past the end was asked for, the card reported an error

vars == <<card, line, at, n, standard, nsect, pos, got, shadow, calls, faults,
          failed, far, bad>>

Sdsc == card.csd.ver = 0
Dry == [k \in Sectors |-> CHOOSE v \in Vals : TRUE]

Init ==
  /\ \E c \in Cards, p \in 0 .. 1 :
       card = [mode |-> "native", csd |-> c, mem |-> Dry, polls |-> p]
  /\ line = <<>> /\ at = "cmd0" /\ n = TRIES
  /\ standard = FALSE /\ nsect = 0 /\ pos = [f \in 1 .. 2 |-> 0]
  /\ got = <<>> /\ shadow = Dry
  /\ calls = 0 /\ faults = 0 /\ failed = FALSE /\ far = FALSE /\ bad = FALSE
-----------------------------------------------------------------------------
(* SPI: what is left of the line after k transfers, and the first of them  *)
(* that ends a polling loop of at most m turns (0: none does): the loop    *)
(* waits for token t (until), or for anything else than t (~until)         *)

After(l, k) == SubSeq(l, k + 1, Len(l))
Token(l, k) == IF k <= Len(l) THEN l[k] ELSE "ff"
Poll(l, m, t, until) ==
  LET K == {k \in 1 .. m : (Token(l, k) = t) = until}
  IN IF K = {} THEN 0 ELSE CHOOSE k \in K : \A j \in K : k <= j

(* sd_send_cmd(): six bytes, then the card's answer *)
SendCmd(l, answer) == After(l, 6) \o answer

(* sd_get_response_R1(): the answer, or "ff", and the line after it *)
R1(l) ==
  LET k == Poll(l, POLLS, "ff", FALSE)
  IN IF k = 0 THEN [r |-> "ff", l |-> After(l, POLLS)]
              ELSE [r |-> Token(l, k), l |-> After(l, k)]
EndCmd(l) == After(l, 1)

(* A command that the card answers with `r', and perhaps with `rest' after *)
(* it; or it does not.                                                     *)
Answers(r, rest, lost) == IF lost THEN <<>> ELSE <<"ff", r>> \o rest
Lost(lost) == /\ (lost => faults < MaxFaults)
              /\ faults' = IF lost THEN faults + 1 ELSE faults
-----------------------------------------------------------------------------
(* sd_init() *)

others == <<standard, nsect, pos, got, shadow, calls, failed, far, bad>>
Goto(l) == at' = l /\ n' = TRIES

(* A retry, or the failure of the sequence: "while(--timeout)" makes one   *)
(* turn less than "while(timeout--)".                                      *)
Retry(last) ==
  IF n > last THEN n' = n - 1 /\ UNCHANGED at ELSE at' = "panic" /\ n' = 0

(* switch_to_SPI_mode(): one turn *)
Cmd0(lost) ==
  LET x == R1(SendCmd(line, Answers("01", <<>>, lost)))
  IN /\ at = "cmd0" /\ Lost(lost)
     /\ line' = EndCmd(x.l)
     /\ card' = IF lost THEN card ELSE [card EXCEPT !.mode = "idle"]
     /\ IF x.r = "01" THEN Goto("cmd8") ELSE Retry(2)
     /\ UNCHANGED others

(* verify_operation_condition(): a version 1 card does not know CMD8. *)
Cmd8(lost) ==
  LET x == R1(SendCmd(line, IF card.csd.v1 THEN Answers("05", <<>>, lost)
                                  ELSE Answers("01", <<"1aa">>, lost)))
  IN /\ at = "cmd8" /\ Lost(lost)
     /\ line' = EndCmd(After(x.l, 1))
     /\ IF x.r = "01" /\ Token(x.l, 1) = "1aa" THEN Goto("ocr")
        ELSE at' = "panic" /\ n' = 0
     /\ UNCHANGED <<card, others>>

(* read_OCR(): one turn *)
ReadOcr(lost) ==
  LET x == R1(SendCmd(line, Answers("01", <<"volt">>, lost)))
  IN /\ at = "ocr" /\ Lost(lost)
     /\ line' = EndCmd(After(x.l, 1))
     /\ IF x.r = "01" /\ Token(x.l, 1) = "volt" THEN Goto("acmd41") ELSE Retry(2)
     /\ UNCHANGED <<card, others>>

(* set_SDXC_capacity(): one turn, CMD55 and ACMD41 *)
Acmd41(lost) ==
  LET x == R1(SendCmd(line, Answers("01", <<>>, lost)))
      ready == card.polls = 0
      y == R1(SendCmd(EndCmd(x.l), Answers(IF ready THEN "00" ELSE "01", <<>>, FALSE)))
  IN /\ at = "acmd41" /\ Lost(lost)
     /\ IF x.r # "01"
        THEN at' = "panic" /\ n' = 0 /\ line' = EndCmd(x.l) /\ UNCHANGED card
        ELSE /\ line' = EndCmd(y.l)
             /\ card' = IF ready THEN [card EXCEPT !.mode = "ready"]
                                 ELSE [card EXCEPT !.polls = @ - 1]
             /\ IF y.r = "00" THEN Goto("size") ELSE Retry(2)
     /\ UNCHANGED others

(* check_block_size(): one turn; a standard card is told the block size. *)
CheckBlockSize(lost) ==
  LET x == R1(SendCmd(line, Answers("00", <<IF Sdsc THEN "sc" ELSE "hc">>, lost)))
  IN /\ at = "size" /\ Lost(lost)
     /\ line' = EndCmd(After(x.l, 1))
     /\ IF x.r # "00" THEN Retry(1)
        ELSE Goto(IF Token(x.l, 1) = "hc" THEN "csd" ELSE "len")
     /\ UNCHANGED <<card, others>>

SetBlockSize(lost) ==
  LET x == R1(SendCmd(line, Answers("00", <<>>, lost)))
  IN /\ at = "len" /\ Lost(lost)
     /\ line' = EndCmd(x.l)
     /\ IF x.r = "00" THEN standard' = TRUE /\ Goto("csd")
                      ELSE Retry(2) /\ UNCHANGED standard
     /\ UNCHANGED <<card, nsect, pos, got, shadow, calls, failed, far, bad>>

(* The sectors of a card in uint32, version 2 in units of 1024 of them:    *)
(* sizes of 2^32 wrap to 0.                                                *)
Capacity(c) ==
  CASE c.ver = 1 -> (c.size + 1) % 2^22
    [] c.ver = 0 -> ((c.size + 1) * 2^(c.mult + 2) * 2^(c.len - 9)) % 2^23
    [] OTHER -> 0

(* sd_read_csd(): R1 is not looked at, and there is no sd_end_cmd(). *)
ReadCsd(lost) ==
  LET x == R1(SendCmd(line, Answers("00", <<"ff", "fe", "csd", "crc">>, lost)))
      k == Poll(x.l, POLLS, "fe", TRUE)
  IN /\ at = "csd" /\ Lost(lost)
     /\ at' = "ready" /\ n' = 0
     /\ IF k = 0 THEN line' = After(x.l, POLLS) /\ UNCHANGED nsect
        ELSE /\ nsect' = IF Token(x.l, k + 1) = "csd" THEN Capacity(card.csd) ELSE 0
             /\ line' = After(x.l, k + 2)
     /\ UNCHANGED <<card, standard, pos, got, shadow, calls, failed, far, bad>>
-----------------------------------------------------------------------------
(* Sectors *)

(* What the card makes of an address: a sector, or an error *)
Address(s) == IF standard THEN s * BSIZE ELSE s
Addressed(a) ==
  LET s == IF Sdsc THEN a \div BSIZE ELSE a
  IN IF (Sdsc /\ a % BSIZE # 0) \/ s \notin Sectors THEN NSECT ELSE s
Accepts(s) == Addressed(Address(s)) # NSECT

Panics == at' = "panic"

(* Mutant: the CRC is left on the line. *)
ReadSector_NoCrc(s, err) ==
  LET b == Addressed(Address(s))
      data == IF err THEN <<"ff", "err">> ELSE <<"ff", "fe", card.mem[b], "crc">>
      x == R1(SendCmd(line, IF Accepts(s) THEN Answers("00", data, FALSE)
                                          ELSE Answers("40", <<>>, FALSE)))
      k == Poll(x.l, POLLS, "fe", TRUE)
  IN [ok |-> x.r = "00" /\ k # 0, buf |-> Token(x.l, k + 1), l |-> After(x.l, k + 1)]

(* sdcard_read_sector(): the data that arrive, and the line after them.    *)
(* The card may send an error instead of the data.                         *)
ReadSector(s, err) ==
  LET b == Addressed(Address(s))
      data == IF err THEN <<"ff", "err">> ELSE <<"ff", "fe", card.mem[b], "crc">>
      x == R1(SendCmd(line, IF Accepts(s) THEN Answers("00", data, FALSE)
                                          ELSE Answers("40", <<>>, FALSE)))
      k == Poll(x.l, POLLS, "fe", TRUE)
  IN [ok |-> x.r = "00" /\ k # 0, buf |-> Token(x.l, k + 1),
      l |-> EndCmd(After(x.l, k + 2))]

(* sdcard_write_sector(): the card takes the data or refuses them, is busy *)
(* for a while, and CMD13 asks whether it could program them.              *)
WriteSector(s, take, busy, status) ==
  LET x == R1(SendCmd(line, Answers(IF Accepts(s) THEN "00" ELSE "40", <<>>, FALSE)))
      l1 == After(x.l, 3) \o (IF take THEN <<"05">> ELSE <<"0b">>)
                          \o [k \in 1 .. busy |-> "00"]
      j == Poll(l1, POLLS, "05", TRUE)
      l2 == After(l1, j)
      k == Poll(l2, POLLS, "00", FALSE)
      y == R1(SendCmd(EndCmd(After(l2, k)), Answers("00", <<status>>, FALSE)))
  IN [ok |-> /\ x.r = "00" /\ j # 0 /\ k # 0
             /\ y.r = "00" /\ Token(y.l, 1) = "00",
      taken |-> x.r = "00" /\ take,
      l |-> EndCmd(After(y.l, 1))]

(* disk_read() of a buffer, or sdcarddev_read() at the position of a file, *)
(* which moves on if the page can be copied out; the transfer of the data  *)
(* may fail.                                                               *)
Read(s, f, err, fail, copied) ==
  LET x == ReadSector(s, err)
  IN /\ at = "ready" /\ calls < MaxCalls /\ calls' = calls + 1
     /\ (err \/ fail) => faults < MaxFaults
     /\ faults' = IF err \/ fail THEN faults + 1 ELSE faults
     /\ failed' = (failed \/ fail) /\ bad' = (bad \/ err)
     /\ far' = (far \/ s \notin Sectors)
     /\ IF x.ok THEN /\ line' = x.l /\ UNCHANGED at
                     /\ got' = <<s, IF fail THEN "junk" ELSE x.buf>>
                     /\ pos' = IF f # 0 /\ copied THEN [pos EXCEPT ![f] = s + 1] ELSE pos
        ELSE Panics /\ UNCHANGED <<line, got, pos>>
     /\ UNCHANGED <<card, n, standard, nsect, shadow>>

Write(s, f, v, take, busy, status) ==
  LET x == WriteSector(s, take, busy, status)
      err == ~take \/ status # "00" \/ busy >= POLLS
  IN /\ at = "ready" /\ calls < MaxCalls /\ calls' = calls + 1
     /\ err => faults < MaxFaults
     /\ faults' = IF err THEN faults + 1 ELSE faults
     /\ bad' = (bad \/ err) /\ far' = (far \/ s \notin Sectors)
     /\ card' = IF x.taken THEN [card EXCEPT !.mem[Addressed(Address(s))] = v] ELSE card
     /\ got' = <<>>
     /\ IF x.ok THEN /\ line' = x.l /\ UNCHANGED at
                     /\ shadow' = [shadow EXCEPT ![s] = v]
                     /\ pos' = IF f # 0 THEN [pos EXCEPT ![f] = s + 1] ELSE pos
        ELSE Panics /\ UNCHANGED <<line, shadow, pos>>
     /\ UNCHANGED <<n, standard, nsect, failed>>

(* SDCARD_IOCTL_SEEK *)
Seek(f, s) ==
  /\ at = "ready" /\ calls < MaxCalls /\ calls' = calls + 1
  /\ pos' = [pos EXCEPT ![f] = s]
  /\ UNCHANGED <<card, line, at, n, standard, nsect, got, shadow, faults, failed,
                 far, bad>>
-----------------------------------------------------------------------------
Start == \E lost \in BOOLEAN :
           \/ Cmd0(lost) \/ Cmd8(lost) \/ ReadOcr(lost) \/ Acmd41(lost)
           \/ CheckBlockSize(lost) \/ SetBlockSize(lost) \/ ReadCsd(lost)
Transfer(s, f) ==
  \/ \E err, fail, copied \in BOOLEAN : Read(s, f, err, fail, copied)
  \/ \E v \in Vals, take \in BOOLEAN, busy \in {0, 1, POLLS}, status \in {"00", "04"} :
       Write(s, f, v, take, busy, status)
Next ==
  \/ Start
  \/ \E s \in Sectors : Transfer(s, 0)
  \/ \E f \in 1 .. 2 : Transfer(pos[f], f) \/ \E s \in 0 .. NSECT : Seek(f, s)

Spec == Init /\ [][Next]_vars
-----------------------------------------------------------------------------
(* The driver and the card agree: once the card is up it is addressed as   *)
(* its kind wants and nothing of an answer is left on the line, every      *)
(* sector holds what was last written to it, a read returns it unless the  *)
(* SPI transfer failed, the size is exact unless it is 2^32 or the answer  *)
(* was lost; and the kernel panics only over a fault, an old card, or a    *)
(* sector past the end.                                                    *)
SectorsUnlessFailed ==
  /\ at = "ready" =>
       /\ standard <=> Sdsc
       /\ \A k \in 1 .. Len(line) : line[k] = "ff"
       /\ card.mem = shadow
       /\ got # <<>> /\ ~failed => got[2] = card.mem[got[1]]
       /\ nsect \in {card.csd.real, 0}
       /\ nsect = 0 => faults > 0 \/ card.csd.odd
  /\ at = "panic" => faults > 0 \/ far \/ card.csd.v1
=============================================================================
