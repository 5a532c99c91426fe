------------------------------ MODULE SpiCard ------------------------------
(***************************************************************************)
(* The SD card driver of the firmware (spi_c.c) and the card it talks to.  *)
(* One action is one command of the driver with the card's answer          *)
(* (cmd_write), or one phase of a transfer.  The driver's loops count down *)
(* as in the code, from constants.                                         *)
(***************************************************************************)
EXTENDS Integers

CONSTANTS
  Sectors, Values,
  RESET_TRIES,      (* CMD0 in spi_init: 6                                 *)
  INIT_TRIES,       (* CMD1 in wait_init: 19                               *)
  INITV2_TRIES,     (* CMD55 in wait_initV2: 19999                         *)
  SDHC_TRIES,       (* CMD58 in get_sdhc: 48                               *)
  BUSY_POLLS,       (* of sd_write_sector for the end of the write: 100000 *)
  MaxBusy,          (* polls a card may really take                        *)
  MaxSleep, MaxLeft,(* commands a card may need to wake and to initialise  *)
  MaxFaults         (* commands lost or refused, blocks refused or missing *)

ASSUME CardAssumption ==
  /\ Sectors \subseteq Nat /\ {RESET_TRIES, INIT_TRIES, INITV2_TRIES, SDHC_TRIES} \subseteq Nat \ {0}
  /\ {BUSY_POLLS, MaxBusy, MaxSleep, MaxLeft, MaxFaults} \subseteq Nat

VARIABLES
  card,             (* the card: kind, mode, what it has heard, busy polls *)
  mem,              (* its sectors                                         *)
  drv,              (* where the driver is, its counters and variables     *)
  ask,              (* the call of the driver that is running              *)
  answer,           (* what the last one returned                          *)
  faults,
  missed,           (* history: the commands that were lost or refused     *)
  fate,             (* history: of the block of the call that is running   *)
  slow              (* history: the last block took longer than the polls  *)

vars == <<card, mem, drv, ask, answer, faults, missed, fate, slow>>

Kinds == {"none", "v1", "v2", "hc"}
NoAsk == [fn |-> "none"]
Failed == [ok |-> FALSE]
Calls == [fn : {"read", "write"}, lba : Sectors, v : Values]

SpiTypeOK ==
  /\ card.kind \in Kinds /\ card.mode \in {"native", "idle", "ready"}
  /\ card.heard \in {"none", "read", "write"} /\ card.busy \in 0..MaxBusy
  /\ card.sector \in Nat /\ card.selected \in BOOLEAN
  /\ mem \in [Sectors -> Values] /\ drv.is_sdhc \in BOOLEAN
  /\ drv.i \in Nat /\ drv.j \in Nat /\ faults \in 0..MaxFaults
  /\ fate \in {"due", "late", "refused", "stored"} /\ slow \in BOOLEAN

Cards == [kind : Kinds, mode : {"native"}, sleep : 0..MaxSleep, left : 0..MaxLeft,
          selected : {FALSE}, heard : {"none"}, sector : {0}, busy : {0}]

Init ==
  /\ card \in {c \in Cards : c.kind = "none" /\ c.sleep = 0 /\ c.left = 0}
  /\ mem \in [Sectors -> Values]
  /\ drv = [at |-> "off", i |-> 0, j |-> 0, is_sdhc |-> FALSE]
  /\ ask = NoAsk /\ answer = Failed /\ faults = 0 /\ missed = {}
  /\ fate = "due" /\ slow = FALSE

-----------------------------------------------------------------------------
(* The card.                                                               *)

Selected(c) == [c EXCEPT !.selected = TRUE]
Deselected(c) == [c EXCEPT !.selected = FALSE, !.heard = "none"]

Hears(c, fn, arg) ==
  LET sector == IF c.kind = "hc" THEN arg ELSE arg \div 512
  IN  IF c.mode = "native" THEN <<255, c>>
      ELSE IF c.mode = "idle" THEN <<5, c>>
      ELSE IF sector \notin Sectors THEN <<64, c>>
      ELSE <<0, [c EXCEPT !.heard = fn, !.sector = sector]>>

(* First response byte of a card in order, and the card after the command. *)
InitAnswer(c) == IF c.left > 0 THEN <<1, [c EXCEPT !.left = @ - 1]>>
                 ELSE <<0, [c EXCEPT !.mode = "ready"]>>

Wakes(c) == IF c.sleep > 0 THEN <<255, [c EXCEPT !.sleep = @ - 1]>>
            ELSE <<1, [c EXCEPT !.mode = "idle"]>>

Responds(c, cmd, arg) ==
  IF c.kind = "none" \/ ~c.selected THEN <<255, c>>
  ELSE IF c.busy > 0 THEN <<0, c>>           \* the data line is low
  ELSE IF cmd = "CMD0" THEN Wakes(c)
  ELSE IF cmd = "CMD8" THEN <<IF c.kind = "v1" THEN 5 ELSE 1, c>>
  ELSE IF cmd \in {"CMD1", "CMD41"} THEN InitAnswer(c)
  ELSE IF cmd = "CMD55" THEN <<IF c.mode = "idle" THEN 1 ELSE 0, c>>
  ELSE IF cmd \in {"CMD16", "CMD58"} THEN <<0, c>>
  ELSE Hears(c, cmd, arg)

MayFail == faults < MaxFaults

(* cmd_write returns r: the command is answered, or it is lost on the line *)
(* or refused.                                                             *)
Replies == {0, 1, 4, 5, 64, 255}
cmd_write(cmd, arg, r) ==
  \/ LET a == Responds(card, cmd, arg)
     IN  r = a[1] /\ card' = a[2] /\ UNCHANGED <<faults, missed>>
  \/ /\ MayFail /\ faults' = faults + 1 /\ missed' = missed \cup {cmd}
     /\ r \in {4, 255} /\ UNCHANGED card

At(s) == drv.at = s
Go(s) == drv' = [drv EXCEPT !.at = s]
Retry(n, s) == drv' = [drv EXCEPT !.i = n, !.at = s]
Same == UNCHANGED <<mem, ask, answer, fate, slow>>

(* Addresses count bytes unless the card is an SDHC card.                  *)
\* mutant: always sectors
AddressUnscaled(lba) == lba
Address(lba) == IF drv.is_sdhc THEN lba ELSE lba * 512

-----------------------------------------------------------------------------
(* spi_init.                                                               *)

(* A card is put in the slot, or not, before the firmware looks.           *)
Insert ==
  /\ At("off") /\ card.kind = "none"
  /\ card' \in {c \in Cards : c.kind # "none"}
  /\ UNCHANGED <<drv, faults, missed>> /\ Same

Start ==
  /\ At("off") /\ drv' = [at |-> "reset", i |-> RESET_TRIES, j |-> 0, is_sdhc |-> TRUE]
  /\ card' = Selected(card) /\ UNCHANGED <<faults, missed>> /\ Same

(* The last try that fails makes spi_init return 0; nobody looks.          *)
\* mutant: a card that does not answer is asked for ever
ResetForever ==
  /\ At("reset")
  /\ \E r \in Replies :
       /\ cmd_write("CMD0", 0, r)
       /\ IF r = 1 THEN Go("CMD8") ELSE Retry(drv.i, "reset")
  /\ Same

Reset ==
  /\ At("reset")
  /\ \E r \in Replies :
       /\ cmd_write("CMD0", 0, r)
       /\ IF r = 1 THEN Go("CMD8") ELSE Retry(drv.i - 1, IF drv.i = 1 THEN "idle" ELSE "reset")
  /\ Same

(* get_sdhc *)
Interface ==
  /\ At("CMD8")
  /\ \E r \in Replies :
       /\ cmd_write("CMD8", 0, r)
       /\ drv' = IF r = 1 THEN [drv EXCEPT !.at = "CMD55", !.i = INITV2_TRIES, !.j = SDHC_TRIES]
                       ELSE [drv EXCEPT !.at = "CMD1", !.i = INIT_TRIES]
  /\ Same

(* The card is taken for a small one, initialised or not.                  *)
Small == drv' = [drv EXCEPT !.at = "CMD16", !.is_sdhc = FALSE]

WaitInit ==
  /\ At("CMD1")
  /\ \E r \in Replies :
       /\ cmd_write("CMD1", 0, r)
       /\ IF r = 0 \/ drv.i = 1 THEN Small ELSE Retry(drv.i - 1, "CMD1")
  /\ Same

(* Another round of wait_initV2; the loop gives up after SDHC_TRIES.       *)
Again == IF drv.j = 1 THEN Small
         ELSE drv' = [drv EXCEPT !.at = "CMD55", !.i = INITV2_TRIES, !.j = @ - 1]
OnceMore == IF drv.i = 1 THEN Again ELSE Retry(drv.i - 1, "CMD55")

Prefix ==
  /\ At("CMD55")
  /\ \E r \in Replies :
       /\ cmd_write("CMD55", 0, r)
       /\ IF r = 1 THEN Go("CMD41") ELSE OnceMore
  /\ Same

WaitInitV2 ==
  /\ At("CMD41")
  /\ \E r \in Replies :
       /\ cmd_write("CMD41", 0, r)
       /\ IF r = 0 THEN Go("CMD58") ELSE OnceMore
  /\ Same

\* mutant: the bit is looked for before it has been read
CapacityBlind ==
  /\ At("CMD58")
  /\ \E r \in Replies :
       /\ cmd_write("CMD58", 0, r)
       /\ IF r = 0 THEN Go("CMD9") ELSE Again
  /\ Same

Capacity ==
  /\ At("CMD58")
  /\ \E r \in Replies :
       /\ cmd_write("CMD58", 0, r)
       /\ IF r # 0 THEN Again ELSE IF card.kind = "hc" THEN Go("CMD9") ELSE Small
  /\ Same

BlockSize ==
  At("CMD16") /\ (\E r \in Replies : cmd_write("CMD16", Address(1), r)) /\ Go("CMD9") /\ Same

(* sd_readsizefromcard; the card is released.                              *)
ReadCsd ==
  /\ At("CMD9") /\ card' = Deselected(card) /\ Go("idle") /\ UNCHANGED <<faults, missed>> /\ Same

-----------------------------------------------------------------------------
(* sd_read_sector and sd_write_sector.                                     *)

Call ==
  /\ At("idle") /\ ask' \in Calls
  /\ Go(IF ask'.fn = "read" THEN "readcmd" ELSE "writecmd")
  /\ card' = Selected(card) /\ fate' = IF card.busy > 0 THEN "late" ELSE "due"
  /\ UNCHANGED <<mem, answer, faults, missed, slow>>

Return(a) == ask' = NoAsk /\ answer' = a /\ fate' = "due" /\ Go("idle")

(* A command that is not accepted returns with the card still selected.    *)
ReadCommand ==
  /\ At("readcmd")
  /\ \E r \in Replies :
       /\ cmd_write("read", Address(ask.lba), r)
       /\ IF r # 0 THEN Return(Failed) ELSE Go("token") /\ UNCHANGED <<ask, answer, fate>>
  /\ UNCHANGED <<mem, slow>>

(* sd_read: the block, or 1500000 polls without a token.                   *)
\* mutant: the polls run out and nobody notices
ReadBlockUnchecked ==
  /\ At("token")
  /\ \/ /\ card.heard = "read" /\ UNCHANGED faults
        /\ Return([ok |-> TRUE, v |-> mem[card.sector]])
     \/ /\ card.heard # "read" \/ MayFail
        /\ faults' = IF card.heard = "read" THEN faults + 1 ELSE faults
        /\ \E v \in Values : Return([ok |-> TRUE, v |-> v])
  /\ card' = Deselected(card) /\ UNCHANGED <<mem, missed, slow>>

ReadBlock ==
  /\ At("token")
  /\ \/ /\ card.heard = "read" /\ UNCHANGED faults
        /\ Return([ok |-> TRUE, v |-> mem[card.sector]])
     \/ /\ card.heard # "read" \/ MayFail
        /\ faults' = IF card.heard = "read" THEN faults + 1 ELSE faults
        /\ Return(Failed)
  /\ card' = Deselected(card) /\ UNCHANGED <<mem, missed, slow>>

WriteCommand ==
  /\ At("writecmd")
  /\ \E r \in Replies :
       /\ cmd_write("write", Address(ask.lba), r)
       /\ IF r # 0 THEN Return(Failed) ELSE Go("data") /\ UNCHANGED <<ask, answer, fate>>
  /\ UNCHANGED <<mem, slow>>

(* The block; the card takes it if it is waiting for one, or refuses it.   *)
(* Its response byte is not looked at.                                     *)
WriteBlock ==
  /\ At("data")
  /\ \/ /\ card.heard = "write" /\ fate' = "stored" /\ UNCHANGED faults
        /\ mem' = [mem EXCEPT ![card.sector] = ask.v]
        /\ \E n \in 0..MaxBusy : /\ card' = [card EXCEPT !.heard = "none", !.busy = n]
                               /\ slow' = (n > BUSY_POLLS)
     \/ /\ card.heard = "write" /\ fate' = "refused" /\ MayFail /\ faults' = faults + 1
        /\ card' = [card EXCEPT !.heard = "none"] /\ UNCHANGED <<mem, slow>>
     \/ card.heard # "write" /\ UNCHANGED <<mem, card, fate, faults, slow>>
  /\ Retry(BUSY_POLLS, "wait")
  /\ UNCHANGED <<ask, answer, missed>>

(* One poll of the data line; after the last one the write counts as done. *)
\* mutant: it counts as done before the last poll
WaitTooShort ==
  /\ At("wait")
  /\ IF card.busy > 0 /\ drv.i > 2
     THEN /\ Retry(drv.i - 1, "wait") /\ card' = [card EXCEPT !.busy = @ - 1]
          /\ UNCHANGED <<ask, answer, fate>>
     ELSE /\ Return([ok |-> TRUE])
          /\ card' = Deselected([card EXCEPT !.busy = IF @ > 0 THEN @ - 1 ELSE 0])
  /\ UNCHANGED <<mem, faults, missed, slow>>

WaitWritten ==
  /\ At("wait")
  /\ IF card.busy > 0 /\ drv.i > 1
     THEN /\ Retry(drv.i - 1, "wait") /\ card' = [card EXCEPT !.busy = @ - 1]
          /\ UNCHANGED <<ask, answer, fate>>
     ELSE /\ Return([ok |-> TRUE])
          /\ card' = Deselected([card EXCEPT !.busy = IF @ > 0 THEN @ - 1 ELSE 0])
  /\ UNCHANGED <<mem, faults, missed, slow>>

CardFinishes ==
  /\ card.busy > 0 /\ card' = [card EXCEPT !.busy = @ - 1]
  /\ UNCHANGED <<mem, drv, ask, answer, faults, missed, fate, slow>>

Running ==
  \/ Start \/ Reset \/ Interface \/ WaitInit \/ Prefix \/ WaitInitV2 \/ Capacity
  \/ BlockSize \/ ReadCsd
  \/ ReadCommand \/ ReadBlock \/ WriteCommand \/ WriteBlock \/ WaitWritten

Next == Running \/ Insert \/ Call \/ CardFinishes
Spec == Init /\ [][Next]_vars
FairSpec == Spec /\ WF_vars(Running)

-----------------------------------------------------------------------------
(* spi_init is over, and the driver counts in another unit than the card.  *)
WrongUnit ==
  /\ drv.at \in {"idle", "readcmd", "token", "writecmd", "data", "wait"}
  /\ card.mode = "ready" /\ drv.is_sdhc # (card.kind = "hc")

(* The FAT library may take the two functions for a store of sectors, as   *)
(* long as they count in the card's unit: a sector is never taken for      *)
(* another one, a read never delivers anything else, a write that answers  *)
(* 0 has changed nothing, and one that answers 1 has stored its sector,    *)
(* unless the card has refused the block, or was still at work on an       *)
(* earlier write when the call came: which it may be only if that write    *)
(* took longer than the 100000 polls it was given.                         *)
Store == INSTANCE SectorStore WITH store <- mem, blind <- WrongUnit
ImplementsSectorStore == Store!Spec

(* A card that has become ready is addressed the way it counts: in bytes,  *)
(* or, an SDHC card, in sectors; however slowly it came up, and whatever   *)
(* commands of spi_init were lost or refused, but for CMD8, without which  *)
(* a card is taken for an old one, and CMD58: a ready card does not answer *)
(* CMD55 the way wait_initV2 wants it, so that it is never asked again.    *)
AddressedRight ==
  SpiTypeOK /\ (missed \cap {"CMD8", "CMD58"} = {} => ~WrongUnit)

(* spi_init and both functions return, card or no card.                    *)
DriverReturns == (drv.at # "idle") ~> (drv.at = "idle")
=============================================================================
