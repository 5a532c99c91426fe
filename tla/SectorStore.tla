----------------------------- MODULE SectorStore -----------------------------
(***************************************************************************)
(* What sd_read_sector and sd_write_sector promise the FAT library, unless *)
(* they are blind to where a sector lies: one request at a time; a read    *)
(* that answers 1 delivers the sector asked for; a write that answers 0    *)
(* has left every sector alone, and one that answers 1 has stored its own  *)
(* - or had its block refused, or came when the device was late with the   *)
(* last one, after a write that took too long.  Either may fail.           *)
(***************************************************************************)
CONSTANTS Sectors, Values
VARIABLES store, ask, answer,
  fate,               (* of what is to be written                          *)
  slow,               (* the last write took longer than it was waited for *)
  blind

vars == <<store, ask, answer, fate, slow, blind>>

Asks == [fn : {"read", "write"}, lba : Sectors, v : Values]
Idle == [fn |-> "none"]
Failed == [ok |-> FALSE]

Init ==
  store \in [Sectors -> Values] /\ ask = Idle /\ answer = Failed /\ fate = "due"
  /\ ~slow /\ ~blind

Ask == /\ ask = Idle /\ ask' \in Asks
       /\ fate' = "due" \/ (slow /\ fate' = "late")
       /\ UNCHANGED <<store, answer, slow>>

Writing == ask # Idle /\ ask.fn = "write" /\ fate \in {"due", "late"}

Store == /\ Writing /\ fate' = "stored" /\ store' = [store EXCEPT ![ask.lba] = ask.v]
         /\ slow' \in BOOLEAN /\ UNCHANGED <<ask, answer>>

Refuse == Writing /\ fate' = "refused" /\ UNCHANGED <<store, ask, answer, slow>>

Answer == /\ ask # Idle
          /\ \/ fate # "stored" /\ answer' = Failed
             \/ ask.fn = "write" /\ fate # "due" /\ answer' = [ok |-> TRUE]
             \/ ask.fn = "read" /\ answer' = [ok |-> TRUE, v |-> store[ask.lba]]
          /\ ask' = Idle /\ fate' = "due" /\ UNCHANGED <<store, slow>>

Next == blind' \/ ((Ask \/ Store \/ Refuse \/ Answer) /\ UNCHANGED blind)
Spec == Init /\ [][Next]_vars
=============================================================================
