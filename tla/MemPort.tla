------------------------------ MODULE MemPort ------------------------------
(***************************************************************************)
(* What the SDRAM controller promises its requester (the interface block   *)
(* of sdram_ctrl.v, lines 46-67): a memory with one port.  A request is    *)
(* accepted when the port is idle; a write takes the data offered at one   *)
(* later instant and changes exactly the enabled lanes of the accepted     *)
(* word; a read answers with the accepted word; every accepted request is  *)
(* answered by exactly one clock of ack, and nothing more is accepted      *)
(* until the requester has let go of req.  Reset abandons a request: an    *)
(* abandoned write has happened completely or not at all.                  *)
(***************************************************************************)
CONSTANTS Address, Lanes, Byte, NoData

VARIABLES store, phase, address, ack, data

portVars == <<store, phase, address, ack, data>>

PortWord == [Lanes -> Byte]

PortInit ==
  /\ \E fill \in Byte : store = [a \in Address |-> [l \in Lanes |-> fill]]
  /\ phase = "idle" /\ address \in Address
  /\ ack = FALSE /\ data = NoData

Accept(a, ph) ==
  /\ phase = "idle" /\ phase' = ph /\ address' = a
  /\ ack' = FALSE /\ UNCHANGED <<store, data>>

(* While a row change waits, the address latch follows the bus.            *)
Look(a) ==
  /\ phase = "idle" /\ address' = a
  /\ ack' = FALSE /\ UNCHANGED <<store, phase, data>>

TakeWrite(w, be) ==
  /\ phase = "writing" /\ phase' = "written"
  /\ store' = [store EXCEPT ![address] =
                 [l \in Lanes |-> IF l \in be THEN w[l] ELSE @[l]]]
  /\ UNCHANGED <<address, ack, data>>

Answer ==
  /\ \/ phase = "reading" /\ data' = store[address]
     \/ phase = "written" /\ UNCHANGED data
  /\ phase' = "answered" /\ ack' = TRUE
  /\ UNCHANGED <<store, address>>

EndAck ==
  /\ phase = "answered" /\ ack
  /\ ack' = FALSE /\ phase' \in {"answered", "idle"}
  /\ UNCHANGED <<store, address, data>>

Release ==
  /\ phase = "answered" /\ ~ack /\ phase' = "idle"
  /\ UNCHANGED <<store, address, ack, data>>

Abandon ==
  /\ phase' = "idle" /\ ack' = FALSE /\ data' = NoData
  /\ UNCHANGED <<store, address>>

PortNext ==
  \/ \E a \in Address : Look(a) \/ \E ph \in {"reading", "writing"} : Accept(a, ph)
  \/ \E w \in PortWord, be \in SUBSET Lanes : TakeWrite(w, be)
  \/ Answer \/ EndAck \/ Release \/ Abandon

PortSpec == PortInit /\ [][PortNext]_portVars
=============================================================================
