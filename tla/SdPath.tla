------------------------------- MODULE SdPath -------------------------------
(***************************************************************************)
(* The way of a byte between the core and the SD card: the core's bus      *)
(* cycles on the SD space, sdcard.v with its synchronised strobes, two     *)
(* adapters, two FIFOs and the shifter, clock by clock, and the boot       *)
(* overlay of sd_subsystem.v that hides the registers until a write.       *)
(*                                                                         *)
(* External: the core (no wait states: the space acknowledges itself), the *)
(* card, and a driver that goes by the STATUS register: it writes and reads*)
(* as many bytes as the last status allows and commands the shifter only   *)
(* when the last status showed it idle.  Driver and card number the bytes  *)
(* they send, so that a byte lost, doubled or swapped shows.               *)
(***************************************************************************)
EXTENDS Shifter

CONSTANTS
  HALF,            (* 16 in the source: half of the FIFO                   *)
  CYCLE,           (* bytes are numbered modulo CYCLE                      *)
  Lengths,         (* lengths of receive commands: 13 bits, and not 0,     *)
                   (* which would start on what rx_length held before      *)
  ClkDivs,         (* clock dividers the driver sets                       *)
  MaxResets        (* bound on resets                                      *)

ASSUME SdPathAssumption ==
  /\ Byte = 0..CYCLE-1 /\ {HALF, CYCLE} \subseteq Nat \ {0}
  /\ \A n \in Lengths : n \in Nat /\ 1 <= n /\ n < 8192
  /\ 2 * HALF <= DEPTH + 3            (* what is half empty takes half more *)
  /\ ClkDivs \subseteq 0..255 /\ MaxResets \in Nat

VARIABLES
  s, op,                               (* external: the core's bus cycle   *)
  sd_dtack_n, wr_sync, rd_sync,        (* three stages, the newest first   *)
  tx_cb, tx_fifo, rx_cb, rx_fifo,
  clk_div, mode, new_rx_length, set_rx_length,
  DATA_OUT, sd_enabled,
  tx_next, sent,                       (* history: bytes written, shifted  *)
  card_next, want,                     (* history: bytes received, read    *)
  pending, due,                        (* history: bytes written and not   *)
                                       (* yet sent; still to be received   *)
  tx_credit, rx_credit, idle,          (* external: what the driver knows  *)
  unread, resets

busVars == <<s, op, sd_dtack_n, wr_sync, rd_sync>>
pathVars == <<tx_cb, tx_fifo, rx_cb, rx_fifo, DATA_OUT, sd_enabled>>
ctrlVars == <<clk_div, mode, new_rx_length, set_rx_length>>
history == <<tx_next, sent, card_next, want, pending, due>>
driverVars == <<tx_credit, rx_credit, idle, unread>>
vars == <<shifterVars, busVars, pathVars, ctrlVars, history, driverVars, resets>>

Num(n) == n % CYCLE

----------------------------------------------------------------------------
(* The core's cycle (external): a cycle is chosen at S1, AS is low from S2 *)
(* to S6, the strobes of a read with it, those of a write from S4.         *)

Op(reg, rw, word) ==
  [reg |-> reg, rw |-> rw, word |-> word, mode |-> "STOP", len |-> 0]
Command(m, n) == [Op("SHIFT_CTRL", FALSE, TRUE) EXCEPT !.mode = m, !.len = n]
Divider(n) == [Op("CLKDIV", FALSE, TRUE) EXCEPT !.len = n]

DataOps == {Op("DATA", rw, word) : rw \in BOOLEAN, word \in BOOLEAN}
CommandOps == {Command(m, 0) : m \in Modes \ {"RX"}}
              \cup {Command("RX", n) : n \in Lengths}
DividerOps == {Divider(n) : n \in ClkDivs}
Ops == {Op("STATUS", TRUE, TRUE)} \cup DataOps \cup CommandOps \cup DividerOps

NoOp == Op("STATUS", TRUE, TRUE)          (* between cycles, by convention  *)

as_n == s \notin {"S2", "S3", "S4", "SW", "S5", "S6"}
ds_n == s \notin (IF op.rw THEN {"S2", "S3", "S4", "SW", "S5", "S6"}
                           ELSE {"S4", "SW", "S5", "S6"})
ACCESS == ~as_n                       (* sd_space: every cycle is ours      *)

Bytes(o) == IF o.word THEN 2 ELSE 1

Sends == mode \in {"TX", "BOTH"}
Receives == mode \in {"RX", "BOTH"}

(* What the driver may do next.                                            *)
Allowed(o) ==
  /\ o.rw => sd_enabled
  /\ o.reg = "DATA" => Bytes(o) <= (IF o.rw THEN rx_credit ELSE tx_credit)
  /\ o.reg = "DATA" /\ ~o.rw => Sends
  /\ o.reg \in {"SHIFT_CTRL", "CLKDIV"} => idle /\ unread = 0

Successor == [S1 |-> "S2", S2 |-> "S3", S3 |-> "S4", SW |-> "S4", S5 |-> "S6",
              S6 |-> "S7"]

CoreIdle == s = "S0" /\ UNCHANGED <<s, op>>
CoreStart == s = "S0" /\ s' = "S1" /\ op' \in {o \in Ops : Allowed(o)}
CoreAdvance == s \in DOMAIN Successor /\ s' = Successor[s] /\ UNCHANGED op
CoreRelease == s = "S7" /\ s' = "S0" /\ op' = NoOp
CoreSample ==
  /\ s = "S4" /\ UNCHANGED op
  /\ s' = IF sd_dtack_n THEN "SW" ELSE "S5"

----------------------------------------------------------------------------
(* sdcard.v.                                                               *)

wr_access == ACCESS /\ ~ds_n /\ ~op.rw
rd_access == ACCESS /\ ~ds_n /\ op.rw

(* wr_sync[2:1] == 2'b01                                                   *)
wr_strobe == wr_sync[2] /\ ~wr_sync[3]
rd_strobe == rd_sync[2] /\ ~rd_sync[3]

Sync(stages, x) == <<x, stages[1], stages[2]>>

(* The written word while the core drives it; then the bus floats.         *)
D_IN == IF ds_n THEN <<AnyByte, AnyByte>> ELSE <<Num(tx_next), Num(tx_next + 1)>>

Strobed(strobe, word) ==
  strobe /\ op.reg = "DATA" /\ ~ds_n /\ op.word = word

tx_fifo_wr_req == ~tx_fifo.full /\ tx_cb.u_full
shifter_tx_wr_req == ~in_full /\ ~empty(tx_fifo)
rx_fifo_wr_req == out_full /\ ~rx_fifo.full
rx_fifo_rd_req == ~rx_cb.l_full /\ ~empty(rx_fifo)

TxClock ==
  /\ tx_cb' = TxBufClock(tx_cb, Strobed(wr_strobe, FALSE), Strobed(wr_strobe, TRUE),
                         ~tx_fifo.full, D_IN)
  /\ tx_fifo' = FifoClock(tx_fifo, shifter_tx_wr_req, tx_fifo_wr_req, tx_cb.u)

RxClock ==
  /\ rx_cb' = RxBufClock(rx_cb, Strobed(rd_strobe, FALSE), Strobed(rd_strobe, TRUE),
                         ~empty(rx_fifo), q(rx_fifo))
  /\ rx_fifo' = FifoClock(rx_fifo, rx_fifo_rd_req, rx_fifo_wr_req, out_reg)

tx_len == length(tx_fifo) + buf_len(tx_cb)
rx_len == length(rx_fifo) + buf_len(rx_cb)

(* The bits of STATUS.                                                     *)
status ==
  {b \in {"busy", "tx_half", "rx_half", "tx_full", "tx_empty", "rx_full", "rx_empty"} :
     CASE b = "busy" -> busy [] b = "tx_half" -> tx_len < HALF
       [] b = "rx_half" -> rx_len >= HALF
       [] b = "tx_full" -> tx_cb.l_full [] b = "tx_empty" -> ~tx_cb.u_full
       [] b = "rx_full" -> rx_cb.l_full [] b = "rx_empty" -> ~rx_cb.u_full}

ReadLatch ==
  DATA_OUT' = IF ~rd_strobe THEN DATA_OUT
              ELSE IF op.reg = "STATUS" THEN <<"status", status>>
              ELSE <<"data", rx_cb.u, rx_cb.l>>

ControlClock ==
  LET ctrl == wr_strobe /\ op.reg = "SHIFT_CTRL"
  IN  /\ clk_div' = IF wr_strobe /\ op.reg = "CLKDIV" THEN op.len ELSE clk_div
      /\ mode' = IF ctrl THEN op.mode ELSE mode
      /\ new_rx_length' = IF ctrl THEN op.len ELSE new_rx_length
      /\ set_rx_length' = ctrl

StrobeClock ==
  /\ wr_sync' = Sync(wr_sync, wr_access) /\ rd_sync' = Sync(rd_sync, rd_access)
  /\ sd_dtack_n' = as_n
  /\ sd_enabled' = (sd_enabled \/ wr_access)

miso == Num(card_next)
Begins == Begin(mode, set_rx_length, new_rx_length, shifter_tx_wr_req,
                q(tx_fifo), rx_fifo_wr_req)
Shifts == Shift(mode, clk_div, miso, shifter_tx_wr_req, q(tx_fifo), rx_fifo_wr_req)
Unloads == Unload(mode, shifter_tx_wr_req, q(tx_fifo), rx_fifo_wr_req)

CardClock == TxClock /\ RxClock /\ ReadLatch /\ ControlClock /\ StrobeClock

----------------------------------------------------------------------------
(* History and what the driver makes of it, at the end of S6.              *)

ByteDone == LastBit(clk_div)

Count ==
  /\ sent' = IF ByteDone /\ Sends THEN Num(sent + 1) ELSE sent
  /\ card_next' = IF ByteDone /\ Receives THEN Num(card_next + 1) ELSE card_next

Commanded == s = "S6" /\ op.reg = "SHIFT_CTRL"
DataRead == s = "S6" /\ op.reg = "DATA" /\ op.rw
DataWritten == s = "S6" /\ op.reg = "DATA" /\ ~op.rw
StatusRead == s = "S6" /\ op.reg = "STATUS"
Shown(b) == b \in DATA_OUT[2]
Most(S) == CHOOSE n \in S : \A k \in S : k <= n

Driver ==
  /\ tx_next' = IF DataWritten THEN Num(tx_next + Bytes(op)) ELSE tx_next
  /\ want' = IF DataRead THEN Num(want + Bytes(op)) ELSE want
  /\ unread' = IF Commanded THEN op.len
               ELSE IF DataRead THEN unread - Bytes(op)
               ELSE IF DataWritten /\ mode = "BOTH" THEN unread + Bytes(op)
               ELSE unread
  /\ pending' = pending + (IF DataWritten THEN Bytes(op) ELSE 0)
                        - (IF ByteDone /\ Sends THEN 1 ELSE 0)
  /\ due' = IF Commanded THEN op.len
            ELSE IF ByteDone /\ mode = "RX" THEN due - 1 ELSE due
  /\ tx_credit' = IF Commanded \/ ~Sends THEN 0
                  ELSE IF StatusRead
                  THEN Most({0} \cup (IF Shown("tx_full") THEN {} ELSE {1})
                                \cup (IF Shown("tx_empty") THEN {2} ELSE {})
                                \cup (IF Shown("tx_half") THEN {HALF} ELSE {}))
                  ELSE IF DataWritten THEN tx_credit - Bytes(op) ELSE tx_credit
  /\ rx_credit' = IF Commanded THEN 0
                  ELSE IF StatusRead
                  THEN Most({0} \cup (IF Shown("rx_empty") THEN {} ELSE {1})
                                \cup (IF Shown("rx_full") THEN {2} ELSE {})
                                \cup (IF Shown("rx_half") THEN {HALF} ELSE {}))
                  ELSE IF DataRead THEN rx_credit - Bytes(op) ELSE rx_credit
  /\ idle' = IF StatusRead THEN ~Shown("busy") /\ Shown("tx_empty")
             ELSE idle /\ ~DataWritten /\ ~Commanded

----------------------------------------------------------------------------
Init ==
  /\ s = "S0" /\ op = NoOp /\ sd_dtack_n = TRUE
  /\ wr_sync = <<FALSE, FALSE, FALSE>> /\ rd_sync = <<FALSE, FALSE, FALSE>>
  /\ tx_cb = BufInit /\ tx_fifo = FifoInit /\ rx_cb = BufInit /\ rx_fifo = FifoInit
  /\ ShifterInit({0} \cup Lengths)
  /\ clk_div \in ClkDivs /\ mode = "STOP"
  /\ new_rx_length = 0 /\ set_rx_length = FALSE
  /\ DATA_OUT = <<"data", AnyByte, AnyByte>> /\ sd_enabled = FALSE
  /\ tx_next = 0 /\ sent = 0 /\ card_next = 0 /\ want = 0
  /\ pending = 0 /\ due = 0
  /\ tx_credit = 0 /\ rx_credit = 0 /\ idle = TRUE /\ unread = 0 /\ resets = 0

Clock ==
  /\ CoreIdle \/ CoreStart \/ CoreAdvance \/ CoreSample \/ CoreRelease
  /\ Begins \/ Shifts \/ Unloads
  /\ CardClock /\ Count /\ Driver
  /\ UNCHANGED resets

(* Reset, held far longer than its three synchroniser stages: the core     *)
(* starts over, and with it the driver.                                    *)
Reset ==
  /\ resets < MaxResets /\ resets' = resets + 1
  /\ s' = "S0" /\ op' = NoOp /\ sd_dtack_n' = TRUE /\ sd_enabled' = FALSE
  /\ wr_sync' = <<FALSE, FALSE, FALSE>> /\ rd_sync' = <<FALSE, FALSE, FALSE>>
  /\ ShifterReset
  /\ tx_fifo' = sclr(tx_fifo) /\ rx_fifo' = sclr(rx_fifo)
  /\ tx_cb' = BufClear(tx_cb) /\ rx_cb' = BufClear(rx_cb)
  /\ mode' = "STOP" /\ set_rx_length' = FALSE
  /\ tx_next' = 0 /\ sent' = 0 /\ card_next' = 0 /\ want' = 0
  /\ pending' = 0 /\ due' = 0
  /\ tx_credit' = 0 /\ rx_credit' = 0 /\ idle' = TRUE /\ unread' = 0
  /\ UNCHANGED <<clk_div, new_rx_length, DATA_OUT>>

Next == Clock \/ Reset

Spec == Init /\ [][Next]_vars

----------------------------------------------------------------------------
(* Properties.                                                             *)

SdPathTypeOK ==
  /\ ShifterTypeOK
  /\ s \in {"S0", "S7"} \cup DOMAIN Successor \cup {"S4"} /\ op \in Ops
  /\ {sd_dtack_n, set_rx_length, sd_enabled, idle} \subseteq BOOLEAN
  /\ {wr_sync, rd_sync} \subseteq BOOLEAN \X BOOLEAN \X BOOLEAN
  /\ {tx_cb, rx_cb} \subseteq BufStates /\ {tx_fifo, rx_fifo} \subseteq FifoStates
  /\ clk_div \in ClkDivs /\ mode \in Modes
  /\ {new_rx_length, pending, due, tx_credit, rx_credit, unread} \subseteq Nat

(* Bytes reach the card in the order in which the driver wrote them, none  *)
(* lost, none doubled: with a write strobe that comes on the last clock of *)
(* its bus cycle (sdcard.v:82-91), the adapter overtaken by its FIFO       *)
(* (tx_cpu_buf.v:44-63) and bursts written on the strength of one status.  *)
TxInOrder == state = "SHIFTING" /\ Sends => sr = sent

(* A read of the data register latches the next byte (or two) that came    *)
(* from the card, whatever happened since the status was read: the strobe  *)
(* pops the adapter before the core latches (sdcard.v:336-351).            *)
RxInOrder ==
  DataRead => /\ DATA_OUT[1] = "data" /\ DATA_OUT[2] = want
              /\ op.word => DATA_OUT[3] = Num(want + 1)

(* Bytes keep their order both ways.                                       *)
BytesInOrder == SdPathTypeOK /\ TxInOrder /\ RxInOrder

(* A status that shows the shifter idle and the adapter empty means that   *)
(* all is done: every byte written has been shifted out, a receive command *)
(* has clocked in exactly as many bytes as it asked for, and all that came *)
(* from the card and was not read yet is still on its way.                 *)
StatusTrue ==
  StatusRead /\ ~Shown("busy") /\ Shown("tx_empty") =>
    /\ pending = 0 /\ due = 0
    /\ unread = rx_len + (IF out_full THEN 1 ELSE 0)
=============================================================================
