----------------------------- MODULE SdramCtrl -----------------------------
(***************************************************************************)
(* sdram_ctrl.v: the open-row controller behind the fast RAM.  One action  *)
(* per arm of its state machine; every action is one clock and carries the *)
(* three counters that run beside the machine (refresh interval, refresh   *)
(* deferral, per-bank tRAS).  An action's parameters are the inputs the    *)
(* arm samples on that clock.                                              *)
(*                                                                         *)
(* Spec lets every input take every value on every clock: what this module *)
(* promises about the device's timing may not depend on how well the       *)
(* requester behaves.  FastmemBridge drives the same arms from the real    *)
(* requester.                                                              *)
(***************************************************************************)
EXTENDS SdramChip

CONSTANTS
  T_RCD, T_RP, T_RAS, T_RFC, T_MRD,   (* the module's parameters           *)
  T_REFI, REF_DEFER,
  INIT_CYCLES,                        (* power-up wait (T_INIT_US)         *)
  RAS_SAT, DEFER_SAT,                 (* 4'hF and 8'hFF: counters stop here*)
  Row0                                (* row 13'd0                         *)

ASSUME CtrlAssumption ==
  /\ {T_RCD, T_RP, T_RAS, T_RFC, T_MRD, T_REFI, REF_DEFER, INIT_CYCLES,
      RAS_SAT, DEFER_SAT} \subseteq Nat
  /\ T_RAS <= RAS_SAT
  /\ REF_DEFER <= DEFER_SAT
  /\ Row0 \in Row

(* What the parameters must give the device, in clocks: the arms between   *)
(* two commands add a few clocks of their own to each wait.  The values    *)
(* the gateware is built with keep far inside it.                          *)
ASSUME TimingAssumption ==
  /\ C_RCD <= T_RCD + 2
  /\ C_RP <= T_RP + 1
  /\ C_RAS <= T_RCD + 5 /\ C_RAS <= INIT_CYCLES + 2
  /\ C_RC <= T_RCD + T_RP + 6 /\ C_RC <= INIT_CYCLES + 2
  /\ C_RP <= INIT_CYCLES + 2
  /\ C_RFC <= T_RFC + 2
  /\ T_RAS <= T_RCD + 4

VARIABLES
  state, timer, init_cnt, init_done,
  refresh_timer, refresh_due, ref_defer,
  row_open,                  (* the set of banks with an open row          *)
  open_row,                  (* per bank: the row opened last              *)
  ras_timer,
  cur_bank, cur_row, cur_col, cur_we,
  ack, rdata

latchVars == <<cur_bank, cur_row, cur_col, cur_we>>
ctrlVars == <<state, timer, init_cnt, init_done, refresh_timer, refresh_due,
              ref_defer, row_open, open_row, ras_timer, latchVars, ack, rdata>>
vars == <<ctrlVars, chipVars>>

States == {"INIT_WAIT", "INIT_PRE", "INIT_REF1", "INIT_REF2", "INIT_MODE",
           "IDLE", "PRECHG", "ACTIVE", "RW", "RD_WAIT", "RD_DONE",
           "WR_DONE", "REF_PRE", "REFRESH", "ACK_WAIT"}

TimerMax == CHOOSE m \in {T_RCD, T_RP, T_RFC, T_MRD, CAS_LAT} :
              \A t \in {T_RCD, T_RP, T_RFC, T_MRD, CAS_LAT} : t <= m

TypeOK ==
  /\ ChipTypeOK
  /\ state \in States
  /\ timer \in 0..TimerMax
  /\ init_cnt \in 0..INIT_CYCLES
  /\ {init_done, refresh_due, cur_we, ack} \subseteq BOOLEAN
  /\ refresh_timer \in 0..T_REFI
  /\ ref_defer \in 0..DEFER_SAT
  /\ row_open \subseteq Bank
  /\ open_row \in [Bank -> Row]
  /\ ras_timer \in [Bank -> 0..RAS_SAT]
  /\ cur_bank \in Bank /\ cur_row \in Row /\ cur_col \in Col
  /\ rdata \in Word \cup {NoData}

ack_early  == state \in {"RD_DONE", "WR_DONE"}
rdata_live == pipe[CAS_LAT + 1]
ref_urgent == ref_defer >= REF_DEFER

----------------------------------------------------------------------------
(* The state `reset' forces.  ref_defer, the latches and the chip are not  *)
(* in the reset clause.                                                    *)

ResetValues(st, tm, cnt, done, rt, due, ro, a) ==
  /\ st = "INIT_WAIT" /\ tm = 0 /\ cnt = INIT_CYCLES /\ done = FALSE
  /\ rt = 0 /\ due = FALSE /\ ro = {} /\ a = FALSE

Init ==
  /\ ChipInit
  /\ ResetValues(state, timer, init_cnt, init_done, refresh_timer,
                 refresh_due, row_open, ack)
  /\ ref_defer = 0
  /\ open_row = [b \in Bank |-> Row0]
  /\ ras_timer = [b \in Bank |-> 0]
  /\ cur_bank \in Bank /\ cur_row = Row0 /\ cur_col \in Col /\ cur_we = FALSE
  /\ rdata = NoData

Reset ==
  /\ ResetValues(state', timer', init_cnt', init_done', refresh_timer',
                 refresh_due', row_open', ack')
  /\ open_row' = [b \in Bank |-> Row0]
  /\ ras_timer' = [b \in Bank |-> 0]
  /\ rdata' = NoData
  /\ UNCHANGED <<ref_defer, latchVars>>
  /\ Nop

----------------------------------------------------------------------------
(* The counters that run on every clock outside reset.                     *)

\* mutant: the interval counter runs one clock past T_REFI
IntervalOverLate == init_done /\ refresh_timer > T_REFI

IntervalOver == init_done /\ refresh_timer >= T_REFI

CountInterval ==
  refresh_timer' = IF ~init_done THEN refresh_timer
                   ELSE IF IntervalOver THEN 0 ELSE refresh_timer + 1

CountRefresh ==
  /\ CountInterval
  /\ refresh_due' = (refresh_due \/ IntervalOver)
  /\ ref_defer' = IF ~refresh_due THEN 0
                  ELSE IF ref_defer < DEFER_SAT THEN ref_defer + 1
                  ELSE ref_defer

(* S_IDLE taking a refresh clears refresh_due in the same clock, after the *)
(* interval counter may have set it.                                       *)
\* mutant: the interval counter wins over the refresh being taken
TakeRefreshDue ==
  /\ CountInterval
  /\ refresh_due' = (refresh_due \/ IntervalOver)
  /\ ref_defer' = 0

TakeRefresh ==
  /\ CountInterval
  /\ refresh_due' = FALSE
  /\ ref_defer' = 0

\* mutant: the stray begin/end of lines 194-203, no counter ever runs
CountRasStopped(opened) ==
  ras_timer' = [b \in Bank |-> IF b \in opened THEN 0 ELSE ras_timer[b]]

CountRas(opened) ==
  ras_timer' = [b \in Bank |->
                  IF b \in opened THEN 0
                  ELSE IF b \in row_open /\ ras_timer[b] # RAS_SAT
                       THEN ras_timer[b] + 1 ELSE ras_timer[b]]

KeepRows == UNCHANGED <<row_open, open_row>> /\ CountRas({})
KeepLatch == UNCHANGED latchVars
Go(st, tm) == state' = st /\ timer' = tm
NoAck == ack' = FALSE /\ UNCHANGED rdata
InitOver == UNCHANGED <<init_cnt, init_done>>

OpenRow(b, r) ==
  /\ Activate(b, r)
  /\ open_row' = [open_row EXCEPT ![b] = r]
  /\ row_open' = row_open \cup {b}
  /\ CountRas({b})

(* What every arm leaves alone unless it says otherwise.                   *)
Plain == CountRefresh /\ KeepRows /\ KeepLatch /\ NoAck /\ InitOver

(* An arm that only counts its timer down.                                 *)
Waiting(st) ==
  /\ state = st /\ timer # 0
  /\ Go(st, timer - 1)
  /\ Plain /\ Nop

----------------------------------------------------------------------------
(* Power-up: wait, precharge everything, refresh twice, load the mode.     *)

InitWait ==
  /\ state = "INIT_WAIT"
  /\ IF init_cnt = 0 THEN Go("INIT_PRE", timer) /\ UNCHANGED init_cnt
                     ELSE Go("INIT_WAIT", timer) /\ init_cnt' = init_cnt - 1
  /\ CountRefresh /\ KeepRows /\ KeepLatch /\ NoAck /\ UNCHANGED init_done
  /\ Nop

InitPrecharge ==
  /\ state = "INIT_PRE"
  /\ Go("INIT_REF1", T_RP)
  /\ Plain
  /\ Precharge(Bank)

InitRefresh(st, next) ==
  \/ Waiting(st)
  \/ /\ state = st /\ timer = 0
     /\ Go(next, T_RFC)
     /\ Plain
     /\ Refresh

InitMode ==
  \/ Waiting("INIT_MODE")
  \/ /\ state = "INIT_MODE" /\ timer = 0
     /\ Go("IDLE", T_MRD)
     /\ init_done' = TRUE /\ UNCHANGED init_cnt
     /\ CountRefresh /\ KeepRows /\ KeepLatch /\ NoAck
     /\ LoadMode

Initialise ==
  \/ InitWait \/ InitPrecharge
  \/ InitRefresh("INIT_REF1", "INIT_REF2")
  \/ InitRefresh("INIT_REF2", "INIT_MODE")
  \/ InitMode

----------------------------------------------------------------------------
(* S_IDLE: refresh first when nobody asks or it is urgent, else the        *)
(* request: row hit, wrong row open, or bank closed.                       *)

RefreshNow(req) == refresh_due /\ (~req \/ ref_urgent)

\* mutant: refresh without closing the rows first
IdleRefreshOpen(req) ==
  /\ state = "IDLE" /\ timer = 0 /\ RefreshNow(req)
  /\ TakeRefresh
  /\ CountRas({}) /\ UNCHANGED open_row
  /\ KeepLatch /\ NoAck /\ InitOver
  /\ UNCHANGED row_open /\ Refresh /\ Go("REFRESH", T_RFC)

\* mutant: the rows are closed in the device but not in the table
IdleRefreshStale(req) ==
  /\ state = "IDLE" /\ timer = 0 /\ RefreshNow(req)
  /\ TakeRefresh
  /\ CountRas({}) /\ UNCHANGED open_row
  /\ KeepLatch /\ NoAck /\ InitOver
  /\ UNCHANGED row_open /\ Precharge(Bank) /\ Go("REF_PRE", T_RP)

IdleRefresh(req) ==
  /\ state = "IDLE" /\ timer = 0 /\ RefreshNow(req)
  /\ TakeRefresh
  /\ CountRas({}) /\ UNCHANGED open_row
  /\ KeepLatch /\ NoAck /\ InitOver
  /\ IF row_open # {}
     THEN row_open' = {} /\ Precharge(Bank) /\ Go("REF_PRE", T_RP)
     ELSE UNCHANGED row_open /\ Refresh /\ Go("REFRESH", T_RFC)

IdleQuiet(req) ==
  /\ state = "IDLE" /\ timer = 0 /\ ~RefreshNow(req) /\ ~req
  /\ Go("IDLE", timer)
  /\ Plain /\ Nop

LatchRequest(we, b, r, c) ==
  cur_bank' = b /\ cur_row' = r /\ cur_col' = c /\ cur_we' = we

Dispatch(req, we, b, r, c) ==
  /\ state = "IDLE" /\ timer = 0 /\ ~RefreshNow(req) /\ req
  /\ LatchRequest(we, b, r, c)
  /\ CountRefresh /\ NoAck /\ InitOver

RowHit(b, r) == b \in row_open /\ open_row[b] = r

(* The READ goes out in the dispatching clock; a write waits in S_RW.      *)
IdleHit(req, we, b, r, c) ==
  /\ Dispatch(req, we, b, r, c) /\ RowHit(b, r)
  /\ KeepRows
  /\ IF we THEN Nop        /\ Go("RW", 0)
           ELSE Read(b, c) /\ Go("RD_WAIT", CAS_LAT)

(* Wrong row open: precharge once tRAS has run, else look again next clock.*)
IdleMiss(req, we, b, r, c) ==
  /\ Dispatch(req, we, b, r, c) /\ b \in row_open /\ open_row[b] # r
  /\ CountRas({}) /\ UNCHANGED open_row
  /\ IF ras_timer[b] >= T_RAS
     THEN row_open' = row_open \ {b} /\ Precharge({b}) /\ Go("PRECHG", T_RP)
     ELSE UNCHANGED row_open /\ Nop /\ Go("IDLE", timer)

IdleClosed(req, we, b, r, c) ==
  /\ Dispatch(req, we, b, r, c) /\ b \notin row_open
  /\ OpenRow(b, r)
  /\ Go("ACTIVE", T_RCD)

Idle(req, we, b, r, c) ==
  \/ Waiting("IDLE")
  \/ IdleRefresh(req) \/ IdleQuiet(req)
  \/ IdleHit(req, we, b, r, c)
  \/ IdleMiss(req, we, b, r, c)
  \/ IdleClosed(req, we, b, r, c)

----------------------------------------------------------------------------
(* The access itself, from the latched address.                            *)

Precharging ==
  \/ Waiting("PRECHG")
  \/ /\ state = "PRECHG" /\ timer = 0
     /\ OpenRow(cur_bank, cur_row)
     /\ Go("ACTIVE", T_RCD)
     /\ CountRefresh /\ KeepLatch /\ NoAck /\ InitOver

\* mutant: tRCD is not waited for
ActivatingNow ==
  /\ state = "ACTIVE"
  /\ Go("RW", 0)
  /\ Plain /\ Nop

Activating ==
  \/ Waiting("ACTIVE")
  \/ /\ state = "ACTIVE" /\ timer = 0
     /\ Go("RW", timer)
     /\ Plain /\ Nop

\* mutant: the WRITE goes out without waiting for wr_valid
ReadWriteEager(wr_valid, wdata, be) ==
  \/ Waiting("RW")
  \/ /\ state = "RW" /\ timer = 0 /\ ~cur_we
     /\ Read(cur_bank, cur_col)
     /\ Go("RD_WAIT", CAS_LAT)
     /\ Plain
  \/ /\ state = "RW" /\ timer = 0 /\ cur_we
     /\ Write(cur_bank, cur_col, wdata, be)
     /\ Go("WR_DONE", timer)
     /\ Plain

(* A write samples its data and byte enables live, once wr_valid says they *)
(* are there, and waits for that without limit.                            *)
ReadWrite(wr_valid, wdata, be) ==
  \/ Waiting("RW")
  \/ /\ state = "RW" /\ timer = 0 /\ ~cur_we
     /\ Read(cur_bank, cur_col)
     /\ Go("RD_WAIT", CAS_LAT)
     /\ Plain
  \/ /\ state = "RW" /\ timer = 0 /\ cur_we /\ wr_valid
     /\ Write(cur_bank, cur_col, wdata, be)
     /\ Go("WR_DONE", timer)
     /\ Plain
  \/ /\ state = "RW" /\ timer = 0 /\ cur_we /\ ~wr_valid
     /\ Go("RW", timer)
     /\ Plain /\ Nop

\* mutant: CAS latency counted one clock short
ReadLatencyShort ==
  /\ state = "RD_WAIT"
  /\ IF timer > 2 THEN Go("RD_WAIT", timer - 1) ELSE Go("RD_DONE", timer)
  /\ Plain /\ Nop

ReadLatency ==
  /\ state = "RD_WAIT"
  /\ IF timer > 1 THEN Go("RD_WAIT", timer - 1) ELSE Go("RD_DONE", timer)
  /\ Plain /\ Nop

ReadDone ==
  /\ state = "RD_DONE"
  /\ rdata' = rdata_live /\ ack' = TRUE
  /\ Go("ACK_WAIT", timer)
  /\ CountRefresh /\ KeepRows /\ KeepLatch /\ InitOver
  /\ Nop

WriteDone ==
  /\ state = "WR_DONE"
  /\ ack' = TRUE /\ UNCHANGED rdata
  /\ Go("ACK_WAIT", timer)
  /\ CountRefresh /\ KeepRows /\ KeepLatch /\ InitOver
  /\ Nop

(* Hold until the requester lets go, so a lingering req starts nothing.    *)
AckWait(req) ==
  /\ state = "ACK_WAIT"
  /\ Go(IF req THEN "ACK_WAIT" ELSE "IDLE", timer)
  /\ Plain /\ Nop

RefreshPrecharged ==
  \/ Waiting("REF_PRE")
  \/ /\ state = "REF_PRE" /\ timer = 0
     /\ Refresh
     /\ Go("REFRESH", T_RFC)
     /\ Plain

Refreshing ==
  \/ Waiting("REFRESH")
  \/ /\ state = "REFRESH" /\ timer = 0
     /\ Go("IDLE", timer)
     /\ Plain /\ Nop

(* One clock, given the inputs on it.                                      *)
Clock(req, we, b, r, c, wr_valid, wdata, be) ==
  \/ Initialise
  \/ Idle(req, we, b, r, c)
  \/ Precharging \/ Activating
  \/ ReadWrite(wr_valid, wdata, be)
  \/ ReadLatency \/ ReadDone \/ WriteDone
  \/ AckWait(req)
  \/ RefreshPrecharged \/ Refreshing

----------------------------------------------------------------------------
(* Every input on every clock.                                             *)

Next ==
  \/ Reset
  \/ Initialise
  \/ \E req, we \in BOOLEAN, b \in Bank, r \in Row, c \in Col :
       Idle(req, we, b, r, c)
  \/ Precharging \/ Activating
  \/ \E wr_valid \in BOOLEAN, wdata \in Word, be \in SUBSET Lanes :
       ReadWrite(wr_valid, wdata, be)
  \/ ReadLatency \/ ReadDone \/ WriteDone
  \/ \E req \in BOOLEAN : AckWait(req)
  \/ RefreshPrecharged \/ Refreshing

Spec == Init /\ [][Next]_vars

----------------------------------------------------------------------------
(* Properties.                                                             *)

(* No command the controller ever sends breaks a timing rule of the        *)
(* device, whatever the requester does and whenever reset strikes.  The    *)
(* hazard is the precharge-all before a refresh (sdram_ctrl.v:269): it     *)
(* does not look at ras_timer, so tRAS rests on every other arm taking     *)
(* long enough.  (The refresh interval is the requester's to keep too, and *)
(* is checked in FastmemBridge.)                                           *)
DeviceTiming == viol \cap {"tRCD", "tRP", "tRAS", "tRC", "tRFC"} = {}

(* Every READ and WRITE finds its bank active, no bank is activated twice, *)
(* and no refresh is sent with a row open - also across a reset in the     *)
(* middle of an access, which makes the controller forget its open rows    *)
(* while the device keeps them (sdram_ctrl.v:178).                         *)
BankRules == viol \cap {"bank", "refOpen"} = {}

(* The controller's open-row table is the device's: a row hit (line 298)   *)
(* really hits.                                                            *)
TableMatches(b) ==
  active[b] = IF b \in row_open THEN open_row[b] ELSE NoRow
RowTable == init_done => \A b \in Bank : TableMatches(b)

(* The wait for tRAS in S_IDLE (line 316) is never taken with the default  *)
(* parameters: by the time the machine is back in S_IDLE every open row    *)
(* has been open long enough.  The comment at lines 194-203 tells of a     *)
(* stray begin/end that stopped the counters and turned this wait into a   *)
(* stall until the next refresh.                                           *)
NoRasStall ==
  state = "IDLE" /\ timer = 0 =>
    \A b \in row_open : ras_timer[b] >= T_RAS

(* What the controller knows of a bank - its state, its row, how long it   *)
(* has been open - is well-typed and true whenever it decides on it.       *)
RowsKnown == TypeOK /\ RowTable /\ NoRasStall

(* The controller implements the one-port memory of MemPort.               *)
Accesses == {"PRECHG", "ACTIVE", "RW"}
PortPhase ==
  IF state = "WR_DONE" THEN "written"
  ELSE IF state = "ACK_WAIT" THEN "answered"
  ELSE IF state \in {"RD_WAIT", "RD_DONE"} \/ (state \in Accesses /\ ~cur_we) THEN "reading"
  ELSE IF state \in Accesses THEN "writing"
  ELSE "idle"

Port == INSTANCE MemPort WITH store <- mem, phase <- PortPhase,
          address <- <<cur_bank, cur_row, cur_col>>, ack <- ack, data <- rdata

(* Every accepted request is performed once, on the accepted address, with *)
(* the data offered when the WRITE goes out, and acknowledged once; a read *)
(* returns what the last write left there (lines 46-67).                   *)
ImplementsMemPort == Port!PortSpec
=============================================================================
