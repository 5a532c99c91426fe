----------------------------- MODULE SdramChip -----------------------------
(***************************************************************************)
(* The SDR SDRAM device the fast-RAM controller drives, with the rules     *)
(* that sdram_model_checked.v enforces on every command it is sent (its    *)
(* `err' task; its refresh interval is FastmemBridge's RefreshNotLost) and  *)
(* the CAS pipeline of is42s16160b_model.v.                                *)
(*                                                                         *)
(* Time is counted in controller clocks.  The controller registers its     *)
(* command pins, so the device samples every command exactly one clock     *)
(* after the controller decides on it; that shift is the same for every    *)
(* command and is folded away here: a command is sampled in the step that  *)
(* issues it, and read data spends CAS_LAT+1 steps on its way back to the  *)
(* controller instead of CAS_LAT.                                          *)
(***************************************************************************)
EXTENDS Naturals, FiniteSets

CONSTANTS
  Bank, Row, Col,   (* device geometry                                     *)
  Lanes, Byte,      (* byte lanes of a word (UDQM/LDQM) and byte values    *)
  NoRow, NoData,    (* a bank with no active row; an undriven data bus     *)
  CAS_LAT,          (* programmed CAS latency                              *)
  C_RCD, C_RP,      (* device minima, in clocks: ACTIVATE to READ/WRITE,   *)
  C_RAS, C_RC,      (* PRECHARGE to ACTIVATE, ACTIVATE to PRECHARGE,       *)
  C_RFC,            (* ACTIVATE to ACTIVATE, REFRESH to any command        *)
  AgeCap, RefCap    (* the ages below stop counting here (state bound)     *)

ASSUME ChipAssumption ==
  /\ NoRow \notin Row
  /\ {CAS_LAT, C_RCD, C_RP, C_RAS, C_RC, C_RFC, AgeCap, RefCap} \subseteq Nat
  /\ CAS_LAT >= 1
  /\ \A c \in {C_RCD, C_RP, C_RAS, C_RC} : c <= AgeCap
  /\ C_RFC <= RefCap

VARIABLES
  mem,       (* the array                                                  *)
  active,    (* per bank: the activated row, or NoRow                      *)
  act_age,   (* per bank: clocks since its last ACTIVATE   (t_act)         *)
  pre_age,   (* per bank: clocks since its last PRECHARGE  (t_pre)         *)
  ref_age,   (* clocks since the last REFRESH              (t_ref)         *)
  pipe,      (* read data in flight; the last slot is on DQ now            *)
  viol       (* the rules the controller has broken so far (n_err)         *)

chipVars == <<mem, active, act_age, pre_age, ref_age, pipe, viol>>

Word == [Lanes -> Byte]
Address == Bank \X Row \X Col
Rules == {"bank", "tRCD", "tRP", "tRAS", "tRC", "tRFC", "refOpen"}

ChipTypeOK ==
  /\ mem \in [Address -> Word]
  /\ active \in [Bank -> Row \cup {NoRow}]
  /\ act_age \in [Bank -> 0..AgeCap]
  /\ pre_age \in [Bank -> 0..AgeCap]
  /\ ref_age \in 0..RefCap
  /\ pipe \in [1..CAS_LAT+1 -> Word \cup {NoData}]
  /\ viol \subseteq Rules

(* Every stored word holds the same byte at power-up, as the model's       *)
(* 16'hA5A5 fill; all timers are long expired.                             *)
ChipInit ==
  /\ \E fill \in Byte : mem = [a \in Address |-> [l \in Lanes |-> fill]]
  /\ active = [b \in Bank |-> NoRow]
  /\ act_age = [b \in Bank |-> AgeCap]
  /\ pre_age = [b \in Bank |-> AgeCap]
  /\ ref_age = RefCap
  /\ pipe = [i \in 1..CAS_LAT+1 |-> NoData]
  /\ viol = {}

Older(age, cap) == IF age < cap THEN age + 1 ELSE cap
Aged(ages) == [b \in Bank |-> Older(ages[b], AgeCap)]

(* A command issued in this step comes age+1 clocks after the event.       *)
Within(age, limit) == age + 1 < limit

Elapse ==
  /\ act_age' = Aged(act_age)
  /\ pre_age' = Aged(pre_age)
  /\ ref_age' = Older(ref_age, RefCap)

Breaks(rules) == viol' = viol \cup rules
Shift(w) == pipe' = [i \in 1..CAS_LAT+1 |-> IF i = 1 THEN w ELSE pipe[i-1]]

----------------------------------------------------------------------------
(* One operator per command; each is a complete step of the device.        *)

(* NOP, the chip deselected or CKE low: time passes, nothing is decoded.   *)
Nop ==
  /\ Elapse
  /\ Shift(NoData)
  /\ UNCHANGED <<mem, active, viol>>

Activate(b, r) ==
  /\ active' = [active EXCEPT ![b] = r]
  /\ act_age' = [Aged(act_age) EXCEPT ![b] = 0]
  /\ pre_age' = Aged(pre_age)
  /\ ref_age' = Older(ref_age, RefCap)
  /\ Shift(NoData)
  /\ Breaks(   (IF active[b] # NoRow            THEN {"bank"} ELSE {})
          \cup (IF Within(pre_age[b], C_RP)     THEN {"tRP"}  ELSE {})
          \cup (IF Within(act_age[b], C_RC)     THEN {"tRC"}  ELSE {})
          \cup (IF Within(ref_age, C_RFC)       THEN {"tRFC"} ELSE {}))
  /\ UNCHANGED mem

Read(b, c) ==
  /\ Elapse
  /\ Shift(IF active[b] = NoRow THEN NoData ELSE mem[<<b, active[b], c>>])
  /\ Breaks(   (IF active[b] = NoRow            THEN {"bank"} ELSE {})
          \cup (IF Within(act_age[b], C_RCD)    THEN {"tRCD"} ELSE {})
          \cup (IF Within(ref_age, C_RFC)       THEN {"tRFC"} ELSE {}))
  /\ UNCHANGED <<mem, active>>

(* DQM masks the lanes outside `be'.                                       *)
Write(b, c, w, be) ==
  /\ mem' = IF active[b] = NoRow THEN mem
            ELSE [mem EXCEPT ![<<b, active[b], c>>] =
                    [l \in Lanes |-> IF l \in be THEN w[l] ELSE @[l]]]
  /\ Elapse
  /\ Shift(NoData)
  /\ Breaks(   (IF active[b] = NoRow            THEN {"bank"} ELSE {})
          \cup (IF Within(act_age[b], C_RCD)    THEN {"tRCD"} ELSE {}))
  /\ UNCHANGED <<active>>

(* PRECHARGE of one bank, or of all of them (A10).                         *)
Precharge(banks) ==
  /\ active' = [b \in Bank |-> IF b \in banks THEN NoRow ELSE active[b]]
  /\ act_age' = Aged(act_age)
  /\ pre_age' = [b \in Bank |-> IF b \in banks /\ active[b] # NoRow
                                THEN 0 ELSE Older(pre_age[b], AgeCap)]
  /\ ref_age' = Older(ref_age, RefCap)
  /\ Shift(NoData)
  /\ Breaks(IF \E b \in banks : active[b] # NoRow /\ Within(act_age[b], C_RAS)
            THEN {"tRAS"} ELSE {})
  /\ UNCHANGED mem

Refresh ==
  /\ act_age' = Aged(act_age)
  /\ pre_age' = Aged(pre_age)
  /\ ref_age' = 0
  /\ Shift(NoData)
  /\ Breaks(IF \E b \in Bank : active[b] # NoRow THEN {"refOpen"} ELSE {})
  /\ UNCHANGED <<mem, active>>

(* The mode register is not modelled: CAS_LAT is a constant.                *)
LoadMode == Nop
=============================================================================
