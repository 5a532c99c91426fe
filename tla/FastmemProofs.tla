---------------------------- MODULE FastmemProofs ----------------------------
(***************************************************************************)
(* Proofs about the Fast RAM path, for every value of the constants that   *)
(* meets ChipAssumption, CtrlAssumption and TimingAssumption.  First the   *)
(* controller, SdramCtrl: type correctness, the timing and bank rules of   *)
(* the device, and that controller and device together are the one-port    *)
(* memory MemPort.  Then FastmemBridge without TAS: Fast RAM keeps its     *)
(* promise to the core, since core, bridge and controller move together,   *)
(* and refreshes come in time.                                             *)
(***************************************************************************)
EXTENDS FastmemBridge, TLAPS

Timers == {T_RCD, T_RP, T_RFC, T_MRD, CAS_LAT}

(* Timers are bounded by the largest parameter they are loaded with.       *)
LEMMA TimerMaxBounds ==
  TimerMax \in Nat /\ \A t \in Timers : t <= TimerMax
<1>1. Timers \subseteq Nat
  BY ChipAssumption, CtrlAssumption DEF Timers
<1>2. \E m \in Timers : \A t \in Timers : t <= m
  <2>1. T_RCD \in Nat /\ T_RP \in Nat /\ T_RFC \in Nat /\ T_MRD \in Nat
        /\ CAS_LAT \in Nat
    BY ChipAssumption, CtrlAssumption
  <2> QED BY <2>1 DEF Timers
<1>3. TimerMax = CHOOSE m \in Timers : \A t \in Timers : t <= m
  BY DEF TimerMax, Timers
<1> QED BY <1>1, <1>2, <1>3

(* The commands of the device keep its state well-typed.                   *)
LEMMA ElapseType ==
  ASSUME ChipTypeOK, Elapse
  PROVE  /\ act_age' \in [Bank -> 0..AgeCap]
         /\ pre_age' \in [Bank -> 0..AgeCap]
         /\ ref_age' \in 0..RefCap
BY ChipAssumption, SMTT(30) DEF ChipTypeOK, Elapse, Aged, Older

LEMMA ShiftType ==
  ASSUME ChipTypeOK, NEW w \in Word \cup {NoData}, Shift(w)
  PROVE  pipe' \in [1..CAS_LAT+1 -> Word \cup {NoData}]
<1>1. CAS_LAT \in Nat
  BY ChipAssumption
<1>2. \A i \in 1..CAS_LAT+1 : i # 1 => i - 1 \in 1..CAS_LAT+1
  BY <1>1
<1> QED BY <1>1, <1>2 DEF ChipTypeOK, Shift

(* Every command leaves the device well-typed.                             *)
Command ==
  \/ Nop
  \/ \E b \in Bank, r \in Row : Activate(b, r)
  \/ \E b \in Bank, c \in Col : Read(b, c)
  \/ \E b \in Bank, c \in Col, w \in Word, be \in SUBSET Lanes : Write(b, c, w, be)
  \/ \E banks \in SUBSET Bank : Precharge(banks)
  \/ Refresh
  \/ LoadMode

LEMMA CommandType ==
  ASSUME ChipTypeOK, Command
  PROVE  ChipTypeOK'
<1> USE ChipAssumption
<1>0. NoData \in Word \cup {NoData}
  OBVIOUS
<1>1. CASE Nop
  <2>1. act_age' \in [Bank -> 0..AgeCap] /\ pre_age' \in [Bank -> 0..AgeCap]
        /\ ref_age' \in 0..RefCap
    BY <1>1, ElapseType DEF Nop
  <2>2. pipe' \in [1..CAS_LAT+1 -> Word \cup {NoData}]
    BY <1>1, <1>0, ShiftType DEF Nop
  <2> QED BY <1>1, <2>1, <2>2 DEF ChipTypeOK, Nop
<1>2. ASSUME NEW b \in Bank, NEW r \in Row, Activate(b, r)
      PROVE  ChipTypeOK'
  <2>0. AgeCap \in Nat /\ RefCap \in Nat
    OBVIOUS
  <2>a. Aged(act_age) \in [Bank -> 0..AgeCap] /\ Aged(pre_age) \in [Bank -> 0..AgeCap]
    <3>1. \A ages \in [Bank -> 0..AgeCap] : Aged(ages) \in [Bank -> 0..AgeCap]
      <4> TAKE ages \in [Bank -> 0..AgeCap]
      <4>1. \A k \in Bank : Older(ages[k], AgeCap) \in 0..AgeCap
        BY <2>0 DEF Older
      <4> QED BY <4>1 DEF Aged
    <3> QED BY <3>1 DEF ChipTypeOK
  <2>b. ref_age' \in 0..RefCap
    BY <1>2, <2>0 DEF Activate, Older, ChipTypeOK
  <2>1. act_age' \in [Bank -> 0..AgeCap] /\ pre_age' \in [Bank -> 0..AgeCap]
        /\ ref_age' \in 0..RefCap /\ active' \in [Bank -> Row \cup {NoRow}]
    BY <1>2, <2>0, <2>a, <2>b DEF Activate, ChipTypeOK
  <2>2. pipe' \in [1..CAS_LAT+1 -> Word \cup {NoData}]
    BY <1>2, <1>0, ShiftType DEF Activate
  <2>3. viol' \subseteq Rules
    BY <1>2 DEF Activate, Breaks, Rules, ChipTypeOK
  <2> QED BY <1>2, <2>1, <2>2, <2>3 DEF ChipTypeOK, Activate
<1>3. ASSUME NEW b \in Bank, NEW c \in Col, Read(b, c)
      PROVE  ChipTypeOK'
  <2>1. act_age' \in [Bank -> 0..AgeCap] /\ pre_age' \in [Bank -> 0..AgeCap]
        /\ ref_age' \in 0..RefCap
    BY <1>3, ElapseType DEF Read
  <2>2. active[b] # NoRow => mem[<<b, active[b], c>>] \in Word
    BY <1>3 DEF ChipTypeOK, Address
  <2>3. pipe' \in [1..CAS_LAT+1 -> Word \cup {NoData}]
    BY <1>3, <2>2, ShiftType DEF Read
  <2>4. viol' \subseteq Rules
    BY <1>3 DEF Read, Breaks, Rules, ChipTypeOK
  <2> QED BY <1>3, <2>1, <2>3, <2>4 DEF ChipTypeOK, Read
<1>4. ASSUME NEW b \in Bank, NEW c \in Col, NEW w \in Word,
             NEW be \in SUBSET Lanes, Write(b, c, w, be)
      PROVE  ChipTypeOK'
  <2>1. act_age' \in [Bank -> 0..AgeCap] /\ pre_age' \in [Bank -> 0..AgeCap]
        /\ ref_age' \in 0..RefCap
    BY <1>4, ElapseType DEF Write
  <2>2. pipe' \in [1..CAS_LAT+1 -> Word \cup {NoData}]
    BY <1>4, <1>0, ShiftType DEF Write
  <2>3. mem' \in [Address -> Word]
    <3>1. CASE active[b] = NoRow
      BY <3>1, <1>4 DEF Write, ChipTypeOK
    <3>2. CASE active[b] # NoRow
      <4>1. <<b, active[b], c>> \in Address
        BY <1>4, <3>2 DEF ChipTypeOK, Address
      <4>2. [l \in Lanes |-> IF l \in be THEN w[l]
                             ELSE mem[<<b, active[b], c>>][l]] \in Word
        BY <1>4, <4>1 DEF ChipTypeOK, Word
      <4> QED BY <1>4, <3>2, <4>1, <4>2 DEF Write, ChipTypeOK
    <3> QED BY <3>1, <3>2
  <2>4. viol' \subseteq Rules
    BY <1>4 DEF Write, Breaks, Rules, ChipTypeOK
  <2> QED BY <1>4, <2>1, <2>2, <2>3, <2>4 DEF ChipTypeOK, Write
<1>5. ASSUME NEW banks \in SUBSET Bank, Precharge(banks)
      PROVE  ChipTypeOK'
  <2>1. act_age' \in [Bank -> 0..AgeCap] /\ pre_age' \in [Bank -> 0..AgeCap]
        /\ ref_age' \in 0..RefCap /\ active' \in [Bank -> Row \cup {NoRow}]
    BY <1>5, SMTT(30) DEF Precharge, Aged, Older, ChipTypeOK
  <2>2. pipe' \in [1..CAS_LAT+1 -> Word \cup {NoData}]
    BY <1>5, <1>0, ShiftType DEF Precharge
  <2>3. viol' \subseteq Rules
    BY <1>5 DEF Precharge, Breaks, Rules, ChipTypeOK
  <2> QED BY <1>5, <2>1, <2>2, <2>3 DEF ChipTypeOK, Precharge
<1>6. CASE Refresh
  <2>1. act_age' \in [Bank -> 0..AgeCap] /\ pre_age' \in [Bank -> 0..AgeCap]
        /\ ref_age' \in 0..RefCap
    BY <1>6, SMTT(30) DEF Refresh, Aged, Older, ChipTypeOK
  <2>2. pipe' \in [1..CAS_LAT+1 -> Word \cup {NoData}]
    BY <1>6, <1>0, ShiftType DEF Refresh
  <2>3. viol' \subseteq Rules
    BY <1>6 DEF Refresh, Breaks, Rules, ChipTypeOK
  <2> QED BY <1>6, <2>1, <2>2, <2>3 DEF ChipTypeOK, Refresh
<1>7. CASE LoadMode
  <2>1. act_age' \in [Bank -> 0..AgeCap] /\ pre_age' \in [Bank -> 0..AgeCap]
        /\ ref_age' \in 0..RefCap
    BY <1>7, ElapseType DEF LoadMode, Nop
  <2>2. pipe' \in [1..CAS_LAT+1 -> Word \cup {NoData}]
    BY <1>7, <1>0, ShiftType DEF LoadMode, Nop
  <2> QED BY <1>7, <2>1, <2>2 DEF ChipTypeOK, LoadMode, Nop
<1> QED BY <1>1, <1>2, <1>3, <1>4, <1>5, <1>6, <1>7 DEF Command

----------------------------------------------------------------------------
(* Type correctness of the controller.  First the counters that every arm  *)
(* carries, then the arms.                                                 *)

CountersOK ==
  /\ refresh_timer \in 0..T_REFI
  /\ refresh_due \in BOOLEAN
  /\ ref_defer \in 0..DEFER_SAT

RowsOK ==
  /\ row_open \subseteq Bank
  /\ open_row \in [Bank -> Row]
  /\ ras_timer \in [Bank -> 0..RAS_SAT]

LatchOK == cur_bank \in Bank /\ cur_row \in Row /\ cur_col \in Col /\ cur_we \in BOOLEAN

RestOK ==
  /\ state \in States
  /\ timer \in 0..TimerMax
  /\ init_cnt \in 0..INIT_CYCLES
  /\ init_done \in BOOLEAN /\ ack \in BOOLEAN
  /\ rdata \in Word \cup {NoData}

LEMMA TypeParts ==
  TypeOK <=> ChipTypeOK /\ CountersOK /\ RowsOK /\ LatchOK /\ RestOK
BY DEF TypeOK, CountersOK, RowsOK, LatchOK, RestOK

LEMMA TypePartsPrime ==
  TypeOK' <=> ChipTypeOK' /\ CountersOK' /\ RowsOK' /\ LatchOK' /\ RestOK'
BY DEF TypeOK, CountersOK, RowsOK, LatchOK, RestOK

LEMMA ConstantTypes ==
  /\ T_RCD \in Nat /\ T_RP \in Nat /\ T_RAS \in Nat /\ T_RFC \in Nat
  /\ T_MRD \in Nat /\ CAS_LAT \in Nat /\ T_REFI \in Nat /\ INIT_CYCLES \in Nat
  /\ RAS_SAT \in Nat /\ DEFER_SAT \in Nat /\ AgeCap \in Nat /\ RefCap \in Nat
  /\ C_RCD \in Nat /\ C_RP \in Nat /\ C_RAS \in Nat /\ C_RC \in Nat
  /\ C_RFC \in Nat
BY ChipAssumption, CtrlAssumption

LEMMA CountersType ==
  ASSUME CountersOK, init_done \in BOOLEAN, CountRefresh \/ TakeRefresh
  PROVE  CountersOK'
<1>1. refresh_timer' \in 0..T_REFI
  BY ConstantTypes DEF CountersOK, CountRefresh, TakeRefresh, CountInterval, IntervalOver
<1>2. refresh_due' \in BOOLEAN
  BY DEF CountRefresh, TakeRefresh
<1>3. ref_defer' \in 0..DEFER_SAT
  BY ConstantTypes DEF CountersOK, CountRefresh, TakeRefresh
<1> QED BY <1>1, <1>2, <1>3 DEF CountersOK

LEMMA RasType ==
  ASSUME RowsOK, NEW opened \in SUBSET Bank, CountRas(opened)
  PROVE  ras_timer' \in [Bank -> 0..RAS_SAT]
BY ConstantTypes DEF RowsOK, CountRas

LEMMA TimerLoads ==
  /\ 0 \in 0..TimerMax /\ T_RCD \in 0..TimerMax /\ T_RP \in 0..TimerMax
  /\ T_RFC \in 0..TimerMax /\ T_MRD \in 0..TimerMax /\ CAS_LAT \in 0..TimerMax
  /\ \A t \in 0..TimerMax : t # 0 => t - 1 \in 0..TimerMax
BY ConstantTypes, TimerMaxBounds DEF Timers

LEMMA PlainType ==
  ASSUME TypeOK, Plain
  PROVE  /\ CountersOK' /\ RowsOK' /\ LatchOK'
         /\ init_cnt' \in 0..INIT_CYCLES /\ init_done' \in BOOLEAN
         /\ ack' \in BOOLEAN /\ rdata' \in Word \cup {NoData}
<1>1. CountersOK'
  BY TypeParts, CountersType DEF Plain, RestOK
<1>2. RowsOK'
  BY TypeParts, RasType DEF Plain, KeepRows, RowsOK
<1> QED
  BY <1>1, <1>2, TypeParts
  DEF Plain, KeepLatch, latchVars, NoAck, InitOver, LatchOK, RestOK

LEMMA WaitingType ==
  ASSUME TypeOK, NEW st \in States, Waiting(st)
  PROVE  TypeOK'
<1>1. state' \in States /\ timer' \in 0..TimerMax
  BY TimerLoads, TypeParts DEF Waiting, Go, RestOK
<1>2. ChipTypeOK'
  BY CommandType, TypeParts DEF Waiting, Command
<1> QED BY <1>1, <1>2, PlainType, TypePartsPrime DEF Waiting, RestOK

LEMMA InitialiseType ==
  ASSUME TypeOK, Initialise
  PROVE  TypeOK'
<1> USE TimerLoads, ConstantTypes DEF Go, InitOver
<1>1. CASE InitWait
  <2>1. init_cnt' \in 0..INIT_CYCLES
    BY <1>1, TypeParts DEF InitWait, RestOK
  <2>2. state' \in States /\ timer' \in 0..TimerMax
    BY <1>1, TypeParts DEF InitWait, RestOK, States
  <2>3. CountersOK'
    BY <1>1, TypeParts, CountersType DEF InitWait, RestOK
  <2>4. RowsOK'
    BY <1>1, TypeParts, RasType DEF InitWait, KeepRows, RowsOK
  <2>5. ChipTypeOK'
    BY <1>1, CommandType, TypeParts DEF InitWait, Command
  <2>6. LatchOK' /\ init_done' \in BOOLEAN /\ ack' \in BOOLEAN
        /\ rdata' \in Word \cup {NoData}
    BY <1>1, TypeParts DEF InitWait, KeepLatch, latchVars, NoAck, LatchOK, RestOK
  <2> QED BY <2>1, <2>2, <2>3, <2>4, <2>5, <2>6, TypePartsPrime DEF RestOK
<1>2. CASE InitPrecharge
  <2>1. ChipTypeOK'
    BY <1>2, CommandType, TypeParts DEF InitPrecharge, Command
  <2>2. state' \in States /\ timer' \in 0..TimerMax
    BY <1>2 DEF InitPrecharge, States
  <2> QED BY <1>2, <2>1, <2>2, PlainType, TypePartsPrime DEF InitPrecharge, RestOK
<1>3. ASSUME NEW st \in States, NEW next \in States, InitRefresh(st, next)
      PROVE  TypeOK'
  <2>1. CASE Waiting(st)
    BY <2>1, WaitingType
  <2>2. CASE Go(next, T_RFC) /\ Plain /\ Refresh
    <3>1. ChipTypeOK'
      BY <2>2, CommandType, TypeParts DEF Command
    <3> QED BY <2>2, <3>1, PlainType, TypePartsPrime DEF RestOK
  <2> QED BY <1>3, <2>1, <2>2 DEF InitRefresh
<1>4. CASE InitMode
  <2>1. CASE Waiting("INIT_MODE")
    BY <2>1, WaitingType DEF States
  <2>2. CASE state = "INIT_MODE" /\ timer = 0 /\ ~Waiting("INIT_MODE")
    <3>1. ChipTypeOK'
      BY <1>4, <2>2, CommandType, TypeParts DEF InitMode, Command
    <3>2. CountersOK'
      BY <1>4, <2>2, TypeParts, CountersType DEF InitMode, RestOK
    <3>3. RowsOK'
      BY <1>4, <2>2, TypeParts, RasType DEF InitMode, KeepRows, RowsOK
    <3>4. LatchOK' /\ RestOK'
      BY <1>4, <2>2, TypeParts
      DEF InitMode, KeepLatch, latchVars, NoAck, LatchOK, RestOK, States
    <3> QED BY <3>1, <3>2, <3>3, <3>4, TypePartsPrime
  <2> QED BY <1>4, <2>1, <2>2 DEF InitMode
<1> QED BY <1>1, <1>2, <1>3, <1>4 DEF Initialise, States

LEMMA IdleType ==
  ASSUME TypeOK, NEW asked \in BOOLEAN, NEW we \in BOOLEAN, NEW b \in Bank,
         NEW r \in Row, NEW c \in Col, Idle(asked, we, b, r, c)
  PROVE  TypeOK'
<1> USE TimerLoads, ConstantTypes DEF Go, InitOver
<1>1. CASE Waiting("IDLE")
  BY <1>1, WaitingType DEF States
<1>2. CASE IdleRefresh(asked)
  <2>1. ChipTypeOK'
    BY <1>2, CommandType, TypeParts DEF IdleRefresh, Command
  <2>2. CountersOK'
    BY <1>2, TypeParts, CountersType DEF IdleRefresh, RestOK
  <2>3. RowsOK'
    BY <1>2, TypeParts, RasType DEF IdleRefresh, RowsOK
  <2>4. state' \in States /\ timer' \in 0..TimerMax
    BY <1>2 DEF IdleRefresh, States
  <2>5. LatchOK' /\ RestOK'
    BY <1>2, <2>4, TypeParts
    DEF IdleRefresh, KeepLatch, latchVars, NoAck, LatchOK, RestOK
  <2> QED BY <2>1, <2>2, <2>3, <2>5, TypePartsPrime
<1>3. CASE IdleQuiet(asked)
  <2>1. ChipTypeOK'
    BY <1>3, CommandType, TypeParts DEF IdleQuiet, Command
  <2> QED BY <1>3, <2>1, TypeParts, PlainType, TypePartsPrime DEF IdleQuiet, RestOK, States
<1>4. ASSUME Dispatch(asked, we, b, r, c)
      PROVE  /\ CountersOK' /\ LatchOK' /\ init_cnt' \in 0..INIT_CYCLES
             /\ init_done' \in BOOLEAN /\ ack' \in BOOLEAN
             /\ rdata' \in Word \cup {NoData}
  <2>1. CountersOK'
    BY <1>4, TypeParts, CountersType DEF Dispatch, RestOK
  <2> QED BY <1>4, <2>1, TypeParts DEF Dispatch, LatchRequest, LatchOK, NoAck, RestOK
<1>5. CASE IdleHit(asked, we, b, r, c)
  <2>1. ChipTypeOK'
    BY <1>5, CommandType, TypeParts DEF IdleHit, Command
  <2>2. RowsOK'
    BY <1>5, TypeParts, RasType DEF IdleHit, KeepRows, RowsOK
  <2>3. state' \in States /\ timer' \in 0..TimerMax
    BY <1>5 DEF IdleHit, States
  <2> QED BY <1>4, <1>5, <2>1, <2>2, <2>3, TypePartsPrime DEF IdleHit, RestOK
<1>6. CASE IdleMiss(asked, we, b, r, c)
  <2>1. ChipTypeOK'
    BY <1>6, CommandType, TypeParts DEF IdleMiss, Command
  <2>2. RowsOK'
    BY <1>6, TypeParts, RasType DEF IdleMiss, RowsOK
  <2>3. state' \in States /\ timer' \in 0..TimerMax
    BY <1>6, TypeParts DEF IdleMiss, States, RestOK
  <2> QED BY <1>4, <1>6, <2>1, <2>2, <2>3, TypePartsPrime DEF IdleMiss, RestOK
<1>7. CASE IdleClosed(asked, we, b, r, c)
  <2>1. ChipTypeOK'
    BY <1>7, CommandType, TypeParts DEF IdleClosed, OpenRow, Command
  <2>2. RowsOK'
    BY <1>7, TypeParts, RasType DEF IdleClosed, OpenRow, RowsOK
  <2>3. state' \in States /\ timer' \in 0..TimerMax
    BY <1>7 DEF IdleClosed, States
  <2> QED BY <1>4, <1>7, <2>1, <2>2, <2>3, TypePartsPrime DEF IdleClosed, RestOK
<1> QED BY <1>1, <1>2, <1>3, <1>5, <1>6, <1>7 DEF Idle

LEMMA AccessType ==
  ASSUME TypeOK, NEW wr_valid \in BOOLEAN, NEW wdata \in Word, NEW be \in SUBSET Lanes,
         Precharging \/ Activating \/ ReadWrite(wr_valid, wdata, be)
  PROVE  TypeOK'
<1> USE TimerLoads, ConstantTypes DEF Go
<1>1. ASSUME NEW st \in States, Waiting(st)
      PROVE  TypeOK'
  BY <1>1, WaitingType
<1>2. CASE Precharging /\ ~Waiting("PRECHG")
  <2>1. ChipTypeOK'
    BY <1>2, CommandType, TypeParts DEF Precharging, OpenRow, Command, LatchOK
  <2>2. RowsOK'
    BY <1>2, TypeParts, RasType DEF Precharging, OpenRow, RowsOK, LatchOK
  <2>3. CountersOK'
    BY <1>2, TypeParts, CountersType DEF Precharging, RestOK
  <2>4. state' \in States /\ timer' \in 0..TimerMax
    BY <1>2 DEF Precharging, States
  <2>5. LatchOK' /\ RestOK'
    BY <1>2, <2>4, TypeParts
    DEF Precharging, KeepLatch, latchVars, NoAck, InitOver, LatchOK, RestOK
  <2> QED BY <2>1, <2>2, <2>3, <2>5, TypePartsPrime
<1>3. CASE Activating /\ ~Waiting("ACTIVE")
  <2>1. ChipTypeOK'
    BY <1>3, CommandType, TypeParts DEF Activating, Command
  <2> QED BY <1>3, <2>1, TypeParts, PlainType, TypePartsPrime DEF Activating, RestOK, States
<1>4. CASE ReadWrite(wr_valid, wdata, be) /\ ~Waiting("RW")
  <2>1. ChipTypeOK'
    BY <1>4, CommandType, TypeParts DEF ReadWrite, Command, LatchOK
  <2>2. state' \in States /\ timer' \in 0..TimerMax /\ Plain
    BY <1>4, TypeParts DEF ReadWrite, RestOK, States
  <2> QED BY <2>1, <2>2, PlainType, TypePartsPrime DEF RestOK
<1> QED BY <1>1, <1>2, <1>3, <1>4 DEF Precharging, Activating, ReadWrite, States

LEMMA AnswerType ==
  ASSUME TypeOK, NEW asked \in BOOLEAN,
         ReadLatency \/ ReadDone \/ WriteDone \/ AckWait(asked)
  PROVE  TypeOK'
<1> USE TimerLoads, ConstantTypes DEF Go, InitOver
<1>1. ChipTypeOK'
  BY CommandType, TypeParts DEF ReadLatency, ReadDone, WriteDone, AckWait, Command
<1>2. state' \in States /\ timer' \in 0..TimerMax
  BY TypeParts DEF ReadLatency, ReadDone, WriteDone, AckWait, RestOK, States
<1>3. CASE ReadLatency \/ AckWait(asked)
  BY <1>1, <1>2, <1>3, PlainType, TypePartsPrime DEF ReadLatency, AckWait, RestOK
<1>4. CASE ReadDone \/ WriteDone
  <2>1. rdata_live \in Word \cup {NoData}
    BY TypeParts DEF rdata_live, ChipTypeOK
  <2>2. CountersOK'
    BY <1>4, TypeParts, CountersType DEF ReadDone, WriteDone, RestOK
  <2>3. RowsOK'
    BY <1>4, TypeParts, RasType DEF ReadDone, WriteDone, KeepRows, RowsOK
  <2>4. LatchOK' /\ RestOK'
    BY <1>4, <1>2, <2>1, TypeParts
    DEF ReadDone, WriteDone, KeepLatch, latchVars, LatchOK, RestOK
  <2> QED BY <1>1, <2>2, <2>3, <2>4, TypePartsPrime
<1> QED BY <1>3, <1>4

LEMMA RefreshType ==
  ASSUME TypeOK, RefreshPrecharged \/ Refreshing
  PROVE  TypeOK'
<1> USE TimerLoads, ConstantTypes DEF Go
<1>1. ASSUME NEW st \in States, Waiting(st)
      PROVE  TypeOK'
  BY <1>1, WaitingType
<1>2. CASE RefreshPrecharged /\ ~Waiting("REF_PRE")
  <2>1. ChipTypeOK'
    BY <1>2, CommandType, TypeParts DEF RefreshPrecharged, Command
  <2> QED BY <1>2, <2>1, PlainType, TypePartsPrime DEF RefreshPrecharged, RestOK, States
<1>3. CASE Refreshing /\ ~Waiting("REFRESH")
  <2>1. ChipTypeOK'
    BY <1>3, CommandType, TypeParts DEF Refreshing, Command
  <2> QED BY <1>3, <2>1, TypeParts, PlainType, TypePartsPrime DEF Refreshing, RestOK, States
<1> QED BY <1>1, <1>2, <1>3 DEF RefreshPrecharged, Refreshing, States

LEMMA ResetType ==
  ASSUME TypeOK, Reset
  PROVE  TypeOK'
<1>1. ChipTypeOK'
  BY CommandType, TypeParts DEF Reset, Command
<1>2. /\ state' = "INIT_WAIT" /\ timer' = 0 /\ init_cnt' = INIT_CYCLES
      /\ refresh_timer' = 0 /\ row_open' = {} /\ rdata' = NoData
      /\ init_done' \in BOOLEAN /\ refresh_due' \in BOOLEAN /\ ack' \in BOOLEAN
  BY DEF Reset, ResetValues
<1>3. RowsOK'
  BY ConstantTypes, CtrlAssumption, <1>2 DEF Reset, RowsOK
<1>4. CountersOK'
  BY ConstantTypes, TypeParts, <1>2 DEF Reset, CountersOK
<1>5. RestOK'
  BY ConstantTypes, TimerLoads, <1>2 DEF RestOK, States
<1>6. LatchOK'
  BY TypeParts DEF Reset, latchVars, LatchOK
<1> QED BY <1>1, <1>3, <1>4, <1>5, <1>6, TypePartsPrime

LEMMA InitType == Init => TypeOK
<1> SUFFICES ASSUME Init PROVE TypeOK
  OBVIOUS
<1>1. ChipTypeOK
  <2>1. mem \in [Address -> Word]
    BY DEF Init, ChipInit, Word
  <2>2. pipe \in [1..CAS_LAT+1 -> Word \cup {NoData}]
    BY DEF Init, ChipInit
  <2>3. ref_age \in 0..RefCap /\ act_age \in [Bank -> 0..AgeCap]
        /\ pre_age \in [Bank -> 0..AgeCap]
    BY ConstantTypes DEF Init, ChipInit
  <2>4. active \in [Bank -> Row \cup {NoRow}] /\ viol \subseteq Rules
    BY DEF Init, ChipInit
  <2> QED BY <2>1, <2>2, <2>3, <2>4 DEF ChipTypeOK
<1>2. /\ state = "INIT_WAIT" /\ timer = 0 /\ init_cnt = INIT_CYCLES
      /\ refresh_timer = 0 /\ row_open = {} /\ rdata = NoData /\ ref_defer = 0
      /\ init_done \in BOOLEAN /\ refresh_due \in BOOLEAN /\ ack \in BOOLEAN
  BY DEF Init, ResetValues
<1>3. RowsOK
  BY ConstantTypes, CtrlAssumption, <1>2 DEF Init, RowsOK
<1>4. CountersOK
  BY ConstantTypes, <1>2 DEF CountersOK
<1>5. RestOK
  BY ConstantTypes, TimerLoads, <1>2 DEF RestOK, States
<1>6. LatchOK
  BY CtrlAssumption DEF Init, LatchOK
<1> QED BY <1>1, <1>3, <1>4, <1>5, <1>6, TypeParts

LEMMA StepType ==
  ASSUME TypeOK, [Next]_vars
  PROVE  TypeOK'
<1>1. CASE UNCHANGED vars
  BY <1>1 DEF vars, ctrlVars, latchVars, chipVars, TypeOK, ChipTypeOK
<1>2. CASE Reset
  BY <1>2, ResetType
<1>3. CASE Initialise
  BY <1>3, InitialiseType
<1>4. CASE \E asked, we \in BOOLEAN, b \in Bank, r \in Row, c \in Col :
             Idle(asked, we, b, r, c)
  BY <1>4, IdleType
<1>5. CASE Precharging \/ Activating
  <2>1. BOOLEAN # {} /\ SUBSET Lanes # {}
    OBVIOUS
  <2>2. mem \in [Address -> Word] /\ cur_bank \in Bank /\ cur_row \in Row /\ cur_col \in Col
    BY DEF TypeOK, ChipTypeOK
  <2>3. mem[<<cur_bank, cur_row, cur_col>>] \in Word
    BY <2>2 DEF Address
  <2> QED BY <1>5, <2>3, AccessType
<1>6. CASE \E wr_valid \in BOOLEAN, wdata \in Word, be \in SUBSET Lanes :
             ReadWrite(wr_valid, wdata, be)
  BY <1>6, AccessType
<1>7. CASE ReadLatency \/ ReadDone \/ WriteDone \/ \E asked \in BOOLEAN : AckWait(asked)
  BY <1>7, AnswerType
<1>8. CASE RefreshPrecharged \/ Refreshing
  BY <1>8, RefreshType
<1> QED BY <1>1, <1>2, <1>3, <1>4, <1>5, <1>6, <1>7, <1>8 DEF Next

(* In every behaviour, with every input on every clock and for every value *)
(* of the constants, the controller and the device stay well-typed: no     *)
(* timer underflows, no counter passes its saturation value.               *)
THEOREM TypeCorrect == Spec => []TypeOK
<1>1. TypeOK /\ [Next]_vars => TypeOK'
  BY StepType
<1> QED BY InitType, <1>1, PTL DEF Spec

----------------------------------------------------------------------------
(* The timing rules.  A rule compares an age with a minimum at the step    *)
(* that sends a command; between two commands the machine is in a state    *)
(* that still owes a known number of clocks.  The invariant says, for each *)
(* row state of a bank, that its age plus the clocks still owed before the *)
(* earliest command reaches the minimum.                                   *)

InitStates == {"INIT_WAIT", "INIT_PRE", "INIT_REF1", "INIT_REF2", "INIT_MODE"}

InitPhase == init_done <=> state \notin InitStates

(* The device's rows and the controller's table.                           *)
Table == state \notin {"INIT_WAIT", "INIT_PRE"} => \A b \in Bank : TableMatches(b)
AllClosed == state \in InitStates \cup {"REF_PRE", "REFRESH"} => row_open = {}
CurrentRow ==
  /\ state \in {"ACTIVE", "RW"} =>
       cur_bank \in row_open /\ open_row[cur_bank] = cur_row
  /\ state = "PRECHG" => cur_bank \notin row_open

(* Clocks still owed to a bank with an open row: up to the first READ or   *)
(* WRITE, and up to the first PRECHARGE.                                   *)
ToAccess(b) == IF state = "ACTIVE" /\ b = cur_bank THEN timer + 2 ELSE 1
ToPrecharge(b) ==
  IF b # cur_bank                                    THEN 1
  ELSE IF state = "ACTIVE"                           THEN timer + 5
  ELSE IF state = "RW"                               THEN 4
  ELSE IF state \in {"RD_WAIT", "RD_DONE", "WR_DONE"} THEN 3
  ELSE IF state = "ACK_WAIT"                         THEN 2
  ELSE 1

OpenAges ==
  \A b \in row_open :
    /\ act_age[b] + ToAccess(b) >= C_RCD
    /\ act_age[b] + ToPrecharge(b) >= C_RAS
    /\ act_age[b] + ToPrecharge(b) + T_RP + 1 >= C_RC
    /\ ras_timer[b] + ToPrecharge(b) >= T_RAS + 1

(* Clocks still owed to a closed bank before its next ACTIVATE.            *)
ToActivate(b) ==
  IF state = "REF_PRE" \/ state = "INIT_REF1" \/ (state = "PRECHG" /\ b = cur_bank)
  THEN timer + 1 ELSE 1

ClosedAges ==
  state \notin {"INIT_WAIT", "INIT_PRE"} =>
    \A b \in Bank \ row_open :
      /\ act_age[b] + ToActivate(b) >= C_RC
      /\ pre_age[b] + ToActivate(b) >= C_RP

(* Power-up: whatever was going on when reset struck has had its time when *)
(* the precharge-all goes out.                                             *)
ToInit == IF state = "INIT_WAIT" THEN init_cnt + 2 ELSE 1
PowerUpAges ==
  state \in {"INIT_WAIT", "INIT_PRE"} =>
    \A b \in Bank :
      /\ act_age[b] + ToInit >= C_RAS
      /\ act_age[b] + ToInit >= C_RC
      /\ pre_age[b] + ToInit >= C_RP

RefreshAge ==
  state \notin {"INIT_WAIT", "INIT_PRE", "INIT_REF1", "INIT_REF2"} =>
    ref_age + (IF state \in {"REFRESH", "INIT_MODE"} THEN timer + 2 ELSE 1) >= C_RFC

Clean == DeviceTiming /\ BankRules

TimingInv ==
  /\ TypeOK /\ InitPhase /\ Table /\ AllClosed /\ CurrentRow
  /\ OpenAges /\ ClosedAges /\ PowerUpAges /\ RefreshAge /\ Clean

LEMMA Facts ==
  ASSUME TimingInv
  PROVE  /\ timer \in Nat /\ init_cnt \in Nat /\ state \in States
         /\ act_age \in [Bank -> 0..AgeCap] /\ pre_age \in [Bank -> 0..AgeCap]
         /\ ras_timer \in [Bank -> 0..RAS_SAT] /\ ref_age \in 0..RefCap
         /\ active \in [Bank -> Row \cup {NoRow}] /\ open_row \in [Bank -> Row]
         /\ row_open \subseteq Bank /\ cur_bank \in Bank /\ cur_row \in Row
         /\ cur_col \in Col
<1>1. TypeOK
  BY DEF TimingInv
<1>2. timer \in Nat /\ init_cnt \in Nat
  BY <1>1, TimerMaxBounds, ConstantTypes DEF TypeOK
<1> QED BY <1>1, <1>2 DEF TypeOK, ChipTypeOK

(* What the minima ask of each other and of the saturation values.         *)
LEMMA Minima ==
  /\ C_RCD <= AgeCap /\ C_RP <= AgeCap /\ C_RAS <= AgeCap /\ C_RC <= AgeCap
  /\ C_RFC <= RefCap /\ T_RAS <= RAS_SAT /\ NoRow \notin Row
BY ChipAssumption, CtrlAssumption

LEMMA WaitingInv ==
  ASSUME TimingInv, NEW st \in States, Waiting(st), TypeOK'
  PROVE  TimingInv'
<1> USE Facts, Minima, ConstantTypes
<1> USE DEF Waiting, Go, Plain, KeepRows, KeepLatch, latchVars, InitOver, Nop, Elapse
<1>1. InitPhase' /\ Table' /\ AllClosed' /\ CurrentRow'
  BY DEF TimingInv, InitPhase, Table, TableMatches, AllClosed, CurrentRow
<1>2. OpenAges'
  BY DEF TimingInv, OpenAges, ToAccess, ToPrecharge, CountRas, Aged, Older
<1>3. ClosedAges'
  BY DEF TimingInv, ClosedAges, ToActivate, Aged, Older
<1>4. PowerUpAges'
  BY DEF TimingInv, PowerUpAges, ToInit, Aged, Older
<1>5. RefreshAge'
  BY DEF TimingInv, RefreshAge, Older
<1>6. Clean'
  BY DEF TimingInv, Clean, DeviceTiming, BankRules
<1> QED BY <1>1, <1>2, <1>3, <1>4, <1>5, <1>6 DEF TimingInv

(* Power-up.                                                               *)
LEMMA InitialiseInv ==
  ASSUME TimingInv, Initialise, TypeOK'
  PROVE  TimingInv'
<1> USE Facts, Minima, ConstantTypes, TimingAssumption
<1> USE DEF Go, Plain, KeepRows, KeepLatch, latchVars, InitOver
<1>1. CASE InitWait
  <2> USE <1>1 DEF InitWait, Nop, Elapse
  <2>1. InitPhase' /\ Table' /\ AllClosed' /\ CurrentRow'
    BY DEF TimingInv, InitPhase, InitStates, Table, AllClosed, CurrentRow
  <2>2. OpenAges'
    BY DEF TimingInv, OpenAges, ToAccess, ToPrecharge, CountRas, Aged, Older
  <2>3. ClosedAges'
    BY DEF ClosedAges
  <2>4. PowerUpAges'
    BY DEF TimingInv, PowerUpAges, ToInit, Aged, Older
  <2>5. RefreshAge'
    BY DEF TimingInv, RefreshAge, Older
  <2>6. Clean'
    BY DEF TimingInv, Clean, DeviceTiming, BankRules
  <2> QED BY <2>1, <2>2, <2>3, <2>4, <2>5, <2>6 DEF TimingInv
<1>2. CASE InitPrecharge
  <2> USE <1>2 DEF InitPrecharge, Precharge
  <2>1. InitPhase' /\ Table' /\ AllClosed' /\ CurrentRow'
    BY DEF TimingInv, InitPhase, InitStates, Table, TableMatches, AllClosed, CurrentRow
  <2>2. OpenAges'
    BY DEF TimingInv, OpenAges, ToAccess, ToPrecharge, CountRas, Aged, Older
  <2>3. ClosedAges'
    BY DEF TimingInv, ClosedAges, PowerUpAges, ToInit, ToActivate, Aged, Older
  <2>4. PowerUpAges'
    BY DEF TimingInv, PowerUpAges, ToInit, Aged, Older
  <2>5. RefreshAge'
    BY DEF TimingInv, RefreshAge, Older
  <2>6. Clean'
    BY
    DEF TimingInv, Clean, DeviceTiming, BankRules, Breaks, Within, PowerUpAges, ToInit
  <2> QED BY <2>1, <2>2, <2>3, <2>4, <2>5, <2>6 DEF TimingInv
<1>3. CASE \E st, next \in States : Waiting(st)
  BY <1>3, WaitingInv
<1>4. CASE /\ state = "INIT_REF1" /\ timer = 0
           /\ Go("INIT_REF2", T_RFC) /\ Plain /\ Refresh
  <2> USE <1>4 DEF Refresh
  <2>1. InitPhase' /\ Table' /\ AllClosed' /\ CurrentRow'
    BY DEF TimingInv, InitPhase, InitStates, Table, TableMatches, AllClosed, CurrentRow
  <2>2. OpenAges'
    BY DEF TimingInv, OpenAges, ToAccess, ToPrecharge, CountRas, Aged, Older
  <2>3. ClosedAges'
    BY DEF TimingInv, ClosedAges, ToActivate, Aged, Older
  <2>4. PowerUpAges'
    BY DEF TimingInv, PowerUpAges, ToInit, Aged, Older
  <2>5. RefreshAge'
    BY DEF TimingInv, RefreshAge, Older
  <2>6. Clean'
    BY
    DEF TimingInv, InitStates, Clean, DeviceTiming, BankRules, Breaks, Table,
        TableMatches, AllClosed
  <2> QED BY <2>1, <2>2, <2>3, <2>4, <2>5, <2>6 DEF TimingInv
<1>5. CASE /\ state = "INIT_REF2" /\ timer = 0
           /\ Go("INIT_MODE", T_RFC) /\ Plain /\ Refresh
  <2> USE <1>5 DEF Refresh
  <2>1. InitPhase' /\ Table' /\ AllClosed' /\ CurrentRow'
    BY DEF TimingInv, InitPhase, InitStates, Table, TableMatches, AllClosed, CurrentRow
  <2>2. OpenAges'
    BY DEF TimingInv, OpenAges, ToAccess, ToPrecharge, CountRas, Aged, Older
  <2>3. ClosedAges'
    BY DEF TimingInv, ClosedAges, ToActivate, Aged, Older
  <2>4. PowerUpAges'
    BY DEF TimingInv, PowerUpAges, ToInit, Aged, Older
  <2>5. RefreshAge'
    BY DEF TimingInv, RefreshAge, Older
  <2>6. Clean'
    BY
    DEF TimingInv, InitStates, Clean, DeviceTiming, BankRules, Breaks, Table,
        TableMatches, AllClosed
  <2> QED BY <2>1, <2>2, <2>3, <2>4, <2>5, <2>6 DEF TimingInv
<1>6. CASE InitMode /\ ~Waiting("INIT_MODE")
  <2> USE <1>6 DEF InitMode, LoadMode, Nop, Elapse
  <2>1. InitPhase' /\ Table' /\ AllClosed' /\ CurrentRow'
    BY DEF TimingInv, InitPhase, InitStates, Table, TableMatches, AllClosed, CurrentRow
  <2>2. OpenAges'
    BY DEF TimingInv, OpenAges, ToAccess, ToPrecharge, CountRas, Aged, Older
  <2>3. ClosedAges'
    BY DEF TimingInv, ClosedAges, ToActivate, Aged, Older
  <2>4. PowerUpAges'
    BY DEF TimingInv, PowerUpAges, ToInit, Aged, Older
  <2>5. RefreshAge'
    BY DEF TimingInv, RefreshAge, Older
  <2>6. Clean'
    BY DEF TimingInv, Clean, DeviceTiming, BankRules
  <2> QED BY <2>1, <2>2, <2>3, <2>4, <2>5, <2>6 DEF TimingInv
<1> QED
  BY <1>1, <1>2, <1>3, <1>4, <1>5, <1>6 DEF Initialise, InitRefresh, InitMode, States

(* S_IDLE.                                                                 *)
LEMMA IdleInv ==
  ASSUME TimingInv, NEW asked \in BOOLEAN, NEW we \in BOOLEAN, NEW b \in Bank,
         NEW r \in Row, NEW c \in Col, Idle(asked, we, b, r, c), TypeOK'
  PROVE  TimingInv'
<1> USE Facts, Minima, ConstantTypes, TimingAssumption
<1> USE DEF Go, Plain, KeepRows, KeepLatch, latchVars, InitOver
<1>1. CASE Waiting("IDLE")
  BY <1>1, WaitingInv DEF States
<1>2. CASE IdleRefresh(asked) /\ row_open # {}
  <2> USE <1>2 DEF IdleRefresh, Precharge
  <2>1. InitPhase' /\ Table' /\ AllClosed' /\ CurrentRow'
    BY DEF TimingInv, InitPhase, InitStates, Table, TableMatches, AllClosed, CurrentRow
  <2>2. OpenAges'
    BY DEF OpenAges
  <2>3. ClosedAges'
    BY DEF TimingInv, OpenAges, ToPrecharge, ClosedAges, ToActivate, Aged, Older
  <2>4. PowerUpAges'
    BY DEF TimingInv, PowerUpAges, ToInit, Aged, Older
  <2>5. RefreshAge'
    BY DEF TimingInv, RefreshAge, Older
  <2>6. Clean'
    BY
    DEF TimingInv, Clean, DeviceTiming, BankRules, Breaks, Within, Table, TableMatches,
        OpenAges, ToPrecharge
  <2> QED BY <2>1, <2>2, <2>3, <2>4, <2>5, <2>6 DEF TimingInv
<1>3. CASE IdleRefresh(asked) /\ row_open = {}
  <2> USE <1>3 DEF IdleRefresh, Refresh
  <2>1. InitPhase' /\ Table' /\ AllClosed' /\ CurrentRow'
    BY DEF TimingInv, InitPhase, InitStates, Table, TableMatches, AllClosed, CurrentRow
  <2>2. OpenAges'
    BY DEF OpenAges
  <2>3. ClosedAges'
    BY DEF TimingInv, ClosedAges, ToActivate, Aged, Older
  <2>4. PowerUpAges'
    BY DEF TimingInv, PowerUpAges, ToInit, Aged, Older
  <2>5. RefreshAge'
    BY DEF TimingInv, RefreshAge, Older
  <2>6. Clean'
    BY DEF TimingInv, Clean, DeviceTiming, BankRules, Breaks, Table, TableMatches
  <2> QED BY <2>1, <2>2, <2>3, <2>4, <2>5, <2>6 DEF TimingInv
<1>4. CASE IdleQuiet(asked)
  <2> USE <1>4 DEF IdleQuiet, Nop, Elapse
  <2>1. InitPhase' /\ Table' /\ AllClosed' /\ CurrentRow'
    BY DEF TimingInv, InitPhase, Table, TableMatches, AllClosed, CurrentRow
  <2>2. OpenAges'
    BY DEF TimingInv, OpenAges, ToAccess, ToPrecharge, CountRas, Aged, Older
  <2>3. ClosedAges'
    BY DEF TimingInv, ClosedAges, ToActivate, Aged, Older
  <2>4. PowerUpAges'
    BY DEF TimingInv, PowerUpAges, ToInit, Aged, Older
  <2>5. RefreshAge'
    BY DEF TimingInv, RefreshAge, Older
  <2>6. Clean'
    BY DEF TimingInv, Clean, DeviceTiming, BankRules
  <2> QED BY <2>1, <2>2, <2>3, <2>4, <2>5, <2>6 DEF TimingInv
<1> USE DEF Dispatch, LatchRequest, RowHit
<1>5. CASE IdleHit(asked, we, b, r, c) /\ we
  <2> USE <1>5 DEF IdleHit, Nop, Elapse
  <2>1. InitPhase' /\ Table' /\ AllClosed' /\ CurrentRow'
    BY DEF TimingInv, InitPhase, InitStates, Table, TableMatches, AllClosed, CurrentRow
  <2>2. OpenAges'
    BY DEF TimingInv, OpenAges, ToAccess, ToPrecharge, CountRas, Aged, Older
  <2>3. ClosedAges'
    BY DEF TimingInv, ClosedAges, ToActivate, Aged, Older
  <2>4. PowerUpAges'
    BY DEF TimingInv, PowerUpAges, ToInit, Aged, Older
  <2>5. RefreshAge'
    BY DEF TimingInv, RefreshAge, Older
  <2>6. Clean'
    BY DEF TimingInv, Clean, DeviceTiming, BankRules
  <2> QED BY <2>1, <2>2, <2>3, <2>4, <2>5, <2>6 DEF TimingInv
<1>6. CASE IdleHit(asked, we, b, r, c) /\ ~we
  <2> USE <1>6 DEF IdleHit, Read, Elapse
  <2>1. InitPhase' /\ Table' /\ AllClosed' /\ CurrentRow'
    BY DEF TimingInv, InitPhase, InitStates, Table, TableMatches, AllClosed, CurrentRow
  <2>2. OpenAges'
    BY DEF TimingInv, OpenAges, ToAccess, ToPrecharge, CountRas, Aged, Older
  <2>3. ClosedAges'
    BY DEF TimingInv, ClosedAges, ToActivate, Aged, Older
  <2>4. PowerUpAges'
    BY DEF TimingInv, PowerUpAges, ToInit, Aged, Older
  <2>5. RefreshAge'
    BY DEF TimingInv, RefreshAge, Older
  <2>6. Clean'
    BY
    DEF TimingInv, Clean, DeviceTiming, BankRules, Breaks, Within, Table, TableMatches,
        OpenAges, ToAccess, RefreshAge
  <2> QED BY <2>1, <2>2, <2>3, <2>4, <2>5, <2>6 DEF TimingInv
<1>7. CASE IdleMiss(asked, we, b, r, c) /\ ras_timer[b] >= T_RAS
  <2> USE <1>7 DEF IdleMiss, Precharge
  <2>1. InitPhase' /\ Table' /\ AllClosed' /\ CurrentRow'
    BY DEF TimingInv, InitPhase, InitStates, Table, TableMatches, AllClosed, CurrentRow
  <2>2. OpenAges'
    BY DEF TimingInv, OpenAges, ToAccess, ToPrecharge, CountRas, Aged, Older
  <2>3. ClosedAges'
    BY DEF TimingInv, OpenAges, ToPrecharge, ClosedAges, ToActivate, Aged, Older
  <2>4. PowerUpAges'
    BY DEF TimingInv, PowerUpAges, ToInit, Aged, Older
  <2>5. RefreshAge'
    BY DEF TimingInv, RefreshAge, Older
  <2>6. Clean'
    BY
    DEF TimingInv, Clean, DeviceTiming, BankRules, Breaks, Within, OpenAges, ToPrecharge
  <2> QED BY <2>1, <2>2, <2>3, <2>4, <2>5, <2>6 DEF TimingInv
<1>8. CASE IdleMiss(asked, we, b, r, c) /\ ~(ras_timer[b] >= T_RAS)
  <2> USE <1>8 DEF IdleMiss, Nop, Elapse
  <2>1. InitPhase' /\ Table' /\ AllClosed' /\ CurrentRow'
    BY DEF TimingInv, InitPhase, Table, TableMatches, AllClosed, CurrentRow
  <2>2. OpenAges'
    BY DEF TimingInv, OpenAges, ToPrecharge
  <2>3. ClosedAges'
    BY DEF TimingInv, ClosedAges, ToActivate, Aged, Older
  <2>4. PowerUpAges'
    BY DEF TimingInv, PowerUpAges, ToInit, Aged, Older
  <2>5. RefreshAge'
    BY DEF TimingInv, RefreshAge, Older
  <2>6. Clean'
    BY DEF TimingInv, OpenAges, ToPrecharge
  <2> QED BY <2>1, <2>2, <2>3, <2>4, <2>5, <2>6 DEF TimingInv
<1>9. CASE IdleClosed(asked, we, b, r, c)
  <2> USE <1>9 DEF IdleClosed, OpenRow, Activate
  <2>1. InitPhase' /\ Table' /\ AllClosed' /\ CurrentRow'
    BY DEF TimingInv, InitPhase, InitStates, Table, TableMatches, AllClosed, CurrentRow
  <2>2. OpenAges'
    BY DEF TimingInv, OpenAges, ToAccess, ToPrecharge, CountRas, Aged, Older
  <2>3. ClosedAges'
    BY DEF TimingInv, ClosedAges, ToActivate, Aged, Older
  <2>4. PowerUpAges'
    BY DEF TimingInv, PowerUpAges, ToInit, Aged, Older
  <2>5. RefreshAge'
    BY DEF TimingInv, RefreshAge, Older
  <2>6. Clean'
    BY
    DEF TimingInv, Clean, DeviceTiming, BankRules, Breaks, Within, Table, TableMatches,
        ClosedAges, ToActivate, RefreshAge
  <2> QED BY <2>1, <2>2, <2>3, <2>4, <2>5, <2>6 DEF TimingInv
<1> QED BY <1>1, <1>2, <1>3, <1>4, <1>5, <1>6, <1>7, <1>8, <1>9 DEF Idle, IdleHit

(* The access.                                                             *)
LEMMA AccessInv ==
  ASSUME TimingInv, NEW wr_valid \in BOOLEAN, NEW wdata \in Word, NEW be \in SUBSET Lanes,
         Precharging \/ Activating \/ ReadWrite(wr_valid, wdata, be), TypeOK'
  PROVE  TimingInv'
<1> USE Facts, Minima, ConstantTypes, TimingAssumption
<1> USE DEF Go, Plain, KeepRows, KeepLatch, latchVars, InitOver
<1>1. CASE \E st \in States : Waiting(st)
  BY <1>1, WaitingInv
<1>2. CASE /\ state = "PRECHG" /\ timer = 0
           /\ OpenRow(cur_bank, cur_row) /\ Go("ACTIVE", T_RCD)
           /\ CountRefresh /\ KeepLatch /\ NoAck /\ InitOver
  <2> USE <1>2 DEF OpenRow, Activate
  <2>1. InitPhase' /\ Table' /\ AllClosed' /\ CurrentRow'
    BY DEF TimingInv, InitPhase, InitStates, Table, TableMatches, AllClosed, CurrentRow
  <2>2. OpenAges'
    BY DEF TimingInv, OpenAges, ToAccess, ToPrecharge, CountRas, Aged, Older
  <2>3. ClosedAges'
    BY DEF TimingInv, ClosedAges, ToActivate, Aged, Older
  <2>4. PowerUpAges'
    BY DEF TimingInv, PowerUpAges, ToInit, Aged, Older
  <2>5. RefreshAge'
    BY DEF TimingInv, RefreshAge, Older
  <2>6. Clean'
    BY
    DEF TimingInv, Clean, DeviceTiming, BankRules, Breaks, Within, Table, TableMatches,
        CurrentRow, ClosedAges, ToActivate, RefreshAge
  <2> QED BY <2>1, <2>2, <2>3, <2>4, <2>5, <2>6 DEF TimingInv
<1>3. CASE Activating /\ ~Waiting("ACTIVE")
  <2> USE <1>3 DEF Activating, Nop, Elapse
  <2>1. InitPhase' /\ Table' /\ AllClosed' /\ CurrentRow'
    BY DEF TimingInv, InitPhase, InitStates, Table, TableMatches, AllClosed, CurrentRow
  <2>2. OpenAges'
    BY DEF TimingInv, OpenAges, ToAccess, ToPrecharge, CountRas, Aged, Older
  <2>3. ClosedAges'
    BY DEF TimingInv, ClosedAges, ToActivate, Aged, Older
  <2>4. PowerUpAges'
    BY DEF TimingInv, PowerUpAges, ToInit, Aged, Older
  <2>5. RefreshAge'
    BY DEF TimingInv, RefreshAge, Older
  <2>6. Clean'
    BY DEF TimingInv, Clean, DeviceTiming, BankRules
  <2> QED BY <2>1, <2>2, <2>3, <2>4, <2>5, <2>6 DEF TimingInv
<1>4. CASE /\ state = "RW" /\ timer = 0
           /\ Read(cur_bank, cur_col) /\ Go("RD_WAIT", CAS_LAT) /\ Plain
  <2> USE <1>4 DEF Read, Elapse
  <2>1. InitPhase' /\ Table' /\ AllClosed' /\ CurrentRow'
    BY DEF TimingInv, InitPhase, InitStates, Table, TableMatches, AllClosed, CurrentRow
  <2>2. OpenAges'
    BY DEF TimingInv, OpenAges, ToAccess, ToPrecharge, CountRas, Aged, Older
  <2>3. ClosedAges'
    BY DEF TimingInv, ClosedAges, ToActivate, Aged, Older
  <2>4. PowerUpAges'
    BY DEF TimingInv, PowerUpAges, ToInit, Aged, Older
  <2>5. RefreshAge'
    BY DEF TimingInv, RefreshAge, Older
  <2>6. Clean'
    BY
    DEF TimingInv, Clean, DeviceTiming, BankRules, Breaks, Within, Table, TableMatches,
        CurrentRow, OpenAges, ToAccess, RefreshAge
  <2> QED BY <2>1, <2>2, <2>3, <2>4, <2>5, <2>6 DEF TimingInv
<1>5. CASE /\ state = "RW" /\ timer = 0
           /\ Write(cur_bank, cur_col, wdata, be) /\ Go("WR_DONE", timer) /\ Plain
  <2> USE <1>5 DEF Write, Elapse
  <2>1. InitPhase' /\ Table' /\ AllClosed' /\ CurrentRow'
    BY DEF TimingInv, InitPhase, InitStates, Table, TableMatches, AllClosed, CurrentRow
  <2>2. OpenAges'
    BY DEF TimingInv, OpenAges, ToAccess, ToPrecharge, CountRas, Aged, Older
  <2>3. ClosedAges'
    BY DEF TimingInv, ClosedAges, ToActivate, Aged, Older
  <2>4. PowerUpAges'
    BY DEF TimingInv, PowerUpAges, ToInit, Aged, Older
  <2>5. RefreshAge'
    BY DEF TimingInv, RefreshAge, Older
  <2>6. Clean'
    BY
    DEF TimingInv, Clean, DeviceTiming, BankRules, Breaks, Within, Table, TableMatches,
        CurrentRow, OpenAges, ToAccess
  <2> QED BY <2>1, <2>2, <2>3, <2>4, <2>5, <2>6 DEF TimingInv
<1>6. CASE /\ state = "RW" /\ timer = 0
           /\ Go("RW", timer) /\ Plain /\ Nop
  <2> USE <1>6 DEF Nop, Elapse
  <2>1. InitPhase' /\ Table' /\ AllClosed' /\ CurrentRow'
    BY DEF TimingInv, InitPhase, Table, TableMatches, AllClosed, CurrentRow
  <2>2. OpenAges'
    BY DEF TimingInv, OpenAges, ToAccess, ToPrecharge, CountRas, Aged, Older
  <2>3. ClosedAges'
    BY DEF TimingInv, ClosedAges, ToActivate, Aged, Older
  <2>4. PowerUpAges'
    BY DEF TimingInv, PowerUpAges, ToInit, Aged, Older
  <2>5. RefreshAge'
    BY DEF TimingInv, RefreshAge, Older
  <2>6. Clean'
    BY DEF TimingInv, Clean, DeviceTiming, BankRules
  <2> QED BY <2>1, <2>2, <2>3, <2>4, <2>5, <2>6 DEF TimingInv
<1> QED BY <1>1, <1>2, <1>3, <1>4, <1>5, <1>6 DEF Precharging, Activating, ReadWrite, States

LEMMA AnswerInv ==
  ASSUME TimingInv, NEW asked \in BOOLEAN,
         ReadLatency \/ ReadDone \/ WriteDone \/ AckWait(asked), TypeOK'
  PROVE  TimingInv'
<1> USE Facts, Minima, ConstantTypes, TimingAssumption
<1> USE DEF Go, Plain, KeepRows, KeepLatch, latchVars, InitOver
<1> USE DEF ReadLatency, ReadDone, WriteDone, AckWait, Nop, Elapse
<1>1. InitPhase' /\ Table' /\ AllClosed' /\ CurrentRow'
  BY DEF TimingInv, InitPhase, InitStates, Table, TableMatches, AllClosed, CurrentRow
<1>2. OpenAges'
  BY DEF TimingInv, OpenAges, ToAccess, ToPrecharge, CountRas, Aged, Older
<1>3. ClosedAges'
  BY DEF TimingInv, ClosedAges, ToActivate, Aged, Older
<1>4. PowerUpAges'
  BY DEF TimingInv, PowerUpAges, ToInit, Aged, Older
<1>5. RefreshAge'
  BY DEF TimingInv, RefreshAge, Older
<1>6. Clean'
  BY DEF TimingInv, Clean, DeviceTiming, BankRules
<1> QED BY <1>1, <1>2, <1>3, <1>4, <1>5, <1>6 DEF TimingInv

LEMMA RefreshInv ==
  ASSUME TimingInv, RefreshPrecharged \/ Refreshing, TypeOK'
  PROVE  TimingInv'
<1> USE Facts, Minima, ConstantTypes, TimingAssumption
<1> USE DEF Go, Plain, KeepRows, KeepLatch, latchVars, InitOver
<1>1. CASE \E st \in States : Waiting(st)
  BY <1>1, WaitingInv
<1>2. CASE /\ state = "REF_PRE" /\ timer = 0
           /\ Refresh /\ Go("REFRESH", T_RFC) /\ Plain
  <2> USE <1>2 DEF Refresh
  <2>1. InitPhase' /\ Table' /\ AllClosed' /\ CurrentRow'
    BY DEF TimingInv, InitPhase, InitStates, Table, TableMatches, AllClosed, CurrentRow
  <2>2. OpenAges'
    BY DEF TimingInv, OpenAges, ToAccess, ToPrecharge, CountRas, Aged, Older
  <2>3. ClosedAges'
    BY DEF TimingInv, ClosedAges, ToActivate, Aged, Older
  <2>4. PowerUpAges'
    BY DEF TimingInv, PowerUpAges, ToInit, Aged, Older
  <2>5. RefreshAge'
    BY DEF TimingInv, RefreshAge, Older
  <2>6. Clean'
    BY
    DEF TimingInv, Clean, DeviceTiming, BankRules, Breaks, Table, TableMatches,
        AllClosed
  <2> QED BY <2>1, <2>2, <2>3, <2>4, <2>5, <2>6 DEF TimingInv
<1>3. CASE /\ state = "REFRESH" /\ timer = 0
           /\ Go("IDLE", timer) /\ Plain /\ Nop
  <2> USE <1>3 DEF Nop, Elapse
  <2>1. InitPhase' /\ Table' /\ AllClosed' /\ CurrentRow'
    BY DEF TimingInv, InitPhase, InitStates, Table, TableMatches, AllClosed, CurrentRow
  <2>2. OpenAges'
    BY DEF TimingInv, OpenAges, ToAccess, ToPrecharge, CountRas, Aged, Older
  <2>3. ClosedAges'
    BY DEF TimingInv, ClosedAges, ToActivate, Aged, Older
  <2>4. PowerUpAges'
    BY DEF TimingInv, PowerUpAges, ToInit, Aged, Older
  <2>5. RefreshAge'
    BY DEF TimingInv, RefreshAge, Older
  <2>6. Clean'
    BY DEF TimingInv, Clean, DeviceTiming, BankRules
  <2> QED BY <2>1, <2>2, <2>3, <2>4, <2>5, <2>6 DEF TimingInv
<1> QED BY <1>1, <1>2, <1>3 DEF RefreshPrecharged, Refreshing, States

LEMMA ResetInv ==
  ASSUME TimingInv, Reset, TypeOK'
  PROVE  TimingInv'
<1> USE Facts, Minima, ConstantTypes, TimingAssumption
<1> USE DEF Reset, ResetValues, latchVars, Nop, Elapse
<1>1. InitPhase' /\ Table' /\ AllClosed' /\ CurrentRow'
  BY DEF InitPhase, InitStates, Table, AllClosed, CurrentRow
<1>2. OpenAges'
  BY DEF OpenAges
<1>3. ClosedAges'
  BY DEF ClosedAges
<1>4. PowerUpAges'
  BY DEF TimingInv, PowerUpAges, ToInit, Aged, Older
<1>5. RefreshAge'
  BY DEF TimingInv, RefreshAge, Older
<1>6. Clean'
  BY DEF TimingInv, Clean, DeviceTiming, BankRules
<1> QED BY <1>1, <1>2, <1>3, <1>4, <1>5, <1>6 DEF TimingInv

LEMMA InitInv == Init => TimingInv
<1> SUFFICES ASSUME Init PROVE TimingInv
  OBVIOUS
<1> USE InitType, ConstantTypes, TimingAssumption, Minima
<1>1. InitPhase /\ Table /\ AllClosed /\ CurrentRow
  BY DEF Init, ResetValues, InitPhase, InitStates, Table, AllClosed, CurrentRow
<1>2. OpenAges /\ ClosedAges /\ RefreshAge
  BY DEF Init, ResetValues, OpenAges, ClosedAges, RefreshAge
<1>3. PowerUpAges
  BY DEF Init, ChipInit, PowerUpAges, ToInit, ResetValues
<1>4. Clean
  BY DEF Init, ChipInit, Clean, DeviceTiming, BankRules
<1> QED BY <1>1, <1>2, <1>3, <1>4 DEF TimingInv

LEMMA StepInv ==
  ASSUME TimingInv, [Next]_vars
  PROVE  TimingInv'
<1>1. TypeOK /\ TypeOK'
  BY StepType DEF TimingInv
<1>2. CASE UNCHANGED vars
  <2> USE <1>2 DEF vars, ctrlVars, latchVars, chipVars
  <2>1. InitPhase' /\ Table' /\ AllClosed' /\ CurrentRow'
    BY DEF TimingInv, InitPhase, Table, TableMatches, AllClosed, CurrentRow
  <2>2. OpenAges' /\ ClosedAges' /\ PowerUpAges' /\ RefreshAge'
    BY
    DEF TimingInv, OpenAges, ToAccess, ToPrecharge, ClosedAges, ToActivate, PowerUpAges,
        ToInit, RefreshAge
  <2>3. Clean'
    BY DEF TimingInv, Clean, DeviceTiming, BankRules
  <2> QED BY <1>1, <2>1, <2>2, <2>3 DEF TimingInv
<1>3. CASE Reset
  BY <1>1, <1>3, ResetInv
<1>4. CASE Initialise
  BY <1>1, <1>4, InitialiseInv
<1>5. CASE \E asked, we \in BOOLEAN, b \in Bank, r \in Row, c \in Col :
             Idle(asked, we, b, r, c)
  BY <1>1, <1>5, IdleInv
<1>6. CASE Precharging \/ Activating
  <2>1. mem[<<cur_bank, cur_row, cur_col>>] \in Word
    BY <1>1 DEF TypeOK, ChipTypeOK, Address
  <2>2. BOOLEAN # {} /\ SUBSET Lanes # {}
    OBVIOUS
  <2> QED BY <1>1, <1>6, <2>1, <2>2, AccessInv
<1>7. CASE \E wr_valid \in BOOLEAN, wdata \in Word, be \in SUBSET Lanes :
             ReadWrite(wr_valid, wdata, be)
  BY <1>1, <1>7, AccessInv
<1>8. CASE ReadLatency \/ ReadDone \/ WriteDone \/ \E asked \in BOOLEAN : AckWait(asked)
  BY <1>1, <1>8, AnswerInv
<1>9. CASE RefreshPrecharged \/ Refreshing
  BY <1>1, <1>9, RefreshInv
<1> QED BY <1>2, <1>3, <1>4, <1>5, <1>6, <1>7, <1>8, <1>9 DEF Next

LEMMA TimingInvariant == Spec => []TimingInv
<1>1. TimingInv /\ [Next]_vars => TimingInv'
  BY StepInv
<1> QED BY InitInv, <1>1, PTL DEF Spec

(* Whatever the requester does and whenever reset strikes, no command      *)
(* breaks tRCD, tRP, tRAS, tRC or tRFC, for any parameters that cover the  *)
(* device's minima.                                                        *)
THEOREM TimingKept == Spec => []DeviceTiming
<1>1. TimingInv => DeviceTiming
  BY DEF TimingInv, Clean
<1> QED BY TimingInvariant, <1>1, PTL

(* Every access finds its bank open, no bank is opened twice, and every    *)
(* refresh finds all banks closed.                                         *)
THEOREM BankRulesKept == Spec => []BankRules
<1>1. TimingInv => BankRules
  BY DEF TimingInv, Clean
<1> QED BY TimingInvariant, <1>1, PTL

(* The open-row table is the device's.                                     *)
THEOREM RowTableExact == Spec => []RowTable
<1>1. TimingInv => RowTable
  BY DEF TimingInv, InitPhase, InitStates, Table, RowTable
<1> QED BY TimingInvariant, <1>1, PTL

(* A row miss never has to wait for tRAS in S_IDLE.                        *)
THEOREM NoStallForRas == Spec => []NoRasStall
<1>1. TimingInv => NoRasStall
  <2> SUFFICES ASSUME TimingInv, state = "IDLE", NEW b \in row_open
               PROVE  ras_timer[b] >= T_RAS
    BY DEF NoRasStall
  <2>1. ras_timer[b] + ToPrecharge(b) >= T_RAS + 1 /\ ToPrecharge(b) = 1
    BY DEF TimingInv, OpenAges, ToPrecharge
  <2>2. ras_timer[b] \in Nat
    BY Facts, ConstantTypes
  <2> QED BY <2>1, <2>2, ConstantTypes
<1> QED BY TimingInvariant, <1>1, PTL

(* The controller's knowledge of the banks is well-typed and true.         *)
THEOREM RowsAlwaysKnown == Spec => []RowsKnown
<1>1. TypeOK /\ RowTable /\ NoRasStall => RowsKnown
  BY DEF RowsKnown
<1> QED BY TypeCorrect, RowTableExact, NoStallForRas, <1>1, PTL

-----------------------------------------------------------------------------
(* SdramCtrl implements MemPort.  The table of open rows and the states of *)
(* the banks come from TimingInv; what is added here is where the data of  *)
(* a read are while they come back.                                        *)

Current == <<cur_bank, cur_row, cur_col>>

(* A read that has gone out is in the device's pipeline, as far from its   *)
(* end as the controller's timer says, and nothing writes meanwhile; and   *)
(* the acknowledge belongs to the state that waits for its end.            *)
DataOnTheWay ==
  /\ state = "RD_WAIT" => timer \in 1..CAS_LAT /\ pipe[CAS_LAT + 1 - timer] = mem[Current]
  /\ state = "RD_DONE" => rdata_live = mem[Current]

AckIsAnswer == ack => state = "ACK_WAIT"

PortInv == TimingInv /\ DataOnTheWay /\ AckIsAnswer

LEMMA PortFacts ==
  ASSUME PortInv
  PROVE  /\ TypeOK /\ Current \in Address /\ mem \in [Address -> Word]
         /\ timer \in Nat /\ ack \in BOOLEAN /\ cur_we \in BOOLEAN
         /\ state \in {"ACTIVE", "RW"} => active[cur_bank] = cur_row
         /\ NoRow \notin Row
<1>1. TypeOK
  BY DEF PortInv, TimingInv
<1>2. Current \in Address /\ mem \in [Address -> Word] /\ ack \in BOOLEAN /\ cur_we \in BOOLEAN
  BY <1>1 DEF TypeOK, ChipTypeOK, Current, Address
<1>3. state \in {"ACTIVE", "RW"} => active[cur_bank] = cur_row
  BY <1>1 DEF PortInv, TimingInv, Table, TableMatches, CurrentRow, TypeOK
<1> QED BY <1>1, <1>2, <1>3, Facts, Minima DEF PortInv

(* The phase a requester sees.                                             *)
LEMMA Phases ==
  /\ state = "WR_DONE" => PortPhase = "written"
  /\ state = "ACK_WAIT" => PortPhase = "answered"
  /\ state \in {"RD_WAIT", "RD_DONE"} => PortPhase = "reading"
  /\ state \in Accesses => PortPhase = IF cur_we THEN "writing" ELSE "reading"
  /\ state \notin Accesses \cup {"WR_DONE", "ACK_WAIT", "RD_WAIT", "RD_DONE"} => PortPhase = "idle"
BY DEF PortPhase, Accesses

LEMMA PhasesPrime ==
  /\ state' = "WR_DONE" => PortPhase' = "written"
  /\ state' = "ACK_WAIT" => PortPhase' = "answered"
  /\ state' \in {"RD_WAIT", "RD_DONE"} => PortPhase' = "reading"
  /\ state' \in Accesses => PortPhase' = IF cur_we' THEN "writing" ELSE "reading"
  /\ state' \notin Accesses \cup {"WR_DONE", "ACK_WAIT", "RD_WAIT", "RD_DONE"} => PortPhase' = "idle"
BY DEF PortPhase, Accesses

(* What the steps of the device do to the array.                           *)
Quiet == UNCHANGED <<mem, cur_bank, cur_row, cur_col, cur_we, rdata>> /\ ack' = FALSE

LEMMA StaysInPhase ==
  ASSUME PortInv, Quiet, ~ack, PortPhase' = PortPhase
  PROVE  [Port!PortNext]_Port!portVars
BY PortFacts DEF Quiet, Port!portVars

LEMMA WaitingPort ==
  ASSUME PortInv, NEW st \in States \ {"RD_WAIT", "RD_DONE", "ACK_WAIT"}, Waiting(st)
  PROVE  DataOnTheWay' /\ AckIsAnswer' /\ [Port!PortNext]_Port!portVars
<1>1. state = st /\ state' = st /\ Quiet /\ ~ack
  BY DEF Waiting, Go, Plain, Nop, KeepLatch, latchVars, NoAck, Quiet, PortInv, AckIsAnswer
<1>2. PortPhase' = PortPhase
  BY <1>1 DEF PortPhase, Quiet
<1>3. DataOnTheWay' /\ AckIsAnswer'
  BY <1>1 DEF DataOnTheWay, AckIsAnswer, Quiet
<1> QED BY <1>1, <1>2, <1>3, StaysInPhase

(* Power-up and refresh are not seen at the port.                          *)
LEMMA HousekeepingPort ==
  ASSUME PortInv, Initialise \/ RefreshPrecharged \/ Refreshing
  PROVE  DataOnTheWay' /\ AckIsAnswer' /\ [Port!PortNext]_Port!portVars
<1>1. CASE \E st \in InitStates \cup {"REF_PRE", "REFRESH"} : Waiting(st)
  BY <1>1, WaitingPort DEF InitStates, States
<1>2. CASE ~(\E st \in InitStates \cup {"REF_PRE", "REFRESH"} : Waiting(st))
  <2> DEFINE Hidden == InitStates \cup {"REF_PRE", "REFRESH", "IDLE"}
  <2>1. state \in Hidden /\ state' \in Hidden
    BY <1>2 DEF Initialise, InitWait, InitPrecharge, InitRefresh, InitMode, RefreshPrecharged,
                Refreshing, Go, InitStates
  <2>2. Quiet
    BY <1>2
    DEF Initialise, InitWait, InitPrecharge, InitRefresh, InitMode, RefreshPrecharged, Refreshing,
        Plain, KeepLatch, latchVars, NoAck, Nop, LoadMode, Precharge, Refresh, Quiet, InitStates
  <2>3. PortPhase' = PortPhase /\ ~ack
    BY <2>1 DEF PortPhase, Accesses, InitStates, PortInv, AckIsAnswer
  <2>4. DataOnTheWay' /\ AckIsAnswer'
    BY <2>1, <2>2 DEF DataOnTheWay, AckIsAnswer, Quiet, InitStates
  <2> QED BY <2>2, <2>3, <2>4, StaysInPhase
<1> QED BY <1>1, <1>2

(* S_IDLE: a request is accepted on the address it latches, or only looked *)
(* at; the READ of a row hit leaves with the word the device will answer.  *)
LEMMA IdlePort ==
  ASSUME PortInv, NEW asked \in BOOLEAN, NEW we \in BOOLEAN, NEW b \in Bank,
         NEW r \in Row, NEW c \in Col, Idle(asked, we, b, r, c)
  PROVE  DataOnTheWay' /\ AckIsAnswer' /\ [Port!PortNext]_Port!portVars
<1> USE DEF Go
<1>1. CASE Waiting("IDLE")
  BY <1>1, WaitingPort DEF States
<1>2. CASE IdleRefresh(asked) \/ IdleQuiet(asked)
  <2>1. Quiet /\ state = "IDLE" /\ state' \in {"IDLE", "REF_PRE", "REFRESH"} /\ ~ack
    BY <1>2 DEF IdleRefresh, IdleQuiet, Plain, KeepLatch, latchVars, NoAck, Nop, Precharge,
                Refresh, Quiet, PortInv, AckIsAnswer
  <2>2. PortPhase' = PortPhase
    BY <2>1 DEF PortPhase, Accesses
  <2> QED BY <2>1, <2>2, StaysInPhase DEF DataOnTheWay, AckIsAnswer, Quiet
<1>3. ASSUME Dispatch(asked, we, b, r, c), mem' = mem,
             \/ state' = "IDLE"
             \/ we /\ state' \in Accesses
             \/ ~we /\ state' \in Accesses \cup {"RD_WAIT"}
      PROVE  AckIsAnswer' /\ [Port!PortNext]_Port!portVars
  <2>1. state = "IDLE" /\ PortPhase = "idle" /\ ack' = FALSE /\ rdata' = rdata
    BY <1>3, Phases DEF Dispatch, NoAck, Accesses
  <2>2. <<cur_bank', cur_row', cur_col'>> = <<b, r, c>> /\ cur_we' = we
    BY <1>3 DEF Dispatch, LatchRequest
  <2>3. <<b, r, c>> \in Address
    BY DEF Address
  <2>4. CASE state' = "IDLE"
    <3>1. Port!Look(<<b, r, c>>)
      BY <1>3, <2>1, <2>2, <2>4, PhasesPrime DEF Port!Look, Accesses
    <3> QED BY <2>1, <2>3, <3>1 DEF Port!PortNext, AckIsAnswer
  <2>5. CASE state' # "IDLE"
    <3>1. PortPhase' \in {"reading", "writing"}
      BY <1>3, <2>2, <2>5, PhasesPrime DEF Accesses
    <3>2. Port!Accept(<<b, r, c>>, PortPhase')
      BY <1>3, <2>1, <2>2, <3>1 DEF Port!Accept
    <3> QED BY <2>1, <2>3, <3>1, <3>2 DEF Port!PortNext, AckIsAnswer
  <2> QED BY <2>4, <2>5
<1>4. CASE IdleHit(asked, we, b, r, c) /\ we
  BY <1>3, <1>4 DEF IdleHit, Nop, Accesses, DataOnTheWay
<1>5. CASE IdleHit(asked, we, b, r, c) /\ ~we
  <2>1. state' = "RD_WAIT" /\ timer' = CAS_LAT /\ mem' = mem /\ Read(b, c)
        /\ <<cur_bank', cur_row', cur_col'>> = <<b, r, c>>
    BY <1>5 DEF IdleHit, Read, Dispatch, LatchRequest
  <2>2. active[b] = r /\ active[b] # NoRow
    BY <1>5, Facts, Minima DEF IdleHit, Dispatch, RowHit, PortInv, TimingInv, Table, TableMatches
  <2>3. pipe'[1] = mem[<<b, r, c>>]
    BY <2>1, <2>2, ConstantTypes DEF Read, Shift
  <2>4. DataOnTheWay'
    <3>1. CAS_LAT \in Nat /\ CAS_LAT >= 1 /\ CAS_LAT + 1 - CAS_LAT = 1
      BY ChipAssumption, ConstantTypes
    <3> QED BY <2>1, <2>3, <3>1 DEF DataOnTheWay, Current
  <2> QED BY <1>3, <1>5, <2>1, <2>4 DEF IdleHit
<1>6. CASE IdleMiss(asked, we, b, r, c)
  <2>1. mem' = mem /\ state' \in {"IDLE", "PRECHG"}
    BY <1>6 DEF IdleMiss, Precharge, Nop
  <2> QED BY <1>3, <1>6, <2>1 DEF IdleMiss, Accesses, DataOnTheWay
<1>7. CASE IdleClosed(asked, we, b, r, c)
  <2>1. mem' = mem /\ state' = "ACTIVE"
    BY <1>7 DEF IdleClosed, OpenRow, Activate
  <2> QED BY <1>3, <1>7, <2>1 DEF IdleClosed, Accesses, DataOnTheWay
<1> QED BY <1>1, <1>2, <1>4, <1>5, <1>6, <1>7 DEF Idle

(* The access: the one WRITE goes to the row the controller believes open, *)
(* with the data offered on that clock; a READ leaves as from S_IDLE.      *)
LEMMA AccessPort ==
  ASSUME PortInv, NEW wr_valid \in BOOLEAN, NEW wdata \in Word, NEW be \in SUBSET Lanes,
         Precharging \/ Activating \/ ReadWrite(wr_valid, wdata, be)
  PROVE  DataOnTheWay' /\ AckIsAnswer' /\ [Port!PortNext]_Port!portVars
<1> USE DEF Go
<1>1. CASE Waiting("PRECHG") \/ Waiting("ACTIVE") \/ Waiting("RW")
  BY <1>1, WaitingPort DEF States
<1>2. ASSUME Quiet, state \in Accesses, state' \in Accesses
      PROVE  DataOnTheWay' /\ AckIsAnswer' /\ [Port!PortNext]_Port!portVars
  <2>1. PortPhase' = PortPhase /\ ~ack
    BY <1>2, Phases, PhasesPrime DEF Quiet, Accesses, PortInv, AckIsAnswer
  <2> QED BY <1>2, <2>1, StaysInPhase DEF DataOnTheWay, AckIsAnswer, Quiet, Accesses
<1>3. CASE Precharging /\ ~Waiting("PRECHG")
  BY <1>2, <1>3 DEF Precharging, OpenRow, Activate, KeepLatch, latchVars, NoAck, Quiet, Accesses
<1>4. CASE Activating /\ ~Waiting("ACTIVE")
  BY <1>2, <1>4 DEF Activating, Plain, Nop, KeepLatch, latchVars, NoAck, Quiet, Accesses
<1>5. CASE state = "RW" /\ state' = "RW" /\ Plain /\ Nop
  BY <1>2, <1>5 DEF Plain, Nop, KeepLatch, latchVars, NoAck, Quiet, Accesses
<1>6. CASE /\ state = "RW" /\ ~cur_we
           /\ Read(cur_bank, cur_col) /\ Go("RD_WAIT", CAS_LAT) /\ Plain
  <2>1. /\ Quiet /\ state' = "RD_WAIT" /\ timer' = CAS_LAT
        /\ pipe'[1] = mem[Current]
    <3>1. Quiet /\ state' = "RD_WAIT" /\ timer' = CAS_LAT
      BY <1>6 DEF Read, Plain, KeepLatch, latchVars, NoAck, Quiet
    <3>2. active[cur_bank] = cur_row /\ active[cur_bank] # NoRow
      BY <1>6, PortFacts, Facts DEF PortInv
    <3>3. Shift(mem[Current])
      BY <1>6, <3>2 DEF Read, Current
    <3>4. 1 \in 1..CAS_LAT + 1
      BY ConstantTypes
    <3> QED BY <3>1, <3>3, <3>4 DEF Shift
  <2>2. PortPhase' = PortPhase /\ ~ack
    BY <1>6, <2>1, Phases, PhasesPrime DEF Accesses, PortInv, AckIsAnswer
  <2>3. DataOnTheWay'
    <3>1. CAS_LAT \in Nat /\ CAS_LAT >= 1 /\ CAS_LAT + 1 - CAS_LAT = 1
      BY ChipAssumption, ConstantTypes
    <3> QED BY <2>1, <3>1 DEF DataOnTheWay, Current, Quiet
  <2> QED BY <2>1, <2>2, <2>3, StaysInPhase DEF AckIsAnswer, Quiet
<1>7. CASE /\ state = "RW" /\ cur_we
           /\ Write(cur_bank, cur_col, wdata, be) /\ Go("WR_DONE", timer) /\ Plain
  <2>1. /\ state' = "WR_DONE" /\ ack' = ack /\ ack' = FALSE /\ rdata' = rdata
        /\ UNCHANGED <<cur_bank, cur_row, cur_col, cur_we>>
    BY <1>7, PortFacts DEF Plain, KeepLatch, latchVars, NoAck, PortInv, AckIsAnswer
  <2>2. PortPhase = "writing" /\ PortPhase' = "written"
    BY <1>7, <2>1, Phases, PhasesPrime DEF Accesses
  <2>3. active[cur_bank] = cur_row /\ active[cur_bank] # NoRow
    BY <1>7, PortFacts, Facts DEF PortInv
  <2>4. mem' = [mem EXCEPT ![Current] = [l \in Lanes |-> IF l \in be THEN wdata[l] ELSE @[l]]]
    BY <1>7, <2>3 DEF Write, Current
  <2>5. Port!TakeWrite(wdata, be)
    BY <2>1, <2>2, <2>4 DEF Port!TakeWrite, Current
  <2>6. wdata \in Port!PortWord
    BY DEF Port!PortWord, Word
  <2> QED BY <2>1, <2>5, <2>6 DEF Port!PortNext, DataOnTheWay, AckIsAnswer
<1> QED BY <1>1, <1>3, <1>4, <1>5, <1>6, <1>7 DEF Precharging, Activating, ReadWrite

(* The word moves one slot down the pipeline on each clock the controller  *)
(* counts, and is on DQ when the controller takes it.                      *)
LEMMA AnswerPort ==
  ASSUME PortInv, NEW asked \in BOOLEAN, ReadLatency \/ ReadDone \/ WriteDone \/ AckWait(asked)
  PROVE  DataOnTheWay' /\ AckIsAnswer' /\ [Port!PortNext]_Port!portVars
<1> USE DEF Go
<1>1. CASE ReadLatency
  <2>1. Quiet /\ state = "RD_WAIT" /\ state' \in {"RD_WAIT", "RD_DONE"} /\ Current' = Current
    BY <1>1 DEF ReadLatency, Plain, Nop, KeepLatch, latchVars, NoAck, Quiet, Current
  <2>2. PortPhase' = PortPhase /\ ~ack
    BY <2>1, Phases, PhasesPrime DEF PortInv, AckIsAnswer
  <2>3. timer \in 1..CAS_LAT /\ pipe[CAS_LAT + 1 - timer] = mem[Current]
    BY <2>1 DEF PortInv, DataOnTheWay
  <2>4. pipe'[CAS_LAT + 2 - timer] = mem[Current]
    <3>1. CAS_LAT + 2 - timer \in 1..CAS_LAT + 1 /\ CAS_LAT + 2 - timer # 1
          /\ CAS_LAT + 2 - timer - 1 = CAS_LAT + 1 - timer
      BY <2>3, ConstantTypes
    <3>2. \A i \in 1..CAS_LAT + 1 : i # 1 => pipe'[i] = pipe[i - 1]
      BY <1>1, ConstantTypes DEF ReadLatency, Nop, Shift
    <3> QED BY <2>3, <3>1, <3>2, ConstantTypes
  <2>5. DataOnTheWay'
    <3>1. CASE timer > 1
      <4>1. state' = "RD_WAIT" /\ timer' = timer - 1
        BY <1>1, <3>1 DEF ReadLatency
      <4>2. timer' \in 1..CAS_LAT /\ CAS_LAT + 1 - timer' = CAS_LAT + 2 - timer
        BY <2>3, <3>1, <4>1, ConstantTypes
      <4>3. mem'[Current'] = mem[Current]
        BY <2>1 DEF Quiet
      <4> QED BY <2>4, <4>1, <4>2, <4>3 DEF DataOnTheWay
    <3>2. CASE ~(timer > 1)
      <4>1. state' = "RD_DONE" /\ timer = 1
        BY <1>1, <2>3, <3>2, ConstantTypes DEF ReadLatency
      <4>2. CAS_LAT + 2 - timer = CAS_LAT + 1
        BY <4>1, ConstantTypes
      <4>3. mem'[Current'] = mem[Current]
        BY <2>1 DEF Quiet
      <4> QED BY <2>4, <4>1, <4>2, <4>3 DEF DataOnTheWay, rdata_live
    <3> QED BY <3>1, <3>2
  <2> QED BY <2>1, <2>2, <2>5, StaysInPhase DEF AckIsAnswer, Quiet
<1>2. CASE ReadDone \/ WriteDone
  <2>1. /\ state \in {"RD_DONE", "WR_DONE"} /\ state' = "ACK_WAIT" /\ ack' = TRUE /\ mem' = mem
        /\ UNCHANGED <<cur_bank, cur_row, cur_col>>
        /\ rdata' = IF state = "RD_DONE" THEN mem[Current] ELSE rdata
    BY <1>2 DEF ReadDone, WriteDone, Nop, KeepLatch, latchVars, PortInv, DataOnTheWay
  <2>2. PortPhase' = "answered"
    BY <2>1, PhasesPrime
  <2>3. PortPhase = IF state = "RD_DONE" THEN "reading" ELSE "written"
    BY <2>1, Phases
  <2>4. Port!Answer
    BY <2>1, <2>2, <2>3 DEF Port!Answer, Current
  <2> QED BY <2>1, <2>4 DEF Port!PortNext, DataOnTheWay, AckIsAnswer
<1>3. CASE AckWait(asked)
  <2>1. Quiet /\ state = "ACK_WAIT" /\ state' \in {"ACK_WAIT", "IDLE"}
    BY <1>3 DEF AckWait, Plain, Nop, KeepLatch, latchVars, NoAck, Quiet
  <2>2. PortPhase = "answered" /\ PortPhase' \in {"answered", "idle"}
    BY <2>1, Phases, PhasesPrime DEF Accesses
  <2>3. CASE ack
    BY <2>1, <2>2, <2>3 DEF Port!EndAck, Port!PortNext, Quiet, DataOnTheWay, AckIsAnswer
  <2>4. CASE ~ack /\ PortPhase' = "idle"
    BY <2>1, <2>2, <2>4, PortFacts
    DEF Port!Release, Port!PortNext, Quiet, DataOnTheWay, AckIsAnswer
  <2>5. CASE ~ack /\ PortPhase' = "answered"
    BY <2>1, <2>2, <2>5, StaysInPhase DEF Quiet, DataOnTheWay, AckIsAnswer
  <2> QED BY <2>2, <2>3, <2>4, <2>5
<1> QED BY <1>1, <1>2, <1>3

(* Reset abandons whatever was going on.                                   *)
LEMMA ResetPort ==
  ASSUME PortInv, Reset
  PROVE  DataOnTheWay' /\ AckIsAnswer' /\ [Port!PortNext]_Port!portVars
<1>1. /\ state' = "INIT_WAIT" /\ ack' = FALSE /\ rdata' = NoData /\ mem' = mem
      /\ UNCHANGED <<cur_bank, cur_row, cur_col>>
  BY DEF Reset, ResetValues, latchVars, Nop
<1>2. PortPhase' = "idle"
  BY <1>1, PhasesPrime DEF Accesses
<1>3. Port!Abandon
  BY <1>1, <1>2 DEF Port!Abandon
<1> QED BY <1>1, <1>3 DEF Port!PortNext, DataOnTheWay, AckIsAnswer

LEMMA StepPort ==
  ASSUME PortInv, [Next]_vars
  PROVE  PortInv' /\ [Port!PortNext]_Port!portVars
<1>1. TimingInv'
  BY StepInv DEF PortInv
<1>2. DataOnTheWay' /\ AckIsAnswer' /\ [Port!PortNext]_Port!portVars
  <2>1. CASE UNCHANGED vars
    BY <2>1
    DEF vars, ctrlVars, latchVars, chipVars, PortInv, DataOnTheWay, AckIsAnswer, rdata_live, Current,
        Port!portVars, PortPhase
  <2>2. CASE Reset
    BY <2>2, ResetPort
  <2>3. CASE Initialise \/ RefreshPrecharged \/ Refreshing
    BY <2>3, HousekeepingPort
  <2>4. CASE \E asked, we \in BOOLEAN, b \in Bank, r \in Row, c \in Col : Idle(asked, we, b, r, c)
    BY <2>4, IdlePort
  <2>5. CASE Precharging \/ Activating
    <3>1. mem[Current] \in Word /\ TRUE \in BOOLEAN /\ {} \in SUBSET Lanes
      BY PortFacts
    <3> QED BY <2>5, <3>1, AccessPort
  <2>6. CASE \E wr_valid \in BOOLEAN, wdata \in Word, be \in SUBSET Lanes :
               ReadWrite(wr_valid, wdata, be)
    BY <2>6, AccessPort
  <2>7. CASE ReadLatency \/ ReadDone \/ WriteDone \/ \E asked \in BOOLEAN : AckWait(asked)
    BY <2>7, AnswerPort
  <2> QED BY <2>1, <2>2, <2>3, <2>4, <2>5, <2>6, <2>7 DEF Next
<1> QED BY <1>1, <1>2 DEF PortInv

LEMMA InitPort == Init => PortInv /\ Port!PortInit
<1> SUFFICES ASSUME Init PROVE PortInv /\ Port!PortInit
  OBVIOUS
<1>1. state = "INIT_WAIT" /\ ack = FALSE
  BY DEF Init, ResetValues
<1>2. PortInv
  BY <1>1, InitInv DEF PortInv, DataOnTheWay, AckIsAnswer
<1>3. Current \in Address
  BY <1>2, PortFacts
<1>4. PortPhase = "idle"
  BY <1>1, Phases DEF Accesses
<1> QED BY <1>1, <1>2, <1>3, <1>4 DEF Port!PortInit, Init, ChipInit, Current

(* The controller is a one-port memory: every accepted request is done     *)
(* once, on the address it was accepted with and with the data offered     *)
(* when the WRITE goes out; a read answers with what the array holds; and  *)
(* a reset, whenever it strikes, leaves every word old or new.             *)
THEOREM ControllerIsAPort == Spec => ImplementsMemPort
<1>1. PortInv /\ [Next]_vars => PortInv' /\ [Port!PortNext]_Port!portVars
  BY StepPort
<1> QED BY InitPort, <1>1, PTL DEF Spec, ImplementsMemPort, Port!PortSpec

-----------------------------------------------------------------------------
(* The bridge: core, bridge and controller together.                       *)

(* An access is under way in the controller.                               *)
Busy == Accesses \cup {"RD_WAIT", "RD_DONE", "WR_DONE"}

AccessKind ==
  /\ state \in {"RD_WAIT", "RD_DONE"} => ~cur_we
  /\ state = "WR_DONE" => cur_we

(* What a clock of the controller does to the requester's access: starts   *)
(* it from the inputs of that clock, keeps its address and its direction   *)
(* until it is over, and writes the array once.                            *)
Starts(req_in, we, a) ==
  state \notin Busy /\ state' \in Busy =>
    req_in /\ Current' = a /\ cur_we' = we /\ state' \in Accesses \cup {"RD_WAIT"}

Keeps ==
  state \in Busy => /\ Current' = Current /\ cur_we' = cur_we
                    /\ state' \in Busy \cup {"ACK_WAIT"}

Ends(req_in) ==
  /\ state \in {"RD_DONE", "WR_DONE"} => state' = "ACK_WAIT"
  /\ state' = "ACK_WAIT" =>
       state \in {"RD_DONE", "WR_DONE"} \/ (state = "ACK_WAIT" /\ req_in)

Writes(wr_valid, w, be) ==
  /\ state' = "WR_DONE" => state \in Accesses /\ wr_valid
  /\ mem' = IF state' = "WR_DONE"
            THEN [mem EXCEPT ![Current] = Merge(@, w, be)] ELSE mem

Follows(req_in, we, a, wr_valid, w, be) ==
  Starts(req_in, we, a) /\ Keeps /\ Ends(req_in) /\ Writes(wr_valid, w, be) /\ AccessKind'

LEMMA WaitingFollows ==
  ASSUME NEW st \in States \ {"RD_WAIT", "RD_DONE", "WR_DONE", "ACK_WAIT"}, Waiting(st), NEW rq, NEW we, NEW a,
         NEW wv, NEW w, NEW be
  PROVE  Follows(rq, we, a, wv, w, be)
BY DEF Waiting, Go, Plain, KeepLatch, latchVars, Nop, Follows, Starts, Keeps, Ends, Writes,
       AccessKind, Busy, Accesses, Current

LEMMA HousekeepingFollows ==
  ASSUME Initialise \/ RefreshPrecharged \/ Refreshing, NEW rq, NEW we, NEW a,
         NEW wv, NEW w, NEW be
  PROVE  Follows(rq, we, a, wv, w, be)
<1> DEFINE Hidden == InitStates \cup {"REF_PRE", "REFRESH", "IDLE"}
<1>1. state \in Hidden /\ state' \in Hidden
  BY DEF Initialise, InitWait, InitPrecharge, InitRefresh, InitMode, RefreshPrecharged,
         Refreshing, Waiting, Go, InitStates
<1>2. mem' = mem
  BY DEF Initialise, InitWait, InitPrecharge, InitRefresh, InitMode, RefreshPrecharged, Refreshing,
         Waiting, Nop, LoadMode, Precharge, Refresh
<1> QED BY <1>1, <1>2 DEF InitStates, Follows, Starts, Keeps, Ends, Writes, AccessKind, Busy,
           Accesses

LEMMA IdleFollows ==
  ASSUME PortInv, NEW rq, NEW we, NEW b, NEW r, NEW c, Idle(rq, we, b, r, c),
         NEW wv, NEW w, NEW be
  PROVE  Follows(rq, we, <<b, r, c>>, wv, w, be)
<1>1. CASE Waiting("IDLE")
  BY <1>1, WaitingFollows DEF States
<1>2. CASE ~Waiting("IDLE")
  <2>1. state = "IDLE" /\ mem' = mem
    BY <1>2 DEF Idle, IdleRefresh, IdleQuiet, IdleHit, IdleMiss, IdleClosed, Dispatch, Nop, Read,
                Precharge, Refresh, OpenRow, Activate
  <2>2. \/ state' \in {"IDLE", "REF_PRE", "REFRESH"}
        \/ /\ rq /\ Current' = <<b, r, c>> /\ cur_we' = we
           /\ state' \in Accesses \/ (state' = "RD_WAIT" /\ ~we)
    BY <1>2 DEF Idle, IdleRefresh, IdleQuiet, IdleHit, IdleMiss, IdleClosed, Dispatch,
                LatchRequest, Go, Current, Accesses
  <2> QED BY <2>1, <2>2 DEF Follows, Starts, Keeps, Ends, Writes, AccessKind, Busy, Accesses
<1> QED BY <1>1, <1>2

LEMMA AccessFollows ==
  ASSUME PortInv, NEW wv, NEW w, NEW be, Precharging \/ Activating \/ ReadWrite(wv, w, be),
         NEW rq, NEW we, NEW a
  PROVE  Follows(rq, we, a, wv, w, be)
<1>1. CASE Waiting("PRECHG") \/ Waiting("ACTIVE") \/ Waiting("RW")
  BY <1>1, WaitingFollows DEF States
<1>2. CASE ~(Waiting("PRECHG") \/ Waiting("ACTIVE") \/ Waiting("RW"))
  <2>1. state \in Accesses /\ Current' = Current /\ cur_we' = cur_we
    BY <1>2 DEF Precharging, Activating, ReadWrite, Plain, KeepLatch, latchVars, Current, Accesses
  <2>2. \/ mem' = mem /\ state' \in {"ACTIVE", "RW"}
        \/ mem' = mem /\ state' = "RD_WAIT" /\ ~cur_we
        \/ state = "RW" /\ cur_we /\ wv /\ state' = "WR_DONE" /\ Write(cur_bank, cur_col, w, be)
    BY <1>2 DEF Precharging, Activating, ReadWrite, Go, OpenRow, Activate, Nop, Read
  <2>3. state' = "WR_DONE" => mem' = [mem EXCEPT ![Current] = Merge(@, w, be)]
    <3> SUFFICES ASSUME state' = "WR_DONE"
                 PROVE  mem' = [mem EXCEPT ![Current] = Merge(@, w, be)]
      OBVIOUS
    <3>1. state = "RW" /\ Write(cur_bank, cur_col, w, be)
      BY <2>2
    <3>2. active[cur_bank] = cur_row /\ active[cur_bank] # NoRow
      BY <3>1, PortFacts, Facts DEF PortInv
    <3> QED BY <3>1, <3>2 DEF Write, Current, Merge
  <2> QED BY <2>1, <2>2, <2>3 DEF Follows, Starts, Keeps, Ends, Writes, AccessKind, Busy, Accesses
<1> QED BY <1>1, <1>2

LEMMA AnswerFollows ==
  ASSUME AccessKind, NEW rq, ReadLatency \/ ReadDone \/ WriteDone \/ AckWait(rq),
         NEW we, NEW a, NEW wv, NEW w, NEW be
  PROVE  Follows(rq, we, a, wv, w, be)
BY DEF ReadLatency, ReadDone, WriteDone, AckWait, Go, Plain, KeepLatch, latchVars, Nop, Follows,
       Starts, Keeps, Ends, Writes, AccessKind, Busy, Accesses, Current

LEMMA ClockFollows ==
  ASSUME PortInv, AccessKind, NEW rq, NEW we, NEW b, NEW r, NEW c, NEW wv, NEW w, NEW be,
         Clock(rq, we, b, r, c, wv, w, be)
  PROVE  Follows(rq, we, <<b, r, c>>, wv, w, be)
BY HousekeepingFollows, IdleFollows, AccessFollows, AnswerFollows DEF Clock

-----------------------------------------------------------------------------
(* The core drives its strobes, its data and its lanes as its state says.  *)
Resting == s \in {"S0", "S1"}
Strobes ==
  /\ as_n <=> Resting
  /\ rw <=> (Resting \/ kind = "read")
  /\ ds = IF Resting \/ (kind = "write" /\ s \in {"S2", "S3"}) THEN {} ELSE lanes
  /\ kind = "write" /\ s \in {"S3", "S4", "SW", "S5", "S6"} => dout \in Word

(* The registered decode and address are the cycle's from S2 on.           *)
Decoded == s # "S1" => owns_r = mine /\ saddr_r = adr

(* A request is up from AS to DTACK, and DTACK to the end of AS.           *)
Handshake ==
  /\ bstate = "B_REQ" => mine /\ s \in {"S3", "S4", "SW"}
  /\ bstate = "B_DONE" => s = "S0" \/ (mine /\ s \in {"S4", "SW", "S5", "S6"})
  /\ mine /\ s \in {"S5", "S6"} => bstate = "B_DONE"
  /\ fm_hold = (bstate = "B_DONE")

(* The controller is busy with this cycle's access, or with none; its      *)
(* WRITE has waited for the data.                                          *)
OneAccess ==
  /\ state \in Busy => bstate = "B_REQ" /\ Current = adr /\ cur_we = (kind = "write")
  /\ state = "ACK_WAIT" => bstate = "B_DONE"
  /\ state = "WR_DONE" => s \in {"S4", "SW"}

(* The array runs ahead of the finished cycles by the write under way once *)
(* it has been issued; a read's word waits in the bridge.                  *)
Landed == state = "WR_DONE" \/ (bstate = "B_DONE" /\ kind = "write" /\ s # "S0")
Ahead ==
  mem = IF Landed THEN [promised EXCEPT ![adr] = Merge(@, dout, lanes)] ELSE promised
Held == bstate = "B_DONE" /\ kind = "read" /\ s # "S0" => fm_dout_r = mem[adr]

BridgeInv ==
  /\ PortInv /\ AccessKind /\ BridgeTypeOK
  /\ kind \in {"read", "write"}
  /\ Strobes /\ Decoded /\ Handshake /\ OneAccess /\ Ahead /\ Held

-----------------------------------------------------------------------------
LEMMA BridgeInitially == SysInit => BridgeInv
<1> SUFFICES ASSUME SysInit PROVE BridgeInv
  OBVIOUS
<1> USE DEF SysInit
<1>1. PortInv
  BY InitPort
<1>2. state = "INIT_WAIT" /\ mem \in [Address -> Word]
  BY <1>1, PortFacts DEF Init, ResetValues
<1>3. BridgeTypeOK
  <2>1. TypeOK /\ promised \in [Address -> Word] /\ resets \in 0..MaxResets
    BY <1>1, <1>2, BridgeAssumption DEF PortInv, TimingInv
  <2>2. lanes \in (SUBSET Lanes) \ {{}} /\ ds \subseteq Lanes
    BY BridgeAssumption
  <2>3. /\ {mine, as_n, rw, fm_hold, owns_r} \subseteq BOOLEAN
        /\ {dout, latched, fm_dout_r} \subseteq Word \cup {NoData}
        /\ adr \in Address /\ saddr_r \in Address
    OBVIOUS
  <2> QED BY <2>1, <2>2, <2>3 DEF BridgeTypeOK, SStates
<1> QED BY <1>1, <1>2, <1>3
        DEF BridgeInv, AccessKind, Strobes, Resting, Decoded, Handshake, OneAccess, Busy, Accesses,
            Ahead, Held, Landed

(* The inputs the controller samples are of the kinds it is proved for.    *)
WordOut == IF dout = NoData THEN [l \in Lanes |-> CHOOSE v \in Byte : TRUE] ELSE dout

LEMMA WordOutIsWord ==
  ASSUME BridgeTypeOK
  PROVE  WordOut \in Word
<1>1. CASE dout = NoData
  <2>1. PICK l \in Lanes : TRUE
    BY BridgeAssumption
  <2>2. promised[adr] \in [Lanes -> Byte]
    BY DEF BridgeTypeOK, Word
  <2>3. \E v \in Byte : TRUE
    BY <2>1, <2>2
  <2> QED BY <1>1, <2>3 DEF WordOut, Word
<1>2. CASE dout # NoData
  BY <1>2 DEF WordOut, BridgeTypeOK
<1> QED BY <1>1, <1>2

LEMMA SysIsController ==
  ASSUME BridgeTypeOK, [SysNext]_sysVars
  PROVE  [Next]_vars
<1>1. CASE SysClock
  <2>1. Clock(req, ~rw, saddr_r[1], saddr_r[2], saddr_r[3], ds # {}, WordOut, ds)
    BY <1>1 DEF SysClock, ControllerClock, WordOut
  <2>2. req \in BOOLEAN /\ (~rw) \in BOOLEAN /\ (ds # {}) \in BOOLEAN /\ ds \in SUBSET Lanes
    <3>1. ds \in SUBSET Lanes
      BY DEF BridgeTypeOK
    <3>2. req \in BOOLEAN /\ (~rw) \in BOOLEAN /\ (ds # {}) \in BOOLEAN
      BY Zenon DEF req
    <3> QED BY <3>1, <3>2
  <2>3. saddr_r[1] \in Bank /\ saddr_r[2] \in Row /\ saddr_r[3] \in Col
    BY DEF BridgeTypeOK, Address
  <2> QED BY <2>1, <2>2, <2>3, WordOutIsWord DEF Clock, Next
<1>2. CASE SysReset
  BY <1>2 DEF SysReset, Next
<1>3. CASE UNCHANGED sysVars
  BY <1>3 DEF sysVars
<1> QED BY <1>1, <1>2, <1>3 DEF SysNext

(* What the controller does in a clock of the system.                      *)
LEMMA ControllerFollows ==
  ASSUME BridgeInv, SysClock
  PROVE  Follows(req, ~rw, saddr_r, ds # {}, WordOut, ds)
<1>1. Clock(req, ~rw, saddr_r[1], saddr_r[2], saddr_r[3], ds # {}, WordOut, ds)
  BY DEF SysClock, ControllerClock, WordOut
<1>2. saddr_r = <<saddr_r[1], saddr_r[2], saddr_r[3]>>
  BY DEF BridgeInv, BridgeTypeOK, Address
<1> QED BY <1>1, <1>2, ClockFollows DEF BridgeInv

-----------------------------------------------------------------------------
(* The lines between the three, as the invariant knows them.               *)
LEMMA Lines ==
  ASSUME BridgeInv
  PROVE  /\ fm_space <=> mine /\ ~Resting
         /\ ack_now <=> state \in {"RD_DONE", "WR_DONE"}
         /\ fm_req_now => bstate = "B_IDLE" /\ mine /\ s \notin {"S0", "S1", "S5", "S6"}
         /\ req => ~Resting /\ mine /\ saddr_r = adr
<1>1. fm_space <=> mine /\ ~Resting
  <2>1. (as_n <=> Resting) /\ (~Resting => owns_r = mine)
    BY DEF BridgeInv, Strobes, Decoded, Resting
  <2>2. CASE Resting
    BY <2>1, <2>2, Zenon DEF fm_space
  <2>3. CASE ~Resting
    <3>1. owns_r \in BOOLEAN /\ mine \in BOOLEAN
      BY DEF BridgeInv, BridgeTypeOK
    <3>2. (owns_r <=> mine) /\ ~as_n
      BY <2>1, <2>3, <3>1, SMT
    <3> QED BY <2>3, <3>2, Zenon DEF fm_space
  <2> QED BY <2>2, <2>3
<1>2. ack_now <=> state \in {"RD_DONE", "WR_DONE"}
  BY DEF BridgeInv, PortInv, AckIsAnswer, OneAccess, Busy, ack_now, ack_hit, ack_early
<1>3. fm_req_now => bstate = "B_IDLE" /\ mine /\ s \notin {"S0", "S1", "S5", "S6"}
  BY <1>1 DEF BridgeInv, Handshake, fm_req_now, Resting
<1>4. req => ~Resting /\ mine /\ saddr_r = adr
  BY <1>1, <1>3 DEF BridgeInv, Handshake, Decoded, req, Resting, fm_req_now
<1> QED BY <1>1, <1>2, <1>3, <1>4

LEMMA BridgeMoves ==
  ASSUME BridgeInv, SysClock
  PROVE  /\ bstate' = IF fm_req_now THEN "B_REQ"
                      ELSE IF ack_now THEN "B_DONE"
                      ELSE IF bstate = "B_DONE" /\ as_n THEN "B_IDLE"
                      ELSE bstate
         /\ fm_hold' = (bstate' = "B_DONE")
         /\ fm_dout_r' = IF ack_now THEN ack_dat ELSE fm_dout_r
         /\ owns_r' = mine /\ saddr_r' = adr
BY Lines DEF SysClock, BridgeClock, BridgeInv, BridgeTypeOK, Handshake, ack_now, fm_req_now

(* What the core does in a clock, in a few words.                          *)
CoreStep ==
  \/ s = "S0" /\ s' = "S0" /\ UNCHANGED coreVars
  \/ s = "S0" /\ s' = "S1"
  \/ s = "S1" /\ s' = "S2"
  \/ s = "S2" /\ s' = "S3"
  \/ s = "S3" /\ s' = "S4"
  \/ s = "S4" /\ s' = "S5" /\ (mine => dtack)
  \/ s = "S4" /\ s' = "SW" /\ (mine => ~dtack)
  \/ s = "SW" /\ s' = "S4"
  \/ s = "S5" /\ s' = "S6"
  \/ s = "S6" /\ s' = "S0"

LEMMA CoreMoves ==
  ASSUME BridgeInv, ~RMW_CYCLES, SysClock
  PROVE  /\ CoreStep
         /\ s # "S0" => UNCHANGED <<kind, mine, adr, lanes>>
         /\ kind' \in {"read", "write"} /\ mine' \in BOOLEAN /\ adr' \in Address
         /\ lanes' \in (SUBSET Lanes) \ {{}}
         /\ s \notin {"S0", "S2", "S6"} => dout' = dout
         /\ s = "S2" => dout' = dout \/ dout' \in Word
         /\ s = "S2" /\ kind = "write" => dout' \in Word
         /\ Strobes'
<1> USE DEF Writing
<1>0. CoreClock /\ kind \in {"read", "write"} /\ Strobes
  BY DEF SysClock, BridgeInv
<1>1. CoreStep
  <2>1. CASE CoreSample
    <3>1. s = "S4" /\ s' \in {"S5", "SW"}
      BY <2>1 DEF CoreSample
    <3>2. mine => fm_space
      BY <3>1, Lines DEF Resting
    <3>3. mine => s' = IF dtack THEN "S5" ELSE "SW"
      BY <2>1, <3>2 DEF CoreSample
    <3> QED BY <3>1, <3>3 DEF CoreStep
  <2>2. CASE CoreRest
    BY <2>2 DEF CoreRest, CoreStep, coreVars
  <2>3. CASE ~CoreSample /\ ~CoreRest
    BY <1>0, <2>3
    DEF CoreClock, CoreAddress, CoreStrobe, CoreDrive, CoreWriteStrobe, CoreWait, CoreS5,
        CoreFinish, CoreStep
  <2> QED BY <2>1, <2>2, <2>3
<1>2. /\ s # "S0" => UNCHANGED <<kind, mine, adr, lanes>>
      /\ kind' \in {"read", "write"} /\ mine' \in BOOLEAN /\ adr' \in Address
      /\ lanes' \in (SUBSET Lanes) \ {{}}
  BY <1>0
  DEF CoreClock, CoreRest, CoreAddress, CoreStrobe, CoreDrive, CoreWriteStrobe, CoreSample,
      CoreWait, CoreS5, CoreFinish, BridgeInv, BridgeTypeOK, coreVars
<1>3. /\ s \notin {"S0", "S2", "S6"} => dout' = dout
      /\ s = "S2" => dout' = dout \/ dout' \in Word
      /\ s = "S2" /\ kind = "write" => dout' \in Word
  BY <1>0
  DEF CoreClock, CoreRest, CoreAddress, CoreStrobe, CoreDrive, CoreWriteStrobe, CoreSample,
      CoreWait, CoreS5, CoreFinish
<1>4. Strobes'
  <2>1. CASE CoreRest
    BY <1>0, <2>1 DEF CoreRest, coreVars, Strobes, Resting
  <2>2. CASE CoreAddress
    BY <1>0, <2>2 DEF CoreAddress, Strobes, Resting
  <2>3. CASE CoreStrobe
    <3>1. kind' = kind /\ s' = "S2" /\ lanes' = lanes /\ as_n' = FALSE
          /\ rw' = ~(kind \in {"write", "rmw2"}) /\ ds' = IF kind = "write" THEN {} ELSE lanes
      BY <1>0, <2>3 DEF CoreStrobe
    <3>2. ~Resting' /\ (kind' = "read" <=> ~(kind \in {"write", "rmw2"}))
      BY <1>0, <3>1 DEF Resting
    <3>3. (as_n' <=> Resting') /\ (rw' <=> (Resting' \/ kind' = "read"))
      BY <3>1, <3>2, Zenon
    <3> QED BY <3>1, <3>2, <3>3 DEF Strobes
  <2>4. CASE CoreDrive
    BY <1>0, <2>4 DEF CoreDrive, Strobes, Resting
  <2>5. CASE CoreWriteStrobe
    BY <1>0, <2>5 DEF CoreWriteStrobe, Strobes, Resting
  <2>6. CASE CoreSample \/ CoreWait \/ CoreS5
    BY <1>0, <2>6 DEF CoreSample, CoreWait, CoreS5, Strobes, Resting
  <2>7. CASE CoreFinish
    BY <1>0, <2>7 DEF CoreFinish, Strobes, Resting
  <2> QED BY <1>0, <2>1, <2>2, <2>3, <2>4, <2>5, <2>6, <2>7 DEF CoreClock
<1> QED BY <1>1, <1>2, <1>3, <1>4

(* DTACK ends a cycle only once the access is over.                        *)
LEMMA HandshakeKept ==
  ASSUME BridgeInv, ~RMW_CYCLES, SysClock
  PROVE  Decoded' /\ Handshake'
<1>1. Decoded'
  BY BridgeMoves, CoreMoves DEF Decoded, CoreStep, coreVars
<1>2. dtack <=> ack_now \/ bstate = "B_DONE"
  BY DEF BridgeInv, Handshake, dtack
<1>3. Handshake /\ (as_n <=> Resting)
  BY DEF BridgeInv, Strobes
<1>4. ack_now => bstate = "B_REQ"
  BY DEF ack_now
<1>5. bstate' = "B_REQ" => mine' /\ s' \in {"S3", "S4", "SW"}
  BY <1>2, <1>3, <1>4, BridgeMoves, CoreMoves, Lines DEF Handshake, CoreStep, Resting
<1>6. bstate' = "B_DONE" => s' = "S0" \/ (mine' /\ s' \in {"S4", "SW", "S5", "S6"})
  BY <1>2, <1>3, <1>4, BridgeMoves, CoreMoves, Lines DEF Handshake, CoreStep, Resting
<1>7. mine' /\ s' \in {"S5", "S6"} => bstate' = "B_DONE"
  BY <1>2, <1>3, <1>4, BridgeMoves, CoreMoves, Lines DEF Handshake, CoreStep, Resting
<1>8. fm_hold' = (bstate' = "B_DONE")
  BY BridgeMoves
<1> QED BY <1>1, <1>5, <1>6, <1>7, <1>8 DEF Handshake

LEMMA OneAccessKept ==
  ASSUME BridgeInv, ~RMW_CYCLES, SysClock
  PROVE  OneAccess' /\ AccessKind'
<1>1. /\ Starts(req, ~rw, saddr_r) /\ Keeps /\ Ends(req)
      /\ Writes(ds # {}, WordOut, ds) /\ AccessKind'
  BY ControllerFollows DEF Follows
<1>2. OneAccess /\ Handshake /\ Strobes /\ kind \in {"read", "write"}
  BY DEF BridgeInv
<1>3. ack_now => bstate = "B_REQ"
  BY DEF ack_now
<1>4. bstate = "B_REQ" => ~fm_req_now /\ s \in {"S3", "S4", "SW"} /\ UNCHANGED <<kind, adr>>
  BY <1>2, Lines, CoreMoves DEF Handshake
<1>5. state' \in Busy => bstate' = "B_REQ" /\ Current' = adr' /\ cur_we' = (kind' = "write")
  <2>1. CASE state \in Busy /\ state' \in Busy
    <3>1. state \notin {"RD_DONE", "WR_DONE"}
      BY <1>1, <2>1 DEF Ends, Busy, Accesses
    <3> QED BY <1>1, <1>2, <1>4, <2>1, <3>1, Lines, BridgeMoves DEF Keeps, OneAccess
  <2>2. CASE state \notin Busy /\ state' \in Busy
    <3>1. req /\ Current' = saddr_r /\ cur_we' = ~rw
      BY <1>1, <2>2 DEF Starts
    <3>2. ~ack_now /\ ~Resting /\ saddr_r = adr
      BY <2>2, <3>1, Lines DEF Busy
    <3>3. bstate' = "B_REQ"
      BY <3>1, <3>2, BridgeMoves, Lines DEF req
    <3>4. UNCHANGED <<kind, adr>> /\ (~rw <=> kind = "write")
      BY <1>2, <3>2, CoreMoves DEF Resting, Strobes
    <3> QED BY <1>2, <3>1, <3>2, <3>3, <3>4
  <2> QED BY <2>1, <2>2
<1>6. state' = "ACK_WAIT" => bstate' = "B_DONE"
  <2>1. CASE state \in {"RD_DONE", "WR_DONE"}
    BY <1>3, <1>4, <2>1, Lines, BridgeMoves
  <2>2. CASE state = "ACK_WAIT"
    <3>1. ~req
      BY <1>2, <2>2, Lines DEF OneAccess, req
    <3> QED BY <1>1, <2>2, <3>1 DEF Ends
  <2> QED BY <1>1, <2>1, <2>2 DEF Ends
<1>7. state' = "WR_DONE" => s' \in {"S4", "SW"}
  <2> SUFFICES ASSUME state' = "WR_DONE" PROVE s' \in {"S4", "SW"}
    OBVIOUS
  <2>1. state \in Accesses /\ ds # {}
    BY <1>1 DEF Writes
  <2>2. state \in Busy /\ ~ack_now /\ state' \in Busy
    BY <2>1, Lines DEF Busy, Accesses
  <2>3. bstate = "B_REQ" /\ mine /\ s \in {"S3", "S4", "SW"}
    BY <1>2, <2>2 DEF OneAccess, Handshake
  <2>4. kind = "write"
    BY <1>1, <1>2, <2>2 DEF Keeps, AccessKind, OneAccess
  <2>5. s \in {"S4", "SW"} /\ ~dtack
    BY <1>2, <2>1, <2>2, <2>3, <2>4 DEF Strobes, Resting, dtack, Handshake
  <2> QED BY <2>3, <2>5, CoreMoves DEF CoreStep
<1> QED BY <1>1, <1>5, <1>6, <1>7 DEF OneAccess

(* A write is issued once, between its strobes and its DTACK, with the     *)
(* core's data; a read's word is taken while it is on DQ.                  *)
LEMMA MemoryKept ==
  ASSUME BridgeInv, ~RMW_CYCLES, SysClock
  PROVE  Ahead' /\ Held'
<1>1. /\ Keeps /\ Ends(req) /\ Writes(ds # {}, WordOut, ds)
  BY ControllerFollows DEF Follows
<1>2. OneAccess /\ Handshake /\ Strobes /\ kind \in {"read", "write"} /\ AccessKind /\ Ahead /\ Held
  BY DEF BridgeInv
<1>3. OneAccess' /\ AccessKind'
  BY OneAccessKept
<1>4. s # "S0" => UNCHANGED <<kind, mine, adr, lanes>>
  BY CoreMoves
<1>5. /\ bstate \in {"B_IDLE", "B_REQ", "B_DONE"} /\ adr \in Address /\ dout \in Word \cup {NoData}
      /\ promised \in [Address -> Word]
  BY DEF BridgeInv, BridgeTypeOK
<1>6. promised' = IF s = "S6" /\ kind = "write" /\ mine
                  THEN [promised EXCEPT ![adr] = Merge(@, dout, lanes)] ELSE promised
  BY <1>2, Lines DEF SysClock, Promise, Writing, Resting
<1>7. ack_now => bstate = "B_REQ" /\ s \in {"S3", "S4", "SW"} /\ state \in Busy /\ state' = "ACK_WAIT"
  BY <1>1, <1>2, Lines DEF ack_now, Handshake, Busy, Ends
<1>8. state = "WR_DONE" => kind = "write"
  BY <1>2 DEF OneAccess, AccessKind, Busy
<1>9. state = "RD_DONE" => kind = "read"
  BY <1>2 DEF OneAccess, AccessKind, Busy
<1>10. bstate' = "B_DONE" /\ s' # "S0" =>
         ack_now \/ (bstate = "B_DONE" /\ s # "S0" /\ UNCHANGED fm_dout_r /\ ~ack_now)
  BY <1>2, <1>7, BridgeMoves DEF Strobes, Resting
<1>11. Held'
  <2> SUFFICES ASSUME bstate' = "B_DONE", kind' = "read", s' # "S0"
               PROVE  fm_dout_r' = mem'[adr']
    BY DEF Held
  <2>1. CASE ack_now
    <3>1. state = "RD_DONE" /\ UNCHANGED <<kind, adr>> /\ mem' = mem
      BY <1>1, <1>4, <1>7, <1>8, <2>1, Lines DEF Writes
    <3>2. fm_dout_r' = rdata_live
      BY <2>1, <3>1, BridgeMoves DEF ack_dat, ack_early
    <3>3. rdata_live = mem[Current] /\ Current = adr
      BY <1>2, <3>1 DEF BridgeInv, PortInv, DataOnTheWay, OneAccess, Busy
    <3> QED BY <3>1, <3>2, <3>3
  <2>2. CASE ~ack_now
    <3>1. bstate = "B_DONE" /\ s # "S0" /\ UNCHANGED <<fm_dout_r, kind, adr>>
      BY <1>4, <1>10, <2>2
    <3>2. state \notin Busy
      BY <1>2, <3>1 DEF OneAccess
    <3>3. mem' = mem
      BY <1>1, <3>2 DEF Writes, Busy
    <3> QED BY <1>2, <3>1, <3>3 DEF Held
  <2> QED BY <2>1, <2>2
<1>12. CASE state' = "WR_DONE"
  <2>1. state \in Accesses /\ ds # {} /\ state \in Busy /\ state' \in Busy
    BY <1>1, <1>12 DEF Writes, Busy
  <2>2. bstate = "B_REQ" /\ Current = adr /\ s \in {"S3", "S4", "SW"} /\ state # "WR_DONE"
    BY <1>2, <2>1 DEF OneAccess, Handshake, Accesses
  <2>3. kind = "write"
    BY <1>1, <1>2, <1>3, <1>12, <2>1 DEF Keeps, AccessKind, OneAccess
  <2>4. s \in {"S4", "SW"} /\ ds = lanes /\ dout \in Word
    BY <1>2, <2>1, <2>2, <2>3 DEF Strobes, Resting
  <2>5. WordOut = dout
    BY <2>4, BridgeAssumption DEF WordOut
  <2>6. mem = promised /\ promised' = promised
    BY <1>2, <1>6, <2>2, <2>4 DEF Ahead, Landed
  <2>7. mem' = [promised EXCEPT ![adr] = Merge(@, dout, lanes)]
    BY <1>1, <1>12, <2>2, <2>4, <2>5, <2>6 DEF Writes
  <2>8. dout' = dout /\ adr' = adr /\ lanes' = lanes
    BY <2>4, CoreMoves
  <2> QED BY <1>11, <1>12, <2>6, <2>7, <2>8 DEF Ahead, Landed, Merge
<1>13. CASE state' # "WR_DONE"
  <2>1. mem' = mem
    BY <1>1, <1>13 DEF Writes
  <2>2. CASE Landed
    <3>1. kind = "write" /\ s # "S0" /\ UNCHANGED <<kind, adr, lanes>> /\ mine
      BY <1>2, <1>4, <1>8, <2>2 DEF Landed, OneAccess, Handshake, Busy
    <3>2. mem = [promised EXCEPT ![adr] = Merge(@, dout, lanes)]
      BY <1>2, <2>2 DEF Ahead
    <3>3. CASE s = "S6"
      <4>1. s' = "S0"
        BY <3>3, CoreMoves DEF CoreStep
      <4>2. promised' = mem'
        BY <1>6, <2>1, <3>1, <3>2, <3>3
      <4> QED BY <1>11, <1>13, <4>1, <4>2 DEF Ahead, Landed
    <3>4. CASE s # "S6"
      <4>1. s \in {"S4", "SW", "S5"} /\ ~as_n
        BY <1>2, <2>2, <3>1, <3>4 DEF Landed, OneAccess, Handshake, Strobes, Resting
      <4>2. s' # "S0" /\ dout' = dout
        BY <4>1, CoreMoves DEF CoreStep
      <4>3. bstate' = "B_DONE"
        BY <1>7, <2>2, <4>1, BridgeMoves, Lines DEF Landed
      <4>4. promised' = promised
        BY <1>6, <3>4
      <4> QED BY <1>11, <2>1, <3>1, <3>2, <4>2, <4>3, <4>4 DEF Ahead, Landed, Merge
    <3> QED BY <3>3, <3>4
  <2>3. CASE ~Landed
    <3>1. mem = promised
      BY <1>2, <2>3 DEF Ahead
    <3>2. promised' = promised
      BY <1>2, <1>6, <2>3 DEF Landed, Handshake
    <3>3. ~Landed'
      <4> SUFFICES ASSUME bstate' = "B_DONE", kind' = "write", s' # "S0" PROVE FALSE
        BY <1>13 DEF Landed
      <4>1. CASE ack_now
        BY <1>4, <1>7, <1>9, <2>3, <4>1, Lines DEF Landed
      <4>2. CASE ~ack_now
        BY <1>4, <1>10, <2>3, <4>2 DEF Landed
      <4> QED BY <4>1, <4>2
    <3> QED BY <1>11, <2>1, <3>1, <3>2, <3>3 DEF Ahead
  <2> QED BY <2>2, <2>3
<1> QED BY <1>12, <1>13

LEMMA BridgeTypeKept ==
  ASSUME BridgeInv, ~RMW_CYCLES, SysClock, TypeOK'
  PROVE  BridgeTypeOK'
<1>1. BridgeTypeOK /\ TypeOK /\ Strobes /\ Handshake /\ kind \in {"read", "write"}
  BY DEF BridgeInv, BridgeTypeOK
<1>2. ack_dat \in Word \cup {NoData}
  <2>1. CAS_LAT + 1 \in 1..CAS_LAT + 1
    BY ConstantTypes
  <2> QED BY <1>1, <2>1 DEF ack_dat, rdata_live, TypeOK, ChipTypeOK
<1>3. fm_dout \in Word \cup {NoData} /\ fm_dout_r' \in Word \cup {NoData}
  BY <1>1, <1>2, BridgeMoves DEF fm_dout, BridgeTypeOK
<1>4. latched' \in Word \cup {NoData} /\ dout' \in Word \cup {NoData}
  BY <1>1, <1>3
  DEF SysClock, CoreClock, CoreRest, CoreAddress, CoreStrobe, CoreDrive, CoreWriteStrobe,
      CoreSample, CoreWait, CoreS5, CoreFinish, coreVars, BridgeTypeOK
<1>5. {mine', as_n', rw', fm_hold', owns_r'} \subseteq BOOLEAN
  <2>1. mine' \in BOOLEAN /\ owns_r' \in BOOLEAN /\ fm_hold' \in BOOLEAN
    BY <1>1, CoreMoves, BridgeMoves DEF BridgeTypeOK
  <2>2. as_n' \in BOOLEAN /\ rw' \in BOOLEAN
    BY <1>1
    DEF SysClock, CoreClock, CoreRest, CoreAddress, CoreStrobe, CoreDrive, CoreWriteStrobe,
        CoreSample, CoreWait, CoreS5, CoreFinish, coreVars, BridgeTypeOK
  <2> QED BY <2>1, <2>2
<1>6. ds' \subseteq Lanes /\ saddr_r' \in Address
  <2>1. ds' \in {{}, lanes'}
    BY CoreMoves DEF Strobes
  <2> QED BY <1>1, <2>1, CoreMoves, BridgeMoves DEF BridgeTypeOK
<1>7. promised' \in [Address -> Word]
  <2>1. s = "S6" /\ Writing => dout \in Word
    BY <1>1 DEF Strobes, Writing
  <2>2. adr \in Address /\ promised \in [Address -> Word]
    BY <1>1 DEF BridgeTypeOK
  <2>3. s = "S6" /\ Writing => Merge(promised[adr], dout, lanes) \in Word
    BY <2>1, <2>2 DEF Merge, Word
  <2> QED BY <2>2, <2>3 DEF SysClock, Promise
<1>8. s' \in SStates /\ bstate' \in {"B_IDLE", "B_REQ", "B_DONE"}
  BY <1>1, CoreMoves, BridgeMoves DEF CoreStep, SStates, BridgeTypeOK
<1>9. resets' \in 0..MaxResets
  BY <1>1 DEF SysClock, BridgeTypeOK
<1>10. /\ {dout', latched', fm_dout_r'} \subseteq Word \cup {NoData}
       /\ kind' \in {"read", "write", "rmw", "rmw2"} /\ adr' \in Address
       /\ lanes' \in (SUBSET Lanes) \ {{}}
  BY <1>3, <1>4, CoreMoves
<1> QED BY <1>5, <1>6, <1>7, <1>8, <1>9, <1>10 DEF BridgeTypeOK

(* A reset leaves the array as it is, and nothing under way.               *)
LEMMA ResetKeeps ==
  ASSUME BridgeInv, SysReset, PortInv'
  PROVE  BridgeInv'
<1>1. /\ state' = "INIT_WAIT" /\ s' = "S0" /\ as_n' = TRUE /\ rw' = TRUE /\ ds' = {}
      /\ bstate' = "B_IDLE" /\ fm_hold' = FALSE /\ owns_r' = mine /\ saddr_r' = adr
      /\ dout' = NoData /\ fm_dout_r' = NoData /\ resets' = resets + 1 /\ resets < MaxResets
      /\ UNCHANGED <<kind, mine, adr, lanes, latched>> /\ mem' = mem /\ promised' = mem
  BY DEF SysReset, Reset, ResetValues, Nop
<1>2. BridgeTypeOK /\ kind \in {"read", "write"} /\ mem \in [Address -> Word]
  BY PortFacts DEF BridgeInv
<1>3. BridgeTypeOK'
  <2>1. TypeOK' /\ resets' \in 0..MaxResets /\ promised' \in [Address -> Word]
    BY <1>1, <1>2, BridgeAssumption DEF PortInv, TimingInv, BridgeTypeOK
  <2>2. /\ {mine', as_n', rw', fm_hold', owns_r'} \subseteq BOOLEAN
        /\ {dout', latched', fm_dout_r'} \subseteq Word \cup {NoData}
        /\ adr' \in Address /\ saddr_r' \in Address
        /\ lanes' \in (SUBSET Lanes) \ {{}} /\ ds' \subseteq Lanes
        /\ kind' \in {"read", "write", "rmw", "rmw2"}
    BY <1>1, <1>2 DEF BridgeTypeOK
  <2> QED BY <1>1, <2>1, <2>2 DEF BridgeTypeOK, SStates
<1>4. AccessKind' /\ OneAccess' /\ Ahead' /\ Held' /\ Handshake' /\ Decoded'
  BY <1>1, <1>2 DEF AccessKind, OneAccess, Busy, Accesses, Ahead, Landed, Held, Handshake, Decoded
<1>5. Strobes'
  BY <1>1 DEF Strobes, Resting
<1> QED BY <1>1, <1>2, <1>3, <1>4, <1>5 DEF BridgeInv

LEMMA BridgeStep ==
  ASSUME BridgeInv, ~RMW_CYCLES, [SysNext]_sysVars
  PROVE  BridgeInv'
<1>1. PortInv'
  BY SysIsController, StepPort DEF BridgeInv
<1>2. CASE SysClock
  <2>1. TypeOK'
    BY <1>1 DEF PortInv, TimingInv
  <2>2. kind' \in {"read", "write"} /\ Strobes'
    BY <1>2, CoreMoves
  <2> QED BY <1>1, <1>2, <2>1, <2>2, BridgeTypeKept, HandshakeKept, OneAccessKept, MemoryKept
          DEF BridgeInv
<1>3. CASE SysReset
  BY <1>1, <1>3, ResetKeeps
<1>4. CASE UNCHANGED sysVars
  <2>1. UNCHANGED <<s, kind, mine, adr, lanes, as_n, rw, ds, dout, latched>>
        /\ UNCHANGED <<bstate, fm_hold, fm_dout_r, owns_r, saddr_r, promised, resets>>
        /\ UNCHANGED <<state, mem, cur_we>> /\ Current' = Current
    BY <1>4 DEF sysVars, vars, ctrlVars, chipVars, coreVars, bridgeVars, latchVars, Current
  <2>2. TypeOK'
    BY <1>1 DEF PortInv, TimingInv
  <2> QED BY <1>1, <2>1, <2>2
          DEF BridgeInv, AccessKind, BridgeTypeOK, Strobes, Resting, Decoded, Handshake, OneAccess,
              Ahead, Landed, Held, Merge
<1> QED BY <1>2, <1>3, <1>4 DEF SysNext

LEMMA BridgeInvariant == ~RMW_CYCLES => (SysSpec => []BridgeInv)
<1> SUFFICES ASSUME ~RMW_CYCLES PROVE SysSpec => []BridgeInv
  OBVIOUS
<1>1. BridgeInv /\ [SysNext]_sysVars => BridgeInv'
  BY BridgeStep
<1> QED BY BridgeInitially, <1>1, PTL DEF SysSpec

(* WritesLand for a fast RAM of any size, with any parameters of the       *)
(* controller, however the cycles, refreshes and resets fall: between two  *)
(* cycles the array is what the finished writes have made of it, although  *)
(* the request starts before the data exist (fastmem_zii.v:505-516).       *)
THEOREM EveryWriteLands == ~RMW_CYCLES => (SysSpec => []WritesLand)
<1> SUFFICES ASSUME ~RMW_CYCLES PROVE SysSpec => []WritesLand
  OBVIOUS
<1>1. BridgeInv => WritesLand
  <2> SUFFICES ASSUME BridgeInv, s = "S0" PROVE mem = promised
    BY DEF WritesLand, BridgeInv
  <2>1. ~Landed
    BY DEF BridgeInv, Landed, OneAccess
  <2> QED BY <2>1 DEF BridgeInv, Ahead
<1> QED BY <1>1, BridgeInvariant, PTL

(* ReadsReturnLastWrite: what the core latches at the end of S6 is what    *)
(* the last write left there (fastmem_zii.v:482-493).                      *)
THEOREM EveryReadReturns == ~RMW_CYCLES => (SysSpec => []ReadsReturnLastWrite)
<1> SUFFICES ASSUME ~RMW_CYCLES PROVE SysSpec => []ReadsReturnLastWrite
  OBVIOUS
<1>1. BridgeInv => ReadsReturnLastWrite
  <2> SUFFICES ASSUME BridgeInv, s = "S6", ~Writing, fm_space
               PROVE  fm_dout = promised[adr]
    BY DEF ReadsReturnLastWrite
  <2>1. kind = "read" /\ mine
    BY Lines DEF BridgeInv, Writing
  <2>2. bstate = "B_DONE"
    BY <2>1 DEF BridgeInv, Handshake
  <2>3. ~Landed /\ ~ack_now
    BY <2>1, <2>2 DEF BridgeInv, Landed, OneAccess, ack_now
  <2>4. mem = promised /\ fm_dout_r = mem[adr]
    BY <2>1, <2>2, <2>3 DEF BridgeInv, Ahead, Held
  <2> QED BY <2>3, <2>4 DEF fm_dout
<1> QED BY <1>1, BridgeInvariant, PTL

-----------------------------------------------------------------------------
(* Refresh.  What the parameters have to leave: after REF_DEFER clocks of  *)
(* deferral, an access that changes a row, or a refresh, ends before the   *)
(* next interval does.                                                     *)
RefreshRoom ==
  /\ REF_DEFER + T_RP + T_RCD + CAS_LAT + 6 < T_REFI
  /\ REF_DEFER + T_RP + T_RFC + 2 < T_REFI
  /\ REF_DEFER + T_MRD < T_REFI

(* Clocks at most until the controller is in S_IDLE with no timer running. *)
(* A write waits one clock for its strobes if it gets there in S3.         *)
Owed ==
  IF state = "PRECHG"                        THEN T_RCD + CAS_LAT + 6
  ELSE IF state = "ACTIVE"                   THEN CAS_LAT + 5
  ELSE IF state = "RW" /\ ~cur_we            THEN CAS_LAT + 4
  ELSE IF state = "RW"                       THEN IF s = "S3" THEN 4 ELSE 3
  ELSE IF state = "RD_WAIT"                  THEN 3
  ELSE IF state \in {"RD_DONE", "WR_DONE"}   THEN 2
  ELSE IF state \in {"ACK_WAIT", "REFRESH"}  THEN 1
  ELSE IF state = "REF_PRE"                  THEN T_RFC + 2
  ELSE 0
Left == timer + Owed

IdleNow == state = "IDLE" /\ timer = 0

RefreshInTime ==
  /\ refresh_due => init_done
  /\ refresh_due => ref_defer = refresh_timer \/ ref_urgent
  /\ init_done => REF_DEFER + Left < T_REFI
  /\ refresh_due => refresh_timer + Left < T_REFI

LEMMA ControllerClocks ==
  ASSUME BridgeInv, SysClock
  PROVE  /\ Clock(req, ~rw, saddr_r[1], saddr_r[2], saddr_r[3], ds # {}, WordOut, ds)
         /\ timer \in Nat /\ state \in States /\ init_done \in BOOLEAN
         /\ init_done <=> state \notin InitStates
         /\ {T_RCD, T_RP, T_RFC, T_MRD, CAS_LAT, REF_DEFER, T_REFI} \subseteq Nat /\ CAS_LAT >= 1
<1>1. Clock(req, ~rw, saddr_r[1], saddr_r[2], saddr_r[3], ds # {}, WordOut, ds)
  BY DEF SysClock, ControllerClock, WordOut
<1>2. timer \in Nat /\ state \in States /\ init_done \in BOOLEAN
  BY PortFacts DEF BridgeInv, TypeOK
<1>3. init_done <=> state \notin InitStates
  BY DEF BridgeInv, PortInv, TimingInv, InitPhase
<1> QED BY <1>1, <1>2, <1>3, ChipAssumption, CtrlAssumption

(* Every clock outside S_IDLE brings it nearer: S_RW does not wait for     *)
(* strobes for ever, and S_ACK_WAIT does not wait for req.                 *)
LEMMA LeftFalls ==
  ASSUME BridgeInv, ~RMW_CYCLES, SysClock, init_done, ~IdleNow
  PROVE  Left' + 1 <= Left /\ CountRefresh /\ init_done'
<1> DEFINE Arm == Clock(req, ~rw, saddr_r[1], saddr_r[2], saddr_r[3], ds # {}, WordOut, ds)
<1>1. Arm /\ state \in States \ InitStates
  BY ControllerClocks
<1> USE ControllerClocks DEF Go
<1>2. /\ \/ Waiting("IDLE") \/ Precharging \/ Activating \/ ReadWrite(ds # {}, WordOut, ds)
         \/ ReadLatency \/ ReadDone \/ WriteDone \/ AckWait(req)
         \/ RefreshPrecharged \/ Refreshing
  <2>1. ~Initialise
    BY <1>1 DEF Initialise, InitWait, InitPrecharge, InitRefresh, InitMode, Waiting, InitStates
  <2>2. Idle(req, ~rw, saddr_r[1], saddr_r[2], saddr_r[3]) => Waiting("IDLE")
    BY DEF Idle, IdleRefresh, IdleQuiet, IdleHit, IdleMiss, IdleClosed, Dispatch, IdleNow
  <2> QED BY <1>1, <2>1, <2>2 DEF Clock
<1>3. CountRefresh /\ init_done'
  BY <1>2
  DEF Precharging, Activating, ReadWrite, ReadLatency, ReadDone, WriteDone, AckWait,
      RefreshPrecharged, Refreshing, Waiting, Plain, InitOver
<1>4. CASE \E st \in {"IDLE", "PRECHG", "ACTIVE", "RW", "REF_PRE", "REFRESH"} : Waiting(st)
  <2>1. state' = state /\ timer' = timer - 1 /\ cur_we' = cur_we /\ timer # 0
        /\ state \in {"IDLE", "PRECHG", "ACTIVE", "RW", "REF_PRE", "REFRESH"}
    BY <1>4 DEF Waiting, Plain, KeepLatch, latchVars
  <2>2. s' = "S3" /\ state = "RW" => s = "S3"
    BY CoreMoves DEF CoreStep, BridgeInv, OneAccess, Busy, Accesses, Handshake
  <2> QED BY <1>3, <2>1, <2>2 DEF Left, Owed
<1>5. CASE Precharging /\ ~Waiting("PRECHG")
  BY <1>3, <1>5 DEF Precharging, Left, Owed
<1>6. CASE Activating /\ ~Waiting("ACTIVE")
  BY <1>3, <1>6 DEF Activating, Plain, KeepLatch, latchVars, Left, Owed
<1>7. CASE ReadWrite(ds # {}, WordOut, ds) /\ ~Waiting("RW")
  <2>1. state = "RW" /\ timer = 0
    BY <1>7 DEF ReadWrite
  <2>2. /\ ~cur_we => state' = "RD_WAIT" /\ timer' = CAS_LAT
        /\ cur_we /\ ds # {} => state' = "WR_DONE" /\ timer' = timer
        /\ cur_we /\ ds = {} => state' = "RW" /\ timer' = timer /\ cur_we' = cur_we
    BY <1>7 DEF ReadWrite, Plain, KeepLatch, latchVars
  <2>3. bstate = "B_REQ" /\ (cur_we <=> kind = "write") /\ s \in {"S3", "S4", "SW"}
    BY <2>1 DEF BridgeInv, OneAccess, Busy, Accesses, Handshake
  <2>4. cur_we /\ ds = {} => s = "S3" /\ s' = "S4"
    BY <2>3, CoreMoves DEF CoreStep, BridgeInv, BridgeTypeOK, Strobes, Resting
  <2> QED BY <1>3, <2>1, <2>2, <2>3, <2>4 DEF Left, Owed
<1>8. CASE ReadLatency
  <2>1. timer \in 1..CAS_LAT
    BY <1>8 DEF ReadLatency, BridgeInv, PortInv, DataOnTheWay
  <2> QED BY <1>3, <1>8, <2>1 DEF ReadLatency, Left, Owed
<1>9. CASE ReadDone \/ WriteDone
  BY <1>3, <1>9 DEF ReadDone, WriteDone, Left, Owed
<1>10. CASE AckWait(req)
  <2>1. state = "ACK_WAIT" /\ ~req
    BY <1>10, Lines DEF AckWait, BridgeInv, OneAccess, req
  <2> QED BY <1>3, <1>10, <2>1 DEF AckWait, Left, Owed
<1>11. CASE (RefreshPrecharged /\ ~Waiting("REF_PRE")) \/ (Refreshing /\ ~Waiting("REFRESH"))
  BY <1>3, <1>11 DEF RefreshPrecharged, Refreshing, Left, Owed
<1> QED BY <1>2, <1>4, <1>5, <1>6, <1>7, <1>8, <1>9, <1>10, <1>11

(* S_IDLE takes a refresh that is due, unless a request may still go first.*)
LEMMA IdleDecides ==
  ASSUME BridgeInv, SysClock, RefreshRoom, IdleNow
  PROVE  /\ init_done' /\ REF_DEFER + Left' < T_REFI
         /\ \/ refresh_due' = FALSE
            \/ CountRefresh /\ (refresh_due => ~ref_urgent)
<1> USE ControllerClocks DEF Go
<1>1. init_done
  BY DEF IdleNow, InitStates
<1>2. Idle(req, ~rw, saddr_r[1], saddr_r[2], saddr_r[3]) /\ ~Waiting("IDLE")
  BY DEF Clock, Initialise, InitWait, InitPrecharge, InitRefresh, InitMode, Waiting, IdleNow,
         Precharging, Activating, ReadWrite, ReadLatency, ReadDone, WriteDone, AckWait,
         RefreshPrecharged, Refreshing
<1>3. CASE IdleRefresh(req)
  BY <1>1, <1>3 DEF IdleRefresh, TakeRefresh, InitOver, Left, Owed, RefreshRoom
<1>4. CASE IdleQuiet(req)
  BY <1>1, <1>4 DEF IdleQuiet, Plain, InitOver, Left, Owed, RefreshRoom, RefreshNow
<1>5. ASSUME NEW we, NEW b, NEW r, NEW c, Dispatch(req, we, b, r, c),
             \/ state' = "PRECHG" /\ timer' = T_RP
             \/ state' = "ACTIVE" /\ timer' = T_RCD
             \/ state' = "RW" /\ timer' = 0
             \/ state' = "RD_WAIT" /\ timer' = CAS_LAT
             \/ state' = "IDLE" /\ timer' = timer
      PROVE  /\ init_done' /\ REF_DEFER + Left' < T_REFI
             /\ CountRefresh /\ (refresh_due => ~ref_urgent)
  <2>1. init_done' /\ CountRefresh /\ (refresh_due => ~ref_urgent) /\ timer = 0
    BY <1>1, <1>5 DEF Dispatch, InitOver, RefreshNow
  <2> QED BY <1>5, <2>1 DEF Left, Owed, RefreshRoom
<1>6. CASE IdleHit(req, ~rw, saddr_r[1], saddr_r[2], saddr_r[3])
  BY <1>5, <1>6 DEF IdleHit
<1>7. CASE IdleMiss(req, ~rw, saddr_r[1], saddr_r[2], saddr_r[3])
  BY <1>5, <1>7 DEF IdleMiss
<1>8. CASE IdleClosed(req, ~rw, saddr_r[1], saddr_r[2], saddr_r[3])
  BY <1>5, <1>8 DEF IdleClosed
<1> QED BY <1>2, <1>3, <1>4, <1>6, <1>7, <1>8 DEF Idle

LEMMA RefreshKept ==
  ASSUME BridgeInv, ~RMW_CYCLES, RefreshRoom, RefreshInTime, [SysNext]_sysVars
  PROVE  RefreshInTime'
<1>0. /\ refresh_timer \in 0..T_REFI /\ ref_defer \in 0..DEFER_SAT /\ timer \in Nat
      /\ {refresh_due, init_done, cur_we} \subseteq BOOLEAN
      /\ T_RCD \in Nat /\ T_RP \in Nat /\ T_RFC \in Nat /\ T_MRD \in Nat /\ CAS_LAT \in Nat
      /\ REF_DEFER \in Nat /\ T_REFI \in Nat /\ DEFER_SAT \in Nat /\ REF_DEFER <= DEFER_SAT
  BY PortFacts, ChipAssumption, CtrlAssumption DEF BridgeInv, TypeOK
<1>1. CASE SysReset
  BY <1>1 DEF SysReset, Reset, ResetValues, RefreshInTime
<1>2. CASE UNCHANGED sysVars
  BY <1>2
  DEF sysVars, vars, ctrlVars, latchVars, coreVars, RefreshInTime, ref_urgent, Left, Owed
<1>3. CASE SysClock
  <2>1. PortInv'
    BY SysIsController, StepPort DEF BridgeInv
  <2>2. PICK l \in Nat : l = Left'
    <3>1. timer' \in Nat
      BY <2>1, TimerMaxBounds DEF PortInv, TimingInv, TypeOK
    <3>2. PICK o \in Nat : o = Owed'
      BY <1>0 DEF Owed
    <3>3. \A t \in Nat : t + o \in Nat
      OBVIOUS
    <3>4. Left' = timer' + o
      BY <3>2 DEF Left
    <3> QED BY <3>1, <3>3, <3>4, Zenon
  <2>3. CASE ~init_done
    <3>1. state \in InitStates /\ ~refresh_due /\ ~IntervalOver
      BY <1>3, <2>3, ControllerClocks DEF RefreshInTime, IntervalOver
    <3>2. Initialise
      BY <1>3, <3>1, ControllerClocks
      DEF Clock, InitStates, Idle, Waiting, IdleRefresh, IdleQuiet, IdleHit, IdleMiss, IdleClosed,
          Dispatch, Precharging, Activating, ReadWrite, ReadLatency, ReadDone, WriteDone, AckWait,
          RefreshPrecharged, Refreshing
    <3>3. CountRefresh /\ (init_done' => init_done \/ (state' = "IDLE" /\ timer' = T_MRD))
      BY <3>2
      DEF Initialise, InitWait, InitPrecharge, InitRefresh, InitMode, Waiting, Plain, InitOver, Go
    <3>4. ~refresh_due'
      BY <3>1, <3>3 DEF CountRefresh
    <3> QED BY <1>0, <2>3, <3>3, <3>4 DEF RefreshInTime, RefreshRoom, Left, Owed
  <2>4. ASSUME init_done, init_done', CountRefresh, REF_DEFER + l < T_REFI,
               refresh_due => refresh_timer + 1 + l < T_REFI
        PROVE  RefreshInTime'
    <3>1. /\ refresh_due' => ref_defer' = refresh_timer' \/ ref_defer' >= REF_DEFER
          /\ refresh_due' => refresh_timer' + l < T_REFI
      <4>1. CASE refresh_due
        <5>1. refresh_timer < T_REFI
          BY <1>0, <2>4, <4>1
        <5>2. refresh_timer' = refresh_timer + 1
              /\ ref_defer' = IF ref_defer < DEFER_SAT THEN ref_defer + 1 ELSE ref_defer
          BY <1>0, <2>4, <4>1, <5>1 DEF CountRefresh, CountInterval, IntervalOver
        <5>3. ref_defer = refresh_timer \/ ref_defer >= REF_DEFER
          BY <4>1 DEF RefreshInTime, ref_urgent
        <5>4. ref_defer' = refresh_timer' \/ ref_defer' >= REF_DEFER
          BY <1>0, <5>2, <5>3
        <5> QED BY <1>0, <2>4, <4>1, <5>2, <5>4
      <4>2. CASE ~refresh_due
        <5>1. /\ refresh_due' => IntervalOver
              /\ IntervalOver => refresh_timer' = 0
              /\ ref_defer' = 0
          BY <2>4, <4>2 DEF CountRefresh, CountInterval
        <5> QED BY <1>0, <2>4, <5>1
      <4> QED BY <4>1, <4>2
    <3>2. /\ REF_DEFER + Left' < T_REFI
          /\ refresh_due' => refresh_timer' + Left' < T_REFI
      BY <2>2, <2>4, <3>1, Zenon
    <3> QED BY <2>4, <3>1, <3>2, Zenon DEF RefreshInTime, ref_urgent
  <2>5. CASE init_done /\ ~IdleNow
    <3>1. Left' + 1 <= Left /\ CountRefresh /\ init_done'
      BY <1>3, <2>5, LeftFalls
    <3>2. l + 1 <= Left
      BY <2>2, <3>1, Zenon
    <3>3. Left \in Nat
      <4>1. Owed \in Nat
        BY <1>0 DEF Owed
      <4> QED BY <1>0, <4>1 DEF Left
    <3>4. REF_DEFER + Left < T_REFI /\ (refresh_due => refresh_timer + Left < T_REFI)
      BY <2>5 DEF RefreshInTime
    <3>5. refresh_timer \in Nat
      BY <1>0
    <3>6. REF_DEFER + l < T_REFI /\ (refresh_due => refresh_timer + 1 + l < T_REFI)
      BY <1>0, <3>2, <3>3, <3>4, <3>5
    <3> QED BY <2>4, <2>5, <3>1, <3>6
  <2>6. CASE init_done /\ IdleNow
    <3>1. /\ init_done' /\ REF_DEFER + Left' < T_REFI
          /\ \/ refresh_due' = FALSE
             \/ CountRefresh /\ (refresh_due => ~ref_urgent)
      BY <1>3, <2>6, IdleDecides
    <3>2. CASE refresh_due' = FALSE
      BY <3>1, <3>2, Zenon DEF RefreshInTime
    <3>3. CASE CountRefresh /\ (refresh_due => ~ref_urgent)
      <4>1. refresh_due => refresh_timer + 1 <= REF_DEFER
        BY <1>0, <3>3 DEF RefreshInTime, ref_urgent
      <4>2. REF_DEFER + l < T_REFI
        BY <2>2, <3>1, Zenon
      <4>3. refresh_due => refresh_timer + 1 + l < T_REFI
        BY <1>0, <4>1, <4>2
      <4> QED BY <2>4, <2>6, <3>1, <3>3, <4>2, <4>3
    <3> QED BY <3>1, <3>2, <3>3
  <2> QED BY <1>0, <2>3, <2>5, <2>6
<1> QED BY <1>1, <1>2, <1>3 DEF SysNext

(* RefreshNotLost for all parameters that leave an access and a refresh    *)
(* room after the deferral, whatever the CPU asks for: the deferral is     *)
(* bounded, as the comment at sdram_ctrl.v:265 says (built with 640 clocks *)
(* of interval and 64 of deferral).                                        *)
THEOREM RefreshesInTime == ~RMW_CYCLES /\ RefreshRoom => (SysSpec => []RefreshNotLost)
<1> SUFFICES ASSUME ~RMW_CYCLES, RefreshRoom PROVE SysSpec => []RefreshNotLost
  OBVIOUS
<1>1. SysInit => RefreshInTime
  BY DEF SysInit, Init, ResetValues, RefreshInTime
<1>2. BridgeInv /\ RefreshInTime /\ [SysNext]_sysVars => RefreshInTime'
  BY RefreshKept
<1>3. BridgeInv /\ RefreshInTime => RefreshNotLost
  <2> SUFFICES ASSUME BridgeInv, RefreshInTime, refresh_due PROVE ~IntervalOver
    BY DEF RefreshNotLost
  <2>1. refresh_timer \in Nat /\ Left \in Nat /\ T_REFI \in Nat
    BY PortFacts, ChipAssumption, CtrlAssumption DEF BridgeInv, TypeOK, Left, Owed
  <2> QED BY <2>1 DEF RefreshInTime, IntervalOver
<1> QED BY <1>1, <1>2, <1>3, BridgeInvariant, PTL DEF SysSpec
=============================================================================
