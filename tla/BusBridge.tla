----------------------------- MODULE BusBridge -----------------------------
(***************************************************************************)
(* base64_top.sv, section 10: the bridge that re-issues a core cycle as a  *)
(* 68000 S0..S7 cycle on the 7M grid.  With RETIME = 1 its pins are not    *)
(* connected but it runs all the same, on the same inputs, and two of its  *)
(* outputs still reach the core: core_berr_lo and av_num.                  *)
(*                                                                         *)
(* Its pin registers are functions of its state and of the latched cycle,  *)
(* and are defined as such; EARLY_ACK is 0 and IACK_AV is 1, the module's  *)
(* defaults.  Data registers that lead nowhere (rd_data and p_d here with  *)
(* RETIME = 1, Retime's own with RETIME = 0) keep their value.             *)
(***************************************************************************)
EXTENDS CoreBus

CONSTANTS
  RETIME,          (* is the other engine, Retime, connected instead?      *)
  SMP_N            (* DTACK_LAT: clocks from the S4 fall to the sample     *)

ASSUME BridgeAssumption == RETIME \in BOOLEAN /\ SMP_N \in Nat \ {0}

VARIABLES
  st,                                   (* ST_*                            *)
  bx_a, bx_rw, bx_ds, bx_iack,          (* the latched cycle               *)
  bx_taken, bx_acked,
  smp_cnt, term, sync_go, berr_go,
  core_dtack_lo, core_berr_lo,
  av_valid, av_num,
  rd_data, p_d

latchVars == <<bx_a, bx_rw, bx_ds, bx_iack, av_num>>
bridgeVars == <<st, latchVars, bx_taken, bx_acked, smp_cnt, term, sync_go,
                berr_go, core_dtack_lo, core_berr_lo, av_valid, rd_data, p_d>>

BridgeStates == {"IDLE", "S0", "S1", "S2", "S3", "S4", "S5", "S6", "S7",
                 "VPAW", "VPAE", "VPAH", "VPAX"}

BridgeTypeOK ==
  /\ st \in BridgeStates
  /\ bx_a \in Address \cup Levels
  /\ {bx_rw, bx_ds, bx_iack, bx_taken, bx_acked, term, sync_go, berr_go,
      core_dtack_lo, core_berr_lo, av_valid} \subseteq BOOLEAN
  /\ av_num \in Nat /\ smp_cnt \in 0..SMP_N
  /\ {rd_data, p_d} \subseteq Data \cup {NoData}

----------------------------------------------------------------------------
(* The pins: low from S2 to the end of the cycle, R/W and data one half    *)
(* 7M period longer.                                                       *)
Strobing == {"S2", "S3", "S4", "S5", "S6", "VPAW", "VPAE", "VPAH", "VPAX"}
p_as_n == st \notin Strobing
p_rw == bx_rw \/ st \notin Strobing \cup {"S7"}
p_ds == bx_ds /\ st \in Strobing /\ (bx_rw \/ st \notin {"S2", "S3"})
p_vma_n == st \notin {"VPAE", "VPAH", "VPAX"}
p_d_oe == ~bx_rw /\ st \in (Strobing \cup {"S7"}) \ {"S2"}

bx_req == ~as_n /\ ~bx_taken

\* mutant: a bus error outlives its cycle
TakeCycleKeepsBerr ==
  /\ bx_a' = adr /\ bx_rw' = rw /\ bx_ds' = ds /\ bx_iack' = core_fc7
  /\ av_num' = core_low
  /\ term' = FALSE /\ sync_go' = FALSE /\ UNCHANGED berr_go
  /\ st' = "S0"

\* mutant: the vector is not loaded
TakeCycleKeepsVector ==
  /\ bx_a' = adr /\ bx_rw' = rw /\ bx_ds' = ds /\ bx_iack' = core_fc7
  /\ UNCHANGED av_num
  /\ term' = FALSE /\ sync_go' = FALSE /\ berr_go' = FALSE
  /\ st' = "S0"

(* Take the core's cycle: its live outputs, as the core is still stalled.  *)
TakeCycle ==
  /\ bx_a' = adr /\ bx_rw' = rw /\ bx_ds' = ds /\ bx_iack' = core_fc7
  /\ av_num' = core_low
  /\ term' = FALSE /\ sync_go' = FALSE /\ berr_go' = FALSE
  /\ st' = "S0"

(* What the sample decides: BERR before DTACK before VPA.                  *)
Sampling == smp_cnt = 1
SampleBerr == Sampling /\ s_berr[2]
SampleDtack == Sampling /\ ~s_berr[2] /\ s_dtack[2]
SampleVpa == Sampling /\ ~s_berr[2] /\ ~s_dtack[2] /\ s_vpa[2]
SampleAutovector == SampleVpa /\ bx_iack

Flags ==
  /\ berr_go' = (berr_go \/ SampleBerr)
  /\ term' = (term \/ SampleBerr \/ SampleDtack \/ SampleAutovector)
  /\ sync_go' = (sync_go \/ (SampleVpa /\ ~bx_iack))

Start == tick_r /\ bx_req /\ st \in {"IDLE", "S7"}

AckNow ==
  \/ st = "S6" /\ tick_ack /\ term /\ ~bx_acked
  \/ st = "VPAE" /\ tick_ack /\ e_cnt = E_PERIOD - 1

Acknowledge ==
  /\ core_berr_lo' = ((core_berr_lo /\ ~as_n) \/ (AckNow /\ st = "S6" /\ berr_go))
  /\ core_dtack_lo' = ((core_dtack_lo /\ ~as_n)
                        \/ (AckNow /\ ~(st = "S6" /\ berr_go)))
  /\ bx_acked' = (~Start /\ (bx_acked \/ (AckNow /\ st = "S6")))
  /\ bx_taken' = (Start \/ (bx_taken /\ ~as_n))
  /\ av_valid' = (~Start /\ (SampleAutovector \/ (av_valid /\ ~as_n)))

\* mutant: the counter is not held at zero (3 bits)
CountdownWraps == (smp_cnt + 7) % 8
Countdown == IF smp_cnt = 0 THEN 0 ELSE smp_cnt - 1

(* From one state to the next when its tick comes.                         *)
OnTick(from, tick, to) ==
  /\ st = from /\ Flags
  /\ st' = IF tick THEN to ELSE from
  /\ UNCHANGED <<bx_a, bx_rw, bx_ds, bx_iack, av_num>>

Plain == smp_cnt' = Countdown /\ UNCHANGED p_d
SampleLater(when) == smp_cnt' = IF when THEN SMP_N ELSE Countdown

StIdle ==
  /\ Plain
  /\ \/ st = "IDLE" /\ Start /\ TakeCycle
     \/ ~Start /\ OnTick("IDLE", FALSE, "IDLE")

StS3Data ==
  /\ OnTick("S2", tick_f, "S3")
  /\ smp_cnt' = Countdown
  /\ p_d' = IF ~RETIME /\ tick_f /\ ~bx_rw THEN dout ELSE p_d

StS4 == OnTick("S4", tick_f, "S5") /\ SampleLater(tick_f) /\ UNCHANGED p_d

\* mutant: wait states do not sample again
StS6Once ==
  /\ OnTick("S6", tick_f, IF term THEN "S7" ELSE IF sync_go THEN "VPAW" ELSE "S5")
  /\ smp_cnt' = Countdown /\ UNCHANGED p_d

(* The end of S6: done, or a 6800 cycle, or another pair of wait states.   *)
StS6 ==
  /\ OnTick("S6", tick_f, IF term THEN "S7" ELSE IF sync_go THEN "VPAW" ELSE "S5")
  /\ SampleLater(tick_f /\ ~term /\ ~sync_go) /\ UNCHANGED p_d

StS7 ==
  /\ Plain
  /\ \/ st = "S7" /\ Start /\ TakeCycle
     \/ ~Start /\ OnTick("S7", tick_r, "IDLE")

Sequence ==
  \/ OnTick("S0", tick_f, "S1")
  \/ OnTick("S1", tick_r, "S2")
  \/ OnTick("S3", tick_r, "S4")
  \/ OnTick("S5", tick_r, "S6")
  \/ OnTick("VPAW", tick_r /\ e_cnt = E_VMA_AT, "VPAE")
  \/ OnTick("VPAE", tick_f /\ e_cnt = E_PERIOD - 1, "VPAH")
  \/ OnTick("VPAH", e_fall_tick, "VPAX")
  \/ OnTick("VPAX", tick_f, "S7")

BridgeClock(cpu_d) ==
  /\ rd_data' = IF ~RETIME /\ bx_rw /\ (st = "S6" \/ (st = "VPAE" /\ e_pin))
                THEN cpu_d ELSE rd_data
  /\ Acknowledge
  /\ \/ StIdle \/ StS3Data \/ StS4 \/ StS6 \/ StS7
     \/ Sequence /\ Plain

BridgeReset ==
  /\ st' = "IDLE" /\ smp_cnt' = 0
  /\ term' = FALSE /\ sync_go' = FALSE /\ berr_go' = FALSE
  /\ bx_taken' = FALSE /\ bx_acked' = FALSE
  /\ core_dtack_lo' = FALSE /\ core_berr_lo' = FALSE /\ av_valid' = FALSE
  /\ UNCHANGED <<latchVars, rd_data, p_d>>

BridgeInit ==
  /\ st = "IDLE" /\ smp_cnt = 0
  /\ term = FALSE /\ sync_go = FALSE /\ berr_go = FALSE
  /\ bx_taken = FALSE /\ bx_acked = FALSE
  /\ core_dtack_lo = FALSE /\ core_berr_lo = FALSE /\ av_valid = FALSE
  /\ bx_a = adr /\ bx_rw = TRUE /\ bx_ds = FALSE /\ bx_iack = FALSE
  /\ av_num = 0 /\ rd_data = NoData /\ p_d = NoData
=============================================================================
