-------------------------- MODULE MotherboardProofs -------------------------
(***************************************************************************)
(* The motherboard bus with either engine connected, for any addresses and *)
(* data, any E clock, resets at any time, and a motherboard that answers   *)
(* when it likes.                                                          *)
(*                                                                         *)
(* The retime engine (RETIME = 1, base64_top.sv, 10b): writes land, reads  *)
(* return what the device holds, a bus error is the cycle's own, the pins  *)
(* keep the protocol.  Its inductive invariant counts clocks to the next   *)
(* tick of the 7M grid: how far the acknowledge has come (AckPhase), how   *)
(* long the answers to the last cycle can still linger (Fading, Stale),    *)
(* how long the data of this one can still be missing (Trailing).          *)
(*                                                                         *)
(* The bridge (RETIME = 0, section 10): the core gets its own cycle's word *)
(* and vector, the pins keep the protocol.  Its invariant says whose       *)
(* answers the synchronisers hold (OwnFirst, OwnSecond), that the latched  *)
(* cycle is the core's until it is acknowledged (Taken), and by when the   *)
(* word is captured (Timely, Delivered).                                   *)
(***************************************************************************)
EXTENDS MotherboardBus, TLAPS

(* The grid as built: 12 master clocks to a 7M period (CLK_MULT), the      *)
(* sample before the tick that ends S5 (DTACK_LAT, "Do not exceed 6"); and *)
(* no address has two devices.                                             *)
BusGrid ==
  /\ PERIOD = 12 /\ PH_HALF = 6 /\ SMP_N <= 6
  /\ Ram \cap Cia = {} /\ Ram \cap Silent = {} /\ Ram \cap Board = {}
  /\ Cia \cap Silent = {} /\ Cia \cap Board = {} /\ Silent \cap Board = {}

(* The core's AS is low; between cycles.                                   *)
Low == {"S2", "S3", "S4", "SW", "S5", "S6"}
Rest == {"S0", "SI", "S1"}

(* What the core drives in each of its states.                             *)
CoreShape ==
  /\ as_n <=> s \notin Low
  /\ rw <=> ~(s \in Low /\ kind = "write")
  /\ ds <=> s \in Low /\ (kind = "write" => s \notin {"S2", "S3"})
  /\ IF kind = "iack" THEN adr \in Levels ELSE adr \in Address

(* The bridge's states stay on their halves of the grid; it samples in S5, *)
(* before the tick that ends it.                                           *)
Grid ==
  /\ st \in {"S0", "S2", "S4", "S6"} => ph \in 1..6
  /\ st \in {"S1", "S3", "S5", "S7"} => ph \notin 1..6
  /\ smp_cnt > 0 => st = "S5" /\ (IF ph = 0 THEN 12 ELSE ph) + smp_cnt = 7 + SMP_N
  /\ smp_cnt > 0 => smp_cnt <= SMP_N

(* The types of its registers that the grid needs.                         *)
StTyped ==
  /\ st \in BridgeStates /\ smp_cnt \in 0..SMP_N
  /\ {bx_rw, bx_ds, bx_iack, bx_taken, bx_acked, term, sync_go, berr_go,
      core_dtack_lo, core_berr_lo, av_valid} \subseteq BOOLEAN

-----------------------------------------------------------------------------
(* The constants, as numbers.                                              *)
LEMMA BusGrid12 ==
  ASSUME BusGrid
  PROVE  /\ PERIOD = 12 /\ PH_HALF = 6 /\ PH_ACK \in 0..5 /\ SMP_N \in 1..6
         /\ E_PERIOD \in Nat /\ E_RISE \in 1..E_PERIOD-1 /\ E_VMA_AT \in 0..E_RISE-1
         /\ DATA_LAG \in Nat /\ REL \in Nat
BY CoreBusAssumption, BridgeAssumption, BusAssumption DEF BusGrid

(* The clocks.                                                             *)
LEMMA ClockMoves ==
  ASSUME BusGrid, CoreBusTypeOK, Clocks
  PROVE  /\ ph \in 0..11 /\ ph' = IF ph = 11 THEN 0 ELSE ph + 1
         /\ ph' \in 0..PERIOD-1 /\ e_cnt' \in 0..E_PERIOD-1
         /\ e_cnt' = IF ph # 0 THEN e_cnt ELSE IF e_cnt = E_PERIOD-1 THEN 0 ELSE e_cnt + 1
<1>1. ph \in 0..11 /\ e_cnt \in 0..E_PERIOD-1 /\ E_PERIOD \in Nat
  BY BusGrid12 DEF CoreBusTypeOK
<1>2. \A n \in Nat, d \in Nat : n < d => (n + 1) % d = IF n = d - 1 THEN 0 ELSE n + 1
  <2> SUFFICES ASSUME NEW n \in Nat, NEW d \in Nat, n < d
               PROVE  (n + 1) % d = IF n = d - 1 THEN 0 ELSE n + 1
    OBVIOUS
  <2>1. CASE n = d - 1
    BY <2>1
  <2>2. CASE n # d - 1
    <3>1. n + 1 \in 0..d-1 /\ d \in Nat \ {0}
      BY <2>2
    <3>2. \A a \in 0..d-1 : a % d = a
      BY <3>1
    <3> QED BY <2>2, <3>1, <3>2
  <2> QED BY <2>1, <2>2
<1>3. ph' = IF ph = 11 THEN 0 ELSE ph + 1
  <2>1. (ph + 1) % 12 = IF ph = 12 - 1 THEN 0 ELSE ph + 1
    BY <1>1, <1>2
  <2> QED BY <1>1, <2>1, BusGrid12 DEF Clocks
<1>4. e_cnt' = IF ph # 0 THEN e_cnt ELSE IF e_cnt = E_PERIOD-1 THEN 0 ELSE e_cnt + 1
  <2>1. (e_cnt + 1) % E_PERIOD = IF e_cnt = E_PERIOD-1 THEN 0 ELSE e_cnt + 1
    BY <1>1, <1>2
  <2> QED BY <2>1 DEF Clocks, tick_r
<1> QED BY <1>1, <1>3, <1>4, BusGrid12

(* The core, one clock on.                                                 *)
Successor(acked) ==
  /\ s = "S0" => s' \in {"SI", "S1"}
  /\ s = "SI" => s' = "S0"
  /\ s = "S1" => s' = "S2"
  /\ s = "S2" => s' = "S3"
  /\ s = "S3" => s' = "S4"
  /\ s = "S4" => s' = IF acked THEN "S5" ELSE "SW"
  /\ s = "SW" => s' = "S4"
  /\ s = "S5" => s' = "S6"
  /\ s = "S6" => s' = "S7"
  /\ s = "S7" => s' = "S0"

(* It advances as it is acknowledged, and drives what its state says.      *)
LEMMA CoreMoves ==
  ASSUME CoreBusTypeOK, CoreShape, NEW acked \in BOOLEAN, CoreClock(acked)
  PROVE  /\ Successor(acked) /\ s' \in SStates
         /\ s' # "S1" => adr' = adr /\ kind' = kind
         /\ s \notin {"S2", "S6"} => dout' = dout
         /\ CoreShape'
         /\ kind' \in {"read", "write", "iack"} /\ adr' \in Address \cup Levels
         /\ {as_n', rw', ds'} \subseteq BOOLEAN /\ dout' \in Data \cup {NoData}
<1>1. /\ Successor(acked) /\ s' \in SStates
      /\ s' # "S1" => adr' = adr /\ kind' = kind
      /\ s \notin {"S2", "S6"} => dout' = dout
  BY DEF CoreClock, CoreIdle, CoreAddress, CoreStrobe, CoreDrive, CoreWriteStrobe,
         CoreSample, CoreFinish, Advance, Successor, SStates, CoreBusTypeOK
<1>2. CoreShape'
  BY DEF CoreClock, CoreIdle, CoreAddress, CoreStrobe, CoreDrive, CoreWriteStrobe,
         CoreSample, CoreFinish, Advance, CoreShape, Low, CoreBusTypeOK
<1>3. /\ kind' \in {"read", "write", "iack"} /\ adr' \in Address \cup Levels
      /\ {as_n', rw', ds'} \subseteq BOOLEAN /\ dout' \in Data \cup {NoData}
  BY DEF CoreClock, CoreIdle, CoreAddress, CoreStrobe, CoreDrive, CoreWriteStrobe,
         CoreSample, CoreFinish, Advance, CoreBusTypeOK
<1> QED BY <1>1, <1>2, <1>3

(* The synchronisers.                                                      *)
LEMMA SyncMoves ==
  ASSUME Synchronise(dtack, vpa, berr), {dtack, vpa, berr} \subseteq BOOLEAN,
         {s_dtack, s_vpa, s_berr} \subseteq BOOLEAN \X BOOLEAN
  PROVE  /\ s_dtack'[1] = dtack /\ s_dtack'[2] = s_dtack[1]
         /\ s_vpa'[1] = vpa /\ s_vpa'[2] = s_vpa[1]
         /\ s_berr'[1] = berr /\ s_berr'[2] = s_berr[1]
         /\ {s_dtack', s_vpa', s_berr'} \subseteq BOOLEAN \X BOOLEAN
         /\ {s_dtack[1], s_dtack[2], s_vpa[1], s_vpa[2], s_berr[1], s_berr[2]} \subseteq BOOLEAN
BY DEF Synchronise

(* No address has two devices.                                             *)
Devices ==
  /\ Ram \cap Cia = {} /\ Ram \cap Silent = {} /\ Cia \cap Silent = {}
  /\ Levels \cap Ram = {} /\ Levels \cap Cia = {} /\ Levels \cap Silent = {}
  /\ Levels \cap Board = {} /\ Ram \cap Board = {} /\ Cia \cap Board = {} /\ Silent \cap Board = {}

(* Levels are apart from all addresses.                                    *)
LEMMA Apart == BusGrid => Devices
BY CoreBusAssumption DEF BusGrid, Devices, Address

(* When it samples, when it refuses a cycle, when it has seen BERR.        *)
Sets == ph = 6 /\ (st = "S4" \/ (st = "S6" /\ ~term /\ ~sync_go))

Refuses == st = "S6" /\ ph = PH_ACK /\ term /\ ~bx_acked /\ berr_go

SeesBerr == smp_cnt = 1 /\ s_berr[2]

(* Its state and flags, one clock on.                                      *)
StMoved ==
  /\ st = "IDLE" => st' = "IDLE" \/ (st' = "S0" /\ ph = 0)
  /\ st = "S0" => st' = IF ph = 6 THEN "S1" ELSE "S0"
  /\ st = "S1" => st' = IF ph = 0 THEN "S2" ELSE "S1"
  /\ st = "S2" => st' = IF ph = 6 THEN "S3" ELSE "S2"
  /\ st = "S3" => st' = IF ph = 0 THEN "S4" ELSE "S3"
  /\ st = "S4" => st' = IF ph = 6 THEN "S5" ELSE "S4"
  /\ st = "S5" => st' = IF ph = 0 THEN "S6" ELSE "S5"
  /\ st = "S6" => st' = IF ph # 6 THEN "S6" ELSE IF term THEN "S7" ELSE IF sync_go THEN "VPAW" ELSE "S5"
  /\ st = "S7" => IF ph # 0 THEN st' = "S7" ELSE st' \in {"IDLE", "S0"}
  /\ st \in {"VPAW", "VPAE", "VPAH"} => st' \in {"VPAW", "VPAE", "VPAH", "VPAX"}
  /\ st = "VPAX" => st' = IF ph = 6 THEN "S7" ELSE "VPAX"
  /\ st \in BridgeStates /\ st' \in BridgeStates

(* What the sample and the acknowledge leave in its flags.                 *)
FlagsMoved ==
  /\ berr_go' => berr_go \/ SeesBerr
  /\ berr_go /\ term => ~berr_go' \/ term'
  /\ SeesBerr => ~berr_go' \/ term'
  /\ term /\ ~(ph = 0 /\ st \in {"IDLE", "S7"}) => term'
  /\ Refuses => bx_acked'
  /\ bx_acked /\ ~(ph = 0 /\ st \in {"IDLE", "S7"}) => bx_acked'
  /\ bx_acked /\ ~bx_acked' => ~berr_go'

(* The bridge, one clock on, as far as both engines need it.               *)
BridgeMoved ==
  /\ StMoved /\ FlagsMoved
  /\ smp_cnt' = IF Sets THEN SMP_N ELSE IF smp_cnt = 0 THEN 0 ELSE smp_cnt - 1
  /\ core_berr_lo' <=> (core_berr_lo /\ ~as_n) \/ Refuses
  /\ smp_cnt \in 0..SMP_N

(* Whatever it finds on the data bus.                                      *)
LEMMA BridgeMoves ==
  ASSUME BusGrid, StTyped, NEW d, BridgeClock(d)
  PROVE  BridgeMoved
<1> USE BusGrid12
<1>0. /\ st \in BridgeStates /\ smp_cnt \in 0..SMP_N
      /\ {term, berr_go, bx_acked, core_berr_lo, sync_go} \subseteq BOOLEAN
  BY DEF StTyped
<1>1. Acknowledge /\ (StIdle \/ StS3Data \/ StS4 \/ StS6 \/ StS7 \/ (Sequence /\ Plain))
  BY DEF BridgeClock
<1>2. StMoved /\ smp_cnt' = IF Sets THEN SMP_N ELSE IF smp_cnt = 0 THEN 0 ELSE smp_cnt - 1
  BY <1>0, <1>1
  DEF StIdle, StS3Data, StS4, StS6, StS7, Sequence, Plain, OnTick, SampleLater, Countdown, Sets,
      StMoved, BridgeStates, tick_r, tick_f, e_fall_tick, Start, TakeCycle
<1>3. (Flags /\ ~(Start /\ st \in {"IDLE", "S7"}))
      \/ (Start /\ st \in {"IDLE", "S7"} /\ term' = FALSE /\ berr_go' = FALSE)
  BY <1>1
  DEF StIdle, StS3Data, StS4, StS6, StS7, Sequence, OnTick, Start, TakeCycle
<1>4. /\ core_berr_lo' <=> (core_berr_lo /\ ~as_n) \/ Refuses
      /\ bx_acked' <=> ~Start /\ (bx_acked \/ (AckNow /\ st = "S6"))
      /\ Refuses => AckNow /\ st = "S6"
  BY <1>1 DEF Acknowledge, AckNow, Refuses, tick_ack
<1>5. Start => ph = 0 /\ st \in {"IDLE", "S7"}
  BY DEF Start, tick_r
<1>6. FlagsMoved
  BY <1>0, <1>3, <1>4, <1>5 DEF FlagsMoved, Flags, SampleBerr, SampleDtack, SampleAutovector, Sampling,
     SeesBerr, Refuses
<1> QED BY <1>0, <1>2, <1>4, <1>6 DEF BridgeMoved

(* The sample counter and the grid.                                        *)
LEMMA GridKept ==
  ASSUME BusGrid, Grid, ph \in 0..11, ph' = IF ph = 11 THEN 0 ELSE ph + 1, BridgeMoved
  PROVE  Grid'
<1>1. /\ ph \in 0..11 /\ ph' = IF ph = 11 THEN 0 ELSE ph + 1
      /\ SMP_N \in 1..6 /\ smp_cnt \in 0..SMP_N
      /\ smp_cnt' = IF Sets THEN SMP_N ELSE IF smp_cnt = 0 THEN 0 ELSE smp_cnt - 1
      /\ StMoved
  BY BusGrid12 DEF BridgeMoved
<1>2. /\ st' \in {"S0", "S2", "S4", "S6"} => ph' \in 1..6
      /\ st' \in {"S1", "S3", "S5", "S7"} => ph' \notin 1..6
  BY <1>1 DEF StMoved, BridgeStates, Grid
<1>3. smp_cnt' > 0 => st' = "S5" /\ (IF ph' = 0 THEN 12 ELSE ph') + smp_cnt' = 7 + SMP_N
                      /\ smp_cnt' <= SMP_N
  <2>1. CASE Sets
    BY <1>1, <2>1 DEF Sets, StMoved, BridgeStates
  <2>2. CASE ~Sets
    BY <1>1, <2>2 DEF StMoved, BridgeStates, Grid
  <2> QED BY <2>1, <2>2
<1> QED BY <1>2, <1>3 DEF Grid

(* Each synchroniser, flip-flop by flip-flop.                              *)
SyncMoved ==
  /\ s_dtack'[1] = dtack /\ s_dtack'[2] = s_dtack[1]
  /\ s_vpa'[1] = vpa /\ s_vpa'[2] = s_vpa[1]
  /\ s_berr'[1] = berr /\ s_berr'[2] = s_berr[1]

(* The core and the clocks are well-typed at first                         *)
LEMMA CoreInitTyped == Init => CoreBusTypeOK
<1> SUFFICES ASSUME Init PROVE CoreBusTypeOK
  OBVIOUS
<1>1. CoreBusInit
  BY DEF Init
<1>2. Quiet \in BOOLEAN \X BOOLEAN
  BY DEF Quiet
<1>3. {s_dtack, s_vpa, s_berr} \subseteq BOOLEAN \X BOOLEAN
  BY <1>1, <1>2 DEF CoreBusInit
<1>4. /\ s \in SStates /\ kind \in {"read", "write", "iack"} /\ adr \in Address \cup Levels
      /\ {as_n, rw, ds} \subseteq BOOLEAN /\ dout \in Data \cup {NoData}
  BY <1>1 DEF CoreBusInit, SStates
<1> QED BY <1>1, <1>3, <1>4 DEF CoreBusInit, CoreBusTypeOK

(* and after a reset.                                                      *)
LEMMA CoreResetTyped ==
  ASSUME BusGrid, CoreBusTypeOK, Reset
  PROVE  CoreBusTypeOK'
<1>1. ph' \in 0..PERIOD-1 /\ e_cnt' \in 0..E_PERIOD-1
  BY ClockMoves DEF Reset
<1>2. Quiet \in BOOLEAN \X BOOLEAN
  BY DEF Quiet
<1>3. {s_dtack', s_vpa', s_berr'} \subseteq BOOLEAN \X BOOLEAN
  BY <1>2 DEF Reset
<1>4. /\ s' \in SStates /\ kind' \in {"read", "write", "iack"} /\ adr' \in Address \cup Levels
      /\ {as_n', rw', ds'} \subseteq BOOLEAN /\ dout' \in Data \cup {NoData}
  BY DEF Reset, CoreReset, CoreBusTypeOK, SStates
<1> QED BY <1>1, <1>3, <1>4 DEF CoreBusTypeOK

-----------------------------------------------------------------------------
(* The retime engine.                                                      *)

(* Of the motherboard: data come at most 4 clocks after their DTACK, and   *)
(* its answers end in time after AS.  TLC finds counterexamples with       *)
(* DATA_LAG = 5, and with REL = 3 at the source's PH_ACK = 4.              *)
RetimeGrid ==
  /\ BusGrid /\ RETIME /\ VMA_HOLD
  /\ PH_ACK + REL <= 6 /\ REL <= 3 /\ DATA_LAG <= 4

(* A cycle that has been acknowledged.                                     *)
Late == {"S5", "S6", "S7"}

(* What the engine drives: nothing before the core's S3, then the core's   *)
(* address, direction and data; strobes since a tick.                      *)
EngineShape ==
  /\ core_as_d2 <=> s \in Rest \cup {"S2"}
  /\ s \notin Rest => rt_a = adr
  /\ s \in Rest \cup {"S2"} =>
       /\ rt_as_n /\ ~rt_ds /\ rt_vma_n /\ ~rt_dtack_lo /\ ~rt_av /\ rt_vst = 0
  /\ s \in {"SI", "S1", "S2"} => rt_rw /\ ~rt_d_oe
  /\ s \notin Rest \cup {"S2"} =>
       /\ rt_rw <=> kind # "write"
       /\ kind # "write" => ~rt_d_oe
  /\ kind = "write" /\ s \in {"S4", "SW", "S5", "S6"} => rt_d = dout
  /\ kind = "write" /\ ~rt_as_n /\ ph # 1 => rt_d_oe
  /\ ~rt_as_n => adr \notin Board
  /\ s = "S3" /\ ~rt_as_n => ph = 1

(* An acknowledge that was passed on at phase base - 1 or base finds the   *)
(* core on its way to S7, at this phase of the grid.                       *)
AckPhase(base) ==
  \/ s = "SW" /\ ph = base
  \/ s = "S4" /\ ph \in {base, base + 1}
  \/ s = "S5" /\ ph \in {base + 1, base + 2}
  \/ s = "S6" /\ ph \in {base + 2, base + 3}
  \/ s = "S7" /\ ph \in {base + 3, base + 4}

(* Who acknowledges a cycle, when, and to whom: RAM and interrupts on      *)
(* tick_r, a 6800 cycle after VMA, an empty address by the other engine;   *)
(* and no cycle goes on without one.                                       *)
Acks ==
  /\ rt_dtack_lo =>
       /\ ~rt_as_n /\ adr \notin Silent
       /\ IF adr \in Cia THEN AckPhase(7) /\ rt_vst = 2 ELSE AckPhase(1)
       /\ adr \in Ram => rt_ds /\ dtack
  /\ core_berr_lo =>
       /\ ~rt_as_n /\ refused /\ berr /\ adr \in Silent /\ AckPhase(PH_ACK + 1)
       /\ term /\ bx_acked /\ st = IF ph <= 6 THEN "S6" ELSE "S7"
  /\ s \in Late => (IF rt_as_n THEN adr \in Board ELSE rt_dtack_lo \/ core_berr_lo)
  /\ rt_av => kind = "iack"

(* While AS is low, the answers and their synchronisers are this cycle's.  *)
Fresh ==
  ~rt_as_n =>
    /\ s_dtack[2] => s_dtack[1]
    /\ s_dtack[1] => dtack
    /\ dtack => adr \in Ram
    /\ s_vpa[2] => s_vpa[1]
    /\ s_vpa[1] => vpa
    /\ vpa => adr \in Cia \cup Levels
    /\ (berr <=> refused) /\ (berr => adr \in Silent)
    /\ s = "S3" => ~dtack /\ ~vpa

(* Clocks to the next tick_r; clocks before the core can be in S2; and so  *)
(* before AS can fall.                                                     *)
ToTick == IF ph = 0 THEN 0 ELSE PERIOD - ph
ToS2 == CASE s = "S7" -> 3 [] s = "S0" -> 2 [] s = "SI" -> 3 [] s = "S1" -> 1 [] OTHER -> 0
Reach == IF ToS2 <= ToTick THEN ToTick ELSE ToTick + PERIOD

(* While AS is high, an answer to the last cycle is gone, and has left the *)
(* synchronisers, before AS can fall again.                                *)
Fading ==
  rt_as_n =>
    /\ dtack \/ vpa \/ berr => lag <= Reach
    /\ dtack \/ vpa => lag + 3 <= Reach
    /\ s_dtack[1] \/ s_vpa[1] => 2 <= Reach
    /\ s_dtack[2] \/ s_vpa[2] => 1 <= Reach

(* VMA, its state machine and the falls of E it has met; the word of a     *)
(* 6800 read is captured, and its write taken, once E has fallen.          *)
Vma ==
  /\ rt_vma_n <=> rt_vst \notin {1, 3}
  /\ rt_vst # 0 => ~rt_as_n /\ s_vpa[2] /\ adr \in Cia /\ s \in {"S4", "SW"} \cup Late
  /\ rt_vst = 3 => ph \in 1..6 /\ e_cnt = 0
  /\ ~rt_as_n => edges = IF rt_vst \in {2, 3} THEN 1 ELSE 0
  /\ rt_vst \in {2, 3} /\ kind = "read" => rt_rd = mem[adr]
  /\ rt_vst = 2 => rt_dtack_lo

(* The data of a RAM read are there when the core latches them: the two    *)
(* synchronisers and the S-states use up DATA_LAG.                         *)
Trailing ==
  ~rt_as_n /\ dtack =>
    /\ lag <= 4 - (IF s_dtack[2] THEN 2 ELSE IF s_dtack[1] THEN 1 ELSE 0)
    /\ rt_dtack_lo => lag <= 1
    /\ s \in Late => lag = 0
    /\ s = "S6" /\ kind = "read" => rt_rd = mem[adr]

(* What the devices hold and what the core's finished writes left differ   *)
(* by the write under way: a CIA takes it before the core is done, RAM     *)
(* after.                                                                  *)
Ahead ==
  IF s = "S7" /\ ~rt_as_n /\ kind = "write" /\ adr \in Ram
  THEN promised = [mem EXCEPT ![adr] = rt_d]
  ELSE mem = IF rt_vst \in {2, 3} /\ kind = "write" /\ s # "S7"
             THEN [promised EXCEPT ![adr] = dout] ELSE promised

(* A BERR of the cycle that is on the bus.                                 *)
Own == ~rt_as_n /\ berr

(* How far the other engine is in its last S-states, and for how many      *)
(* clocks BERR can still be in the pin or its synchroniser.                *)
Beat == IF st \in {"S6", "S7"} /\ ph # 0 THEN ph ELSE 12 + ph
Left == IF berr THEN lag + 3 ELSE IF s_berr[1] THEN 2 ELSE 1

(* A BERR that is left over from a refused cycle finds the other engine at *)
(* the end of that cycle, and is gone before it can sample again.          *)
Stale ==
  (berr \/ s_berr[1] \/ s_berr[2]) /\ ~Own =>
    /\ st \in {"S6", "S7", "S0", "IDLE"} /\ (st = "S6" => term)
    /\ Beat + Left <= 15

(* A bus error that the other engine has seen and not passed on is that of *)
(* the cycle on the bus.                                                   *)
Refusal ==
  /\ berr_go /\ ~bx_acked => ~as_n /\ Own
  /\ berr_go => term

(* The inductive invariant.                                                *)
RetimeInv ==
  /\ BusTypeOK /\ CoreShape /\ EngineShape /\ Acks /\ Fresh /\ Fading /\ Vma /\ Trailing
  /\ Ahead /\ Grid /\ Stale /\ Refusal

-----------------------------------------------------------------------------
(* The constants, as numbers.                                              *)
LEMMA Grid12 ==
  ASSUME RetimeGrid
  PROVE  /\ BusGrid /\ Devices /\ RETIME /\ VMA_HOLD /\ PERIOD = 12 /\ PH_HALF = 6
         /\ PH_ACK \in 0..5 /\ REL \in 0..3 /\ PH_ACK + REL <= 6
         /\ DATA_LAG \in 0..4 /\ SMP_N \in 1..6
         /\ E_PERIOD \in Nat /\ E_RISE \in 1..E_PERIOD-1 /\ E_VMA_AT \in 0..E_RISE-1
BY BusGrid12, Apart DEF RetimeGrid

(* The pins are the retime engine's.                                       *)
LEMMA Pins ==
  ASSUME RETIME
  PROVE  /\ cpu_as_n = rt_as_n /\ cpu_ds = rt_ds /\ cpu_rw = rt_rw /\ cpu_a = rt_a
         /\ cpu_fc7 = (rt_a \in Levels) /\ cpu_vma_n = rt_vma_n /\ d_oe = rt_d_oe
         /\ Driven = rt_d
         /\ cpu_as_n' = rt_as_n' /\ cpu_rw' = rt_rw' /\ cpu_a' = rt_a'
         /\ cpu_vma_n' = rt_vma_n' /\ d_oe' = rt_d_oe' /\ Driven' = rt_d'
BY DEF cpu_as_n, cpu_ds, cpu_rw, cpu_a, cpu_fc7, cpu_vma_n, d_oe, Driven

(* The engine while the core's AS is high.                                 *)
LEMMA RestMoves ==
  ASSUME as_n, NEW d, RetimeClock(d), RetimeTypeOK, adr \in Address \cup Levels
  PROVE  /\ rt_as_n' = TRUE /\ rt_ds' = FALSE /\ rt_vma_n' = TRUE /\ rt_dtack_lo' = FALSE
         /\ rt_av' = FALSE /\ rt_vst' = 0 /\ rt_rd' = rt_rd /\ rt_d' = rt_d
         /\ core_as_d2 => rt_a' = adr /\ rt_rw' = TRUE /\ rt_d_oe' = FALSE
         /\ ~core_as_d2 => rt_a' = rt_a /\ rt_rw' = rt_rw /\ rt_d_oe' = rt_d_oe
         /\ core_as_d2' = TRUE
BY DEF RetimeClock, RetimeRest, RetimeCycle, RetimeTypeOK

(* The engine while it is low.                                             *)
LEMMA CycleMoves ==
  ASSUME ~as_n, as_n \in BOOLEAN, rw \in BOOLEAN, RETIME, NEW d, RetimeClock(d), RetimeTypeOK
  PROVE  /\ rt_a' = rt_a
         /\ rt_as_n' = (rt_as_n /\ ~(ph = 0 /\ ~int_space))
         /\ rt_ds' = IF ph = 0 /\ ~int_space THEN ds ELSE rt_ds
         /\ rt_rw' = IF (ph = 0 /\ ~int_space) \/ rt_as_n THEN rw ELSE rt_rw
         /\ rw => rt_d' = rt_d /\ rt_d_oe' = rt_d_oe
         /\ ~rw => rt_d' = dout /\ rt_d_oe' = ~rt_as_n
         /\ rt_rd' = IF rw /\ ~rt_as_n /\ (s_vpa[2] => ~rt_vma_n /\ e_pin) THEN d ELSE rt_rd
         /\ core_as_d2' = FALSE
         /\ Synchronous
         /\ rt_av' = (rt_av \/ AnswerAutovector)
         /\ rt_dtack_lo' = (rt_dtack_lo \/ (Answer /\ s_dtack[2]) \/ AnswerAutovector \/ VmaEnd)
<1>1. RetimeCycle(d) /\ core_as_d2' = as_n
  BY DEF RetimeClock, RetimeRest
<1>2. Strobes /\ WriteData /\ ReadData(d) /\ Synchronous /\ rt_a' = rt_a
  BY <1>1 DEF RetimeCycle
<1>3. /\ rt_as_n' = (rt_as_n /\ ~(ph = 0 /\ ~int_space))
      /\ rt_ds' = IF ph = 0 /\ ~int_space THEN ds ELSE rt_ds
      /\ rt_rw' = IF (ph = 0 /\ ~int_space) \/ rt_as_n THEN rw ELSE rt_rw
  BY <1>2 DEF Strobes, tick_r, RetimeTypeOK
<1>4. /\ rw => rt_d' = rt_d /\ rt_d_oe' = rt_d_oe
      /\ ~rw => rt_d' = dout /\ rt_d_oe' = ~rt_as_n
  BY <1>2 DEF WriteData
<1>5. rt_rd' = IF rw /\ ~rt_as_n /\ (s_vpa[2] => ~rt_vma_n /\ e_pin) THEN d ELSE rt_rd
  BY <1>2 DEF ReadData
<1>6. /\ rt_av' = (rt_av \/ AnswerAutovector)
      /\ rt_dtack_lo' = (rt_dtack_lo \/ (Answer /\ s_dtack[2]) \/ AnswerAutovector \/ VmaEnd)
  BY <1>1 DEF RetimeCycle
<1> QED BY <1>1, <1>2, <1>3, <1>4, <1>5, <1>6

(* The motherboard.                                                        *)
LEMMA ReleaseMoves ==
  ASSUME RETIME, rt_as_n, rt_as_n \in BOOLEAN, Motherboard, {dtack, vpa, berr} \subseteq BOOLEAN
  PROVE  /\ \/ ~dtack' /\ ~vpa' /\ ~berr' /\ lag' = 0
            \/ /\ dtack \/ vpa \/ berr
               /\ lag > 0 /\ lag' = lag - 1
               /\ dtack' = dtack /\ vpa' = vpa /\ berr' = berr
         /\ {dtack', vpa', berr'} \subseteq BOOLEAN
         /\ edges' = 0 /\ refused' = FALSE
<1>1. cpu_as_n
  BY Pins
<1> QED BY <1>1 DEF Motherboard, Release, Respond

(* The motherboard while AS is low.                                        *)
LEMMA RespondMoves ==
  ASSUME RETIME, ~rt_as_n, rt_as_n \in BOOLEAN, Motherboard, {dtack, vpa, berr, refused} \subseteq BOOLEAN
  PROVE  /\ dtack' \in {dtack, dtack \/ rt_a \in Ram}
         /\ vpa' \in {vpa, vpa \/ rt_a \in Cia \/ rt_a \in Levels}
         /\ berr' \in {berr, berr \/ rt_a \in Silent}
         /\ lag' = IF dtack' /\ ~dtack THEN DATA_LAG
                   ELSE IF rt_as_n' THEN REL
                   ELSE IF lag > 0 THEN lag - 1 ELSE 0
         /\ edges' = IF EFalls /\ VmaHeld /\ edges < 2 THEN edges + 1 ELSE edges
         /\ refused' = (refused \/ berr')
         /\ {dtack', vpa', berr', refused'} \subseteq BOOLEAN
<1>1. ~cpu_as_n /\ cpu_as_n' = rt_as_n' /\ cpu_a = rt_a /\ cpu_fc7 = (rt_a \in Levels)
  BY Pins
<1>2. Respond
  BY <1>1 DEF Motherboard, Release
<1>3. /\ dtack' \in {dtack, dtack \/ rt_a \in Ram}
      /\ vpa' \in {vpa, vpa \/ rt_a \in Cia \/ rt_a \in Levels}
      /\ berr' \in {berr, berr \/ rt_a \in Silent}
      /\ lag' = IF dtack' /\ ~dtack THEN DATA_LAG
                ELSE IF rt_as_n' THEN REL
                ELSE IF lag > 0 THEN lag - 1 ELSE 0
  BY <1>1, <1>2 DEF Respond
<1>4. /\ edges' = IF EFalls /\ VmaHeld /\ edges < 2 THEN edges + 1 ELSE edges
      /\ refused' = (refused \/ berr')
  BY <1>1 DEF Motherboard
<1> QED BY <1>3, <1>4

-----------------------------------------------------------------------------
(* One clock, part by part.                                                *)
CoreMoved ==
  /\ s = "S0" => s' \in {"SI", "S1"}
  /\ s = "SI" => s' = "S0"
  /\ s = "S1" => s' = "S2"
  /\ s = "S2" => s' = "S3"
  /\ s = "S3" => s' = "S4"
  /\ s = "S4" => s' \in {"S5", "SW"}
  /\ s = "S4" /\ (rt_dtack_lo \/ core_berr_lo) => s' = "S5"
  /\ s = "S4" /\ s' = "S5" => rt_dtack_lo \/ core_berr_lo \/ int_space
  /\ s = "SW" => s' = "S4"
  /\ s = "S5" => s' = "S6"
  /\ s = "S6" => s' = "S7"
  /\ s = "S7" => s' = "S0"
  /\ s \in SStates /\ s' \in SStates
  /\ s' # "S1" => adr' = adr /\ kind' = kind
  /\ s \notin {"S2", "S6"} => dout' = dout

RestMoved ==
  as_n =>
    /\ rt_as_n' /\ ~rt_ds' /\ rt_vma_n' /\ ~rt_dtack_lo' /\ ~rt_av' /\ rt_vst' = 0
    /\ rt_rd' = rt_rd /\ rt_d' = rt_d
    /\ core_as_d2 => rt_a' = adr /\ rt_rw' /\ ~rt_d_oe'
    /\ ~core_as_d2 => /\ rt_a' = rt_a
                      /\ (rt_rw' <=> rt_rw) /\ (rt_d_oe' <=> rt_d_oe)
    /\ core_as_d2'

(* The tick on which AS goes out.                                          *)
StrobeNow == ph = 0 /\ ~int_space

CycleMoved ==
  ~as_n =>
    /\ rt_a' = rt_a
    /\ rt_as_n' <=> rt_as_n /\ ~StrobeNow
    /\ rt_ds' <=> IF StrobeNow THEN ds ELSE rt_ds
    /\ rt_rw' <=> IF StrobeNow \/ rt_as_n THEN rw ELSE rt_rw
    /\ rw => rt_d' = rt_d /\ (rt_d_oe' <=> rt_d_oe)
    /\ ~rw => rt_d' = dout /\ (rt_d_oe' <=> ~rt_as_n)
    /\ rt_rd' = IF rw /\ ~rt_as_n /\ (s_vpa[2] => ~rt_vma_n /\ e_pin) THEN cpu_d ELSE rt_rd
    /\ ~core_as_d2'
    /\ rt_vma_n' <=> IF VmaStart THEN FALSE ELSE IF VmaEnd THEN TRUE ELSE rt_vma_n
    /\ rt_vst' = IF VmaStart THEN 1 ELSE IF VmaEnd THEN 2 ELSE IF VmaEFall THEN 3 ELSE rt_vst
    /\ rt_av' <=> rt_av \/ AnswerAutovector
    /\ rt_dtack_lo' <=> rt_dtack_lo \/ (Answer /\ s_dtack[2]) \/ AnswerAutovector \/ VmaEnd

ReleaseMoved ==
  rt_as_n =>
    /\ \/ ~dtack' /\ ~vpa' /\ ~berr' /\ lag' = 0
       \/ /\ dtack \/ vpa \/ berr
          /\ lag > 0 /\ lag' = lag - 1
          /\ (dtack' <=> dtack) /\ (vpa' <=> vpa) /\ (berr' <=> berr)
    /\ edges' = 0 /\ ~refused'

RespondMoved ==
  ~rt_as_n =>
    /\ dtack => dtack'
    /\ dtack' => dtack \/ rt_a \in Ram
    /\ vpa => vpa'
    /\ vpa' => vpa \/ rt_a \in Cia \/ rt_a \in Levels
    /\ berr => berr'
    /\ berr' => berr \/ rt_a \in Silent
    /\ lag' = IF dtack' /\ ~dtack THEN DATA_LAG
              ELSE IF rt_as_n' THEN REL
              ELSE IF lag > 0 THEN lag - 1 ELSE 0
    /\ edges' = IF EFalls /\ VmaHeld /\ edges < 2 THEN edges + 1 ELSE edges
    /\ refused' <=> refused \/ berr'

FlagsBoolean ==
  /\ {s_dtack[1], s_dtack[2], s_vpa[1], s_vpa[2], s_berr[1], s_berr[2]} \subseteq BOOLEAN
  /\ {dtack, vpa, berr, refused, rt_as_n, rt_ds, rt_vma_n, rt_dtack_lo, rt_av, rt_d_oe, rt_rw,
      core_as_d2, as_n, rw, ds, core_berr_lo} \subseteq BOOLEAN

Moved ==
  /\ ph \in 0..11 /\ ph' = IF ph = 11 THEN 0 ELSE ph + 1
  /\ e_cnt' = IF ph # 0 THEN e_cnt ELSE IF e_cnt = E_PERIOD-1 THEN 0 ELSE e_cnt + 1
  /\ CoreMoved /\ CoreShape' /\ RestMoved /\ CycleMoved /\ ReleaseMoved /\ RespondMoved
  /\ SyncMoved /\ FlagsBoolean
  /\ {dtack', vpa', berr', refused'} \subseteq BOOLEAN

(* Every clock is one of these.                                            *)
LEMMA Moves ==
  ASSUME RetimeGrid, BusTypeOK, CoreShape, NEW int_ack \in BOOLEAN, Clock(int_ack)
  PROVE  Moved
<1> USE Grid12
<1>0. CoreBusTypeOK /\ RetimeTypeOK /\ BridgeTypeOK /\ {dtack, vpa, berr, refused} \subseteq BOOLEAN
  BY DEF BusTypeOK
<1>1. FlagsBoolean
  <2>1. {s_dtack, s_vpa, s_berr} \subseteq BOOLEAN \X BOOLEAN
    BY <1>0 DEF CoreBusTypeOK
  <2> QED BY <1>0, <2>1 DEF FlagsBoolean, CoreBusTypeOK, RetimeTypeOK, BridgeTypeOK
<1>2. /\ ph \in 0..11 /\ ph' = IF ph = 11 THEN 0 ELSE ph + 1
      /\ e_cnt' = IF ph # 0 THEN e_cnt ELSE IF e_cnt = E_PERIOD-1 THEN 0 ELSE e_cnt + 1
  BY ClockMoves, Grid12 DEF Clock, BusTypeOK
<1>3. CoreMoved /\ CoreShape'
  <2> DEFINE acked == core_dtack(int_ack) \/ core_berr_lo
  <2>1. CoreClock(acked) /\ acked \in BOOLEAN
    BY DEF Clock
  <2>2. /\ rt_dtack_lo \/ core_berr_lo => acked
        /\ acked => rt_dtack_lo \/ core_berr_lo \/ int_space
    BY DEF Clock, core_dtack
  <2> HIDE DEF acked
  <2>3. /\ Successor(acked) /\ s' \in SStates
        /\ s' # "S1" => adr' = adr /\ kind' = kind
        /\ s \notin {"S2", "S6"} => dout' = dout
        /\ CoreShape'
    BY <1>0, <2>1, CoreMoves
  <2>4. s \in SStates
    BY <1>0 DEF CoreBusTypeOK
  <2> QED BY <2>1, <2>2, <2>3, <2>4 DEF CoreMoved, Successor
<1>4. RestMoved
  <2>1. adr \in Address \cup Levels /\ RetimeClock(cpu_d)
    BY <1>0 DEF CoreBusTypeOK, Clock
  <2> SUFFICES ASSUME as_n PROVE RestMoved
    BY DEF RestMoved
  <2> QED BY <1>0, <2>1, RestMoves DEF RestMoved
<1>5. CycleMoved
  <2>1. RetimeClock(cpu_d) /\ as_n \in BOOLEAN /\ rw \in BOOLEAN
    BY <1>1 DEF FlagsBoolean, Clock
  <2> SUFFICES ASSUME ~as_n PROVE CycleMoved
    BY DEF CycleMoved
  <2> QED BY <1>0, <2>1, CycleMoves DEF CycleMoved, StrobeNow, Synchronous
<1>6. ReleaseMoved
  <2> SUFFICES ASSUME rt_as_n PROVE ReleaseMoved
    BY DEF ReleaseMoved
  <2> QED BY <1>0, <1>1, ReleaseMoves DEF ReleaseMoved, Clock, FlagsBoolean
<1>7. RespondMoved
  <2> SUFFICES ASSUME ~rt_as_n PROVE RespondMoved
    BY DEF RespondMoved
  <2> QED BY <1>0, <1>1, RespondMoves DEF RespondMoved, Clock, FlagsBoolean
<1>8. SyncMoved
  BY <1>0, SyncMoves DEF SyncMoved, Clock, CoreBusTypeOK
<1>9. {dtack', vpa', berr', refused'} \subseteq BOOLEAN
  <2>1. CASE rt_as_n
    BY <1>0, <1>1, <2>1, ReleaseMoves DEF Clock, FlagsBoolean
  <2>2. CASE ~rt_as_n
    BY <1>0, <1>1, <2>2, RespondMoves DEF Clock, FlagsBoolean
  <2> QED BY <2>1, <2>2
<1> QED BY <1>1, <1>2, <1>3, <1>4, <1>5, <1>6, <1>7, <1>8, <1>9 DEF Moved

-----------------------------------------------------------------------------
(* The engine's pins, one clock on.                                        *)
LEMMA EngineShapeKept ==
  ASSUME RetimeGrid, CoreShape, EngineShape, Moved
  PROVE  EngineShape'
<1>1. CoreMoved /\ RestMoved /\ CycleMoved /\ FlagsBoolean
      /\ ph \in 0..11 /\ ph' = IF ph = 11 THEN 0 ELSE ph + 1
  BY DEF Moved
<1>2. /\ as_n <=> s \notin Low
      /\ s \in SStates /\ s' \in SStates
  BY <1>1 DEF CoreMoved, CoreShape
<1>3. /\ core_as_d2' <=> s' \in Rest \cup {"S2"}
      /\ s' \notin Rest => rt_a' = adr'
      /\ s' \in Rest \cup {"S2"} =>
           /\ rt_as_n' /\ ~rt_ds' /\ rt_vma_n' /\ ~rt_dtack_lo' /\ ~rt_av' /\ rt_vst' = 0
      /\ s' \in {"SI", "S1", "S2"} => rt_rw' /\ ~rt_d_oe'
  <2>1. CASE as_n
    BY <1>1, <1>2, <2>1 DEF CoreMoved, RestMoved, EngineShape, Low, Rest, SStates
  <2>2. CASE ~as_n
    BY <1>1, <1>2, <2>2 DEF CoreMoved, CycleMoved, EngineShape, Low, Rest, SStates
  <2> QED BY <2>1, <2>2
<1>4. /\ s' \notin Rest \cup {"S2"} => s \in Low /\ ~as_n /\ (rw <=> kind # "write")
                                       /\ kind' = kind /\ adr' = adr
      /\ s' \notin Rest \cup {"S2"} /\ s # "S2" => s \notin Rest \cup {"S2"}
      /\ s' \in {"S4", "SW", "S5", "S6"} => s \notin {"S2", "S6"}
  BY <1>1, <1>2 DEF CoreMoved, CoreShape, Low, Rest, SStates
<1>5. s' \notin Rest \cup {"S2"} =>
         /\ rt_rw' <=> kind' # "write"
         /\ kind' # "write" => ~rt_d_oe'
  BY <1>1, <1>4 DEF CycleMoved, EngineShape
<1>6. kind' = "write" /\ s' \in {"S4", "SW", "S5", "S6"} => rt_d' = dout'
  BY <1>1, <1>4 DEF CycleMoved, CoreMoved, Rest
<1>7. ~rt_as_n' => s' \notin Rest \cup {"S2"} /\ (~rt_as_n \/ (ph = 0 /\ ~int_space))
  BY <1>1, <1>3, <1>4 DEF CycleMoved, StrobeNow
<1>8. kind' = "write" /\ ~rt_as_n' /\ ph' # 1 => rt_d_oe'
  BY <1>1, <1>4, <1>7 DEF CycleMoved
<1>9. ~rt_as_n' => adr' \notin Board
  <2>1. ~rt_as_n' /\ ~rt_as_n => adr' \notin Board
    BY <1>4, <1>7 DEF EngineShape
  <2>2. ~rt_as_n' /\ ~int_space => adr' \notin Board
    BY <1>4, <1>7, CoreBusAssumption DEF int_space, core_fc7, CoreShape, Address
  <2> QED BY <1>7, <2>1, <2>2
<1>10. s' = "S3" /\ ~rt_as_n' => ph' = 1
  BY <1>1, <1>2, <1>7 DEF EngineShape, CoreMoved, SStates
<1> QED BY <1>3, <1>5, <1>6, <1>8, <1>9, <1>10 DEF EngineShape

(* The motherboard's counters stay in their ranges.                        *)
LEMMA EnvTyped ==
  ASSUME RetimeGrid, BusTypeOK, Moved
  PROVE  lag' \in 0..(DATA_LAG + REL) /\ edges' \in 0..2
<1> USE Grid12
<1>1. lag \in 0..(DATA_LAG + REL) /\ edges \in 0..2 /\ ReleaseMoved /\ RespondMoved /\ FlagsBoolean
      /\ DATA_LAG \in 0..4 /\ REL \in 0..3
  BY DEF BusTypeOK, Moved
<1>2. CASE rt_as_n
  BY <1>1, <1>2 DEF ReleaseMoved
<1>3. CASE ~rt_as_n
  <2>1. lag' \in {DATA_LAG, REL, lag - 1, 0} /\ (lag' = lag - 1 => lag > 0 \/ lag' \in {DATA_LAG, REL})
    BY <1>1, <1>3 DEF RespondMoved
  <2>2. edges' \in 0..2
    BY <1>1, <1>3 DEF RespondMoved
  <2> QED BY <1>1, <2>1, <2>2
<1> QED BY <1>1, <1>2, <1>3 DEF FlagsBoolean

(* What is on the data bus is a word, or nothing.                          *)
LEMMA BusData ==
  ASSUME BusTypeOK
  PROVE  cpu_d \in Data \cup {NoData} /\ (RETIME => Driven \in Data \cup {NoData})
<1>1. /\ mem \in [Device -> Data \cup {NoData}] /\ rt_d \in Data \cup {NoData}
      /\ p_d \in Data \cup {NoData}
  BY DEF BusTypeOK, RetimeTypeOK, BridgeTypeOK
<1> QED BY <1>1 DEF cpu_d, Driven, Device

(* The engine's registers stay well-typed.                                 *)
LEMMA EngineTyped ==
  ASSUME RetimeGrid, BusTypeOK, NEW int_ack \in BOOLEAN, Clock(int_ack)
  PROVE  RetimeTypeOK'
<1>1. RETIME /\ RetimeTypeOK /\ RetimeClock(cpu_d) /\ cpu_d \in Data \cup {NoData}
      /\ adr \in Address \cup Levels /\ as_n \in BOOLEAN /\ rw \in BOOLEAN /\ ds \in BOOLEAN
      /\ dout \in Data \cup {NoData}
  BY BusData, Grid12 DEF BusTypeOK, CoreBusTypeOK, Clock
<1>0. /\ rt_as_n \in BOOLEAN /\ rt_ds \in BOOLEAN /\ rt_d_oe \in BOOLEAN /\ rt_rw \in BOOLEAN
      /\ core_as_d2 \in BOOLEAN /\ rt_av \in BOOLEAN /\ rt_dtack_lo \in BOOLEAN
      /\ rt_vma_n \in BOOLEAN
  BY <1>1 DEF RetimeTypeOK
<1>2. CASE as_n
  <2>1. /\ rt_as_n' = TRUE /\ rt_ds' = FALSE /\ rt_vma_n' = TRUE /\ rt_dtack_lo' = FALSE
        /\ rt_av' = FALSE /\ rt_vst' = 0 /\ rt_rd' = rt_rd /\ rt_d' = rt_d
        /\ rt_a' \in {adr, rt_a} /\ core_as_d2' = TRUE
        /\ (rt_rw' = TRUE \/ rt_rw' = rt_rw) /\ (rt_d_oe' = FALSE \/ rt_d_oe' = rt_d_oe)
    BY <1>1, <1>2, RestMoves
  <2>2. rt_rw' \in BOOLEAN /\ rt_d_oe' \in BOOLEAN
    BY <1>0, <2>1
  <2>3. {rt_as_n', rt_ds', rt_vma_n', rt_dtack_lo', rt_av', rt_d_oe', rt_rw', core_as_d2'}
          \subseteq BOOLEAN
    BY <2>1, <2>2, Zenon
  <2>4. rt_a' \in Address \cup Levels /\ {rt_rd', rt_d'} \subseteq Data \cup {NoData}
        /\ rt_vst' \in 0..3
    BY <1>1, <2>1 DEF RetimeTypeOK
  <2> QED BY <2>3, <2>4 DEF RetimeTypeOK
<1>3. CASE ~as_n
  <2> DEFINE ANS == Answer /\ s_dtack[2]
  <2>1. /\ rt_a' = rt_a
        /\ rt_as_n' = (rt_as_n /\ ~(ph = 0 /\ ~int_space))
        /\ rt_ds' \in {ds, rt_ds} /\ rt_rw' \in {rw, rt_rw}
        /\ rt_d' \in {rt_d, dout} /\ (rt_d_oe' = rt_d_oe \/ rt_d_oe' = ~rt_as_n)
        /\ rt_rd' \in {cpu_d, rt_rd} /\ core_as_d2' = FALSE /\ Synchronous
        /\ rt_av' = (rt_av \/ AnswerAutovector)
        /\ rt_dtack_lo' = (rt_dtack_lo \/ ANS \/ AnswerAutovector \/ VmaEnd)
    BY <1>1, <1>3, CycleMoves
  <2> HIDE DEF ANS
  <2>2. rt_vma_n' \in BOOLEAN /\ rt_vst' \in 0..3
    <3>1. rt_vma_n' = FALSE \/ rt_vma_n' = TRUE \/ rt_vma_n' = rt_vma_n
      BY <2>1, Zenon DEF Synchronous
    <3>2. rt_vst' \in {0, 1, 2, 3, rt_vst}
      BY <2>1 DEF Synchronous
    <3>3. rt_vma_n' \in BOOLEAN
      BY <1>0, <3>1
    <3> QED BY <1>1, <3>2, <3>3 DEF RetimeTypeOK
  <2>3. {rt_as_n', rt_ds', rt_d_oe', rt_rw', core_as_d2', rt_av', rt_dtack_lo'} \subseteq BOOLEAN
    <3>1. rt_as_n' \in BOOLEAN /\ core_as_d2' \in BOOLEAN /\ rt_av' \in BOOLEAN
          /\ rt_dtack_lo' \in BOOLEAN
      BY <2>1, Zenon
    <3>2. rt_ds' \in BOOLEAN /\ rt_rw' \in BOOLEAN
      BY <1>0, <1>1, <2>1
    <3>3. rt_d_oe' \in BOOLEAN
      BY <1>0, <2>1, Zenon
    <3> QED BY <3>1, <3>2, <3>3, Zenon
  <2>4. rt_a' \in Address \cup Levels /\ {rt_rd', rt_d'} \subseteq Data \cup {NoData}
    BY <1>1, <2>1 DEF RetimeTypeOK
  <2> QED BY <2>2, <2>3, <2>4 DEF RetimeTypeOK
<1> QED BY <1>1, <1>2, <1>3

(* The other engine.                                                       *)

(* Its registers stay well-typed.                                          *)
LEMMA BridgeTyped ==
  ASSUME RetimeGrid, BusTypeOK, NEW d \in Data \cup {NoData}, BridgeClock(d)
  PROVE  BridgeTypeOK'
<1>0. /\ BridgeTypeOK /\ adr \in Address \cup Levels /\ dout \in Data \cup {NoData}
      /\ rw \in BOOLEAN /\ ds \in BOOLEAN /\ core_fc7 \in BOOLEAN
  BY DEF BusTypeOK, CoreBusTypeOK, core_fc7
<1>1. /\ Acknowledge
      /\ StIdle \/ StS3Data \/ StS4 \/ StS6 \/ StS7 \/ (Sequence /\ Plain)
      /\ rd_data' \in {d, rd_data}
  BY DEF BridgeClock
<1>2. (Flags /\ UNCHANGED <<bx_a, bx_rw, bx_ds, bx_iack, av_num>>) \/ TakeCycle
  BY <1>1 DEF StIdle, StS3Data, StS4, StS6, StS7, Sequence, OnTick
<1>3. st' \in BridgeStates /\ smp_cnt' \in 0..SMP_N
  <2>1. BridgeMoved
    BY <1>0, Grid12, BridgeMoves DEF StTyped, BridgeTypeOK
  <2> QED BY <2>1, Grid12 DEF BridgeMoved, StMoved
<1>4. /\ bx_a' \in Address \cup Levels /\ av_num' \in Nat
      /\ bx_rw' \in BOOLEAN /\ bx_ds' \in BOOLEAN /\ bx_iack' \in BOOLEAN
  <2>1. core_low \in Nat
    BY <1>0, CoreBusAssumption DEF core_low
  <2> QED BY <1>0, <1>2, <2>1 DEF TakeCycle, BridgeTypeOK
<1>5. term' \in BOOLEAN /\ sync_go' \in BOOLEAN /\ berr_go' \in BOOLEAN
  BY <1>2, Zenon DEF Flags, TakeCycle
<1>6. core_dtack_lo' \in BOOLEAN /\ core_berr_lo' \in BOOLEAN /\ bx_acked' \in BOOLEAN
      /\ bx_taken' \in BOOLEAN /\ av_valid' \in BOOLEAN
  BY <1>1, Zenon DEF Acknowledge
<1>7. p_d' \in Data \cup {NoData} /\ rd_data' \in Data \cup {NoData}
  <2>1. p_d' \in {dout, p_d}
    BY <1>1 DEF StIdle, StS3Data, StS4, StS6, StS7, Plain
  <2> QED BY <1>0, <1>1, <2>1 DEF BridgeTypeOK
<1>8. {bx_rw', bx_ds', bx_iack', bx_taken', bx_acked', term', sync_go', berr_go',
       core_dtack_lo', core_berr_lo', av_valid'} \subseteq BOOLEAN
  BY <1>4, <1>5, <1>6, Zenon
<1> QED BY <1>3, <1>4, <1>7, <1>8 DEF BridgeTypeOK

(* The devices hold words.                                                 *)
LEMMA MemTyped ==
  ASSUME RetimeGrid, BusTypeOK, Latch, RetimeTypeOK'
  PROVE  mem' \in [Device -> Data \cup {NoData}]
<1>1. Driven' \in Data \cup {NoData} /\ mem \in [Device -> Data \cup {NoData}]
  BY Pins, Grid12 DEF BusTypeOK, RetimeTypeOK
<1>2. NoData \in Data \cup {NoData}
  OBVIOUS
<1> QED BY <1>1, <1>2 DEF Latch

(* A clock keeps the type invariant.                                       *)
LEMMA TypeKept ==
  ASSUME RetimeGrid, BusTypeOK, CoreShape, NEW int_ack \in BOOLEAN, Clock(int_ack)
  PROVE  BusTypeOK'
<1>1. Moved /\ RetimeTypeOK'
  BY Moves, EngineTyped
<1>2. CoreBusTypeOK'
  <2>1. CoreBusTypeOK /\ {dtack, vpa, berr} \subseteq BOOLEAN
    BY DEF BusTypeOK
  <2>2. ph' \in 0..PERIOD-1 /\ e_cnt' \in 0..E_PERIOD-1
    BY ClockMoves, Grid12 DEF Clock, BusTypeOK
  <2>3. {s_dtack', s_vpa', s_berr'} \subseteq BOOLEAN \X BOOLEAN
    BY <2>1, SyncMoves DEF Clock, CoreBusTypeOK
  <2>4. /\ s' \in SStates /\ kind' \in {"read", "write", "iack"} /\ adr' \in Address \cup Levels
        /\ {as_n', rw', ds'} \subseteq BOOLEAN /\ dout' \in Data \cup {NoData}
    <3>1. \E acked \in BOOLEAN : CoreClock(acked)
      BY DEF Clock
    <3> QED BY <2>1, <3>1, CoreMoves
  <2> QED BY <2>2, <2>3, <2>4 DEF CoreBusTypeOK
<1>3. BridgeTypeOK'
  BY BusData, BridgeTyped DEF Clock
<1>4. lag' \in 0..(DATA_LAG + REL) /\ edges' \in 0..2 /\ {dtack', vpa', berr', refused'} \subseteq BOOLEAN
  BY <1>1, EnvTyped DEF Moved
<1>5. {mem', promised'} \subseteq [Device -> Data \cup {NoData}]
  <2>1. mem' \in [Device -> Data \cup {NoData}]
    BY <1>1, MemTyped DEF Clock, Motherboard
  <2>2. promised' \in [Device -> Data \cup {NoData}]
    BY DEF Clock, BusTypeOK, CoreBusTypeOK
  <2> QED BY <2>1, <2>2
<1>6. resets' \in 0..MaxResets
  BY DEF Clock, BusTypeOK
<1> QED BY <1>1, <1>2, <1>3, <1>4, <1>5, <1>6 DEF BusTypeOK

-----------------------------------------------------------------------------

(* Nothing acknowledges the core but the engine that has its cycle.        *)
LEMMA StaysLow ==
  ASSUME RetimeGrid, CoreShape, EngineShape, Acks, Moved, ~rt_as_n, ~as_n
  PROVE  /\ ~rt_as_n' /\ adr' = adr /\ kind' = kind /\ rt_a = adr
         /\ s \in {"S3", "S4", "SW", "S5", "S6"} /\ s' \in {"S4", "SW", "S5", "S6", "S7"}
         /\ ~int_space
         /\ ~rt_dtack_lo /\ ~core_berr_lo => s \in {"S3", "S4", "SW"} /\ s' \in {"S4", "SW"}
<1>1. CoreMoved /\ CycleMoved /\ (as_n <=> s \notin Low) /\ FlagsBoolean
  BY DEF Moved, CoreShape
<1>2. ~rt_as_n' /\ s \in {"S3", "S4", "SW", "S5", "S6"} /\ rt_a = adr
  BY <1>1 DEF CycleMoved, CoreMoved, EngineShape, Low, Rest
<1>3. s' \in {"S4", "SW", "S5", "S6", "S7"} /\ adr' = adr /\ kind' = kind
  BY <1>1, <1>2 DEF CoreMoved
<1>4. ~int_space
  BY DEF EngineShape, int_space
<1>5. ~rt_dtack_lo /\ ~core_berr_lo => s \in {"S3", "S4", "SW"} /\ s' \in {"S4", "SW"}
  BY <1>1, <1>2, <1>4 DEF CoreMoved, Acks, Late
<1> QED BY <1>2, <1>3, <1>4, <1>5

(* One clock after it was given, an acknowledge is one clock on.           *)
LEMMA AckMoves ==
  ASSUME NEW base \in Nat, AckPhase(base), base \in 1..7, Moved, s # "S7",
         rt_dtack_lo \/ core_berr_lo
  PROVE  AckPhase(base)'
<1>1. CoreMoved /\ ph \in 0..11 /\ ph' = IF ph = 11 THEN 0 ELSE ph + 1
  BY DEF Moved
<1> QED BY <1>1 DEF CoreMoved, AckPhase

(* Acknowledges, one clock on: where each comes from, and at which phase   *)
(* it finds the core.                                                      *)
LEMMA AcksKept ==
  ASSUME RetimeGrid, CoreShape, EngineShape, Acks, Fresh, Vma, Refusal, Moved, BridgeMoved
  PROVE  Acks'
<1> USE Grid12
<1>0. /\ CoreMoved /\ CycleMoved /\ RestMoved /\ RespondMoved /\ FlagsBoolean /\ Devices
      /\ ph \in 0..11 /\ ph' = IF ph = 11 THEN 0 ELSE ph + 1
      /\ as_n <=> s \notin Low
  BY Grid12 DEF Moved, CoreShape
<1>1. ASSUME rt_dtack_lo'
      PROVE  /\ ~rt_as_n' /\ adr' \notin Silent
             /\ IF adr' \in Cia THEN AckPhase(7)' /\ rt_vst' = 2 ELSE AckPhase(1)'
             /\ adr' \in Ram => rt_ds' /\ dtack'
  <2>1. ~as_n
    BY <1>0, <1>1 DEF RestMoved
  <2>2. CASE rt_dtack_lo
    <3>1. ~rt_as_n /\ s # "S7"
      BY <1>0, <2>1, <2>2 DEF Acks, Low
    <3>2. ~rt_as_n' /\ adr' = adr /\ adr \notin Silent
      BY <2>1, <2>2, <3>1, StaysLow DEF Acks
    <3>3. adr \in Cia => AckPhase(7)' /\ rt_vst' = 2
      <4>1. adr \in Cia => AckPhase(7) /\ rt_vst = 2
        BY <2>2 DEF Acks
      <4>2. adr \in Cia => AckPhase(7)'
        BY <2>2, <3>1, <4>1, AckMoves
      <4> QED BY <1>0, <2>1, <4>1, <4>2 DEF CycleMoved, VmaStart, VmaEnd, VmaEFall
    <3>4. adr \notin Cia => AckPhase(1)'
      BY <2>2, <3>1, AckMoves DEF Acks
    <3>5. adr \in Ram => rt_ds' /\ dtack'
      <4>1. adr \in Ram => AckPhase(1) /\ rt_ds /\ dtack
        BY <1>0, <2>2 DEF Acks, Devices
      <4>2. AckPhase(1) => ds
        BY <2>1, <1>0, <3>1 DEF AckPhase, CoreShape
      <4> QED BY <1>0, <2>1, <3>1, <4>1, <4>2 DEF CycleMoved, RespondMoved
    <3> QED BY <3>2, <3>3, <3>4, <3>5
  <2>3. CASE ~rt_dtack_lo
    <3>1. \/ Answer /\ s_dtack[2]
          \/ AnswerAutovector
          \/ VmaEnd
      BY <1>0, <1>1, <2>1, <2>3 DEF CycleMoved
    <3>2. ~rt_as_n
      BY <3>1 DEF Answer, AnswerAutovector, VmaEnd, In6800
    <3>3. /\ \/ ph = 0 /\ dtack /\ adr \in Ram
             \/ ph = 0 /\ vpa /\ adr \in Levels
             \/ ph = 6 /\ rt_vst = 3 /\ adr \in Cia
          /\ s # "S3"
      <4>1. CASE Answer /\ s_dtack[2]
        BY <3>2, <4>1 DEF Fresh, Answer, tick_r
      <4>2. CASE AnswerAutovector
        BY <3>2, <4>2 DEF Fresh, Answer, AnswerAutovector, tick_r, core_fc7, CoreShape
      <4>3. CASE VmaEnd
        BY <3>2, <4>3 DEF VmaEnd, In6800, tick_f, Vma, Late
      <4> QED BY <3>1, <4>1, <4>2, <4>3
    <3>4. ~core_berr_lo
      BY <1>0, <3>3 DEF Acks, Devices
    <3>5. ~rt_as_n' /\ adr' = adr /\ s \in {"S4", "SW"} /\ s' \in {"S4", "SW"} /\ ~int_space
      BY <2>1, <2>3, <3>2, <3>3, <3>4, StaysLow
    <3>6. adr \notin Silent
      BY <1>0, <3>3 DEF Devices
    <3>7. adr \in Cia => AckPhase(7)' /\ rt_vst' = 2
      <4>1. adr \in Cia => ph = 6 /\ rt_vst = 3 /\ VmaEnd
        BY <1>0, <3>1, <3>2, <3>3 DEF Devices, Answer, AnswerAutovector, Fresh, core_fc7, CoreShape
      <4>2. adr \in Cia => AckPhase(7)'
        BY <1>0, <4>1, <3>5 DEF AckPhase
      <4> QED BY <1>0, <2>1, <4>1, <4>2 DEF CycleMoved, VmaStart
    <3>8. adr \notin Cia => AckPhase(1)'
      BY <1>0, <3>3, <3>5 DEF AckPhase
    <3>9. adr \in Ram => rt_ds' /\ dtack'
      <4>1. adr \in Ram => ph = 0 /\ dtack /\ ds /\ ~int_space
        BY <1>0, <3>3, <3>5 DEF Devices, CoreShape, Low
      <4> QED BY <1>0, <2>1, <3>2, <4>1 DEF CycleMoved, RespondMoved, StrobeNow
    <3> QED BY <3>5, <3>6, <3>7, <3>8, <3>9
  <2> QED BY <1>0, <2>2, <2>3
<1>2. ASSUME core_berr_lo'
      PROVE  /\ ~rt_as_n' /\ refused' /\ berr' /\ adr' \in Silent /\ AckPhase(PH_ACK + 1)'
             /\ term' /\ bx_acked' /\ st' = IF ph' <= 6 THEN "S6" ELSE "S7"
  <2>0. StMoved /\ FlagsMoved /\ ((core_berr_lo /\ ~as_n) \/ Refuses)
    BY <1>2 DEF BridgeMoved
  <2>1. CASE core_berr_lo /\ ~as_n
    <3>1. /\ ~rt_as_n /\ refused /\ berr /\ adr \in Silent /\ AckPhase(PH_ACK + 1)
          /\ term /\ bx_acked /\ st = IF ph <= 6 THEN "S6" ELSE "S7"
      BY <2>1 DEF Acks
    <3>2. s # "S7"
      BY <1>0, <2>1 DEF Low
    <3>3. ~rt_as_n' /\ adr' = adr
      BY <2>1, <3>1, StaysLow
    <3>4. PH_ACK + 1 \in 1..7 /\ PH_ACK + 1 \in Nat
      OBVIOUS
    <3>5. AckPhase(PH_ACK + 1)'
      <4> DEFINE b == PH_ACK + 1
      <4>1. AckPhase(b) /\ b \in 1..7 /\ b \in Nat
        BY <3>1, <3>4
      <4> HIDE DEF b
      <4>2. AckPhase(b)'
        BY <2>1, <3>2, <4>1, AckMoves
      <4>3. b' = PH_ACK + 1
        BY DEF b
      <4> QED BY <4>2 DEF b
    <3>6. ph \in 1..10
      BY <3>1 DEF AckPhase
    <3>7. term' /\ bx_acked' /\ st' = IF ph' <= 6 THEN "S6" ELSE "S7"
      BY <1>0, <2>0, <3>1, <3>6 DEF StMoved, FlagsMoved
    <3> QED BY <1>0, <3>1, <3>3, <3>5, <3>7 DEF RespondMoved
  <2>2. CASE Refuses
    <3>1. ~as_n /\ ~rt_as_n /\ berr /\ adr \in Silent /\ ~core_berr_lo /\ ~rt_dtack_lo
      BY <2>2 DEF Refuses, Refusal, Own, Fresh, Acks
    <3>2. ~rt_as_n' /\ adr' = adr /\ s' \in {"S4", "SW"}
      BY <3>1, StaysLow
    <3>3. ph' = PH_ACK + 1 /\ st' = "S6" /\ term' /\ bx_acked'
      BY <1>0, <2>0, <2>2 DEF Refuses, StMoved, FlagsMoved
    <3>4. AckPhase(PH_ACK + 1)'
      BY <3>2, <3>3 DEF AckPhase
    <3> QED BY <1>0, <3>1, <3>2, <3>3, <3>4 DEF RespondMoved
  <2> QED BY <2>0, <2>1, <2>2
<1>3. ASSUME s' \in Late
      PROVE  IF rt_as_n' THEN adr' \in Board ELSE rt_dtack_lo' \/ core_berr_lo'
  <2>1. s \in {"S4", "S5", "S6"} /\ ~as_n /\ adr' = adr /\ kind' = kind
    BY <1>0, <1>3 DEF CoreMoved, Late, Low, SStates
  <2>2. rt_dtack_lo \/ core_berr_lo => rt_dtack_lo' \/ core_berr_lo'
    BY <1>0, <2>1 DEF CycleMoved, BridgeMoved
  <2>3. rt_dtack_lo \/ core_berr_lo \/ (rt_as_n /\ adr \in Board)
    BY <1>0, <1>3, <2>1 DEF CoreMoved, Late, Acks, int_space, EngineShape
  <2>4. rt_dtack_lo \/ core_berr_lo => ~rt_as_n /\ ~rt_as_n'
    BY <1>0, <2>1 DEF Acks, CycleMoved
  <2>5. rt_as_n /\ adr \in Board => rt_as_n'
    BY <1>0, <2>1 DEF CycleMoved, StrobeNow, int_space, core_fc7, CoreShape, Devices
  <2> QED BY <2>1, <2>2, <2>3, <2>4, <2>5
<1>4. rt_av' => kind' = "iack"
  <2>1. rt_av' => ~as_n /\ (rt_av \/ AnswerAutovector)
    BY <1>0 DEF RestMoved, CycleMoved
  <2>2. ~as_n => kind' = kind
    BY <1>0 DEF CoreMoved, Low, SStates
  <2> QED BY <2>1, <2>2 DEF Acks, AnswerAutovector, core_fc7
<1> QED BY <1>1, <1>2, <1>3, <1>4 DEF Acks

(* When AS falls, the answers to the cycle before are gone.                *)
LEMMA FallsClean ==
  ASSUME RetimeGrid, BusTypeOK, CoreShape, EngineShape, Fading, Moved, rt_as_n, ~rt_as_n'
  PROVE  /\ ~dtack /\ ~vpa /\ ~s_dtack[1] /\ ~s_dtack[2] /\ ~s_vpa[1] /\ ~s_vpa[2]
         /\ ~dtack' /\ ~vpa' /\ ~berr' /\ ~refused'
         /\ ph = 0 /\ ~as_n /\ s \in Low
<1>1. /\ CycleMoved /\ RestMoved /\ ReleaseMoved /\ FlagsBoolean
      /\ as_n <=> s \notin Low
  BY DEF Moved, CoreShape
<1>2. ~as_n /\ ph = 0 /\ s \in Low
  BY <1>1 DEF RestMoved, CycleMoved, StrobeNow
<1>3. Reach = 0
  BY <1>2, Grid12 DEF Reach, ToTick, ToS2, Low
<1>4. lag \in Nat
  BY Grid12 DEF BusTypeOK
<1>5. /\ ~dtack /\ ~vpa /\ ~s_dtack[1] /\ ~s_dtack[2] /\ ~s_vpa[1] /\ ~s_vpa[2]
      /\ berr => lag = 0
  BY <1>1, <1>3, <1>4 DEF Fading, FlagsBoolean
<1>6. ~dtack' /\ ~vpa' /\ ~berr' /\ ~refused'
  BY <1>1, <1>5 DEF ReleaseMoved
<1> QED BY <1>2, <1>5, <1>6

(* Answers stay the cycle's own while AS is low.                           *)
LEMMA FreshKept ==
  ASSUME RetimeGrid, BusTypeOK, CoreShape, EngineShape, Acks, Fresh, Fading, Moved
  PROVE  Fresh'
<1> SUFFICES ASSUME ~rt_as_n' PROVE Fresh'
  BY DEF Fresh
<1>1. /\ CoreMoved /\ CycleMoved /\ RestMoved /\ RespondMoved /\ SyncMoved /\ FlagsBoolean
      /\ as_n <=> s \notin Low
  BY DEF Moved, CoreShape
<1>2. CASE rt_as_n
  BY <1>1, <1>2, FallsClean DEF Fresh, SyncMoved
<1>3. CASE ~rt_as_n
  <2>1. ~as_n
    BY <1>1 DEF RestMoved
  <2>2. adr' = adr /\ rt_a = adr /\ s' # "S3"
    BY <1>3, <2>1, StaysLow
  <2> QED BY <1>1, <1>3, <2>2 DEF Fresh, RespondMoved, SyncMoved, FlagsBoolean
<1> QED BY <1>2, <1>3

(* A measure that falls by one a clock, or starts again higher.            *)
LEMMA Countdown12 ==
  ASSUME NEW t \in 0..11, NEW u \in 0..11, u = IF t = 0 THEN 11 ELSE t - 1,
         NEW a \in 0..3, NEW b \in 0..3, a <= b + 1,
         NEW x, x = IF a <= t THEN t ELSE t + 12,
         NEW y, y = IF b <= u THEN u ELSE u + 12
  PROVE  x \in Nat /\ y \in Nat /\ x <= y + 1
<1>1. x \in {t, t + 12} /\ y \in {u, u + 12}
  OBVIOUS
<1>2. x \in Nat /\ y \in Nat
  BY <1>1
<1>3. CASE t = 0
  BY <1>1, <1>3
<1>4. CASE t # 0 /\ a <= t
  BY <1>4
<1>5. CASE t # 0 /\ ~(a <= t)
  BY <1>5
<1> QED BY <1>2, <1>3, <1>4, <1>5

(* Each clock takes at most one off Reach.                                 *)
LEMMA ReachFalls ==
  ASSUME RetimeGrid, Moved
  PROVE  Reach \in Nat /\ Reach' \in Nat /\ Reach <= Reach' + 1
<1>1. CoreMoved /\ ph \in 0..11 /\ ph' = IF ph = 11 THEN 0 ELSE ph + 1
  BY DEF Moved
<1>2. /\ ToTick \in 0..11 /\ ToTick' \in 0..11
      /\ ToTick' = IF ToTick = 0 THEN 11 ELSE ToTick - 1
  BY <1>1, Grid12 DEF ToTick
<1>3. /\ ToS2 \in 0..3 /\ ToS2' \in 0..3
      /\ ToS2 <= ToS2' + 1
  BY <1>1 DEF CoreMoved, ToS2, SStates
<1>4. Reach = IF ToS2 <= ToTick THEN ToTick ELSE ToTick + 12
  BY Grid12 DEF Reach
<1>5. Reach' = IF ToS2' <= ToTick' THEN ToTick' ELSE ToTick' + 12
  BY Grid12 DEF Reach
<1> DEFINE t == ToTick   u == ToTick'   a == ToS2   b == ToS2'   x == Reach   y == Reach'
<1>6. /\ t \in 0..11 /\ u \in 0..11 /\ u = IF t = 0 THEN 11 ELSE t - 1
      /\ a \in 0..3 /\ b \in 0..3 /\ a <= b + 1
      /\ x = IF a <= t THEN t ELSE t + 12
      /\ y = IF b <= u THEN u ELSE u + 12
  BY <1>2, <1>3, <1>4, <1>5
<1> SUFFICES x \in Nat /\ y \in Nat /\ x <= y + 1
  OBVIOUS
<1> HIDE DEF t, u, a, b, x, y
<1> QED BY <1>6, Countdown12

(* When AS rises there is time for the answers to go.                      *)
LEMMA RisesEarly ==
  ASSUME RetimeGrid, BusTypeOK, CoreShape, EngineShape, Acks, Fresh, Moved, ~rt_as_n, rt_as_n'
  PROVE  /\ as_n /\ s = "S7" /\ s' = "S0" /\ lag' = REL /\ Reach' \in Nat /\ REL <= Reach'
         /\ ~(dtack' \/ vpa' \/ dtack \/ vpa \/ s_dtack[1] \/ s_vpa[1]) \/ REL + 3 <= Reach'
<1>1. /\ CoreMoved /\ CycleMoved /\ RestMoved /\ RespondMoved /\ FlagsBoolean /\ Devices
      /\ as_n <=> s \notin Low
      /\ ph \in 0..11 /\ ph' = IF ph = 11 THEN 0 ELSE ph + 1
  BY Grid12 DEF Moved, CoreShape
<1>2. as_n /\ s = "S7" /\ s' = "S0"
  BY <1>1 DEF CoreMoved, CycleMoved, EngineShape, Low, Rest, SStates
<1>3. rt_a = adr /\ (rt_dtack_lo \/ core_berr_lo)
  BY <1>2 DEF EngineShape, Acks, Late, Rest
<1>4. lag' = REL
  <2>1. dtack' => dtack
    BY <1>1, <1>3 DEF RespondMoved, Acks, Devices
  <2> QED BY <1>1, <2>1 DEF RespondMoved
<1>5. ToS2' = 2 /\ ToTick' = IF ph' = 0 THEN 0 ELSE 12 - ph'
  BY <1>2, Grid12 DEF ToS2, ToTick
<1>6. Reach' = IF 2 <= ToTick' THEN ToTick' ELSE ToTick' + 12
  BY <1>5, Grid12 DEF Reach
<1>7. CASE rt_dtack_lo
  <2>1. ph \in {4, 5, 10, 11}
    BY <1>2, <1>7 DEF Acks, AckPhase
  <2>2. Reach' \in Nat /\ 6 <= Reach'
    BY <1>1, <1>5, <1>6, <2>1
  <2> QED BY <1>2, <1>4, <2>2, Grid12
<1>8. CASE core_berr_lo
  <2>1. ph \in {PH_ACK + 4, PH_ACK + 5} /\ adr \in Silent
    BY <1>2, <1>8, Grid12 DEF Acks, AckPhase
  <2>2. ~dtack /\ ~vpa /\ ~s_dtack[1] /\ ~s_vpa[1]
    BY <1>1, <2>1 DEF Fresh, Devices
  <2>3. ~dtack' /\ ~vpa'
    BY <1>1, <1>3, <2>1, <2>2 DEF RespondMoved, Devices
  <2>4. ph' \in 1..11 /\ ph' + REL <= 12
    BY <1>1, <2>1, Grid12
  <2>5. Reach' \in Nat /\ REL <= Reach'
    <3>0. \A p \in 1..11, l \in 0..3 : p + l <= 12 => 12 - p \in 1..11 /\ l <= 12 - p
      OBVIOUS
    <3>1. 12 - ph' \in 1..11 /\ REL <= 12 - ph'
      <4>1. REL \in 0..3
        BY Grid12
      <4> QED BY <2>4, <3>0, <4>1
    <3>1a. ToTick' = 12 - ph'
      <4>1. ph' # 0
        BY <2>4
      <4>2. \A x, y : x # 0 /\ y = (IF x = 0 THEN 0 ELSE 12 - x) => y = 12 - x
        OBVIOUS
      <4> QED BY <1>5, <4>1, <4>2, Zenon
    <3>2. Reach' \in {ToTick', ToTick' + 12}
      BY <1>6
    <3> QED BY <3>1, <3>1a, <3>2, Grid12
  <2> QED BY <1>2, <1>4, <2>2, <2>3, <2>5
<1> QED BY <1>3, <1>7, <1>8

(* What is left of an answer falls with Reach.                             *)
LEMMA FadingKept ==
  ASSUME RetimeGrid, BusTypeOK, CoreShape, EngineShape, Acks, Fresh, Fading, Moved
  PROVE  Fading'
<1> SUFFICES ASSUME rt_as_n' PROVE Fading'
  BY DEF Fading
<1>1. ReleaseMoved /\ SyncMoved /\ FlagsBoolean
  BY DEF Moved
<1>2. CASE rt_as_n
  <2>1. Reach \in Nat /\ Reach' \in Nat /\ Reach <= Reach' + 1 /\ lag \in Nat
    BY ReachFalls, Grid12 DEF BusTypeOK
  <2>2. /\ dtack' \/ vpa' \/ berr' => lag' <= Reach'
        /\ dtack' \/ vpa' => lag' + 3 <= Reach'
    <3>1. dtack' \/ vpa' \/ berr' =>
            /\ lag' = lag - 1 /\ lag > 0
            /\ (dtack' <=> dtack) /\ (vpa' <=> vpa) /\ (berr' <=> berr)
      BY <1>1, <1>2 DEF ReleaseMoved
    <3>2. /\ dtack \/ vpa \/ berr => lag <= Reach
          /\ dtack \/ vpa => lag + 3 <= Reach
      BY <1>2 DEF Fading
    <3> DEFINE r == Reach  r2 == Reach'
    <3>3. r \in Nat /\ r2 \in Nat /\ r <= r2 + 1 /\ lag \in Nat
      BY <2>1
    <3>4. \A l \in Nat, x \in Nat, y \in Nat : x <= y + 1 /\ l > 0 =>
             (l <= x => l - 1 <= y) /\ (l + 3 <= x => l - 1 + 3 <= y)
      OBVIOUS
    <3> HIDE DEF r, r2
    <3>5. lag > 0 => (lag <= r => lag - 1 <= r2) /\ (lag + 3 <= r => lag - 1 + 3 <= r2)
      BY <3>3, <3>4
    <3> QED BY <3>1, <3>2, <3>5 DEF r, r2
  <2>3. /\ dtack \/ vpa => 2 <= Reach'
        /\ s_dtack[1] \/ s_vpa[1] => 1 <= Reach'
    <3>1. /\ dtack \/ vpa => lag + 3 <= Reach
          /\ s_dtack[1] \/ s_vpa[1] => 2 <= Reach
      BY <1>2 DEF Fading
    <3>2. \A l \in Nat, x \in Nat, y \in Nat : x <= y + 1 =>
             (l + 3 <= x => 2 <= y) /\ (2 <= x => 1 <= y)
      OBVIOUS
    <3>3. (lag + 3 <= Reach => 2 <= Reach') /\ (2 <= Reach => 1 <= Reach')
      BY <2>1, <3>2
    <3> QED BY <3>1, <3>3
  <2> QED BY <1>1, <2>2, <2>3 DEF Fading, SyncMoved
<1>3. CASE ~rt_as_n
  <2>1. REL \in 0..3 /\ Reach' \in Nat /\ lag' = REL /\ REL <= Reach'
    BY <1>3, RisesEarly, Grid12
  <2>2. ~(dtack' \/ vpa' \/ dtack \/ vpa \/ s_dtack[1] \/ s_vpa[1]) \/ REL + 3 <= Reach'
    BY <1>3, RisesEarly
  <2> QED BY <1>1, <2>1, <2>2 DEF Fading, SyncMoved
<1> QED BY <1>2, <1>3

(* The bus on a read of a device.                                          *)
LEMMA BusReads ==
  ASSUME RetimeGrid, EngineShape, CoreShape, ~rt_as_n, ~as_n, kind = "read", rt_a = adr,
         FlagsBoolean, s \notin Rest \cup {"S2"}
  PROVE  /\ adr \in Ram /\ dtack /\ lag = 0 => cpu_d = mem[adr]
         /\ adr \in Cia /\ ~rt_vma_n /\ e_pin => cpu_d = mem[adr]
<1>1. /\ cpu_as_n = rt_as_n /\ cpu_rw = rt_rw /\ cpu_a = rt_a
      /\ cpu_fc7 = (rt_a \in Levels) /\ cpu_vma_n = rt_vma_n /\ d_oe = rt_d_oe
  BY Pins, Grid12
<1>2. ~rt_d_oe /\ rt_rw
  BY DEF EngineShape
<1>3. Devices
  BY Grid12
<1>4. adr \in Ram \cup Cia => adr \notin Levels
  BY <1>3 DEF Devices
<1> QED BY <1>1, <1>2, <1>3, <1>4 DEF cpu_d, Devices

(* What the devices latch.                                                 *)
RamLatches == ~rt_as_n /\ rt_as_n' /\ rt_a \in Ram /\ rt_ds /\ ~rt_rw'
CiaLatches == EFalls /\ VmaHeld /\ rt_a \in Cia /\ ~rt_rw'

(* Memory changes by these two.                                            *)
LEMMA MemMoves ==
  ASSUME RetimeGrid, Latch
  PROVE  mem' = IF RamLatches \/ CiaLatches
                THEN [mem EXCEPT ![rt_a'] = IF rt_d_oe' THEN rt_d' ELSE NoData] ELSE mem
BY Pins, Grid12 DEF Latch, AsRises, RamLatches, CiaLatches

(* When E falls.                                                           *)
LEMMA FallsOfE ==
  ASSUME RetimeGrid, BusTypeOK, Moved
  PROVE  EFalls <=> ph = 0 /\ e_cnt = E_PERIOD - 1
<1>1. /\ e_cnt' = IF ph # 0 THEN e_cnt ELSE IF e_cnt = E_PERIOD-1 THEN 0 ELSE e_cnt + 1
      /\ e_cnt \in 0..E_PERIOD-1 /\ E_RISE \in 1..E_PERIOD-1 /\ E_PERIOD \in Nat
      /\ E_RISE' = E_RISE
  BY Grid12 DEF Moved, BusTypeOK, CoreBusTypeOK
<1> QED BY <1>1 DEF EFalls, e_pin

(* What VMA does in a cycle.                                               *)
LEMMA VmaMoves ==
  ASSUME RetimeGrid, BusTypeOK, CoreShape, EngineShape, Acks, Fresh, Vma, Moved, ~as_n, ~rt_as_n
  PROVE  /\ VmaHeld <=> rt_vst \in {1, 3} /\ ~VmaEnd
         /\ VmaEFall <=> rt_vst = 1 /\ EFalls
         /\ EFalls /\ VmaHeld <=> rt_vst = 1 /\ rt_vst' = 3
         /\ rt_vst' \in {0, 1, 2, 3}
         /\ rt_vst = 0 => rt_vst' \in {0, 1}
         /\ rt_vst = 1 => rt_vst' \in {1, 3}
         /\ rt_vst = 3 => rt_vst' = IF ph = 6 THEN 2 ELSE 3
         /\ rt_vst = 2 => rt_vst' = 2
         /\ rt_vst # rt_vst' => In6800
         /\ rt_vst = 3 /\ rt_vst' = 2 => VmaEnd
         /\ rt_vma_n' <=> rt_vst' \notin {1, 3}
<1>1. /\ CycleMoved /\ FlagsBoolean /\ ph \in 0..11 /\ rt_vst \in 0..3
      /\ EFalls <=> ph = 0 /\ e_cnt = E_PERIOD - 1
  BY FallsOfE DEF Moved, BusTypeOK, RetimeTypeOK
<1>2. rt_vst # 0 => In6800
  BY <1>1, Grid12 DEF Vma, In6800, core_fc7, CoreShape, Devices
<1>3. /\ VmaEFall <=> rt_vst = 1 /\ EFalls
      /\ VmaEnd <=> rt_vst = 3 /\ ph = 6
      /\ VmaStart => rt_vst = 0 /\ In6800
  BY <1>1, <1>2, Grid12 DEF VmaEFall, VmaEnd, VmaStart, e_fall_tick, tick_r, tick_f
<1>4. /\ rt_vst' = IF VmaStart THEN 1 ELSE IF VmaEnd THEN 2 ELSE IF VmaEFall THEN 3 ELSE rt_vst
      /\ rt_vma_n' <=> IF VmaStart THEN FALSE ELSE IF VmaEnd THEN TRUE ELSE rt_vma_n
      /\ rt_vma_n <=> rt_vst \notin {1, 3}
  BY <1>1 DEF CycleMoved, Vma
<1>5. rt_vma_n' <=> rt_vst' \notin {1, 3}
  BY <1>3, <1>4, <1>1
<1>6. VmaHeld <=> ~rt_vma_n /\ ~rt_vma_n'
  BY Pins, Grid12 DEF VmaHeld
<1>7. VmaHeld <=> rt_vst \in {1, 3} /\ ~VmaEnd
  BY <1>1, <1>3, <1>4, <1>6
<1>8. rt_vst = 3 => ~EFalls
  BY <1>1 DEF Vma
<1>9. EFalls /\ VmaHeld <=> rt_vst = 1 /\ rt_vst' = 3
  BY <1>1, <1>3, <1>4, <1>7, <1>8
<1> QED BY <1>1, <1>2, <1>3, <1>4, <1>5, <1>7, <1>9

(* VMA, one clock on.                                                      *)
LEMMA VmaKept ==
  ASSUME RetimeGrid, BusTypeOK, CoreShape, EngineShape, Acks, Fresh, Fading, Vma, Moved, Latch
  PROVE  Vma'
<1>1. /\ CoreMoved /\ RestMoved /\ CycleMoved /\ ReleaseMoved /\ RespondMoved /\ SyncMoved
      /\ FlagsBoolean /\ Devices
      /\ ph \in 0..11 /\ ph' = IF ph = 11 THEN 0 ELSE ph + 1
      /\ as_n <=> s \notin Low
      /\ rt_vst \in 0..3
  BY Grid12 DEF Moved, CoreShape, BusTypeOK, RetimeTypeOK
<1>2. CASE as_n
  <2>1. rt_vst' = 0 /\ rt_vma_n' /\ rt_as_n'
    BY <1>1, <1>2 DEF RestMoved
  <2> QED BY <2>1 DEF Vma
<1>3. CASE ~as_n /\ rt_as_n
  <2>1. rt_vst = 0 /\ rt_vma_n
    BY <1>1, <1>3 DEF Vma
  <2>2. rt_vst' = 0 /\ rt_vma_n'
    BY <1>1, <1>3, <2>1 DEF CycleMoved, VmaStart, VmaEnd, VmaEFall, In6800
  <2>3. edges' = 0
    BY <1>1, <1>3 DEF ReleaseMoved
  <2> QED BY <2>2, <2>3 DEF Vma
<1>4. CASE ~as_n /\ ~rt_as_n
  <2>1. /\ ~rt_as_n' /\ adr' = adr /\ kind' = kind /\ rt_a = adr
        /\ s \in {"S3", "S4", "SW", "S5", "S6"} /\ s' \in {"S4", "SW", "S5", "S6", "S7"}
    BY <1>4, StaysLow
  <2>2. /\ EFalls /\ VmaHeld <=> rt_vst = 1 /\ rt_vst' = 3
        /\ rt_vst' \in {0, 1, 2, 3}
        /\ rt_vst = 0 => rt_vst' \in {0, 1}
        /\ rt_vst = 1 => rt_vst' \in {1, 3}
        /\ rt_vst = 3 => rt_vst' = IF ph = 6 THEN 2 ELSE 3
        /\ rt_vst = 2 => rt_vst' = 2
        /\ rt_vst # rt_vst' => In6800
        /\ rt_vst = 3 /\ rt_vst' = 2 => VmaEnd
        /\ rt_vma_n' <=> rt_vst' \notin {1, 3}
        /\ EFalls <=> ph = 0 /\ e_cnt = E_PERIOD - 1
    BY <1>4, VmaMoves, FallsOfE
  <2>3. rt_vst' # 0 => /\ ~rt_as_n' /\ s_vpa'[2] /\ adr' \in Cia
                       /\ s' \in {"S4", "SW"} \cup Late
    <3>1. rt_vst' # 0 => rt_vst # 0 \/ In6800
      BY <2>2
    <3>2. In6800 => s_vpa[2] /\ adr \in Cia
      BY <1>1, <1>4 DEF In6800, Fresh, core_fc7, CoreShape, Address, Devices
    <3>3. s_vpa[2] => s_vpa'[2]
      BY <1>1, <1>4 DEF Fresh, SyncMoved
    <3> QED BY <2>1, <3>1, <3>2, <3>3 DEF Vma, Late
  <2>4. rt_vst' = 3 => ph' \in 1..6 /\ e_cnt' = 0
    <3>1. e_cnt' = IF ph # 0 THEN e_cnt ELSE IF e_cnt = E_PERIOD-1 THEN 0 ELSE e_cnt + 1
      BY DEF Moved
    <3>2. CASE rt_vst = 1 /\ rt_vst' = 3
      BY <1>1, <2>2, <3>1, <3>2
    <3>3. CASE rt_vst = 3 /\ rt_vst' = 3
      BY <1>1, <2>2, <3>1, <3>3 DEF Vma
    <3> QED BY <1>1, <2>2, <3>2, <3>3
  <2>5. edges' = IF rt_vst' \in {2, 3} THEN 1 ELSE 0
    <3>1. /\ edges = IF rt_vst \in {2, 3} THEN 1 ELSE 0
          /\ edges' = IF EFalls /\ VmaHeld /\ edges < 2 THEN edges + 1 ELSE edges
      BY <1>1, <1>4 DEF Vma, RespondMoved
    <3>2. CASE rt_vst = 1 /\ rt_vst' = 3
      BY <2>2, <3>1, <3>2
    <3>3. CASE ~(rt_vst = 1 /\ rt_vst' = 3)
      <4>1. rt_vst' \in {2, 3} <=> rt_vst \in {2, 3}
        BY <1>1, <2>2, <3>3
      <4> QED BY <2>2, <3>1, <3>3, <4>1
    <3> QED BY <3>2, <3>3
  <2>6. rt_vst' \in {2, 3} /\ kind' = "read" => rt_rd' = mem'[adr']
    <3> SUFFICES ASSUME rt_vst' \in {2, 3}, kind = "read" PROVE rt_rd' = mem'[adr]
      BY <2>1
    <3>1. rw
      BY <2>1 DEF CoreShape
    <3>2. rt_rw'
      BY <1>1, <1>4, <2>1, <3>1 DEF CycleMoved, EngineShape, Rest
    <3>3. mem' = mem
      BY <3>2, MemMoves DEF RamLatches, CiaLatches
    <3>4. rt_rd' = IF s_vpa[2] => ~rt_vma_n /\ e_pin THEN cpu_d ELSE rt_rd
      BY <1>1, <1>4, <3>1 DEF CycleMoved
    <3>5. CASE rt_vst = 1
      <4>1. ~rt_vma_n /\ adr \in Cia /\ EFalls
        BY <1>1, <2>2, <3>5 DEF Vma
      <4>2. e_pin
        BY <4>1 DEF EFalls
      <4>3. cpu_d = mem[adr]
        BY <1>1, <1>4, <2>1, <4>1, <4>2, BusReads DEF Rest
      <4> QED BY <3>3, <3>4, <4>2, <4>1, <4>3
    <3>6. CASE rt_vst \in {2, 3}
      <4>1. s_vpa[2] /\ rt_rd = mem[adr]
        BY <3>6 DEF Vma
      <4>2. rt_vma_n \/ ~e_pin
        BY <3>6, Grid12 DEF Vma, e_pin
      <4> QED BY <3>3, <3>4, <4>1, <4>2
    <3> QED BY <1>1, <2>2, <3>5, <3>6
  <2>7. rt_vst' = 2 => rt_dtack_lo'
    BY <1>1, <1>4, <2>2 DEF CycleMoved, Vma
  <2> QED BY <2>2, <2>3, <2>4, <2>5, <2>6, <2>7 DEF Vma
<1> QED BY <1>1, <1>2, <1>3, <1>4 DEF FlagsBoolean

(* The lag falls while the acknowledge goes through the synchronisers and  *)
(* the core through S5 and S6.                                             *)
LEMMA TrailingKept ==
  ASSUME RetimeGrid, BusTypeOK, CoreShape, EngineShape, Acks, Fresh, Fading, Vma, Trailing, Moved,
         Latch, Acks'
  PROVE  Trailing'
<1> SUFFICES ASSUME ~rt_as_n', dtack' PROVE Trailing'
  BY DEF Trailing
<1>1. /\ CoreMoved /\ RestMoved /\ CycleMoved /\ RespondMoved /\ SyncMoved /\ FlagsBoolean /\ Devices
      /\ lag \in Nat /\ DATA_LAG \in 0..4
  BY Grid12 DEF Moved, BusTypeOK
<1>2. ~as_n /\ ~rt_as_n
  BY <1>1, FallsClean DEF RestMoved
<1>3. /\ adr' = adr /\ kind' = kind /\ rt_a = adr /\ ~int_space
      /\ s \in {"S3", "S4", "SW", "S5", "S6"} /\ s' \in {"S4", "SW", "S5", "S6", "S7"}
  BY <1>2, StaysLow
<1>4. adr \in Ram
  BY <1>1, <1>2, <1>3 DEF RespondMoved, Fresh
<1>5. ~core_berr_lo /\ ~(core_berr_lo')
  BY <1>1, <1>3, <1>4 DEF Acks, Devices
<1>6. /\ ~AnswerAutovector /\ ~VmaEnd /\ ~s_vpa[2]
      /\ rt_dtack_lo' <=> rt_dtack_lo \/ (Answer /\ s_dtack[2])
  <2>1. kind # "iack" /\ ~vpa
    BY <1>1, <1>2, <1>4 DEF CoreShape, Devices, Fresh
  <2>2. ~AnswerAutovector /\ ~VmaEnd /\ ~s_vpa[2]
    BY <1>1, <1>2, <2>1, Grid12 DEF AnswerAutovector, core_fc7, VmaEnd, In6800, Fresh
  <2> QED BY <1>1, <1>2, <2>2 DEF CycleMoved
<1>7. s' \in Late => rt_dtack_lo'
  BY <1>5 DEF Acks
<1>8. CASE ~dtack
  <2>1. ~s_dtack[1] /\ ~s_dtack[2] /\ ~rt_dtack_lo
    BY <1>1, <1>2, <1>4, <1>8 DEF Fresh, Acks
  <2>2. ~rt_dtack_lo'
    BY <1>6, <2>1
  <2>3. ~s_dtack'[1] /\ ~s_dtack'[2] /\ lag' = DATA_LAG
    BY <1>1, <1>2, <1>8, <2>1 DEF SyncMoved, RespondMoved
  <2>4. s' # "S6"
    BY <1>7, <2>2 DEF Late
  <2> QED BY <1>1, <1>7, <2>2, <2>3, <2>4 DEF Trailing
<1>9. CASE dtack
  <2>1. lag' = IF lag > 0 THEN lag - 1 ELSE 0
    BY <1>1, <1>2, <1>9 DEF RespondMoved
  <2>2. /\ lag <= 4 - (IF s_dtack[2] THEN 2 ELSE IF s_dtack[1] THEN 1 ELSE 0)
        /\ rt_dtack_lo => lag <= 1
        /\ s \in Late => lag = 0
    BY <1>2, <1>9 DEF Trailing
  <2>3. s_dtack'[1] /\ s_dtack'[2] = s_dtack[1] /\ (s_dtack[2] => s_dtack[1])
    BY <1>1, <1>2, <1>9 DEF SyncMoved, Fresh
  <2>4. lag' <= 4 - (IF s_dtack'[2] THEN 2 ELSE IF s_dtack'[1] THEN 1 ELSE 0)
    <3>1. CASE s_dtack[1]
      <4>1. lag <= 3
        BY <1>1, <2>2, <2>3, <3>1
      <4>2. lag' <= 2
        BY <1>1, <2>1, <4>1
      <4> QED BY <2>3, <3>1, <4>2
    <3>2. CASE ~s_dtack[1]
      <4>1. lag <= 4
        BY <1>1, <2>2, <2>3, <3>2
      <4>2. lag' <= 3
        BY <1>1, <2>1, <4>1
      <4> QED BY <1>1, <2>3, <3>2, <4>2
    <3> QED BY <3>1, <3>2
  <2>5. rt_dtack_lo' => lag' <= 1
    <3>1. rt_dtack_lo' => lag <= 2
      BY <1>1, <1>6, <2>2
    <3> QED BY <1>1, <2>1, <3>1
  <2>6. s' \in Late => lag' = 0
    <3>1. s' \in Late => rt_dtack_lo
      BY <1>1, <1>2, <1>3, <1>5 DEF CoreMoved, Late, Acks
    <3> QED BY <1>1, <2>1, <2>2, <3>1
  <2>7. s' = "S6" /\ kind' = "read" => rt_rd' = mem'[adr']
    <3> SUFFICES ASSUME s' = "S6", kind = "read" PROVE rt_rd' = mem'[adr]
      BY <1>3
    <3>1. rw /\ s = "S5" /\ lag = 0
      BY <1>1, <1>3, <2>2 DEF CoreShape, CoreMoved, Late
    <3>2. rt_rw'
      BY <1>1, <1>2, <1>3, <3>1 DEF CycleMoved, EngineShape, Rest
    <3>3. mem' = mem
      BY <3>2, MemMoves DEF RamLatches, CiaLatches
    <3>4. rt_rd' = cpu_d
      BY <1>1, <1>2, <1>6, <3>1 DEF CycleMoved
    <3>5. cpu_d = mem[adr]
      BY <1>1, <1>2, <1>3, <1>4, <1>9, <3>1, BusReads DEF Rest
    <3> QED BY <3>3, <3>4, <3>5
  <2> QED BY <2>4, <2>5, <2>6, <2>7 DEF Trailing
<1> QED BY <1>1, <1>8, <1>9 DEF FlagsBoolean

(* A BERR that is left over goes as fast as the other engine goes on.      *)
LEMMA StaleKept ==
  ASSUME RetimeGrid, BusTypeOK, CoreShape, EngineShape, Acks, Fresh, Fading, Grid, Stale, Moved,
         BridgeMoved
  PROVE  Stale'
<1>1. /\ ReleaseMoved /\ RespondMoved /\ SyncMoved /\ FlagsBoolean /\ StMoved /\ FlagsMoved
      /\ ph \in 0..11 /\ ph' = IF ph = 11 THEN 0 ELSE ph + 1
      /\ lag \in Nat /\ lag' \in Nat /\ (as_n <=> s \notin Low)
      /\ REL \in 0..3 /\ PH_ACK \in 0..5 /\ PH_ACK + REL <= 6
  BY Grid12, EnvTyped DEF Moved, BridgeMoved, CoreShape, BusTypeOK
<1> SUFFICES ASSUME berr' \/ s_berr'[1] \/ s_berr'[2], ~Own'
             PROVE  /\ st' \in {"S6", "S7", "S0", "IDLE"} /\ (st' = "S6" => term')
                    /\ Beat' + Left' <= 15
  BY DEF Stale
<1>2. CASE Own
  <2>1. ~rt_as_n /\ berr /\ berr'
    BY <1>1, <1>2 DEF Own, RespondMoved
  <2>2. rt_as_n'
    BY <2>1 DEF Own
  <2>3. as_n /\ s = "S7" /\ lag' = REL
    BY <2>1, <2>2, RisesEarly
  <2>4. core_berr_lo
    BY <2>1, <2>3 DEF Acks, Late, Fresh
  <2>5. /\ term /\ st = IF ph <= 6 THEN "S6" ELSE "S7"
        /\ ph \in {PH_ACK + 4, PH_ACK + 5}
    BY <2>3, <2>4, Grid12 DEF Acks, AckPhase
  <2>6. /\ st' \in {"S6", "S7"} /\ term'
        /\ ph' \in 1..11 /\ ph' + REL <= 12
    BY <1>1, <2>5 DEF StMoved, FlagsMoved
  <2>7. Beat' = ph' /\ Left' = REL + 3
    <3>1. st' \in {"S6", "S7"} /\ ph' # 0
      BY <2>6
    <3>1a. Beat' = ph'
      BY <3>1, Zenon DEF Beat
    <3>2. Left' = lag' + 3
      BY <2>1 DEF Left
    <3> QED BY <2>3, <3>1a, <3>2
  <2>8. \A x \in 1..11, l \in 0..3 : x + l <= 12 => x + (l + 3) <= 15
    OBVIOUS
  <2>9. ph' + (REL + 3) <= 15
    BY <1>1, <2>6, <2>8
  <2> QED BY <2>6, <2>7, <2>9
<1>3. CASE ~Own
  <2>1. /\ berr \/ s_berr[1]
        /\ berr' => berr /\ rt_as_n /\ lag > 0 /\ lag' = lag - 1
        /\ s_berr'[1] = berr
    <3>1. berr' => rt_as_n
      <4> SUFFICES ASSUME berr', ~rt_as_n PROVE FALSE
        BY <1>1 DEF FlagsBoolean
      <4>1. rt_as_n' /\ ~berr
        BY <1>1, <1>3 DEF Own
      <4>2. as_n /\ s = "S7" /\ rt_a = adr /\ adr \in Silent
        BY <1>1, <4>1, RisesEarly DEF RespondMoved, EngineShape, Rest
      <4> QED BY <4>1, <4>2 DEF Acks, Late
    <3>2. berr' => berr /\ lag > 0 /\ lag' = lag - 1
      BY <1>1, <3>1 DEF ReleaseMoved
    <3> QED BY <1>1, <3>1, <3>2 DEF SyncMoved
  <2>2. /\ st \in {"S6", "S7", "S0", "IDLE"} /\ (st = "S6" => term)
        /\ Beat + Left <= 15
    BY <1>3, <2>1 DEF Stale
  <2>3. Left \in Nat /\ 2 <= Left /\ Left' \in Nat /\ Left' + 1 <= Left
    <3>1. CASE berr
      <4>1. Left = lag + 3 /\ Left' \in {lag' + 3, 2} /\ (Left' = lag' + 3 => Left' = 2 \/ lag' = lag - 1)
        BY <2>1, <3>1 DEF Left
      <4>2. CASE berr'
        <5>1. Left' = lag' + 3 /\ lag' = lag - 1 /\ lag > 0
          BY <2>1, <4>2 DEF Left
        <5> QED BY <1>1, <4>1, <5>1
      <4>3. CASE ~berr'
        <5>1. Left' = 2
          BY <2>1, <3>1, <4>3 DEF Left
        <5> QED BY <1>1, <4>1, <5>1
      <4> QED BY <4>2, <4>3
    <3>2. CASE ~berr
      <4>1. Left = 2 /\ Left' = 1
        BY <1>1, <2>1, <3>2 DEF Left
      <4> QED BY <4>1
    <3> QED BY <3>1, <3>2
  <2>3a. Beat \in Nat /\ Beat <= 13
    <3>1. Beat \in Nat
      BY <1>1 DEF Beat
    <3> QED BY <2>2, <2>3, <3>1
  <2>4. /\ st' \in {"S6", "S7", "S0", "IDLE"} /\ (st' = "S6" => term')
        /\ Beat \in Nat /\ Beat' \in Nat /\ Beat' <= Beat + 1
    <3>1. CASE st \in {"S6", "S7"}
      BY <1>1, <2>2, <3>1 DEF StMoved, FlagsMoved, Beat, Grid
    <3>2. CASE st \in {"S0", "IDLE"}
      BY <1>1, <2>2, <2>3a, <3>2 DEF StMoved, FlagsMoved, Beat, Grid
    <3> QED BY <2>2, <3>1, <3>2
  <2>5. \A b \in Nat, c \in Nat, l \in Nat, m \in Nat :
           b + l <= 15 /\ c <= b + 1 /\ m + 1 <= l => c + m <= 15
    OBVIOUS
  <2> QED BY <2>2, <2>3, <2>4, <2>5
<1> QED BY <1>2, <1>3

(* A sample that sees BERR sees the cycle's own, as Stale leaves nothing   *)
(* to see in S5.                                                           *)
LEMMA RefusalKept ==
  ASSUME RetimeGrid, BusTypeOK, CoreShape, EngineShape, Acks, Fresh, Grid, Stale, Refusal, Moved,
         BridgeMoved
  PROVE  Refusal'
<1> SUFFICES ASSUME berr_go' PROVE (~bx_acked' => ~as_n' /\ Own') /\ term'
  BY DEF Refusal
<1>1. /\ CoreMoved /\ CoreShape' /\ RespondMoved /\ FlagsBoolean /\ FlagsMoved /\ Devices
      /\ {berr_go, bx_acked} \subseteq BOOLEAN
  BY Grid12 DEF Moved, BridgeMoved, BusTypeOK, BridgeTypeOK
<1>2. term'
  BY <1>1 DEF FlagsMoved, Refusal
<1>3. ASSUME ~bx_acked' PROVE ~as_n' /\ Own'
  <2>1. Own /\ ~core_berr_lo
    <3>1. CASE SeesBerr
      <4>1. smp_cnt > 0 /\ s_berr[2]
        BY <3>1, Grid12 DEF SeesBerr, Sampling, SampleBerr
      <4>2. st = "S5"
        BY <4>1 DEF Grid
      <4> QED BY <1>1, <4>1, <4>2, Grid12 DEF Stale, Acks
    <3>2. CASE ~SeesBerr
      <4>1. berr_go /\ ~bx_acked
        BY <1>1, <1>3, <3>2 DEF FlagsMoved
      <4> QED BY <1>1, <4>1 DEF Refusal, Acks
    <3> QED BY <3>1, <3>2
  <2>2. ~rt_as_n /\ berr /\ adr \in Silent
    BY <2>1 DEF Own, Fresh
  <2>3. ~rt_dtack_lo /\ ~core_berr_lo
    BY <2>1, <2>2 DEF Acks
  <2>4. ~as_n
    <3> SUFFICES ASSUME as_n PROVE FALSE
      BY <1>1 DEF FlagsBoolean
    <3>1. s = "S7"
      BY <1>1, <2>2 DEF CoreShape, Low, EngineShape, Rest, CoreMoved, SStates
    <3> QED BY <2>2, <2>3, <3>1 DEF Acks, Late
  <2>5. ~rt_as_n' /\ s' \in {"S4", "SW"}
    BY <2>2, <2>3, <2>4, StaysLow
  <2>6. ~as_n'
    BY <1>1, <2>5 DEF CoreShape, Low
  <2>7. berr'
    BY <1>1, <2>2 DEF RespondMoved
  <2> QED BY <2>5, <2>6, <2>7 DEF Own
<1> QED BY <1>2, <1>3

(* What Clock does to promised.                                            *)
Promises ==
  promised' = IF s = "S6" /\ kind = "write" /\ adr \in Device
              THEN [promised EXCEPT ![adr] = dout] ELSE promised

(* RAM takes its write when AS rises: strobes, data and address are still  *)
(* those of the cycle.                                                     *)
LEMMA AheadAtRest ==
  ASSUME RetimeGrid, BusTypeOK, CoreShape, EngineShape, Acks, Vma, Ahead, Moved, Latch, Promises,
         as_n
  PROVE  Ahead'
<1>1. /\ CoreMoved /\ RestMoved /\ FlagsBoolean /\ Devices
      /\ s \in Rest \cup {"S7"} /\ promised' = promised
  BY Grid12 DEF Moved, CoreShape, Low, Rest, CoreMoved, SStates, Promises
<1>2. rt_as_n' /\ rt_vst' = 0 /\ rt_vma_n'
  BY <1>1 DEF RestMoved
<1>3. ~CiaLatches
  BY <1>2, Pins, Grid12 DEF CiaLatches, VmaHeld
<1>4. mem' = promised
  <2>1. CASE s = "S7" /\ ~rt_as_n /\ kind = "write" /\ adr \in Ram
    <3>1. rt_dtack_lo /\ rt_ds /\ ph # 1
      BY <1>1, <2>1 DEF Acks, Late, Devices, AckPhase
    <3>2. rt_a' = adr /\ rt_a = adr /\ ~rt_rw' /\ rt_d_oe' /\ rt_d' = rt_d
      BY <1>1, <2>1, <3>1 DEF RestMoved, EngineShape, Rest
    <3>3. RamLatches
      BY <1>2, <2>1, <3>1, <3>2 DEF RamLatches
    <3>4. mem' = [mem EXCEPT ![adr] = rt_d]
      BY <3>2, <3>3, MemMoves
    <3> QED BY <2>1, <3>4 DEF Ahead
  <2>2. CASE ~(s = "S7" /\ ~rt_as_n /\ kind = "write" /\ adr \in Ram)
    <3>1. mem = promised
      BY <1>1, <2>2 DEF Ahead, Vma, EngineShape, Rest
    <3>2. ~RamLatches
      BY <1>1, <2>2 DEF RamLatches, RestMoved, EngineShape, Rest
    <3> QED BY <1>3, <3>1, <3>2, MemMoves
  <2> QED BY <2>1, <2>2
<1> QED BY <1>1, <1>2, <1>4 DEF Ahead

(* A CIA takes its write at the one fall of E with VMA held.               *)
LEMMA AheadLow ==
  ASSUME RetimeGrid, BusTypeOK, CoreShape, EngineShape, Acks, Fresh, Vma, Ahead, Moved, Latch,
         Promises, ~as_n, ~rt_as_n
  PROVE  Ahead'
<1>1. /\ CoreMoved /\ CycleMoved /\ FlagsBoolean /\ Devices
  BY Grid12 DEF Moved
<1>2. /\ ~rt_as_n' /\ adr' = adr /\ kind' = kind /\ rt_a = adr /\ rt_a' = adr
      /\ s \in {"S3", "S4", "SW", "S5", "S6"} /\ s' \in {"S4", "SW", "S5", "S6", "S7"}
      /\ (s' = "S7" <=> s = "S6")
  BY <1>1, StaysLow DEF CycleMoved, CoreMoved
<1>3. ~RamLatches /\ (CiaLatches <=> adr \in Cia /\ ~rt_rw' /\ rt_vst = 1 /\ rt_vst' = 3)
  BY <1>2, VmaMoves DEF RamLatches, CiaLatches
<1>4. CASE kind # "write"
  <2>1. rt_rw'
    BY <1>1, <1>2, <1>4 DEF CycleMoved, EngineShape, Rest, CoreShape
  <2>2. mem' = mem /\ promised' = promised /\ mem = promised
    BY <1>3, <1>4, <2>1, MemMoves DEF Promises, Ahead
  <2> QED BY <1>2, <1>4, <2>2 DEF Ahead
<1>5. CASE kind = "write" /\ s = "S6"
  <2>1. rt_d' = dout
    BY <1>1, <1>5 DEF CycleMoved, CoreShape, Low
  <2>2. CASE adr \in Ram
    <3>1. rt_vst = 0 /\ mem = promised /\ mem' = mem
      BY <1>1, <1>3, <1>5, <2>2, MemMoves DEF Vma, Devices, Ahead
    <3>2. promised' = [promised EXCEPT ![adr] = dout]
      BY <1>5, <2>2 DEF Promises, Device
    <3> QED BY <1>2, <1>5, <2>1, <2>2, <3>1, <3>2 DEF Ahead
  <2>3. CASE adr \in Cia
    <3>1. rt_vst = 2 /\ rt_vst' = 2
      BY <1>1, <1>5, <2>3, VmaMoves DEF Acks, Late, Devices
    <3>2. mem' = mem /\ mem = [promised EXCEPT ![adr] = dout]
      BY <1>1, <1>3, <1>5, <3>1, MemMoves DEF Ahead
    <3>3. promised' = [promised EXCEPT ![adr] = dout] /\ adr \notin Ram
      BY <1>1, <1>5, <2>3 DEF Promises, Device, Devices
    <3> QED BY <1>2, <1>5, <3>2, <3>3 DEF Ahead
  <2>4. CASE adr \notin Device
    <3>1. rt_vst = 0 /\ mem' = mem /\ mem = promised /\ promised' = promised
      BY <1>3, <1>5, <2>4, MemMoves DEF Vma, Device, Ahead, Promises
    <3> QED BY <1>2, <1>5, <2>4, <3>1 DEF Ahead, Device
  <2> QED BY <2>2, <2>3, <2>4 DEF Device
<1>6. CASE kind = "write" /\ s # "S6"
  <2>1. s' # "S7" /\ s # "S7" /\ promised' = promised /\ dout' = dout
    BY <1>1, <1>2, <1>6 DEF CoreMoved, Promises
  <2>2. ~rw /\ rt_d' = dout /\ rt_d_oe' /\ ~rt_rw'
    BY <1>1, <1>2, <1>6 DEF CycleMoved, CoreShape, Low, EngineShape, Rest
  <2>3. mem = IF rt_vst \in {2, 3} THEN [promised EXCEPT ![adr] = dout] ELSE promised
    BY <1>6, <2>1 DEF Ahead
  <2>4. mem' = IF rt_vst = 1 /\ rt_vst' = 3 THEN [mem EXCEPT ![adr] = dout] ELSE mem
    <3>1. rt_vst = 1 => adr \in Cia
      BY DEF Vma
    <3> QED BY <1>2, <1>3, <2>2, <3>1, MemMoves
  <2>5. mem' = IF rt_vst' \in {2, 3} THEN [promised EXCEPT ![adr] = dout] ELSE promised
    <3>1. CASE rt_vst = 1
      BY <1>2, <2>3, <2>4, <3>1, VmaMoves
    <3>2. CASE rt_vst # 1
      <4>1. rt_vst \in {0, 2, 3}
        BY <3>2 DEF BusTypeOK, RetimeTypeOK
      <4>2. rt_vst' \in {2, 3} <=> rt_vst \in {2, 3}
        BY <4>1, VmaMoves
      <4> QED BY <2>3, <2>4, <3>2, <4>2
    <3> QED BY <3>1, <3>2
  <2> QED BY <1>2, <1>6, <2>1, <2>5 DEF Ahead
<1> QED BY <1>4, <1>5, <1>6

(* The devices and the promised writes, one clock on.                      *)
LEMMA AheadKept ==
  ASSUME RetimeGrid, BusTypeOK, CoreShape, EngineShape, Acks, Fresh, Vma, Ahead, Moved, Latch,
         Promises
  PROVE  Ahead'
<1>1. CoreMoved /\ CycleMoved /\ FlagsBoolean /\ Devices
  BY Grid12 DEF Moved
<1>2. CASE ~as_n /\ rt_as_n
  <2>1. rt_vst = 0 /\ rt_vma_n /\ mem = promised
    BY <1>1, <1>2 DEF Vma, Ahead
  <2>2. s \in Low /\ (s = "S6" => adr \in Board /\ adr' = adr)
    BY <1>1, <1>2 DEF CoreShape, Acks, Late, CoreMoved
  <2>3. rt_vst' = 0
    BY <1>1, <1>2, <2>1 DEF CycleMoved, VmaStart, VmaEnd, VmaEFall, In6800
  <2>4. mem' = mem
    <3>1. ~RamLatches /\ ~CiaLatches
      BY <1>2, <2>1, Pins, Grid12 DEF RamLatches, CiaLatches, VmaHeld
    <3> QED BY <3>1, MemMoves
  <2>5. promised' = promised
    BY <1>1, <2>2 DEF Promises, Device, Devices
  <2>6. s' = "S7" => adr' \notin Ram
    BY <1>1, <2>2 DEF CoreMoved, Low, Devices
  <2> QED BY <2>1, <2>3, <2>4, <2>5, <2>6 DEF Ahead
<1> QED BY <1>1, <1>2, AheadAtRest, AheadLow DEF FlagsBoolean

(* After power-up, and after a reset.                                      *)
Calm ==
  /\ s = "S0" /\ as_n /\ rw /\ ~ds
  /\ IF kind = "iack" THEN adr \in Levels ELSE adr \in Address
  /\ s_dtack = Quiet /\ s_vpa = Quiet /\ s_berr = Quiet
  /\ st = "IDLE" /\ smp_cnt = 0 /\ ~berr_go /\ ~core_berr_lo
  /\ rt_as_n /\ ~rt_ds /\ rt_vma_n /\ ~rt_dtack_lo /\ ~rt_av /\ rt_vst = 0 /\ core_as_d2
  /\ ~dtack /\ ~vpa /\ ~berr /\ edges = 0 /\ ~refused
  /\ promised = mem

(* The invariant holds then.                                               *)
LEMMA CalmInv == BusTypeOK /\ Calm => RetimeInv
<1> SUFFICES ASSUME BusTypeOK, Calm PROVE RetimeInv
  OBVIOUS
<1>1. CoreShape /\ EngineShape
  BY DEF Calm, CoreShape, EngineShape, Low, Rest
<1>2. Acks /\ Vma /\ Fresh /\ Trailing /\ Ahead
  BY DEF Calm, Acks, Late, Vma, Fresh, Trailing, Ahead, BusTypeOK, RetimeTypeOK, CoreBusTypeOK
<1>3. Fading
  BY DEF Calm, Fading, Quiet
<1>4. Grid /\ Refusal
  BY DEF Calm, Grid, Refusal
<1>5. Stale
  BY DEF Calm, Stale, Quiet
<1> QED BY <1>1, <1>2, <1>3, <1>4, <1>5 DEF RetimeInv

(* It holds at first,                                                      *)
LEMMA InitInv == Init => RetimeInv
<1> SUFFICES ASSUME Init PROVE RetimeInv
  OBVIOUS
<1> USE CoreBusAssumption, BusAssumption, BridgeAssumption, RetimeAssumption
<1>1. CoreBusInit /\ BridgeInit /\ RetimeInit
  BY DEF Init
<1>2. CoreBusTypeOK
  BY CoreInitTyped
<1>3. BridgeTypeOK
  <2>1. {bx_rw, bx_ds, bx_iack, bx_taken, bx_acked, term, sync_go, berr_go,
         core_dtack_lo, core_berr_lo, av_valid} \subseteq BOOLEAN
    BY <1>1 DEF BridgeInit
  <2>2. st \in BridgeStates /\ bx_a \in Address \cup Levels /\ {rd_data, p_d} \subseteq Data \cup {NoData}
    BY <1>1, <1>2 DEF BridgeInit, BridgeStates, CoreBusTypeOK
  <2>3. av_num \in Nat /\ smp_cnt \in 0..SMP_N
    BY <1>1 DEF BridgeInit
  <2> QED BY <2>1, <2>2, <2>3 DEF BridgeTypeOK
<1>4. RetimeTypeOK
  <2>1. {rt_as_n, rt_ds, rt_vma_n, rt_dtack_lo, rt_av, rt_d_oe, rt_rw, core_as_d2} \subseteq BOOLEAN
    BY <1>1 DEF RetimeInit
  <2>2. {rt_rd, rt_d} \subseteq Data \cup {NoData} /\ rt_a \in Address \cup Levels
    BY <1>1, <1>2 DEF RetimeInit, CoreBusTypeOK
  <2>3. rt_vst \in 0..3
    BY <1>1 DEF RetimeInit
  <2> QED BY <2>1, <2>2, <2>3 DEF RetimeTypeOK
<1>4a. BusTypeOK
  <2>1. {mem, promised} \subseteq [Device -> Data \cup {NoData}]
    BY DEF Init
  <2>2. lag \in 0..(DATA_LAG + REL) /\ edges \in 0..2 /\ resets \in 0..MaxResets
    BY DEF Init
  <2>3. {dtack, vpa, berr, refused} \subseteq BOOLEAN
    BY DEF Init
  <2> QED BY <1>2, <1>3, <1>4, <2>1, <2>2, <2>3 DEF BusTypeOK
<1>5. Calm
  BY DEF Init, CoreBusInit, BridgeInit, RetimeInit, Calm
<1> QED BY <1>4a, <1>5, CalmInv

(* after a reset that comes at any time,                                   *)
LEMMA ResetKept ==
  ASSUME RetimeGrid, BusTypeOK, CoreShape, Reset
  PROVE  RetimeInv'
<1> USE Grid12
<1>0. CoreBusTypeOK /\ RetimeTypeOK /\ BridgeTypeOK
  BY DEF BusTypeOK
<1>1. CoreBusTypeOK'
  BY <1>0, CoreResetTyped
<1>2. BridgeTypeOK'
  <2>1. /\ {bx_rw', bx_ds', bx_iack', bx_taken', bx_acked', term', sync_go', berr_go',
            core_dtack_lo', core_berr_lo', av_valid'} \subseteq BOOLEAN
    BY <1>0 DEF Reset, BridgeReset, latchVars, BridgeTypeOK
  <2>2. /\ st' \in BridgeStates /\ bx_a' \in Address \cup Levels
        /\ {rd_data', p_d'} \subseteq Data \cup {NoData}
    BY <1>0 DEF Reset, BridgeReset, latchVars, BridgeTypeOK, BridgeStates
  <2>3. av_num' \in Nat /\ smp_cnt' \in 0..SMP_N
    BY <1>0 DEF Reset, BridgeReset, latchVars, BridgeTypeOK
  <2> QED BY <2>1, <2>2, <2>3 DEF BridgeTypeOK
<1>3. RetimeTypeOK'
  <2>1. {rt_as_n', rt_ds', rt_vma_n', rt_dtack_lo', rt_av', rt_d_oe', rt_rw', core_as_d2'} \subseteq BOOLEAN
    BY <1>0 DEF Reset, RetimeReset, RetimeTypeOK
  <2>2. {rt_rd', rt_d'} \subseteq Data \cup {NoData} /\ rt_a' \in Address \cup Levels
    BY <1>0 DEF Reset, RetimeReset, RetimeTypeOK
  <2>3. rt_vst' \in 0..3
    BY <1>0 DEF Reset, RetimeReset
  <2> QED BY <2>1, <2>2, <2>3 DEF RetimeTypeOK
<1>4. BusTypeOK'
  <2>1. mem' \in [Device -> Data \cup {NoData}] /\ promised' = mem'
    BY <1>3, MemTyped DEF Reset
  <2>2. resets' \in 0..MaxResets
    BY BusAssumption DEF Reset, BusTypeOK
  <2>3. lag' \in 0..(DATA_LAG + REL)
    BY DEF Reset
  <2>4. {dtack', vpa', berr', refused'} \subseteq BOOLEAN /\ edges' \in 0..2
    <3>1. dtack' = FALSE /\ vpa' = FALSE /\ berr' = FALSE /\ edges' = 0 /\ refused' = FALSE
      BY DEF Reset
    <3>2. dtack' \in BOOLEAN /\ vpa' \in BOOLEAN /\ berr' \in BOOLEAN /\ refused' \in BOOLEAN
      BY <3>1, Zenon
    <3> QED BY <3>1, <3>2
  <2>5. {mem', promised'} \subseteq [Device -> Data \cup {NoData}]
    BY <2>1
  <2> QED BY <1>1, <1>2, <1>3, <2>2, <2>3, <2>4, <2>5 DEF BusTypeOK
<1>5. Calm'
  BY DEF Reset, CoreReset, BridgeReset, RetimeReset, Calm, CoreShape
<1>6. (BusTypeOK /\ Calm => RetimeInv)'
  BY CalmInv, PTL
<1> QED BY <1>4, <1>5, <1>6

(* after a clock,                                                          *)
LEMMA ClockKept ==
  ASSUME RetimeGrid, RetimeInv, NEW int_ack \in BOOLEAN, Clock(int_ack)
  PROVE  RetimeInv'
<1>1. /\ BusTypeOK /\ CoreShape /\ EngineShape /\ Acks /\ Fresh /\ Fading /\ Vma /\ Trailing
      /\ Ahead /\ Grid /\ Stale /\ Refusal
  BY DEF RetimeInv
<1>2. Moved
  BY <1>1, Moves
<1>3. BridgeMoved
  BY <1>1, Grid12, BridgeMoves DEF Clock, BusTypeOK, BridgeTypeOK, StTyped
<1>4. Latch /\ Promises
  BY DEF Clock, Motherboard, Promises
<1>5. BusTypeOK'
  BY <1>1, TypeKept
<1>6. CoreShape'
  BY <1>2 DEF Moved
<1>7. EngineShape'
  BY <1>1, <1>2, EngineShapeKept
<1>8. Acks'
  BY <1>1, <1>2, <1>3, AcksKept
<1>9. Fresh'
  BY <1>1, <1>2, FreshKept
<1>10. Fading'
  BY <1>1, <1>2, FadingKept
<1>11. Vma'
  BY <1>1, <1>2, <1>4, VmaKept
<1>12. Trailing'
  BY <1>1, <1>2, <1>4, <1>8, TrailingKept
<1>13. Ahead'
  BY <1>1, <1>2, <1>4, AheadKept
<1>14. Grid'
  BY <1>1, <1>2, <1>3, Grid12, GridKept DEF Moved
<1>15. Stale'
  BY <1>1, <1>2, <1>3, StaleKept
<1>16. Refusal'
  BY <1>1, <1>2, <1>3, RefusalKept
<1> QED BY <1>5, <1>6, <1>7, <1>8, <1>9, <1>10, <1>11, <1>12, <1>13, <1>14, <1>15, <1>16 DEF RetimeInv

(* and so after every step.                                                *)
LEMMA StepKept == RetimeGrid /\ RetimeInv /\ [Next]_vars => RetimeInv'
<1> SUFFICES ASSUME RetimeGrid, RetimeInv, [Next]_vars PROVE RetimeInv'
  OBVIOUS
<1>1. ASSUME Reset PROVE RetimeInv'
  BY <1>1, ResetKept DEF RetimeInv
<1>2. ASSUME NEW int_ack \in BOOLEAN, Clock(int_ack) PROVE RetimeInv'
  BY <1>2, ClockKept
<1>3. ASSUME UNCHANGED vars PROVE RetimeInv'
  BY <1>3 DEF vars, clockVars, syncVars, coreVars, bridgeVars, latchVars, retimeVars, mbVars,
     RetimeInv, BusTypeOK, CoreBusTypeOK, BridgeTypeOK, RetimeTypeOK, CoreShape, EngineShape, Acks,
     AckPhase, Fresh, Fading, Reach, ToS2, ToTick, Vma, Trailing, Ahead, Grid, Stale, Own, Beat,
     Left, Refusal
<1> QED BY <1>1, <1>2, <1>3 DEF Next

-----------------------------------------------------------------------------
(* What the invariant says of the properties: between cycles nothing is    *)
(* under way.                                                              *)
LEMMA InvWritesLand ==
  ASSUME RetimeGrid, RetimeInv
  PROVE  WritesLand
<1>1. BusTypeOK /\ Vma /\ Ahead
  BY DEF RetimeInv
<1> SUFFICES ASSUME as_n, rt_as_n PROVE mem = promised
  BY <1>1, Pins, Grid12 DEF WritesLand
<1> QED BY <1>1 DEF Vma, Ahead

(* In S6 the captured word is the device's.                                *)
LEMMA InvReadsReturn ==
  ASSUME RetimeGrid, RetimeInv
  PROVE  ReadsReturn
<1>1. /\ CoreShape /\ EngineShape /\ Acks /\ Fresh /\ Vma /\ Trailing /\ Devices /\ RETIME
      /\ {rt_as_n, dtack, vpa, core_berr_lo, rt_av, rt_dtack_lo} \subseteq BOOLEAN
  BY Grid12 DEF RetimeInv, BusTypeOK, BridgeTypeOK, RetimeTypeOK
<1> SUFFICES ASSUME s = "S6", kind = "read", adr \in Device, ~core_berr_lo
             PROVE  core_iedb = mem[adr]
  BY DEF ReadsReturn
<1>2. ~rt_as_n /\ rt_dtack_lo /\ ~rt_av
  BY <1>1 DEF Acks, Late, Devices, Device
<1>3. core_iedb = rt_rd
  BY <1>1, <1>2 DEF core_iedb
<1>4. CASE adr \in Ram
  <2>1. dtack
    BY <1>1, <1>2, <1>4 DEF Acks
  <2> QED BY <1>1, <1>2, <1>3, <2>1 DEF Trailing
<1>5. CASE adr \in Cia
  <2>1. rt_vst = 2
    BY <1>1, <1>2, <1>5 DEF Acks
  <2> QED BY <1>1, <1>3, <2>1 DEF Vma
<1> QED BY <1>4, <1>5 DEF Device

(* An acknowledge by bus error is up only while the device's own refusal   *)
(* is.                                                                     *)
LEMMA InvBerrIsOwn ==
  ASSUME RetimeInv
  PROVE  BerrIsOwn
BY DEF RetimeInv, Acks, BerrIsOwn

(* Address and R/W hold for the clock after AS.                            *)
LEMMA StepSteady ==
  ASSUME RetimeGrid, RetimeInv, [Next]_vars, ~cpu_as_n, resets' = resets
  PROVE  cpu_a' = cpu_a /\ cpu_rw' = cpu_rw
<1>1. /\ BusTypeOK /\ CoreShape /\ EngineShape /\ RETIME /\ ~rt_as_n
  BY Pins, Grid12 DEF RetimeInv
<1>2. ~Reset
  <2>1. resets \in Nat
    BY <1>1, BusAssumption DEF BusTypeOK
  <2> QED BY <2>1 DEF Reset
<1>3. CASE UNCHANGED vars
  BY <1>3 DEF vars, retimeVars, clockVars, syncVars, coreVars, bridgeVars, latchVars, mbVars,
     cpu_a, cpu_rw, p_rw
<1>4. ASSUME NEW int_ack \in BOOLEAN, Clock(int_ack) PROVE rt_a' = rt_a /\ rt_rw' = rt_rw
  <2>1. /\ CoreMoved /\ RestMoved /\ CycleMoved /\ FlagsBoolean /\ rt_rw' \in BOOLEAN
        /\ rt_rw \in BOOLEAN
    BY <1>1, <1>4, Moves, TypeKept DEF Moved, BusTypeOK, RetimeTypeOK
  <2>2. s \notin Rest \cup {"S2"}
    BY <1>1 DEF EngineShape
  <2>3. CASE as_n
    BY <1>1, <2>1, <2>2, <2>3 DEF RestMoved, EngineShape
  <2>4. CASE ~as_n
    <3>1. (rw <=> rt_rw) /\ rt_a' = rt_a
      BY <1>1, <2>1, <2>2, <2>4 DEF CoreShape, EngineShape, CycleMoved
    <3> QED BY <1>1, <2>1, <2>4, <3>1 DEF CycleMoved
  <2> QED BY <2>1, <2>3, <2>4 DEF FlagsBoolean
<1> QED BY <1>1, <1>2, <1>3, <1>4, Pins DEF Next

(* A 6800 cycle ends after its fall of E.                                  *)
LEMMA StepOneEdge ==
  ASSUME RetimeGrid, RetimeInv, [Next]_vars, AsRises, cpu_a \in Cia, resets' = resets
  PROVE  edges = 1
<1>0. ~rt_as_n /\ rt_as_n' /\ rt_a \in Cia
  <2>1. RETIME
    BY Grid12
  <2>2. ~cpu_as_n /\ cpu_as_n' /\ cpu_a \in Cia
    BY DEF AsRises
  <2> QED BY <2>1, <2>2, Zenon DEF cpu_as_n, cpu_a
<1>1. /\ BusTypeOK /\ CoreShape /\ EngineShape /\ Acks /\ Fresh /\ Vma /\ Devices
      /\ ~rt_as_n /\ rt_as_n' /\ rt_a \in Cia
  BY <1>0, Grid12 DEF RetimeInv
<1>2. ~Reset
  <2>1. resets \in Nat
    BY <1>1, BusAssumption DEF BusTypeOK
  <2> QED BY <2>1 DEF Reset
<1>3. CASE UNCHANGED vars
  BY <1>1, <1>3 DEF vars, retimeVars
<1>4. ASSUME NEW int_ack \in BOOLEAN, Clock(int_ack) PROVE edges = 1
  <2>1. Moved
    BY <1>1, <1>4, Moves
  <2>2. s = "S7"
    BY <1>1, <2>1, RisesEarly
  <2>3. rt_a = adr
    BY <1>1, <2>2 DEF EngineShape, Rest
  <2>4. rt_dtack_lo
    BY <1>1, <2>2, <2>3 DEF Acks, Late, Devices
  <2>5. rt_vst = 2
    BY <1>1, <2>3, <2>4 DEF Acks
  <2> QED BY <1>1, <2>5 DEF Vma
<1> QED BY <1>2, <1>3, <1>4 DEF Next

-----------------------------------------------------------------------------
(* The invariant of the engine holds in every reachable state.             *)
THEOREM RetimeInductive == RetimeGrid => (Spec => []RetimeInv)
<1> SUFFICES ASSUME RetimeGrid PROVE Spec => []RetimeInv
  OBVIOUS
<1>1. Init => RetimeInv
  BY InitInv
<1>2. RetimeInv /\ [Next]_vars => RetimeInv'
  BY StepKept
<1> QED BY <1>1, <1>2, PTL DEF Spec

(* Every write of the core lands, once, with its data, at its address, and *)
(* nothing else changes a device (base64_top.sv, 10b), though RAM latches  *)
(* only when AS rises and a CIA when E falls.                              *)
THEOREM RetimeWritesLand == RetimeGrid => (Spec => []WritesLand)
<1> SUFFICES ASSUME RetimeGrid PROVE Spec => []WritesLand
  OBVIOUS
<1>1. RetimeInv => WritesLand
  BY InvWritesLand
<1>2. Spec => []RetimeInv
  BY RetimeInductive
<1> QED BY <1>1, <1>2, PTL

(* Every read latches what the device holds, though data may come 4 clocks *)
(* after DTACK and go with AS: the acknowledge waits for the 7M grid.      *)
THEOREM RetimeReadsReturn == RetimeGrid => (Spec => []ReadsReturn)
<1> SUFFICES ASSUME RetimeGrid PROVE Spec => []ReadsReturn
  OBVIOUS
<1>1. RetimeInv => ReadsReturn
  BY InvReadsReturn
<1>2. Spec => []RetimeInv
  BY RetimeInductive
<1> QED BY <1>1, <1>2, PTL

(* A cycle ends in a bus error only when its own device refused it,        *)
(* although the error comes from the engine that is not connected and BERR *)
(* outlives the cycle it refused.                                          *)
THEOREM RetimeBerrIsOwn == RetimeGrid => (Spec => []BerrIsOwn)
<1> SUFFICES ASSUME RetimeGrid PROVE Spec => []BerrIsOwn
  OBVIOUS
<1>1. RetimeInv => BerrIsOwn
  BY InvBerrIsOwn
<1>2. Spec => []RetimeInv
  BY RetimeInductive
<1> QED BY <1>1, <1>2, PTL

(* Address and R/W stay until the clock after AS rises, and a 6800 cycle   *)
(* meets one fall of E with VMA low.                                       *)
THEOREM RetimePinsKeepProtocol == RetimeGrid => (Spec => PinsKeepProtocol)
<1> SUFFICES ASSUME RetimeGrid PROVE Spec => PinsKeepProtocol
  OBVIOUS
<1>1. RetimeInv /\ [Next]_vars
        => [~cpu_as_n /\ resets' = resets => cpu_a' = cpu_a /\ cpu_rw' = cpu_rw]_vars
  BY StepSteady
<1>2. RetimeInv /\ [Next]_vars => [AsRises /\ cpu_a \in Cia /\ resets' = resets => edges = 1]_vars
  BY StepOneEdge
<1>3. Spec => []RetimeInv
  BY RetimeInductive
<1> QED BY <1>1, <1>2, <1>3, PTL DEF Spec, PinsKeepProtocol, BusSteady, OneEdge

-----------------------------------------------------------------------------
(* The bridge.                                                             *)

(* The last phase of S6 at which a word can still be captured in time for  *)
(* the core, which latches it three clocks after PH_ACK at the earliest.   *)
Settle == IF PH_ACK < 4 THEN PH_ACK + 2 ELSE 6

(* Of the motherboard: data come at most so long after their DTACK, and    *)
(* its answers are gone when AS falls again.  TLC finds counterexamples    *)
(* one clock beyond either bound (DATA_LAG = 11 or REL = 18 at the         *)
(* source's PH_ACK = 4 and SMP_N = 4).                                     *)
BridgeGrid ==
  /\ BusGrid /\ ~RETIME
  /\ DATA_LAG + SMP_N <= 8 + Settle /\ REL <= 17

(* Types, without those of the data.                                       *)
CycleTyped ==
  /\ CoreBusTypeOK /\ StTyped
  /\ {dtack, vpa, berr} \subseteq BOOLEAN /\ lag \in Nat /\ resets \in Nat

(* In the last period of E the bridge is in VPAE, or has passed VPAH, in   *)
(* the first half only.                                                    *)
EPaced ==
  /\ st = "VPAE" /\ e_cnt = E_PERIOD - 1 => ph \in 1..6
  /\ st = "VPAX" => ph \in 1..6

(* A latched acknowledge cycle is one by its address, and its vector is    *)
(* loaded.                                                                 *)
Latched ==
  /\ bx_iack <=> bx_a \in Levels
  /\ bx_iack => av_num = bx_a

(* AS is high; the phase, 1 to 12; clocks since AS rose, 6 standing for    *)
(* six or more.                                                            *)
Quieted == {"IDLE", "S7", "S0", "S1"}
Ph12 == IF ph = 0 THEN 12 ELSE ph
Since == IF st = "S7" THEN Ph12 - 7
         ELSE IF st = "S0" THEN ph + 5
         ELSE IF st = "S1" THEN Ph12 + 5 ELSE 6

(* An answer to the last cycle goes within REL clocks of AS.               *)
Gone ==
  st \in Quieted /\ (dtack \/ vpa \/ berr) => lag + Since <= REL

(* While AS is low the answers on the pins are this cycle's,               *)
OwnAnswers ==
  st \in Strobing =>
    /\ dtack => bx_a \in Ram /\ lag <= DATA_LAG
    /\ vpa => bx_a \in Cia \cup Levels
    /\ berr => bx_a \in Silent

(* so are those in the first flip-flops a clock later,                     *)
OwnFirst ==
  st \in Strobing /\ (st = "S2" => ph > 1) =>
    /\ s_dtack[1] => dtack /\ (lag + 1 <= DATA_LAG \/ lag = 0)
    /\ s_vpa[1] => vpa
    /\ s_berr[1] => berr

(* and those in the second, two clocks later: DATA_LAG is by then two      *)
(* clocks nearer its end.                                                  *)
OwnSecond ==
  st \in Strobing /\ (st = "S2" => ph > 2) =>
    /\ s_dtack[2] => dtack /\ (lag + 2 <= DATA_LAG \/ lag = 0)
    /\ s_vpa[2] => vpa
    /\ s_berr[2] => berr

(* What the sample has decided is about the latched cycle.                 *)
Sampled ==
  /\ st \in {"S0", "S1", "S2", "S3", "S4"} => ~term /\ ~sync_go /\ ~berr_go /\ ~bx_acked
  /\ st \in {"VPAW", "VPAE", "VPAH", "VPAX"} => ~term /\ bx_a \in Cia
  /\ st \in {"S5", "S6"} =>
      /\ berr_go => term /\ bx_a \in Silent
      /\ term /\ ~berr_go => (bx_a \in Ram /\ dtack) \/ bx_iack
      /\ sync_go => bx_a \in Cia
      /\ bx_acked => term /\ st = "S6" /\ ph > PH_ACK

(* A cycle that RAM has ended has its data by Settle.                      *)
Timely ==
  term /\ bx_a \in Ram =>
    /\ st = "S5" => lag + Ph12 <= 12 + Settle \/ lag = 0
    /\ st = "S6" => lag + ph <= Settle \/ lag = 0

(* The core waits for its acknowledge.                                     *)
Waits == {"S2", "S3", "S4", "SW"}

(* The bridge has a cycle that it has not acknowledged.                    *)
Pending ==
  \/ st \in {"S0", "S1", "S2", "S3", "S4", "S5", "VPAW"}
  \/ st = "S6" /\ ~bx_acked
  \/ st = "VPAE" /\ ~(e_cnt = E_PERIOD - 1 /\ ph > PH_ACK)

(* The cycle that the bridge has is the one that the core is waiting in;   *)
(* and a core that has been acknowledged is not taken again.  On-chip      *)
(* cycles are taken too, but nobody answers them.                          *)
Taken ==
  /\ Pending /\ bx_a \notin Board =>
      /\ bx_a = adr /\ (bx_rw <=> kind # "write") /\ ~as_n /\ s \in Waits /\ bx_taken
      /\ ~core_dtack_lo /\ ~core_berr_lo
      /\ term /\ bx_iack => av_valid
  /\ ~as_n /\ ~bx_taken => s \in Waits \/ adr \in Board

(* What is handed to the core goes with its cycle.                         *)
Handed ==
  /\ s \in Rest \cup {"S2"} => ~core_dtack_lo /\ ~core_berr_lo /\ ~av_valid
  /\ s \in {"S5", "S6"} => core_dtack_lo \/ core_berr_lo \/ adr \in Board
  /\ core_berr_lo => adr \in Silent
  /\ core_berr_lo /\ ~as_n => bx_taken
  /\ av_valid => bx_iack /\ bx_a = adr

(* The core that sees DTACK is in the cycle that the bridge has latched,   *)
(* and gets its vector; it gets its word before it latches it.             *)
Delivered ==
  core_dtack_lo /\ ~as_n =>
    /\ bx_taken /\ bx_a = adr /\ (bx_rw <=> kind # "write") /\ bx_a \notin Silent \cup Board
    /\ kind = "iack" => av_valid
    /\ st = "S6" => s \in Waits \/ (s = "S5" /\ ph > PH_ACK + 1) \/ (s = "S6" /\ ph > PH_ACK + 2)
    /\ kind = "read" => rd_data = mem[adr] \/ (st = "S6" /\ ph <= Settle)

(* Falls of E that the cycle has met with VMA low.                         *)
Counted == st \in Strobing => edges = IF st = "VPAX" THEN 1 ELSE 0

(* The inductive invariant.                                                *)
BridgeInv ==
  /\ CycleTyped /\ CoreShape /\ Grid /\ EPaced /\ Latched /\ Gone
  /\ OwnAnswers /\ OwnFirst /\ OwnSecond
  /\ Sampled /\ Timely /\ Taken /\ Handed /\ Delivered /\ Counted
-----------------------------------------------------------------------------
(* The constants, as numbers.                                              *)
LEMMA BridgeGrid12 ==
  ASSUME BridgeGrid
  PROVE  /\ BusGrid /\ Devices /\ ~RETIME /\ PERIOD = 12 /\ PH_HALF = 6
         /\ PH_ACK \in 0..5 /\ REL \in 0..17 /\ SMP_N \in 1..6
         /\ Settle \in PH_ACK+1..6 /\ Settle <= PH_ACK + 2
         /\ DATA_LAG \in Nat /\ DATA_LAG + SMP_N <= 8 + Settle
         /\ E_PERIOD \in Nat /\ E_RISE \in 1..E_PERIOD-1 /\ E_VMA_AT \in 0..E_RISE-1
BY BusGrid12, Apart DEF BridgeGrid, Settle

(* The pins are the bridge's.                                              *)
LEMMA BridgePins ==
  ASSUME ~RETIME
  PROVE  /\ cpu_as_n = (st \notin Strobing) /\ cpu_a = bx_a /\ cpu_fc7 = bx_iack
         /\ cpu_rw = (bx_rw \/ st \notin Strobing \cup {"S7"})
         /\ cpu_vma_n = (st \notin {"VPAE", "VPAH", "VPAX"})
         /\ d_oe = (~bx_rw /\ st \in (Strobing \cup {"S7"}) \ {"S2"})
         /\ cpu_as_n' = (st' \notin Strobing)
         /\ cpu_rw' = (bx_rw' \/ st' \notin Strobing \cup {"S7"})
         /\ core_iedb = IF av_valid THEN av_num ELSE rd_data
BY DEF cpu_as_n, cpu_rw, cpu_a, cpu_fc7, cpu_vma_n, d_oe, p_as_n, p_rw, p_vma_n, p_d_oe, core_iedb

(* The latched cycle and its flags, one clock on.                          *)
LatchMoved ==
  IF Start
  THEN /\ bx_a' = adr /\ (bx_rw' <=> rw) /\ (bx_iack' <=> kind = "iack") /\ av_num' = adr % 8
       /\ ~term' /\ ~sync_go' /\ ~berr_go' /\ st' = "S0"
  ELSE /\ bx_a' = bx_a /\ (bx_rw' <=> bx_rw) /\ (bx_iack' <=> bx_iack) /\ av_num' = av_num
       /\ term' <=> term \/ SampleBerr \/ SampleDtack \/ SampleAutovector
       /\ sync_go' <=> sync_go \/ (SampleVpa /\ ~bx_iack)
       /\ berr_go' <=> berr_go \/ SampleBerr
       /\ st' = "S0" => st = "S0"

(* The 6800 cycle.                                                         *)
VpaMoved ==
  /\ st = "VPAW" => st' = IF ph = 0 /\ e_cnt = E_VMA_AT THEN "VPAE" ELSE "VPAW"
  /\ st = "VPAE" => st' = IF ph = 6 /\ e_cnt = E_PERIOD - 1 THEN "VPAH" ELSE "VPAE"
  /\ st = "VPAH" => st' = IF ph = 0 /\ e_cnt = E_PERIOD - 1 THEN "VPAX" ELSE "VPAH"

(* The two acknowledges.                                                   *)
Acks6 == st = "S6" /\ ph = PH_ACK /\ term /\ ~bx_acked
AcksE == st = "VPAE" /\ ph = PH_ACK /\ e_cnt = E_PERIOD - 1

(* What the core is handed.                                                *)
AckMoved ==
  /\ core_berr_lo' <=> (core_berr_lo /\ ~as_n) \/ (Acks6 /\ berr_go)
  /\ core_dtack_lo' <=> (core_dtack_lo /\ ~as_n) \/ (Acks6 /\ ~berr_go) \/ AcksE
  /\ bx_acked' <=> ~Start /\ (bx_acked \/ Acks6)
  /\ bx_taken' <=> Start \/ (bx_taken /\ ~as_n)
  /\ av_valid' <=> ~Start /\ (SampleAutovector \/ (av_valid /\ ~as_n))

(* The captured word.                                                      *)
DataMoved ==
  rd_data' = IF bx_rw /\ (st = "S6" \/ (st = "VPAE" /\ e_cnt >= E_RISE)) THEN cpu_d ELSE rd_data

(* All of BridgeClock.                                                     *)
LEMMA BridgeExact ==
  ASSUME BridgeGrid, CycleTyped, BridgeClock(cpu_d)
  PROVE  BridgeMoved /\ LatchMoved /\ VpaMoved /\ AckMoved /\ DataMoved
         /\ {bx_rw', bx_ds', bx_iack', bx_taken', bx_acked', term', sync_go', berr_go',
             core_dtack_lo', core_berr_lo', av_valid'} \subseteq BOOLEAN
<1> USE BridgeGrid12
<1>0. /\ st \in BridgeStates /\ StTyped
      /\ {bx_rw, bx_ds, bx_iack, bx_taken, bx_acked, term, sync_go, berr_go,
          core_dtack_lo, core_berr_lo, av_valid, as_n, rw, ds} \subseteq BOOLEAN
  BY DEF CycleTyped, StTyped, CoreBusTypeOK
<1>1. Acknowledge /\ (StIdle \/ StS3Data \/ StS4 \/ StS6 \/ StS7 \/ (Sequence /\ Plain))
  BY DEF BridgeClock
<1>2. BridgeMoved
  BY <1>0, BridgeMoves
<1>3. IF Start THEN TakeCycle
      ELSE Flags /\ UNCHANGED <<bx_a, bx_rw, bx_ds, bx_iack, av_num>> /\ (st' = "S0" => st = "S0")
  BY <1>0, <1>1
  DEF StIdle, StS3Data, StS4, StS6, StS7, Sequence, OnTick, Start, TakeCycle
<1>4. LatchMoved
  <2>1. CASE Start
    <3>1. TakeCycle
      BY <1>3, <2>1
    <3>2. /\ bx_a' = adr /\ (bx_rw' <=> rw) /\ (bx_iack' <=> kind = "iack") /\ av_num' = adr % 8
          /\ ~term' /\ ~sync_go' /\ ~berr_go' /\ st' = "S0"
      BY <1>0, <3>1 DEF TakeCycle, core_fc7, core_low
    <3> QED BY <2>1, <3>2, Zenon DEF LatchMoved
  <2>2. CASE ~Start
    <3>1. Flags /\ UNCHANGED <<bx_a, bx_rw, bx_ds, bx_iack, av_num>> /\ (st' = "S0" => st = "S0")
      BY <1>3, <2>2
    <3>2. /\ bx_a' = bx_a /\ (bx_rw' <=> bx_rw) /\ (bx_iack' <=> bx_iack) /\ av_num' = av_num
          /\ st' = "S0" => st = "S0"
      BY <3>1
    <3>3. /\ term' <=> term \/ SampleBerr \/ SampleDtack \/ SampleAutovector
          /\ sync_go' <=> sync_go \/ (SampleVpa /\ ~bx_iack)
          /\ berr_go' <=> berr_go \/ SampleBerr
      BY <3>1 DEF Flags
    <3> QED BY <2>2, <3>2, <3>3, Zenon DEF LatchMoved
  <2> QED BY <2>1, <2>2
<1>5. VpaMoved
  BY <1>0, <1>1
  DEF StIdle, StS3Data, StS4, StS6, StS7, Sequence, OnTick, VpaMoved, tick_r, tick_f, e_fall_tick
<1>6. AckMoved
  BY <1>0, <1>1 DEF Acknowledge, AckNow, AckMoved, Acks6, AcksE, tick_ack
<1>7. DataMoved
  BY <1>0 DEF BridgeClock, DataMoved, e_pin
<1>8. {bx_taken', bx_acked', core_dtack_lo', core_berr_lo', av_valid'} \subseteq BOOLEAN
  BY <1>1 DEF Acknowledge
<1>9. {bx_rw', bx_ds', bx_iack', term', sync_go', berr_go'} \subseteq BOOLEAN
  BY <1>0, <1>3 DEF TakeCycle, Flags, core_fc7
<1> QED BY <1>2, <1>4, <1>5, <1>6, <1>7, <1>8, <1>9

(* The core, acknowledged by the bridge or on chip.                        *)
CoreSteps ==
  /\ s = "S0" => s' \in {"SI", "S1"}
  /\ s = "SI" => s' = "S0"
  /\ s = "S1" => s' = "S2"
  /\ s = "S2" => s' = "S3"
  /\ s = "S3" => s' = "S4"
  /\ s = "S4" => s' \in {"S5", "SW"}
  /\ s = "S4" /\ s' = "S5" => core_dtack_lo \/ core_berr_lo \/ int_space
  /\ s = "SW" => s' = "S4"
  /\ s = "S5" => s' = "S6"
  /\ s = "S6" => s' = "S7"
  /\ s = "S7" => s' = "S0"
  /\ s \in SStates /\ s' \in SStates
  /\ s' # "S1" => adr' = adr /\ kind' = kind

(* The answers, while AS is high and while it is low.                      *)
BusMoved ==
  IF st \notin Strobing
  THEN \/ ~dtack' /\ ~vpa' /\ ~berr' /\ lag' = 0
       \/ /\ lag > 0 /\ lag' = lag - 1
          /\ (dtack' <=> dtack) /\ (vpa' <=> vpa) /\ (berr' <=> berr)
  ELSE /\ dtack => dtack'
       /\ dtack' => dtack \/ bx_a \in Ram
       /\ vpa => vpa'
       /\ vpa' => vpa \/ bx_a \in Cia \/ bx_iack
       /\ berr => berr'
       /\ berr' => berr \/ bx_a \in Silent
       /\ lag' = IF dtack' /\ ~dtack THEN DATA_LAG
                 ELSE IF st' \notin Strobing THEN REL
                 ELSE IF lag > 0 THEN lag - 1 ELSE 0

(* The bus carries the device's word when it ought to, and reads change no *)
(* device.                                                                 *)
ReadMoved ==
  /\ bx_rw /\ ~bx_iack /\ st \in Strobing =>
       /\ bx_a \in Ram /\ dtack /\ lag = 0 => cpu_d = mem[bx_a]
       /\ bx_a \in Cia /\ bx_a \notin Ram /\ st = "VPAE" /\ e_cnt >= E_RISE => cpu_d = mem[bx_a]
  /\ (st \in Strobing => bx_rw) => mem' = mem

(* The flags, as Booleans.                                                 *)
BridgeBoolean ==
  /\ {s_dtack[1], s_dtack[2], s_vpa[1], s_vpa[2], s_berr[1], s_berr[2]} \subseteq BOOLEAN
  /\ {dtack, vpa, berr, as_n, rw, ds, bx_rw, bx_iack, bx_taken, bx_acked, term, sync_go,
      berr_go, core_dtack_lo, core_berr_lo, av_valid} \subseteq BOOLEAN
  /\ lag \in Nat /\ st \in BridgeStates

(* One clock.                                                              *)
BridgeStep ==
  /\ ph \in 0..11 /\ ph' = IF ph = 11 THEN 0 ELSE ph + 1
  /\ e_cnt \in 0..E_PERIOD-1
  /\ e_cnt' = IF ph # 0 THEN e_cnt ELSE IF e_cnt = E_PERIOD-1 THEN 0 ELSE e_cnt + 1
  /\ CoreSteps /\ CoreShape'
  /\ BridgeMoved /\ LatchMoved /\ VpaMoved /\ AckMoved /\ DataMoved
  /\ SyncMoved /\ BusMoved /\ ReadMoved /\ BridgeBoolean

(* The answers, one clock on.                                              *)
LEMMA BridgeBus ==
  ASSUME BridgeGrid, CycleTyped, Motherboard
  PROVE  BusMoved /\ {dtack', vpa', berr'} \subseteq BOOLEAN /\ lag' \in Nat
<1>0. /\ {dtack, vpa, berr, bx_iack} \subseteq BOOLEAN /\ lag \in Nat /\ REL \in Nat /\ DATA_LAG \in Nat
      /\ ~RETIME
  BY BridgeGrid12 DEF CycleTyped, StTyped
<1>1. CASE st \notin Strobing
  <2>1. cpu_as_n
    BY <1>0, <1>1, BridgePins
  <2>2. Release
    BY <2>1 DEF Motherboard, Respond
  <2>3. BusMoved
    BY <1>0, <1>1, <2>2 DEF Release, BusMoved
  <2>4. /\ {dtack', vpa', berr'} \subseteq {FALSE, dtack, vpa, berr}
        /\ lag' = 0 \/ (lag > 0 /\ lag' = lag - 1)
    BY <2>2 DEF Release
  <2>5. lag' \in Nat
    BY <1>0, <2>4
  <2>6. {dtack', vpa', berr'} \subseteq BOOLEAN
    BY <1>0, <2>4, Zenon
  <2> QED BY <2>3, <2>5, <2>6
<1>2. CASE st \in Strobing
  <2>1. ~cpu_as_n /\ cpu_as_n' = (st' \notin Strobing) /\ cpu_a = bx_a /\ cpu_fc7 = bx_iack
    BY <1>0, <1>2, BridgePins
  <2>2. Respond
    BY <2>1 DEF Motherboard, Release
  <2>3. /\ dtack' \in {dtack, dtack \/ bx_a \in Ram}
        /\ vpa' \in {vpa, vpa \/ bx_a \in Cia \/ bx_iack}
        /\ berr' \in {berr, berr \/ bx_a \in Silent}
        /\ lag' = IF dtack' /\ ~dtack THEN DATA_LAG
                  ELSE IF st' \notin Strobing THEN REL
                  ELSE IF lag > 0 THEN lag - 1 ELSE 0
    BY <2>1, <2>2 DEF Respond
  <2>6. {dtack', vpa', berr'} \subseteq BOOLEAN
    <3>1. dtack' \in BOOLEAN
      BY <1>0, <2>3, Zenon
    <3>2. vpa' \in BOOLEAN
      BY <1>0, <2>3, Zenon
    <3>3. berr' \in BOOLEAN
      BY <1>0, <2>3, Zenon
    <3> QED BY <3>1, <3>2, <3>3
  <2>7. lag' \in Nat
    BY <1>0, <2>3
  <2>4. {dtack', vpa', berr'} \subseteq BOOLEAN /\ lag' \in Nat
    BY <2>6, <2>7
  <2>5. BusMoved
    BY <1>0, <1>2, <2>3, <2>4 DEF BusMoved
  <2> QED BY <2>4, <2>5
<1> QED BY <1>1, <1>2

(* The data bus, and the devices in a read.                                *)
LEMMA BridgeReads ==
  ASSUME BridgeGrid, CycleTyped, BridgeMoved, LatchMoved, Latch
  PROVE  ReadMoved
<1>0. bx_rw \in BOOLEAN /\ bx_iack \in BOOLEAN /\ ~RETIME /\ st \in BridgeStates
  BY BridgeGrid12 DEF CycleTyped, StTyped
<1>1. ASSUME bx_rw, ~bx_iack, st \in Strobing
      PROVE  /\ bx_a \in Ram /\ dtack /\ lag = 0 => cpu_d = mem[bx_a]
             /\ bx_a \in Cia /\ bx_a \notin Ram /\ st = "VPAE" /\ e_cnt >= E_RISE
                  => cpu_d = mem[bx_a]
  <2>1. ~d_oe /\ ~cpu_as_n /\ cpu_rw /\ ~cpu_fc7 /\ cpu_a = bx_a
    <3>1. ~d_oe
      BY <1>0, <1>1, Zenon DEF d_oe, p_d_oe
    <3>3. cpu_a = bx_a /\ ~cpu_fc7
      BY <1>0, <1>1, Zenon DEF cpu_a, cpu_fc7
    <3>2. ~cpu_as_n /\ cpu_rw
      BY <1>0, <1>1, BridgePins, Zenon
    <3> QED BY <3>1, <3>2, <3>3
  <2>2. st = "VPAE" => ~cpu_vma_n
    BY <1>0, BridgePins
  <2> QED BY <2>1, <2>2 DEF cpu_d, e_pin
<1>2. ASSUME st \in Strobing => bx_rw PROVE mem' = mem
  <2>1. CASE st \notin Strobing
    <3>1. ~AsRises /\ ~VmaHeld
      BY <1>0, <2>1, BridgePins DEF AsRises, VmaHeld, Strobing
    <3> QED BY <3>1 DEF Latch
  <2>2. CASE st \in Strobing
    <3>1. ~Start
      BY <2>2 DEF Start, Strobing
    <3>2. bx_rw'
      BY <1>0, <1>2, <2>2, <3>1 DEF LatchMoved
    <3>3. cpu_rw'
      BY <1>0, <3>2, BridgePins
    <3> QED BY <3>3 DEF Latch
  <2> QED BY <2>1, <2>2
<1> QED BY <1>1, <1>2 DEF ReadMoved

(* Every clock is one of these.                                            *)
LEMMA BridgeSteps ==
  ASSUME BridgeGrid, CycleTyped, CoreShape, NEW int_ack \in BOOLEAN, Clock(int_ack)
  PROVE  BridgeStep /\ CycleTyped'
<1> USE BridgeGrid12
<1>0. CoreBusTypeOK /\ StTyped /\ {dtack, vpa, berr} \subseteq BOOLEAN /\ lag \in Nat
  BY DEF CycleTyped
<1>1. BridgeBoolean
  <2>1. {s_dtack, s_vpa, s_berr} \subseteq BOOLEAN \X BOOLEAN
    BY <1>0 DEF CoreBusTypeOK
  <2>2. {s_dtack[1], s_dtack[2], s_vpa[1], s_vpa[2], s_berr[1], s_berr[2]} \subseteq BOOLEAN
    BY <2>1
  <2>3. {as_n, rw, ds} \subseteq BOOLEAN
    BY <1>0 DEF CoreBusTypeOK
  <2> QED BY <1>0, <2>2, <2>3 DEF BridgeBoolean, StTyped
<1>2. /\ ph \in 0..11 /\ ph' = IF ph = 11 THEN 0 ELSE ph + 1
      /\ e_cnt \in 0..E_PERIOD-1
      /\ e_cnt' = IF ph # 0 THEN e_cnt ELSE IF e_cnt = E_PERIOD-1 THEN 0 ELSE e_cnt + 1
      /\ ph' \in 0..PERIOD-1 /\ e_cnt' \in 0..E_PERIOD-1
  BY <1>0, ClockMoves DEF Clock, CoreBusTypeOK
<1>3. /\ CoreSteps /\ CoreShape' /\ s' \in SStates
      /\ kind' \in {"read", "write", "iack"} /\ adr' \in Address \cup Levels
      /\ {as_n', rw', ds'} \subseteq BOOLEAN /\ dout' \in Data \cup {NoData}
  <2> DEFINE acked == core_dtack(int_ack) \/ core_berr_lo
  <2>1. CoreClock(acked) /\ acked \in BOOLEAN
    BY DEF Clock
  <2>2. acked => core_dtack_lo \/ core_berr_lo \/ int_space
    BY DEF Clock, core_dtack
  <2> HIDE DEF acked
  <2>3. /\ Successor(acked) /\ s' \in SStates
        /\ s' # "S1" => adr' = adr /\ kind' = kind
        /\ CoreShape'
        /\ kind' \in {"read", "write", "iack"} /\ adr' \in Address \cup Levels
        /\ {as_n', rw', ds'} \subseteq BOOLEAN /\ dout' \in Data \cup {NoData}
    BY <1>0, <2>1, CoreMoves
  <2>4. s \in SStates
    BY <1>0 DEF CoreBusTypeOK
  <2> QED BY <2>1, <2>2, <2>3, <2>4 DEF CoreSteps, Successor
<1>4. SyncMoved /\ {s_dtack', s_vpa', s_berr'} \subseteq BOOLEAN \X BOOLEAN
  BY <1>0, SyncMoves DEF SyncMoved, Clock, CoreBusTypeOK
<1>5. BridgeMoved /\ LatchMoved /\ VpaMoved /\ AckMoved /\ DataMoved
      /\ {bx_rw', bx_ds', bx_iack', bx_taken', bx_acked', term', sync_go', berr_go',
          core_dtack_lo', core_berr_lo', av_valid'} \subseteq BOOLEAN
  BY BridgeExact DEF Clock
<1>6. BusMoved /\ {dtack', vpa', berr'} \subseteq BOOLEAN /\ lag' \in Nat
  BY BridgeBus DEF Clock
<1>7. ReadMoved
  BY <1>5, BridgeReads DEF Clock, Motherboard
<1>8. BridgeStep
  BY <1>1, <1>2, <1>3, <1>4, <1>5, <1>6, <1>7 DEF BridgeStep
<1>9. CoreBusTypeOK'
  BY <1>2, <1>3, <1>4 DEF CoreBusTypeOK
<1>10. StTyped'
  <2>1. st' \in BridgeStates /\ smp_cnt' \in 0..SMP_N
    BY <1>5 DEF BridgeMoved, StMoved
  <2> QED BY <1>5, <2>1 DEF StTyped
<1>11. resets' \in Nat
  BY DEF Clock, CycleTyped
<1> QED BY <1>6, <1>8, <1>9, <1>10, <1>11 DEF CycleTyped

-----------------------------------------------------------------------------
(* The bridge leaves VPAE in the middle of the last period of E, and VPAH  *)
(* with it.                                                                *)
LEMMA KeepsEPaced ==
  ASSUME BridgeGrid, EPaced, Grid, BridgeStep
  PROVE  EPaced'
<1>0. /\ ph \in 0..11 /\ ph' = IF ph = 11 THEN 0 ELSE ph + 1
      /\ E_PERIOD \in Nat /\ E_RISE \in 1..E_PERIOD-1 /\ E_VMA_AT \in 0..E_RISE-1
      /\ e_cnt \in 0..E_PERIOD-1
      /\ e_cnt' = IF ph # 0 THEN e_cnt ELSE IF e_cnt = E_PERIOD-1 THEN 0 ELSE e_cnt + 1
      /\ StMoved /\ VpaMoved /\ st \in BridgeStates
  BY BridgeGrid12 DEF BridgeStep, BridgeMoved, BridgeBoolean
<1>1. ASSUME st' = "VPAE", e_cnt' = E_PERIOD - 1 PROVE ph' \in 1..6
  <2>1. st \in {"VPAW", "VPAE"}
    BY <1>0, <1>1 DEF StMoved, VpaMoved, BridgeStates
  <2>2. CASE st = "VPAW"
    BY <1>0, <1>1, <2>2 DEF VpaMoved
  <2>3. CASE st = "VPAE"
    BY <1>0, <1>1, <2>3 DEF VpaMoved, EPaced
  <2> QED BY <2>1, <2>2, <2>3
<1>2. ASSUME st' = "VPAX" PROVE ph' \in 1..6
  <2>1. st \in {"VPAH", "VPAX"}
    BY <1>0, <1>2 DEF StMoved, VpaMoved, BridgeStates
  <2>2. CASE st = "VPAH"
    BY <1>0, <1>2, <2>2 DEF VpaMoved
  <2>3. CASE st = "VPAX"
    BY <1>0, <1>2, <2>3 DEF StMoved, EPaced
  <2> QED BY <2>1, <2>2, <2>3
<1> QED BY <1>1, <1>2 DEF EPaced

(* The level of an acknowledge cycle is its low address bits.              *)
LEMMA KeepsLatched ==
  ASSUME BridgeGrid, Latched, CoreShape, CoreBusTypeOK, BridgeStep
  PROVE  Latched'
<1>1. CASE Start
  <2>1. /\ bx_a' = adr /\ (bx_iack' <=> kind = "iack") /\ av_num' = adr % 8
    BY <1>1 DEF BridgeStep, LatchMoved
  <2>2. (kind = "iack") <=> adr \in Levels
    BY CoreBusAssumption DEF CoreShape
  <2>3. adr \in Levels => adr % 8 = adr
    BY CoreBusAssumption
  <2> QED BY <2>1, <2>2, <2>3 DEF Latched
<1>2. CASE ~Start
  BY <1>2 DEF BridgeStep, LatchMoved, Latched
<1> QED BY <1>1, <1>2

(* A cycle is taken on tick_r, at rest.                                    *)
LEMMA StartFrom ==
  ASSUME BridgeStep, BridgeGrid
  PROVE  /\ Start => ph = 0 /\ st \in {"IDLE", "S7"} /\ st' = "S0" /\ ~as_n /\ ~bx_taken
         /\ st' = "S0" => st = "S0" \/ Start
BY DEF Start, tick_r, bx_req, BridgeStep, LatchMoved

(* A sample sees an answer to the latched cycle, two clocks old.           *)
LEMMA Samples ==
  ASSUME BridgeGrid, Grid, CycleTyped, OwnAnswers, OwnSecond, Latched
  PROVE  /\ Sampling => st = "S5" /\ Ph12 = 6 + SMP_N
         /\ SampleBerr => Sampling /\ berr /\ bx_a \in Silent
         /\ SampleDtack => Sampling /\ dtack /\ bx_a \in Ram /\ (lag + 2 <= DATA_LAG \/ lag = 0)
         /\ SampleVpa => Sampling /\ vpa /\ bx_a \in Cia \cup Levels
         /\ SampleVpa /\ ~bx_iack => bx_a \in Cia
         /\ SampleAutovector => SampleVpa /\ bx_iack /\ bx_a \in Levels
<1>1. Sampling => st = "S5" /\ Ph12 = 6 + SMP_N
  <2>1. ph \in 0..11 /\ SMP_N \in 1..6
    BY BridgeGrid12 DEF CycleTyped, CoreBusTypeOK
  <2> QED BY <2>1 DEF Sampling, Grid, Ph12
<1>2. Sampling => st \in Strobing /\ st # "S2"
  BY <1>1 DEF Strobing
<1>3. /\ SampleBerr => Sampling /\ berr /\ bx_a \in Silent
      /\ SampleDtack => Sampling /\ dtack /\ bx_a \in Ram /\ (lag + 2 <= DATA_LAG \/ lag = 0)
      /\ SampleVpa => Sampling /\ vpa /\ bx_a \in Cia \cup Levels
  BY <1>2 DEF SampleBerr, SampleDtack, SampleVpa, OwnAnswers, OwnSecond
<1> QED BY <1>1, <1>3 DEF SampleAutovector, Latched

(* Each clock takes one off lag and adds at most one to Since.             *)
LEMMA KeepsGone ==
  ASSUME BridgeGrid, CycleTyped, CycleTyped', Grid, EPaced, Latched, Gone, Sampled, BridgeStep
  PROVE  Gone'
<1>0. /\ ph \in 0..11 /\ ph' = IF ph = 11 THEN 0 ELSE ph + 1
      /\ REL \in Nat /\ lag \in Nat /\ StMoved /\ st \in BridgeStates
      /\ BusMoved /\ SyncMoved
      /\ {dtack, vpa, berr, dtack', vpa', berr'} \subseteq BOOLEAN
  BY BridgeGrid12 DEF BridgeStep, BridgeMoved, BridgeBoolean, CycleTyped
<1>1. CASE st' \notin Quieted
  BY <1>1 DEF Gone
<1>2. CASE st' \in Quieted /\ st \in Quieted
  <2>1. Since \in Nat /\ Since' \in Nat /\ Since' <= Since + 1
    BY <1>0, <1>2 DEF Since, Ph12, Grid, StMoved, BridgeStates, Quieted
  <2>2. st \notin Strobing
    BY <1>2 DEF Quieted, Strobing
  <2>3. dtack' \/ vpa' \/ berr' => (dtack \/ vpa \/ berr) /\ lag > 0 /\ lag' = lag - 1
    BY <1>0, <2>2 DEF BusMoved
  <2>4. dtack' \/ vpa' \/ berr' => lag' + Since' <= REL
    <3> SUFFICES ASSUME dtack' \/ vpa' \/ berr' PROVE lag' + Since' <= REL
      OBVIOUS
    <3>1. lag + Since <= REL /\ lag' = lag - 1
      BY <1>2, <2>3 DEF Gone
    <3> HIDE DEF Since
    <3> QED BY <1>0, <2>1, <3>1
  <2> QED BY <2>4 DEF Gone
<1>3. CASE st' \in Quieted /\ st \notin Quieted
  <2>1. st' = "S7" /\ ph = 6 /\ ph' = 7 /\ ((st = "S6" /\ term) \/ st = "VPAX")
    BY <1>0, <1>3 DEF StMoved, BridgeStates, Quieted
  <2>2. Since' = 0
    BY <2>1 DEF Since, Ph12
  <2>3. st \in Strobing /\ st' \notin Strobing
    BY <2>1 DEF Strobing
  <2>4. ~(dtack' /\ ~dtack)
    <3>1. CASE st = "VPAX"
      BY <1>0, <2>3, <3>1, BridgeGrid12 DEF BusMoved, Sampled, Devices
    <3>2. CASE st = "S6" /\ term
      <4>1. bx_a \in Silent \/ dtack \/ bx_a \in Levels
        BY <3>2 DEF Sampled, Latched
      <4> QED BY <1>0, <2>3, <4>1, BridgeGrid12 DEF BusMoved, Devices
    <3> QED BY <2>1, <3>1, <3>2
  <2>5. lag' = REL
    BY <1>0, <2>3, <2>4 DEF BusMoved
  <2> QED BY <1>0, <2>2, <2>5 DEF Gone
<1> QED BY <1>1, <1>2, <1>3

(* When AS falls, 17 clocks after it rose, nothing is left on the pins.    *)
LEMMA KeepsOwn ==
  ASSUME BridgeGrid, CycleTyped, CycleTyped', Grid, Latched, Gone,
         OwnAnswers, OwnFirst, OwnSecond, BridgeStep
  PROVE  OwnAnswers' /\ OwnFirst' /\ OwnSecond'
<1>0. /\ ph \in 0..11 /\ ph' = IF ph = 11 THEN 0 ELSE ph + 1
      /\ REL \in 0..17 /\ lag \in Nat /\ StMoved /\ st \in BridgeStates
      /\ BusMoved /\ SyncMoved /\ DATA_LAG \in Nat
      /\ {dtack, vpa, berr, dtack', vpa', berr'} \subseteq BOOLEAN
  BY BridgeGrid12 DEF BridgeStep, BridgeMoved, BridgeBoolean, CycleTyped
<1>1. CASE st' \notin Strobing
  BY <1>1 DEF OwnAnswers, OwnFirst, OwnSecond
<1>2. CASE st' \in Strobing /\ st \notin Strobing
  <2>1. st = "S1" /\ ph = 0 /\ st' = "S2" /\ ph' = 1
    BY <1>0, <1>2 DEF StMoved, BridgeStates, Strobing
  <2>2. Since = 17
    BY <2>1 DEF Since, Ph12
  <2>3. dtack \/ vpa \/ berr => lag = 0
    BY <1>0, <2>1, <2>2 DEF Gone, Quieted
  <2>4. ~dtack' /\ ~vpa' /\ ~berr'
    BY <1>0, <1>2, <2>3 DEF BusMoved
  <2> QED BY <2>1, <2>4 DEF OwnAnswers, OwnFirst, OwnSecond
<1>3. CASE st' \in Strobing /\ st \in Strobing
  <2>0. bx_a' = bx_a /\ (bx_iack => bx_a \in Levels)
    <3>1. ~Start
      BY <1>3, StartFrom DEF Strobing
    <3> QED BY <3>1 DEF BridgeStep, LatchMoved, Latched
  <2>1. /\ dtack => dtack'
        /\ dtack' => dtack \/ bx_a \in Ram
        /\ vpa => vpa'
        /\ vpa' => vpa \/ bx_a \in Cia \/ bx_iack
        /\ berr => berr'
        /\ berr' => berr \/ bx_a \in Silent
        /\ lag' = IF dtack' /\ ~dtack THEN DATA_LAG
                  ELSE IF lag > 0 THEN lag - 1 ELSE 0
    BY <1>0, <1>3 DEF BusMoved
  <2>2. /\ dtack => bx_a \in Ram /\ lag <= DATA_LAG
        /\ vpa => bx_a \in Cia \cup Levels
        /\ berr => bx_a \in Silent
    BY <1>3 DEF OwnAnswers
  <2>3. OwnAnswers'
    <3>1. dtack' => lag' <= DATA_LAG
      BY <1>0, <2>1, <2>2
    <3>2. /\ dtack' => bx_a \in Ram
          /\ vpa' => bx_a \in Cia \cup Levels
          /\ berr' => bx_a \in Silent
      BY <2>0, <2>1, <2>2
    <3> QED BY <2>0, <3>1, <3>2 DEF OwnAnswers
  <2>4. OwnFirst'
    <3>1. dtack => lag' + 1 <= DATA_LAG \/ lag' = 0
      BY <1>0, <2>1, <2>2
    <3> QED BY <1>0, <2>1, <3>1 DEF OwnFirst, SyncMoved
  <2>5. OwnSecond'
    <3> SUFFICES ASSUME st' = "S2" => ph' > 2
                 PROVE  /\ s_dtack[1] => dtack' /\ (lag' + 2 <= DATA_LAG \/ lag' = 0)
                        /\ s_vpa[1] => vpa'
                        /\ s_berr[1] => berr'
      BY <1>0 DEF OwnSecond, SyncMoved
    <3>1. st = "S2" => ph > 1
      <4> SUFFICES ASSUME st = "S2" PROVE ph > 1
        OBVIOUS
      <4>1. ph \in 1..6
        BY DEF Grid
      <4>2. ph # 6 => st' = "S2"
        BY <1>0 DEF StMoved
      <4> QED BY <1>0, <4>1, <4>2
    <3>2. /\ s_dtack[1] => dtack /\ (lag + 1 <= DATA_LAG \/ lag = 0)
          /\ s_vpa[1] => vpa
          /\ s_berr[1] => berr
      BY <1>3, <3>1 DEF OwnFirst
    <3>3. s_dtack[1] => lag' + 2 <= DATA_LAG \/ lag' = 0
      BY <1>0, <2>1, <3>2
    <3> QED BY <2>1, <3>2, <3>3
  <2> QED BY <2>3, <2>4, <2>5
<1> QED BY <1>1, <1>2, <1>3

(* The sample decides once for a cycle.                                    *)
LEMMA KeepsSampled ==
  ASSUME BridgeGrid, CycleTyped, Grid, Latched, OwnAnswers, OwnSecond, Sampled, BridgeStep
  PROVE  Sampled'
<1>0. /\ ph \in 0..11 /\ ph' = IF ph = 11 THEN 0 ELSE ph + 1
      /\ PH_ACK \in 0..5
      /\ StMoved /\ st \in BridgeStates /\ st' \in BridgeStates
      /\ LatchMoved /\ AckMoved
  BY BridgeGrid12 DEF BridgeStep, BridgeMoved, BridgeBoolean, StMoved
<1>1. CASE Start
  <2>1. st' = "S0" /\ ~term' /\ ~sync_go' /\ ~berr_go' /\ ~bx_acked'
    BY <1>0, <1>1 DEF LatchMoved, AckMoved
  <2> QED BY <2>1 DEF Sampled
<1>2. CASE ~Start
  <2>0. /\ bx_a' = bx_a /\ (bx_iack' <=> bx_iack)
        /\ term' <=> term \/ SampleBerr \/ SampleDtack \/ SampleAutovector
        /\ sync_go' <=> sync_go \/ (SampleVpa /\ ~bx_iack)
        /\ berr_go' <=> berr_go \/ SampleBerr
        /\ bx_acked' <=> bx_acked \/ Acks6
        /\ st' = "S0" => st = "S0"
    BY <1>0, <1>2 DEF LatchMoved, AckMoved
  <2>1. ASSUME st' \in {"S0", "S1", "S2", "S3", "S4"}
        PROVE  ~term' /\ ~sync_go' /\ ~berr_go' /\ ~bx_acked'
    <3>1. st \in {"S0", "S1", "S2", "S3", "S4"}
      BY <1>0, <2>0, <2>1 DEF StMoved, BridgeStates
    <3>2. ~SampleBerr /\ ~SampleDtack /\ ~SampleAutovector /\ ~SampleVpa /\ ~Acks6
      BY <3>1, Samples DEF Acks6
    <3> QED BY <2>0, <3>1, <3>2 DEF Sampled
  <2>2. ASSUME st' \in {"VPAW", "VPAE", "VPAH", "VPAX"}
        PROVE  ~term' /\ bx_a' \in Cia
    <3>1. st \in {"VPAW", "VPAE", "VPAH", "VPAX"} \/ (st = "S6" /\ ~term /\ sync_go)
      BY <1>0, <2>2 DEF StMoved, BridgeStates
    <3>2. ~SampleBerr /\ ~SampleDtack /\ ~SampleAutovector
      BY <3>1, Samples
    <3>3. ~term /\ bx_a \in Cia
      BY <3>1 DEF Sampled
    <3> QED BY <2>0, <3>2, <3>3
  <2>3. ASSUME st' \in {"S5", "S6"}
        PROVE  /\ berr_go' => term' /\ bx_a' \in Silent
               /\ term' /\ ~berr_go' => (bx_a' \in Ram /\ dtack') \/ bx_iack'
               /\ sync_go' => bx_a' \in Cia
               /\ bx_acked' => term' /\ st' = "S6" /\ ph' > PH_ACK
    <3>1. st \in {"S4", "S5", "S6"} /\ st \in Strobing
      BY <1>0, <2>3 DEF StMoved, BridgeStates, Strobing
    <3>2. /\ berr_go => term /\ bx_a \in Silent
          /\ term /\ ~berr_go => (bx_a \in Ram /\ dtack) \/ bx_iack
          /\ sync_go => bx_a \in Cia
          /\ bx_acked => term /\ st = "S6" /\ ph > PH_ACK
      BY <3>1 DEF Sampled
    <3>3. dtack => dtack'
      BY <3>1 DEF BridgeStep, BusMoved
    <3>4. berr_go' => term' /\ bx_a' \in Silent
      BY <2>0, <3>2, Samples
    <3>5. term' /\ ~berr_go' => (bx_a' \in Ram /\ dtack') \/ bx_iack'
      BY <2>0, <3>2, <3>3, Samples
    <3>6. sync_go' => bx_a' \in Cia
      BY <2>0, <3>2, Samples
    <3>7. bx_acked' => term' /\ st' = "S6" /\ ph' > PH_ACK
      <4> SUFFICES ASSUME bx_acked' PROVE term' /\ st' = "S6" /\ ph' > PH_ACK
        OBVIOUS
      <4>1. st = "S6" /\ term /\ ph >= PH_ACK /\ ph \in 1..6
        BY <1>0, <2>0, <3>2 DEF Acks6, Grid
      <4>2. st' = "S6" /\ ph # 6
        BY <1>0, <2>3, <4>1 DEF StMoved
      <4> QED BY <1>0, <2>0, <4>1, <4>2
    <3> QED BY <3>4, <3>5, <3>6, <3>7
  <2> QED BY <2>1, <2>2, <2>3 DEF Sampled
<1> QED BY <1>1, <1>2

(* The lag falls as the phase rises.                                       *)
LEMMA KeepsTimely ==
  ASSUME BridgeGrid, CycleTyped, Grid, Latched, OwnAnswers, OwnSecond, Sampled, Timely, BridgeStep
  PROVE  Timely'
<1>0. /\ ph \in 0..11 /\ ph' = IF ph = 11 THEN 0 ELSE ph + 1
      /\ PH_ACK \in 0..5 /\ lag \in Nat /\ DATA_LAG \in Nat /\ SMP_N \in 1..6
      /\ DATA_LAG + SMP_N <= 8 + Settle /\ Settle \in 1..6
      /\ StMoved /\ st \in BridgeStates /\ LatchMoved /\ BusMoved /\ Devices
  BY BridgeGrid12 DEF BridgeStep, BridgeMoved, BridgeBoolean
<1> SUFFICES ASSUME term', bx_a' \in Ram, st' \in {"S5", "S6"}
             PROVE  /\ st' = "S5" => lag' + Ph12' <= 12 + Settle \/ lag' = 0
                    /\ st' = "S6" => lag' + ph' <= Settle \/ lag' = 0
  BY DEF Timely
<1>1. st \in {"S4", "S5", "S6"} /\ st \in Strobing /\ st' \in Strobing /\ ~Start
  BY <1>0, StartFrom DEF StMoved, BridgeStates, Strobing
<1>2. /\ bx_a' = bx_a
      /\ term' <=> term \/ SampleBerr \/ SampleDtack \/ SampleAutovector
  BY <1>0, <1>1 DEF LatchMoved
<1>3. bx_a \notin Silent /\ bx_a \notin Levels
  BY <1>0, <1>2 DEF Devices
<1>4. dtack /\ (term \/ SampleDtack)
  <2>1. term \/ SampleDtack
    BY <1>2, <1>3, Samples
  <2>2. CASE SampleDtack
    BY <2>2, Samples
  <2>3. CASE term
    BY <1>1, <1>3, <2>3 DEF Sampled, Latched
  <2> QED BY <2>1, <2>2, <2>3
<1>5. lag' = IF lag > 0 THEN lag - 1 ELSE 0
  BY <1>0, <1>1, <1>4 DEF BusMoved
<1>6. (st = "S5" /\ (lag + Ph12 <= 12 + Settle \/ lag = 0))
      \/ (st = "S6" /\ term /\ (lag + ph <= Settle \/ lag = 0))
  <2>1. CASE SampleDtack
    <3>1. st = "S5" /\ Ph12 = 6 + SMP_N /\ (lag + 2 <= DATA_LAG \/ lag = 0)
      BY <2>1, Samples
    <3> QED BY <1>0, <3>1
  <2>2. CASE term
    <3>1. st # "S4"
      BY <2>2 DEF Sampled
    <3> QED BY <1>1, <1>2, <2>2, <3>1 DEF Timely
  <2> QED BY <1>4, <2>1, <2>2
<1>7. CASE st = "S5" /\ (lag + Ph12 <= 12 + Settle \/ lag = 0)
  <2>1. ph \notin 1..6 /\ st' = IF ph = 0 THEN "S6" ELSE "S5"
    BY <1>0, <1>7 DEF Grid, StMoved
  <2>2. CASE ph = 0
    BY <1>0, <1>5, <1>7, <2>1, <2>2 DEF Ph12
  <2>3. CASE ph # 0
    BY <1>0, <1>5, <1>7, <2>1, <2>3 DEF Ph12
  <2> QED BY <2>2, <2>3
<1>8. CASE st = "S6" /\ term /\ (lag + ph <= Settle \/ lag = 0)
  <2>1. ph \in 1..6 /\ st' = "S6"
    BY <1>0, <1>8 DEF Grid, StMoved
  <2> QED BY <1>0, <1>5, <1>8, <2>1
<1> QED BY <1>6, <1>7, <1>8

(* E falls with VMA low on the clock that VPAH ends, and on no other.      *)
LEMMA KeepsCounted ==
  ASSUME BridgeGrid, CycleTyped, CycleTyped', EPaced, Counted, BridgeStep, Motherboard
  PROVE  Counted'
<1>0. /\ ph \in 0..11 /\ e_cnt \in 0..E_PERIOD-1
      /\ E_PERIOD \in Nat /\ E_RISE \in 1..E_PERIOD-1
      /\ e_cnt' = IF ph # 0 THEN e_cnt ELSE IF e_cnt = E_PERIOD-1 THEN 0 ELSE e_cnt + 1
      /\ StMoved /\ VpaMoved /\ st \in BridgeStates /\ ~RETIME
  BY BridgeGrid12 DEF BridgeStep, BridgeMoved, BridgeBoolean
<1> SUFFICES ASSUME st' \in Strobing PROVE edges' = IF st' = "VPAX" THEN 1 ELSE 0
  BY DEF Counted
<1>1. EFalls <=> ph = 0 /\ e_cnt = E_PERIOD - 1
  BY <1>0 DEF EFalls, e_pin
<1>2. /\ cpu_as_n <=> st \notin Strobing
      /\ VmaHeld <=> st \in {"VPAE", "VPAH", "VPAX"} /\ st' \in {"VPAE", "VPAH", "VPAX"}
  <2>1. cpu_as_n <=> st \notin Strobing
    BY <1>0, Zenon DEF cpu_as_n, p_as_n
  <2>2. cpu_vma_n <=> st \notin {"VPAE", "VPAH", "VPAX"}
    BY <1>0, Zenon DEF cpu_vma_n, p_vma_n
  <2>3. cpu_vma_n' <=> st' \notin {"VPAE", "VPAH", "VPAX"}
    BY <1>0, Zenon DEF cpu_vma_n, p_vma_n
  <2> QED BY <2>1, <2>2, <2>3 DEF VmaHeld
<1>3. edges' = IF cpu_as_n THEN 0
               ELSE IF EFalls /\ VmaHeld /\ edges < 2 THEN edges + 1 ELSE edges
  BY DEF Motherboard
<1>4. CASE st \notin Strobing
  BY <1>0, <1>2, <1>3, <1>4 DEF StMoved, BridgeStates, Strobing
<1>5. CASE st \in Strobing
  <2>0. ~cpu_as_n /\ edges = IF st = "VPAX" THEN 1 ELSE 0
    BY <1>2, <1>5 DEF Counted
  <2>1. CASE st = "VPAX"
    <3>1. ph \in 1..6 /\ st' = "VPAX"
      BY <1>0, <2>1 DEF EPaced, StMoved, Strobing
    <3> QED BY <1>1, <1>3, <2>0, <2>1, <3>1
  <2>2. CASE st = "VPAH"
    <3>1. st' = IF ph = 0 /\ e_cnt = E_PERIOD - 1 THEN "VPAX" ELSE "VPAH"
      BY <1>0, <2>2 DEF VpaMoved
    <3>2. VmaHeld
      BY <1>2, <2>2, <3>1
    <3> QED BY <1>1, <1>3, <2>0, <2>2, <3>1, <3>2
  <2>3. CASE st = "VPAE"
    <3>1. st' # "VPAX"
      BY <1>0, <2>3 DEF VpaMoved
    <3>2. ~EFalls
      BY <1>0, <1>1, <2>3 DEF EPaced
    <3> QED BY <1>3, <2>0, <2>3, <3>1, <3>2
  <2>4. CASE st \notin {"VPAX", "VPAH", "VPAE"}
    <3>1. st' # "VPAX"
      BY <1>0, <2>4 DEF VpaMoved, StMoved, BridgeStates
    <3> QED BY <1>2, <1>3, <2>0, <2>4, <3>1
  <2> QED BY <2>1, <2>2, <2>3, <2>4
<1> QED BY <1>4, <1>5

(* A cycle stays pending until it is acknowledged.                         *)
LEMMA PendingFrom ==
  ASSUME BridgeGrid, EPaced, Sampled, BridgeStep, Pending'
  PROVE  Start \/ (~Start /\ Pending /\ ~Acks6 /\ ~AcksE)
<1>0. /\ ph \in 0..11 /\ ph' = IF ph = 11 THEN 0 ELSE ph + 1
      /\ PH_ACK \in 0..5
      /\ e_cnt' = IF ph # 0 THEN e_cnt ELSE IF e_cnt = E_PERIOD-1 THEN 0 ELSE e_cnt + 1
      /\ StMoved /\ st \in BridgeStates /\ LatchMoved /\ AckMoved /\ VpaMoved
  BY BridgeGrid12 DEF BridgeStep, BridgeMoved, BridgeBoolean
<1> SUFFICES ASSUME ~Start PROVE Pending /\ ~Acks6 /\ ~AcksE
  OBVIOUS
<1>1. CASE st \in {"S0", "S1", "S2", "S3", "S4", "S5", "VPAW"}
  BY <1>1 DEF Pending, Acks6, AcksE
<1>2. CASE st = "S6"
  <2>1. bx_acked => term /\ ph \in Nat
    BY <1>0, <1>2 DEF Sampled
  <2>2. bx_acked \/ Acks6 => term /\ bx_acked'
    BY <1>0, <2>1 DEF AckMoved, Acks6
  <2>3. term => st' \in {"S6", "S7"}
    BY <1>0, <1>2 DEF StMoved
  <2>4. ~(bx_acked \/ Acks6)
    BY <2>2, <2>3 DEF Pending
  <2> QED BY <1>2, <2>4 DEF Pending, AcksE
<1>3. CASE st = "VPAE"
  <2> SUFFICES ASSUME e_cnt = E_PERIOD - 1, ph >= PH_ACK PROVE FALSE
    BY <1>0, <1>3 DEF Pending, Acks6, AcksE
  <2>1. ph \in 1..6
    BY <1>3 DEF EPaced
  <2>2. ph # 6 => st' = "VPAE" /\ e_cnt' = E_PERIOD - 1 /\ ph' > PH_ACK
    BY <1>0, <1>3, <2>1 DEF VpaMoved
  <2>3. ph = 6 => st' = "VPAH"
    BY <1>0, <1>3 DEF VpaMoved
  <2> QED BY <2>2, <2>3, BridgeGrid12 DEF Pending
<1>4. CASE st \in {"VPAH", "VPAX", "S7", "IDLE"}
  BY <1>0, <1>4 DEF StMoved, VpaMoved, LatchMoved, Pending
<1> QED BY <1>0, <1>1, <1>2, <1>3, <1>4 DEF BridgeStates

(* An acknowledge is for the cycle that the core is waiting in.            *)
LEMMA AckMeans ==
  ASSUME BridgeGrid, Sampled, Latched, Taken, CycleTyped
  PROVE  /\ Acks6 \/ AcksE => Pending /\ bx_a \notin Board /\ bx_taken /\ ~Start /\ bx_a = adr
                              /\ (bx_rw <=> kind # "write") /\ ~as_n /\ s \in Waits
         /\ Acks6 => (term /\ bx_iack => av_valid)
         /\ Acks6 /\ ~berr_go => (bx_a \in Ram /\ dtack) \/ bx_iack
         /\ Acks6 /\ berr_go => bx_a \in Silent
         /\ AcksE => bx_a \in Cia
<1>0. ph \in 0..11 /\ PH_ACK \in 0..5
  BY BridgeGrid12 DEF CycleTyped, CoreBusTypeOK
<1>1. /\ Acks6 /\ ~berr_go => (bx_a \in Ram /\ dtack) \/ bx_iack
      /\ Acks6 /\ berr_go => bx_a \in Silent
      /\ AcksE => bx_a \in Cia
  BY DEF Sampled, Acks6, AcksE
<1>2. Acks6 \/ AcksE => Pending /\ ~Start
  BY <1>0 DEF Acks6, AcksE, Pending, Start
<1>3. Acks6 \/ AcksE => bx_a \notin Board
  BY <1>1, BridgeGrid12 DEF Devices, Latched
<1> QED BY <1>1, <1>2, <1>3 DEF Taken

(* Only its own acknowledge moves the core on, and none is left over when  *)
(* a cycle is taken.                                                       *)
LEMMA OnlyOwn ==
  ASSUME BridgeStep, BridgeGrid, CoreShape, Taken, Handed, Delivered
  PROVE  /\ ~as_n => adr' = adr /\ kind' = kind
         /\ s \in Waits /\ s' \notin Waits => core_dtack_lo \/ core_berr_lo \/ adr \in Board
         /\ Start => ~core_dtack_lo /\ ~core_berr_lo
<1>1. CoreSteps
  BY DEF BridgeStep
<1>2. ~as_n => adr' = adr /\ kind' = kind
  <2>1. ~as_n => s \in Low
    BY DEF CoreShape
  <2>2. s \in Low => s' # "S1"
    BY <1>1 DEF Low, CoreSteps
  <2> QED BY <1>1, <2>1, <2>2 DEF CoreSteps
<1>3. s \in Waits /\ s' \notin Waits => core_dtack_lo \/ core_berr_lo \/ adr \in Board
  BY <1>1 DEF CoreSteps, Waits, int_space
<1>4. Start => ~core_dtack_lo /\ ~core_berr_lo
  BY StartFrom DEF Handed, Delivered
<1> QED BY <1>2, <1>3, <1>4

(* The core stays in the cycle that the bridge has taken.                  *)
LEMMA KeepsTaken ==
  ASSUME BridgeGrid, CycleTyped, Grid, EPaced, Latched, CoreShape, OwnAnswers, OwnSecond, Sampled,
         Taken, Handed, Delivered, BridgeStep
  PROVE  Taken'
<1>0. LatchMoved /\ AckMoved /\ CoreSteps /\ CoreShape' /\ Devices /\ BridgeBoolean
  BY BridgeGrid12 DEF BridgeStep
<1>1. ASSUME Pending', bx_a' \notin Board
      PROVE  /\ bx_a' = adr' /\ (bx_rw' <=> kind' # "write") /\ ~as_n' /\ s' \in Waits /\ bx_taken'
             /\ ~core_dtack_lo' /\ ~core_berr_lo'
             /\ term' /\ bx_iack' => av_valid'
  <2>1. CASE Start
    <3>1. bx_a' = adr /\ (bx_rw' <=> rw) /\ bx_taken' /\ ~term' /\ ~as_n /\ ~bx_taken
      BY <1>0, <2>1, StartFrom DEF LatchMoved, AckMoved
    <3>2. s \in Waits /\ adr \notin Board
      BY <1>1, <3>1 DEF Taken
    <3>3. ~core_dtack_lo /\ ~core_berr_lo /\ adr' = adr /\ kind' = kind /\ s' \in Waits
      BY <2>1, <3>1, <3>2, OnlyOwn
    <3>4. ~Acks6 /\ ~AcksE
      BY <2>1, AckMeans
    <3>5. ~core_dtack_lo' /\ ~core_berr_lo'
      BY <1>0, <3>3, <3>4 DEF AckMoved
    <3>6. ~as_n' /\ (rw <=> kind # "write")
      BY <1>0, <3>2, <3>3 DEF CoreShape, Waits, Low
    <3> QED BY <3>1, <3>3, <3>5, <3>6
  <2>2. CASE ~Start /\ Pending /\ ~Acks6 /\ ~AcksE
    <3>1. /\ bx_a' = bx_a /\ (bx_rw' <=> bx_rw) /\ (bx_iack' <=> bx_iack)
          /\ term' <=> term \/ SampleBerr \/ SampleDtack \/ SampleAutovector
      BY <1>0, <2>2 DEF LatchMoved
    <3>2. /\ bx_a = adr /\ (bx_rw <=> kind # "write") /\ ~as_n /\ s \in Waits /\ bx_taken
          /\ ~core_dtack_lo /\ ~core_berr_lo
          /\ term /\ bx_iack => av_valid
          /\ adr \notin Board
      BY <1>1, <2>2, <3>1 DEF Taken
    <3>3. adr' = adr /\ kind' = kind /\ s' \in Waits
      BY <3>2, OnlyOwn
    <3>4. ~as_n'
      BY <1>0, <3>3 DEF CoreShape, Waits, Low
    <3>5. /\ ~core_dtack_lo' /\ ~core_berr_lo' /\ bx_taken'
          /\ av_valid' <=> SampleAutovector \/ av_valid
      BY <1>0, <2>2, <3>2 DEF AckMoved
    <3>6. bx_iack /\ (SampleBerr \/ SampleDtack) => FALSE
      BY <1>0, Samples DEF Devices, Latched
    <3>7. term' /\ bx_iack' => av_valid'
      BY <3>1, <3>2, <3>5, <3>6
    <3> QED BY <3>1, <3>2, <3>3, <3>4, <3>5, <3>7
  <2> QED BY <1>1, <2>1, <2>2, PendingFrom
<1>2. ASSUME ~as_n', ~bx_taken'
      PROVE  s' \in Waits \/ adr' \in Board
  <2>1. CASE as_n
    <3>1. s' \in Low /\ s \notin Low /\ s \in SStates
      BY <1>0, <1>2, <2>1 DEF CoreShape, CoreSteps
    <3> QED BY <1>0, <3>1 DEF CoreSteps, Low, Waits, SStates
  <2>2. CASE ~as_n
    <3>1. ~bx_taken
      BY <1>0, <1>2, <2>2 DEF AckMoved
    <3>2. ~core_dtack_lo /\ ~core_berr_lo
      BY <2>2, <3>1 DEF Handed, Delivered
    <3>3. s \in Waits \/ adr \in Board
      BY <2>2, <3>1 DEF Taken
    <3> QED BY <2>2, <3>2, <3>3, OnlyOwn
  <2> QED BY <1>0, <2>1, <2>2 DEF BridgeBoolean
<1> QED BY <1>1, <1>2 DEF Taken

(* Acknowledges and vectors fall with the core's AS.                       *)
LEMMA KeepsHanded ==
  ASSUME BridgeGrid, CycleTyped, Grid, EPaced, Latched, CoreShape, OwnAnswers, OwnSecond, Sampled,
         Taken, Handed, Delivered, BridgeStep
  PROVE  Handed'
<1>0. LatchMoved /\ AckMoved /\ CoreSteps /\ CoreShape' /\ Devices /\ BridgeBoolean
  BY BridgeGrid12 DEF BridgeStep
<1>1. SampleAutovector => ~as_n /\ ~Start /\ bx_iack /\ bx_a = adr
  <2>1. SampleAutovector => st = "S5" /\ bx_iack /\ bx_a \in Levels
    BY Samples
  <2>2. SampleAutovector => Pending /\ bx_a \notin Board /\ ~Start
    BY <1>0, <2>1 DEF Pending, Devices, Start
  <2> QED BY <2>1, <2>2 DEF Taken
<1>2. ASSUME s' \in Rest \cup {"S2"}
      PROVE  ~core_dtack_lo' /\ ~core_berr_lo' /\ ~av_valid'
  <2>1. s \in {"S7", "S0", "SI", "S1"}
    BY <1>0, <1>2 DEF CoreSteps, SStates, Rest
  <2>2. as_n
    BY <2>1 DEF CoreShape, Low
  <2>3. ~Acks6 /\ ~AcksE
    BY <2>2, AckMeans
  <2> QED BY <1>0, <1>1, <2>2, <2>3 DEF AckMoved
<1>3. ASSUME s' \in {"S5", "S6"}
      PROVE  core_dtack_lo' \/ core_berr_lo' \/ adr' \in Board
  <2>1. s \in {"S4", "S5"} /\ ~as_n
    BY <1>0, <1>3 DEF CoreSteps, SStates, CoreShape, Low
  <2>2. core_dtack_lo \/ core_berr_lo \/ adr \in Board
    BY <1>3, <2>1, OnlyOwn DEF Handed, Waits
  <2> QED BY <1>0, <2>1, <2>2, OnlyOwn DEF AckMoved
<1>4. core_berr_lo' => adr' \in Silent
  <2>1. core_berr_lo' => ~as_n /\ adr \in Silent
    BY <1>0, AckMeans DEF AckMoved, Handed
  <2> QED BY <2>1, OnlyOwn
<1>5. core_berr_lo' /\ ~as_n' => bx_taken'
  BY <1>0, AckMeans DEF AckMoved, Handed
<1>6. av_valid' => bx_iack' /\ bx_a' = adr'
  <2>1. av_valid' => ~Start /\ ~as_n /\ bx_iack /\ bx_a = adr
    BY <1>0, <1>1 DEF AckMoved, Handed
  <2> QED BY <1>0, <2>1, OnlyOwn DEF LatchMoved
<1> QED BY <1>2, <1>3, <1>4, <1>5, <1>6 DEF Handed

(* The word follows the acknowledge by at most the clocks that the core    *)
(* needs to S6.                                                            *)
LEMMA KeepsDelivered ==
  ASSUME BridgeGrid, CycleTyped, Grid, EPaced, Latched, CoreShape, Sampled, Timely,
         OwnAnswers, OwnSecond, Taken, Handed, Delivered, BridgeStep
  PROVE  Delivered'
<1>0. /\ LatchMoved /\ AckMoved /\ CoreSteps /\ CoreShape' /\ Devices /\ BridgeBoolean /\ DataMoved
      /\ ReadMoved /\ st \in BridgeStates
      /\ ph \in 0..11 /\ ph' = IF ph = 11 THEN 0 ELSE ph + 1
      /\ PH_ACK \in 0..5 /\ Settle \in PH_ACK+1..6
      /\ E_RISE \in 1..E_PERIOD-1 /\ E_PERIOD \in Nat /\ StMoved
  BY BridgeGrid12 DEF BridgeStep, BridgeMoved, BridgeBoolean
<1> SUFFICES ASSUME core_dtack_lo', ~as_n'
             PROVE  /\ bx_taken' /\ bx_a' = adr' /\ (bx_rw' <=> kind' # "write")
                    /\ bx_a' \notin Silent \cup Board
                    /\ kind' = "iack" => av_valid'
                    /\ st' = "S6" => \/ s' \in Waits
                                     \/ s' = "S5" /\ ph' > PH_ACK + 1
                                     \/ s' = "S6" /\ ph' > PH_ACK + 2
                    /\ kind' = "read" => rd_data' = mem'[adr'] \/ (st' = "S6" /\ ph' <= Settle)
  BY DEF Delivered
<1> DEFINE New == (Acks6 /\ ~berr_go) \/ AcksE
<1>1. New \/ (core_dtack_lo /\ ~as_n)
  BY <1>0 DEF AckMoved
<1>2. /\ bx_taken /\ ~Start /\ ~as_n /\ bx_a = adr /\ (bx_rw <=> kind # "write")
      /\ bx_a \notin Silent \cup Board
      /\ kind = "iack" => av_valid
  <2>1. CASE New
    <3>1. bx_a \in Ram \cup Cia \cup Levels
      BY <2>1, AckMeans DEF Latched
    <3>2. /\ bx_taken /\ ~Start /\ ~as_n /\ bx_a = adr /\ (bx_rw <=> kind # "write")
          /\ bx_a \notin Silent \cup Board
      BY <1>0, <2>1, <3>1, AckMeans DEF Devices
    <3>3. kind = "iack" => bx_iack /\ bx_a \notin Cia
      BY <1>0, <3>2 DEF CoreShape, Latched, Devices
    <3>4. kind = "iack" => av_valid
      BY <2>1, <3>3, AckMeans DEF Acks6
    <3> QED BY <3>2, <3>4
  <2>2. CASE core_dtack_lo /\ ~as_n
    <3>1. /\ bx_taken /\ bx_a = adr /\ (bx_rw <=> kind # "write")
          /\ bx_a \notin Silent \cup Board
          /\ kind = "iack" => av_valid
      BY <2>2 DEF Delivered
    <3> QED BY <2>2, <3>1 DEF Start, bx_req
  <2> QED BY <1>1, <2>1, <2>2
<1>3. /\ bx_a' = bx_a /\ (bx_rw' <=> bx_rw) /\ adr' = adr /\ kind' = kind /\ bx_taken'
      /\ av_valid => av_valid'
  BY <1>0, <1>2, OnlyOwn DEF LatchMoved, AckMoved
<1>4. st = "S6" => term /\ ~berr_go /\ (New => ph = PH_ACK /\ s \in Waits)
                   /\ (~New => bx_acked /\ ph > PH_ACK)
  <2> SUFFICES ASSUME st = "S6"
               PROVE  term /\ ~berr_go /\ (New => ph = PH_ACK /\ s \in Waits)
                      /\ (~New => bx_acked /\ ph > PH_ACK)
    OBVIOUS
  <2>1. CASE New
    <3>1. Acks6 /\ ~berr_go
      BY <2>1 DEF AcksE
    <3> QED BY <2>1, <3>1, AckMeans DEF Acks6
  <2>2. CASE ~New
    <3>1. ~Pending
      BY <1>1, <1>2, <2>2 DEF Taken
    <3>2. bx_acked
      BY <3>1 DEF Pending
    <3> QED BY <1>2, <2>2, <3>2 DEF Sampled
  <2> QED BY <2>1, <2>2
<1>5. ASSUME st' = "S6"
      PROVE  s' \in Waits \/ (s' = "S5" /\ ph' > PH_ACK + 1) \/ (s' = "S6" /\ ph' > PH_ACK + 2)
  <2>1. st \in {"S5", "S6"}
    BY <1>0, <1>5 DEF StMoved, BridgeStates
  <2>2. st = "S6"
    <3>1. ASSUME st = "S5" PROVE FALSE
      <4>1. ~New /\ Pending
        BY <3>1 DEF Acks6, AcksE, Pending
      <4> QED BY <1>1, <1>2, <4>1 DEF Taken
    <3> QED BY <2>1, <3>1
  <2>3. ph \in 1..6 /\ ph' = ph + 1
    BY <1>0, <2>2 DEF Grid
  <2>4. CASE New
    <3>1. s \in Waits /\ ~core_dtack_lo /\ ~core_berr_lo /\ adr \notin Board
      BY <1>2, <2>4, AckMeans DEF Taken
    <3> QED BY <3>1, OnlyOwn
  <2>5. CASE ~New
    <3>1. \/ s \in Waits /\ ph > PH_ACK
          \/ s = "S5" /\ ph > PH_ACK + 1
          \/ s = "S6" /\ ph > PH_ACK + 2
      BY <1>1, <1>4, <2>2, <2>5 DEF Delivered
    <3>2. s' # "S7"
      BY <1>0 DEF CoreShape, Low
    <3> QED BY <1>0, <2>3, <3>1, <3>2 DEF CoreSteps, Waits
  <2> QED BY <2>4, <2>5
<1>6. ASSUME kind = "read" PROVE rd_data' = mem'[adr] \/ (st' = "S6" /\ ph' <= Settle)
  <2>1. bx_rw /\ ~bx_iack
    BY <1>2, <1>6, CoreBusAssumption DEF CoreShape, Latched
  <2>2. mem' = mem
    BY <1>0, <2>1 DEF ReadMoved
  <2>3. CASE st = "S6"
    <3>1. ph \in 1..6 /\ ph' = ph + 1
      BY <1>0, <2>3 DEF Grid
    <3>2. CASE ph < Settle
      <4>1. st' = "S6"
        BY <1>0, <2>3, <3>2 DEF StMoved
      <4> QED BY <1>0, <3>1, <3>2, <4>1
    <3>3. CASE ph >= Settle
      <4>1. bx_a \in Ram /\ dtack
        BY <1>4, <2>1, <2>3 DEF Sampled
      <4>2. lag + ph <= Settle \/ lag = 0
        BY <1>4, <2>3, <4>1 DEF Timely
      <4>3. lag \in Nat
        BY <1>0 DEF BridgeBoolean
      <4>4. lag = 0
        BY <1>0, <3>3, <4>2, <4>3
      <4>5. cpu_d = mem[bx_a]
        BY <1>0, <2>1, <2>3, <4>1, <4>4 DEF ReadMoved, Strobing
      <4> QED BY <1>0, <1>2, <2>1, <2>2, <2>3, <4>5 DEF DataMoved
    <3> QED BY <1>0, <3>1, <3>2, <3>3
  <2>4. CASE st = "VPAE" /\ e_cnt >= E_RISE
    <3>1. bx_a \in Cia /\ bx_a \notin Ram
      BY <1>0, <2>4 DEF Sampled, Devices
    <3>2. cpu_d = mem[bx_a]
      BY <1>0, <2>1, <2>4, <3>1 DEF ReadMoved, Strobing
    <3> QED BY <1>0, <1>2, <2>1, <2>2, <2>4, <3>2 DEF DataMoved
  <2>5. CASE st # "S6" /\ ~(st = "VPAE" /\ e_cnt >= E_RISE)
    <3>1. ~New
      BY <1>0, <2>5 DEF Acks6, AcksE
    <3>2. rd_data = mem[adr]
      BY <1>1, <1>6, <2>5, <3>1 DEF Delivered
    <3> QED BY <1>0, <2>2, <2>5, <3>2 DEF DataMoved
  <2> QED BY <2>3, <2>4, <2>5
<1> QED BY <1>2, <1>3, <1>5, <1>6

-----------------------------------------------------------------------------
(* The invariant holds at first,                                           *)
LEMMA BridgeInitInv ==
  ASSUME BridgeGrid, Init
  PROVE  BridgeInv
<1>0. CoreBusInit /\ BridgeInit /\ ~dtack /\ ~vpa /\ ~berr /\ lag = 0
  BY DEF Init
<1>1. CycleTyped
  <2>1. CoreBusTypeOK
    BY CoreInitTyped
  <2>2. {bx_rw, bx_ds, bx_iack, bx_taken, bx_acked, term, sync_go, berr_go,
         core_dtack_lo, core_berr_lo, av_valid} \subseteq BOOLEAN
    BY <1>0 DEF BridgeInit
  <2>3. st \in BridgeStates /\ smp_cnt \in 0..SMP_N
    BY <1>0, BridgeGrid12 DEF BridgeInit, BridgeStates
  <2>4. {dtack, vpa, berr} \subseteq BOOLEAN
    BY DEF Init
  <2>5. resets \in Nat
    BY DEF Init
  <2> QED BY <1>0, <2>1, <2>2, <2>3, <2>4, <2>5 DEF CycleTyped, StTyped
<1>2. CoreShape /\ Grid /\ EPaced
  BY <1>0 DEF CoreBusInit, BridgeInit, CoreShape, Low, Grid, EPaced
<1>3. Latched
  BY <1>0, CoreBusAssumption DEF CoreBusInit, BridgeInit, Latched
<1>4. Gone /\ OwnAnswers /\ OwnFirst /\ OwnSecond /\ Sampled /\ Timely
  BY <1>0 DEF CoreBusInit, BridgeInit, Quiet, Gone, OwnAnswers, OwnFirst, OwnSecond, Sampled, Timely, Strobing
<1>5. Taken /\ Handed /\ Delivered
  BY <1>0 DEF CoreBusInit, BridgeInit, Taken, Pending, Handed, Delivered
<1>6. Counted
  BY <1>0 DEF BridgeInit, Counted, Strobing
<1> QED BY <1>1, <1>2, <1>3, <1>4, <1>5, <1>6 DEF BridgeInv

(* after a clock,                                                          *)
LEMMA BridgeClockKept ==
  ASSUME BridgeGrid, BridgeInv, NEW int_ack \in BOOLEAN, Clock(int_ack)
  PROVE  BridgeInv'
<1>0. /\ CycleTyped /\ CoreShape /\ Grid /\ EPaced /\ Latched /\ Gone
      /\ OwnAnswers /\ OwnFirst /\ OwnSecond /\ Sampled /\ Timely /\ Taken /\ Handed /\ Delivered /\ Counted /\ CoreBusTypeOK
  BY DEF BridgeInv, CycleTyped
<1>1. BridgeStep /\ CycleTyped'
  BY <1>0, BridgeSteps
<1>2. CoreShape' /\ Grid' /\ EPaced'
  BY <1>0, <1>1, BridgeGrid12, GridKept, KeepsEPaced DEF BridgeStep
<1>3. Latched' /\ Gone' /\ OwnAnswers' /\ OwnFirst' /\ OwnSecond'
  BY <1>0, <1>1, KeepsLatched, KeepsGone, KeepsOwn
<1>4. Sampled' /\ Timely'
  BY <1>0, <1>1, KeepsSampled, KeepsTimely
<1>5. Taken' /\ Handed' /\ Delivered'
  BY <1>0, <1>1, KeepsTaken, KeepsHanded, KeepsDelivered
<1>6. Counted'
  BY <1>0, <1>1, KeepsCounted DEF Clock
<1> QED BY <1>1, <1>2, <1>3, <1>4, <1>5, <1>6 DEF BridgeInv

(* after a reset that comes at any time,                                   *)
LEMMA BridgeResetKept ==
  ASSUME BridgeGrid, BridgeInv, Reset
  PROVE  BridgeInv'
<1>0. /\ CoreReset /\ BridgeReset /\ ~dtack' /\ ~vpa' /\ ~berr' /\ lag' = 0
      /\ s_dtack' = Quiet /\ s_vpa' = Quiet /\ s_berr' = Quiet
      /\ CycleTyped /\ CoreBusTypeOK /\ CoreShape /\ Latched
  BY DEF Reset, BridgeInv, CycleTyped
<1>2. CycleTyped'
  <2>1. CoreBusTypeOK'
    BY <1>0, CoreResetTyped, BridgeGrid12
  <2>2. {bx_rw', bx_ds', bx_iack', bx_taken', bx_acked', term', sync_go', berr_go',
         core_dtack_lo', core_berr_lo', av_valid'} \subseteq BOOLEAN
    BY <1>0 DEF BridgeReset, latchVars, CycleTyped, StTyped
  <2>3. st' \in BridgeStates /\ smp_cnt' \in 0..SMP_N
    BY <1>0, BridgeGrid12 DEF BridgeReset, BridgeStates
  <2>4. {dtack', vpa', berr'} \subseteq BOOLEAN
    <3>1. dtack' = FALSE /\ vpa' = FALSE /\ berr' = FALSE
      BY DEF Reset
    <3>2. dtack' \in BOOLEAN /\ vpa' \in BOOLEAN /\ berr' \in BOOLEAN
      BY <3>1, Zenon
    <3> QED BY <3>2
  <2>5. resets' \in Nat
    BY <1>0 DEF Reset, CycleTyped
  <2> QED BY <1>0, <2>1, <2>2, <2>3, <2>4, <2>5 DEF CycleTyped, StTyped
<1>3. CoreShape' /\ Grid' /\ EPaced'
  BY <1>0 DEF CoreReset, BridgeReset, CoreShape, Low, Grid, EPaced, CoreBusTypeOK
<1>4. Latched'
  BY <1>0 DEF BridgeReset, latchVars, Latched
<1>5. Gone' /\ OwnAnswers' /\ OwnFirst' /\ OwnSecond' /\ Sampled' /\ Timely'
  BY <1>0 DEF CoreReset, BridgeReset, Quiet, Gone, OwnAnswers, OwnFirst, OwnSecond, Sampled, Timely, Strobing
<1>6. Taken' /\ Handed' /\ Delivered'
  BY <1>0 DEF CoreReset, BridgeReset, Taken, Pending, Handed, Delivered
<1>7. Counted'
  BY <1>0 DEF BridgeReset, Counted, Strobing
<1> QED BY <1>2, <1>3, <1>4, <1>5, <1>6, <1>7 DEF BridgeInv

(* and so after every step.                                                *)
LEMMA BridgeStepKept ==
  ASSUME BridgeGrid, BridgeInv, [Next]_vars
  PROVE  BridgeInv'
<1>1. CASE UNCHANGED vars
  <2>1. /\ UNCHANGED <<clockVars, syncVars, coreVars, bridgeVars, retimeVars, mbVars>>
    BY <1>1 DEF vars
  <2>0. resets' = resets
    BY <1>1 DEF vars
  <2>2. (CycleTyped /\ CoreShape /\ Grid /\ EPaced /\ Latched)'
    BY <2>0, <2>1 DEF BridgeInv, CycleTyped, CoreBusTypeOK, StTyped, CoreShape, Grid, EPaced, Latched,
       clockVars, syncVars, coreVars, bridgeVars, latchVars, mbVars
  <2>3. (Gone /\ OwnAnswers /\ OwnFirst /\ OwnSecond /\ Sampled /\ Timely)'
    BY <2>1 DEF BridgeInv, Gone, Since, Ph12, OwnAnswers, OwnFirst, OwnSecond, Sampled, Timely,
       clockVars, syncVars, coreVars, bridgeVars, latchVars, mbVars
  <2>4. (Taken /\ Handed /\ Delivered /\ Counted)'
    BY <2>1 DEF BridgeInv, Taken, Pending, Handed, Delivered, Counted,
       clockVars, syncVars, coreVars, bridgeVars, latchVars, mbVars
  <2> QED BY <2>2, <2>3, <2>4 DEF BridgeInv
<1>2. CASE Reset
  BY <1>2, BridgeResetKept
<1>3. CASE \E int_ack \in BOOLEAN : Clock(int_ack)
  BY <1>3, BridgeClockKept
<1> QED BY <1>1, <1>2, <1>3 DEF Next

(* In S6 the core is in the cycle that the bridge delivered.               *)
LEMMA InvBridgeAnswers ==
  ASSUME BridgeGrid, BridgeInv
  PROVE  BridgeAnswers
<1>0. /\ CoreShape /\ Latched /\ Handed /\ Delivered /\ Devices
      /\ core_iedb = IF av_valid THEN av_num ELSE rd_data
  BY BridgeGrid12, BridgePins DEF BridgeInv
<1>1. s = "S6" => ~as_n /\ (core_dtack_lo \/ core_berr_lo \/ adr \in Board)
  BY <1>0 DEF CoreShape, Low, Handed
<1>2. ReadsReturn
  <2> SUFFICES ASSUME s = "S6", kind = "read", adr \in Device, ~core_berr_lo
               PROVE  core_iedb = mem[adr]
    BY DEF ReadsReturn
  <2>1. adr \notin Board /\ adr \notin Levels
    BY <1>0 DEF Devices, Device
  <2>2. ~av_valid
    BY <1>0, <2>1 DEF Handed, Latched
  <2>3. rd_data = mem[adr]
    <3>1. PH_ACK \in 0..5 /\ Settle <= PH_ACK + 2 /\ Settle \in Nat /\ ph \in 0..11
      BY BridgeGrid12 DEF BridgeInv, CycleTyped, CoreBusTypeOK
    <3> QED BY <1>0, <1>1, <2>1, <3>1 DEF Delivered, Waits
  <2> QED BY <1>0, <2>2, <2>3
<1>3. VectorIsLevel
  <2> SUFFICES ASSUME s = "S6", kind = "iack" PROVE core_iedb = adr
    BY DEF VectorIsLevel, core_fc7
  <2>1. adr \in Levels
    BY <1>0 DEF CoreShape
  <2>2. adr \notin Board /\ adr \notin Silent
    BY <1>0, <2>1 DEF Devices
  <2>3. av_valid
    BY <1>0, <1>1, <2>2 DEF Handed, Delivered
  <2> QED BY <1>0, <2>3 DEF Handed, Latched
<1> QED BY <1>2, <1>3 DEF BridgeAnswers

(* The latched cycle is not replaced before S7.                            *)
LEMMA BridgeSteady ==
  ASSUME BridgeGrid, BridgeInv, [Next]_vars, ~cpu_as_n, resets' = resets
  PROVE  cpu_a' = cpu_a /\ cpu_rw' = cpu_rw
<1>0. ~RETIME /\ st \in Strobing /\ bx_rw \in BOOLEAN /\ CycleTyped /\ CoreShape /\ Grid
      /\ EPaced
  <2>1. ~RETIME
    BY BridgeGrid12
  <2>2. st \in Strobing
    BY <2>1, BridgePins, Zenon
  <2> QED BY <2>1, <2>2 DEF BridgeInv, CycleTyped, StTyped
<1>1. ~Reset
  BY <1>0 DEF Reset, CycleTyped
<1>2. CASE UNCHANGED vars
  <2>1. UNCHANGED bridgeVars
    BY <1>2 DEF vars
  <2> QED BY <1>0, <2>1, Zenon DEF bridgeVars, latchVars, cpu_a, cpu_rw, p_rw
<1>3. ASSUME NEW int_ack \in BOOLEAN, Clock(int_ack)
      PROVE  cpu_a' = cpu_a /\ cpu_rw' = cpu_rw
  <2>1. BridgeStep /\ CycleTyped'
    BY <1>0, <1>3, BridgeSteps
  <2>2. bx_a' = bx_a /\ (bx_rw' <=> bx_rw) /\ bx_rw' \in BOOLEAN
    <3>1. ~Start
      BY <1>0 DEF Start, Strobing
    <3> QED BY <2>1, <3>1 DEF BridgeStep, LatchMoved, CycleTyped, StTyped
  <2>3. st' \in Strobing \cup {"S7"} /\ st \in Strobing \cup {"S7"}
    BY <1>0, <2>1 DEF BridgeStep, BridgeMoved, StMoved, BridgeStates, Strobing
  <2>4. cpu_a' = cpu_a
    BY <1>0, <2>2, Zenon DEF cpu_a
  <2>5. cpu_rw <=> bx_rw
    BY <1>0, <2>3, Zenon DEF cpu_rw, p_rw
  <2>6. cpu_rw' <=> bx_rw'
    BY <1>0, <2>3, Zenon DEF cpu_rw, p_rw
  <2>7. cpu_rw \in BOOLEAN /\ cpu_rw' \in BOOLEAN
    BY <1>0, Zenon DEF cpu_rw, p_rw
  <2> QED BY <2>2, <2>4, <2>5, <2>6, <2>7
<1> QED BY <1>1, <1>2, <1>3 DEF Next

(* A 6800 cycle ends from VPAX.                                            *)
LEMMA BridgeOneEdge ==
  ASSUME BridgeGrid, BridgeInv, [Next]_vars, AsRises, cpu_a \in Cia, resets' = resets
  PROVE  edges = 1
<1>0. /\ ~RETIME /\ st \in Strobing /\ st' \notin Strobing /\ bx_a \in Cia
      /\ CycleTyped /\ CoreShape /\ Latched /\ Sampled /\ Counted /\ Devices
  <2>1. ~RETIME /\ Devices
    BY BridgeGrid12
  <2>2. ~cpu_as_n /\ cpu_as_n' /\ cpu_a \in Cia
    BY DEF AsRises
  <2>3. st \in Strobing
    BY <2>1, <2>2, Zenon DEF cpu_as_n, p_as_n
  <2>4. st' \notin Strobing
    BY <2>1, <2>2, Zenon DEF cpu_as_n, p_as_n
  <2>5. bx_a \in Cia
    BY <2>1, <2>2, Zenon DEF cpu_a
  <2> QED BY <2>1, <2>3, <2>4, <2>5 DEF BridgeInv
<1>1. ~Reset
  BY <1>0 DEF Reset, CycleTyped
<1>2. CASE UNCHANGED vars
  <2>1. st' = st
    BY <1>2 DEF vars, bridgeVars
  <2> QED BY <1>0, <2>1
<1>3. ASSUME NEW int_ack \in BOOLEAN, Clock(int_ack) PROVE edges = 1
  <2>1. StMoved
    BY <1>0, <1>3, BridgeSteps DEF BridgeStep, BridgeMoved
  <2>2. (st = "S6" /\ term) \/ st = "VPAX"
    BY <1>0, <2>1 DEF StMoved, BridgeStates, Strobing
  <2>3. ~(st = "S6" /\ term)
    BY <1>0 DEF Sampled, Devices, Latched
  <2> QED BY <1>0, <2>2, <2>3 DEF Counted
<1> QED BY <1>1, <1>2, <1>3 DEF Next

(* The invariant of the bridge holds in every reachable state.             *)
THEOREM BridgeInductive == BridgeGrid => (Spec => []BridgeInv)
<1> SUFFICES ASSUME BridgeGrid PROVE Spec => []BridgeInv
  OBVIOUS
<1>1. Init => BridgeInv
  BY BridgeInitInv
<1>2. BridgeInv /\ [Next]_vars => BridgeInv'
  BY BridgeStepKept
<1> QED BY <1>1, <1>2, PTL DEF Spec

(* What the bridge latches for the device and keeps for the core           *)
(* (base64_top.sv, 953-1091) is this cycle's: a read's word, though it may *)
(* come long after its DTACK, and an acknowledge's vector.                 *)
THEOREM BridgeHandsOver == BridgeGrid => (Spec => []BridgeAnswers)
<1> SUFFICES ASSUME BridgeGrid PROVE Spec => []BridgeAnswers
  OBVIOUS
<1>1. BridgeInv => BridgeAnswers
  BY InvBridgeAnswers
<1>2. Spec => []BridgeInv
  BY BridgeInductive
<1> QED BY <1>1, <1>2, PTL

(* Its pins keep the protocol too: address and R/W hold past AS, and a     *)
(* 6800 cycle meets one fall of E with VMA low.                            *)
THEOREM BridgePinsKeepProtocol == BridgeGrid => (Spec => PinsKeepProtocol)
<1> SUFFICES ASSUME BridgeGrid PROVE Spec => PinsKeepProtocol
  OBVIOUS
<1>1. BridgeInv /\ [Next]_vars
        => [~cpu_as_n /\ resets' = resets => cpu_a' = cpu_a /\ cpu_rw' = cpu_rw]_vars
  BY BridgeSteady
<1>2. BridgeInv /\ [Next]_vars => [AsRises /\ cpu_a \in Cia /\ resets' = resets => edges = 1]_vars
  BY BridgeOneEdge
<1>3. Spec => []BridgeInv
  BY BridgeInductive
<1> QED BY <1>1, <1>2, <1>3, PTL DEF Spec, PinsKeepProtocol, BusSteady, OneEdge
=============================================================================
