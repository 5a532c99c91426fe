------------------------------ MODULE CoreBus ------------------------------
(***************************************************************************)
(* What both motherboard bus engines of base64_top.sv share: the 7M ticks  *)
(* and the E clock they are paced by, the synchronised answers of the      *)
(* motherboard, and the fx68k core they serve.                             *)
(*                                                                         *)
(* The core is not part of the repository (an empty submodule): it is the  *)
(* 68000 bus cycle at one S-state per master clock (CPU_MULT = 6), as in   *)
(* FastmemBridge: address and FC out at S1, AS at S2 (with the strobes on  *)
(* a read), write data at S3 and its strobes at S4, DTACK and BERR sampled *)
(* at the end of S4 and of every second clock after it, data latched at    *)
(* the end of S6.                                                          *)
(***************************************************************************)
EXTENDS Naturals

CONSTANTS
  PERIOD, PH_HALF, PH_ACK,          (* the 7M grid, in master clocks       *)
  E_PERIOD, E_RISE, E_VMA_AT,       (* the E clock, in 7M periods          *)
  Ram, Cia, Silent, Board,          (* addresses answered with DTACK, with *)
                                    (* VPA, with BERR, and by the FPGA:    *)
                                    (* word addresses, bits 23..1          *)
  Levels,                           (* interrupt levels, apart from them   *)
  Data, NoData                      (* data words; an undriven bus         *)

Address == Ram \cup Cia \cup Silent \cup Board

ASSUME CoreBusAssumption ==
  /\ {PERIOD, PH_HALF, PH_ACK, E_PERIOD, E_RISE, E_VMA_AT} \subseteq Nat
  /\ PH_ACK < PH_HALF /\ PH_HALF < PERIOD
  /\ E_VMA_AT < E_RISE /\ E_RISE < E_PERIOD
  /\ Address \subseteq Nat /\ Levels \subseteq 1..7 /\ Address \cap Levels = {}
  /\ NoData \notin Data

VARIABLES
  ph, e_cnt,                     (* position in the 7M and in the E period *)
  s_dtack, s_vpa, s_berr,        (* synchronisers, TRUE = asserted         *)
  s,                             (* the core's S-state                     *)
  kind,                          (* "read", "write" or "iack" (FC = 7)     *)
  adr,                           (* core_a; the level of an iack           *)
  as_n, rw, ds,                  (* core strobes, ds TRUE = asserted       *)
  dout                           (* core_dout                              *)

clockVars == <<ph, e_cnt>>
syncVars == <<s_dtack, s_vpa, s_berr>>
coreVars == <<s, kind, adr, as_n, rw, ds, dout>>

SStates == {"S0", "SI", "S1", "S2", "S3", "S4", "SW", "S5", "S6", "S7"}

CoreBusTypeOK ==
  /\ ph \in 0..PERIOD-1 /\ e_cnt \in 0..E_PERIOD-1
  /\ {s_dtack, s_vpa, s_berr} \subseteq BOOLEAN \X BOOLEAN
  /\ s \in SStates /\ kind \in {"read", "write", "iack"}
  /\ adr \in Address \cup Levels
  /\ {as_n, rw, ds} \subseteq BOOLEAN
  /\ dout \in Data \cup {NoData}

----------------------------------------------------------------------------
tick_r == ph = 0
tick_f == ph = PH_HALF
tick_ack == ph = PH_ACK
e_pin == e_cnt >= E_RISE
e_fall_tick == tick_r /\ e_cnt = E_PERIOD - 1

Clocks ==
  /\ ph' = (ph + 1) % PERIOD
  /\ e_cnt' = IF tick_r THEN (e_cnt + 1) % E_PERIOD ELSE e_cnt

(* Two flip-flops behind each pin.                                         *)
Synchronise(dtack, vpa, berr) ==
  /\ s_dtack' = <<dtack, s_dtack[1]>>
  /\ s_vpa' = <<vpa, s_vpa[1]>>
  /\ s_berr' = <<berr, s_berr[1]>>

Quiet == <<FALSE, FALSE>>

core_fc7 == kind = "iack"
core_low == adr % 8              (* core_a[3:1]: of an iack, its level   *)
int_space == ~as_n /\ ~core_fc7 /\ adr \in Board

----------------------------------------------------------------------------
(* The core (external), given the acknowledge it samples.                  *)

Advance(next) == s' = next /\ UNCHANGED <<kind, adr, as_n, rw, ds, dout>>

(* Idle clocks come in pairs: the core keeps its phi1/phi2 phase.          *)
CoreIdle ==
  \/ s = "S0" /\ Advance("SI")
  \/ s = "SI" /\ Advance("S0")

CoreAddress ==
  /\ s = "S0" /\ s' = "S1"
  /\ \/ kind' \in {"read", "write"} /\ adr' \in Address
     \/ kind' = "iack" /\ adr' \in Levels
  /\ UNCHANGED <<as_n, rw, ds, dout>>

CoreStrobe ==
  /\ s = "S1" /\ s' = "S2"
  /\ as_n' = FALSE
  /\ rw' = (kind # "write") /\ ds' = (kind # "write")
  /\ UNCHANGED <<kind, adr, dout>>

CoreDrive ==
  /\ s = "S2" /\ s' = "S3"
  /\ IF kind = "write" THEN dout' \in Data ELSE UNCHANGED dout
  /\ UNCHANGED <<kind, adr, as_n, rw, ds>>

CoreWriteStrobe ==
  /\ s = "S3" /\ s' = "S4"
  /\ ds' = TRUE
  /\ UNCHANGED <<kind, adr, as_n, rw, dout>>

CoreSample(acked) ==
  \/ s = "S4" /\ acked /\ Advance("S5")
  \/ s = "S4" /\ ~acked /\ Advance("SW")
  \/ s = "SW" /\ Advance("S4")
  \/ s = "S5" /\ Advance("S6")

CoreFinish ==
  /\ s = "S6" /\ s' = "S7"
  /\ as_n' = TRUE /\ rw' = TRUE /\ ds' = FALSE /\ dout' = NoData
  /\ UNCHANGED <<kind, adr>>

CoreClock(acked) ==
  \/ CoreIdle \/ CoreAddress \/ CoreStrobe \/ CoreDrive \/ CoreWriteStrobe
  \/ CoreSample(acked) \/ CoreFinish
  \/ s = "S7" /\ Advance("S0")

CoreReset ==
  /\ s' = "S0" /\ as_n' = TRUE /\ rw' = TRUE /\ ds' = FALSE /\ dout' = NoData
  /\ UNCHANGED <<kind, adr>>

CoreBusInit ==
  /\ ph \in 0..PERIOD-1 /\ e_cnt \in 0..E_PERIOD-1
  /\ s_dtack = Quiet /\ s_vpa = Quiet /\ s_berr = Quiet
  /\ s = "S0" /\ kind = "read" /\ adr \in Address
  /\ as_n = TRUE /\ rw = TRUE /\ ds = FALSE /\ dout = NoData
=============================================================================
