------------------------------- MODULE Retime -------------------------------
(***************************************************************************)
(* base64_top.sv, section 10b, the default bus engine (RETIME = 1): the    *)
(* core's own strobes gated onto the 7M grid.  AS goes out on a tick_r and *)
(* drops with the core's; R/W and the data strobes are sampled on every    *)
(* tick_r; the motherboard's acknowledge is passed on only on a tick_r; a  *)
(* 6800 cycle is run against E.                                            *)
(***************************************************************************)
EXTENDS BusBridge

CONSTANT VMA_HOLD     (* hold VMA half a 7M period past the fall of E      *)

ASSUME RetimeAssumption == VMA_HOLD \in BOOLEAN

VARIABLES
  rt_as_n, rt_ds, rt_vma_n, rt_dtack_lo, rt_av,
  rt_rd, rt_d, rt_d_oe,
  rt_a, rt_rw,
  rt_vst,               (* 0 waiting, 1 VMA low, 3 held past E, 2 done     *)
  core_as_d2

retimeVars == <<rt_as_n, rt_ds, rt_vma_n, rt_dtack_lo, rt_av, rt_rd, rt_d,
                rt_d_oe, rt_a, rt_rw, rt_vst, core_as_d2>>

RetimeTypeOK ==
  /\ {rt_as_n, rt_ds, rt_vma_n, rt_dtack_lo, rt_av, rt_d_oe, rt_rw,
      core_as_d2} \subseteq BOOLEAN
  /\ {rt_rd, rt_d} \subseteq Data \cup {NoData}
  /\ rt_a \in Address \cup Levels
  /\ rt_vst \in 0..3

----------------------------------------------------------------------------
(* The core's AS is high: strobes up at once; address, R/W and data one    *)
(* clock later.                                                            *)
\* mutant: everything is let go together
RetimeRestEager ==
  /\ as_n
  /\ rt_as_n' = TRUE /\ rt_ds' = FALSE /\ rt_vma_n' = TRUE
  /\ rt_dtack_lo' = FALSE /\ rt_av' = FALSE /\ rt_vst' = 0
  /\ rt_a' = adr /\ rt_rw' = TRUE /\ rt_d_oe' = FALSE
  /\ UNCHANGED <<rt_rd, rt_d>>

RetimeRest ==
  /\ as_n
  /\ rt_as_n' = TRUE /\ rt_ds' = FALSE /\ rt_vma_n' = TRUE
  /\ rt_dtack_lo' = FALSE /\ rt_av' = FALSE /\ rt_vst' = 0
  /\ IF core_as_d2
     THEN rt_a' = adr /\ rt_rw' = TRUE /\ rt_d_oe' = FALSE
     ELSE UNCHANGED <<rt_a, rt_rw, rt_d_oe>>
  /\ UNCHANGED <<rt_rd, rt_d>>

(* The strobes, on the ticks of a cycle that is not answered on-chip.      *)
Strobes ==
  IF tick_r /\ ~int_space
  THEN rt_as_n' = FALSE /\ rt_rw' = rw /\ rt_ds' = ds
  ELSE /\ rt_rw' = IF rt_as_n THEN rw ELSE rt_rw
       /\ UNCHANGED <<rt_as_n, rt_ds>>

WriteData ==
  IF rw THEN UNCHANGED <<rt_d, rt_d_oe>>
  ELSE rt_d' = (IF RETIME THEN dout ELSE rt_d) /\ rt_d_oe' = ~rt_as_n

(* Read data follow the bus; in a 6800 cycle only while VMA is low and E   *)
(* high.                                                                   *)
ReadData(cpu_d) ==
  rt_rd' = IF RETIME /\ rw /\ ~rt_as_n /\ (s_vpa[2] => ~rt_vma_n /\ e_pin)
           THEN cpu_d ELSE rt_rd

\* mutant: the acknowledge is passed on as soon as it is seen
AnswerAtOnce == ~rt_as_n /\ ~s_berr[2]

(* Where the acknowledge is passed on.                                     *)
Answer == tick_r /\ ~rt_as_n /\ ~s_berr[2]
AnswerAutovector == Answer /\ ~s_dtack[2] /\ s_vpa[2] /\ core_fc7

(* A 6800 cycle: VMA at E_VMA_AT while E is low, and down until E has      *)
(* fallen.                                                                 *)
In6800 == s_vpa[2] /\ ~rt_as_n /\ ~core_fc7
VmaStart == In6800 /\ rt_vst = 0 /\ ~e_pin /\ e_cnt = E_VMA_AT
VmaEFall == In6800 /\ rt_vst = 1 /\ e_fall_tick

\* mutant: VMA goes up with the fall of E (VMA_HOLD = 0)
VmaEndAtFall == VmaEFall

VmaEnd == IF VMA_HOLD THEN In6800 /\ rt_vst = 3 /\ tick_f ELSE VmaEFall

Synchronous ==
  /\ rt_vma_n' = IF VmaStart THEN FALSE ELSE IF VmaEnd THEN TRUE ELSE rt_vma_n
  /\ rt_vst' = IF VmaStart THEN 1 ELSE IF VmaEnd THEN 2
               ELSE IF VmaEFall THEN 3 ELSE rt_vst

RetimeCycle(cpu_d) ==
  /\ ~as_n
  /\ Strobes /\ WriteData /\ ReadData(cpu_d) /\ Synchronous
  /\ rt_av' = (rt_av \/ AnswerAutovector)
  /\ rt_dtack_lo' = (rt_dtack_lo \/ (Answer /\ s_dtack[2]) \/ AnswerAutovector
                       \/ VmaEnd)
  /\ UNCHANGED rt_a

RetimeClock(cpu_d) ==
  /\ core_as_d2' = as_n
  /\ RetimeRest \/ RetimeCycle(cpu_d)

RetimeReset ==
  /\ rt_as_n' = TRUE /\ rt_ds' = FALSE /\ rt_vma_n' = TRUE
  /\ rt_dtack_lo' = FALSE /\ rt_d_oe' = FALSE /\ rt_vst' = 0 /\ rt_av' = FALSE
  /\ core_as_d2' = TRUE      (* the core's AS is high before it ends        *)
  /\ UNCHANGED <<rt_rd, rt_d, rt_a, rt_rw>>

RetimeInit ==
  /\ rt_as_n = TRUE /\ rt_ds = FALSE /\ rt_vma_n = TRUE
  /\ rt_dtack_lo = FALSE /\ rt_d_oe = FALSE /\ rt_vst = 0 /\ rt_av = FALSE
  /\ core_as_d2 = TRUE
  /\ rt_rd = NoData /\ rt_d = NoData /\ rt_a = adr /\ rt_rw = TRUE
=============================================================================
