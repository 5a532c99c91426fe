---------------------------- MODULE PhaseAligner ----------------------------
(***************************************************************************)
(* base64_top.sv, section 3: the divide-by-12 counter that follows the     *)
(* edges of the motherboard's 7M clock.  Every state machine on the        *)
(* motherboard side takes its steps on the counter's ticks.                *)
(*                                                                         *)
(* One step is one master clock.  The motherboard's clock is the           *)
(* environment: its synchronised rising edge (edge_7m) comes once in       *)
(* PERIOD clocks; Noise edges may come out of place, and Slips times the   *)
(* multiplier PLL may lose its phase.                                      *)
(***************************************************************************)
EXTENDS Naturals

CONSTANTS
  PERIOD,      (* CLK_MULT: master clocks in a 7M period                   *)
  PHASE_OFS,   (* the count an edge is supposed to find                    *)
  SLIP_TOL,    (* disagreements tolerated before re-acquiring              *)
  MaxNoise, MaxSlips   (* misplaced edges and slips explored (state bounds)*)

ASSUME AlignerAssumption ==
  /\ {PERIOD, PHASE_OFS, SLIP_TOL, MaxNoise, MaxSlips} \subseteq Nat
  /\ PHASE_OFS < PERIOD /\ PERIOD >= 2

VARIABLES
  ph, slip_cnt, ph_locked, ph_slip,
  clock_trusted,    (* pwrup_done: the power-up hold is over                  *)
  due,         (* clocks to the next regular edge (environment)            *)
  noise, slips,     (* misplaced edges and slips so far, once trusted      *)
  burst        (* misplaced edges since the last regular one               *)

alignerVars == <<ph, slip_cnt, ph_locked, ph_slip>>
clockVars == <<clock_trusted, due, noise, slips, burst>>
gridVars == <<alignerVars, clockVars>>

CountsTyped ==
  /\ ph \in 0..PERIOD-1 /\ slip_cnt \in 0..SLIP_TOL /\ due \in 0..PERIOD-1
  /\ noise \in 0..MaxNoise /\ slips \in 0..MaxSlips /\ burst \in 0..SLIP_TOL
PhaseFlagsTyped == {ph_locked, ph_slip, clock_trusted} \subseteq BOOLEAN
AlignerTypeOK == CountsTyped /\ PhaseFlagsTyped

\* mutant: the wrap is forgotten
RunningOn == ph + 1

Running == IF ph = PERIOD - 1 THEN 0 ELSE ph + 1

AlignerInit ==
  /\ ph = 0 /\ slip_cnt = 0 /\ ph_locked = FALSE /\ ph_slip = FALSE
  /\ clock_trusted = FALSE
  /\ due \in 0..PERIOD-1
  /\ noise = 0 /\ slips = 0 /\ burst = 0

----------------------------------------------------------------------------
(* The counter, given whether an edge is seen on this clock.               *)

FreeRun == ph' = Running /\ UNCHANGED <<slip_cnt, ph_locked, ph_slip>>

\* mutant: an agreeing edge does not clear the count
AgreeKeeps ==
  /\ ph = PHASE_OFS
  /\ ph' = Running
  /\ ph_locked' = TRUE /\ UNCHANGED <<slip_cnt, ph_slip>>

Agree ==
  /\ ph = PHASE_OFS
  /\ ph' = Running
  /\ slip_cnt' = 0 /\ ph_locked' = TRUE /\ UNCHANGED ph_slip

Acquire ==
  /\ ph # PHASE_OFS /\ ~ph_locked
  /\ ph' = PHASE_OFS
  /\ UNCHANGED <<slip_cnt, ph_locked, ph_slip>>

Reacquire ==
  /\ ph # PHASE_OFS /\ ph_locked /\ slip_cnt = SLIP_TOL
  /\ ph' = PHASE_OFS
  /\ slip_cnt' = 0 /\ ph_slip' = TRUE /\ UNCHANGED ph_locked

\* mutant: a disagreement never counts, a real slip is never repaired
TolerateForever ==
  /\ ph # PHASE_OFS /\ ph_locked /\ slip_cnt # SLIP_TOL
  /\ ph' = Running
  /\ UNCHANGED <<slip_cnt, ph_locked, ph_slip>>

Tolerate ==
  /\ ph # PHASE_OFS /\ ph_locked /\ slip_cnt # SLIP_TOL
  /\ ph' = Running
  /\ slip_cnt' = slip_cnt + 1 /\ UNCHANGED <<ph_locked, ph_slip>>

(* Until the power-up hold is over the flags are forced after the fact:    *)
(* the counter still follows every edge.                                   *)
Held(edge) ==
  /\ ph' = IF edge /\ ph # PHASE_OFS THEN PHASE_OFS ELSE Running
  /\ slip_cnt' = 0 /\ ph_locked' = FALSE /\ ph_slip' = FALSE

Trusted(edge) ==
  \/ ~edge /\ FreeRun
  \/ edge /\ (Agree \/ Acquire \/ Reacquire \/ Tolerate)

Counter(edge) == IF clock_trusted THEN Trusted(edge) ELSE Held(edge)

----------------------------------------------------------------------------
(* The environment.                                                        *)

Before(x) == IF x = 0 THEN PERIOD - 1 ELSE x - 1
NextEdge == due' = Before(due)

(* The regular clock: an edge exactly when it is due.                      *)
Tick ==
  /\ Counter(due = 0) /\ NextEdge
  /\ burst' = IF due = 0 THEN 0 ELSE burst
  /\ UNCHANGED <<clock_trusted, noise, slips>>

(* An edge that should not be there, or a due one that is not seen: noise, *)
(* not a slip, so at most SLIP_TOL of them between two regular edges.      *)
NoisyTick ==
  /\ clock_trusted => noise < MaxNoise
  /\ burst < SLIP_TOL /\ burst' = burst + 1
  /\ Counter(due # 0) /\ NextEdge
  /\ noise' = IF clock_trusted THEN noise + 1 ELSE noise
  /\ UNCHANGED <<clock_trusted, slips>>

(* The multiplier loses its phase.                                         *)
PllSlip ==
  /\ slips < MaxSlips /\ slips' = slips + 1
  /\ Counter(due = 0) /\ due' \in 0..PERIOD-1
  /\ UNCHANGED <<clock_trusted, noise, burst>>

(* The end of the power-up hold.                                           *)
HoldOver ==
  /\ ~clock_trusted /\ clock_trusted' = TRUE
  /\ Counter(due = 0) /\ NextEdge
  /\ UNCHANGED <<noise, slips, burst>>

AlignerNext == Tick \/ NoisyTick \/ PllSlip \/ HoldOver

AlignerSpec == AlignerInit /\ [][AlignerNext]_gridVars /\ WF_gridVars(Tick) /\ WF_gridVars(HoldOver)

----------------------------------------------------------------------------
(* Properties.                                                             *)

(* The grid is right when the next regular edge finds PHASE_OFS, or is     *)
(* about to (an acquisition leaves it one short: line 392 loads PHASE_OFS  *)
(* on the clock after the edge).                                           *)
Finds == IF ph + due < PERIOD THEN ph + due ELSE ph + due - PERIOD
GridRight == Finds \in {PHASE_OFS, Before(PHASE_OFS)}

(* Whatever the noise and the slips, once they are over the grid comes     *)
(* back to the motherboard's clock and stays there (lines 393-398).        *)
GridSettles == <>[]GridRight

(* A counter that has locked on regular edges is not moved by noise: only  *)
(* a disagreement that no regular edge interrupts reloads it.              *)
LockIgnoresNoise ==
  []AlignerTypeOK /\ [][ph_locked /\ Finds = PHASE_OFS /\ slips = 0 => ph' = Running]_gridVars

(* base64_top.sv:418-420 says the counter "re-acquires on every 7M edge    *)
(* and only latches once pwrup_done says the clock has been stable": on a  *)
(* regular clock it locks.  (Until it does, one misplaced edge moves it.)  *)
LocksWhenTrusted == <>ph_locked
=============================================================================
