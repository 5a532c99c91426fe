------------------------------ MODULE ColdBoot ------------------------------
(***************************************************************************)
(* base64_top.sv, sections 1, 1b, 2, 7 and 7b: who holds /RESET and /HALT  *)
(* low, and what that does to the core.  The FPGA drives both lines during *)
(* the power-up hold and for a cold-boot retry, /RESET alone for a RESET   *)
(* instruction (stretched), /HALT alone while the core is halted; the      *)
(* motherboard pulls the same open-drain lines.  The core is reset from    *)
(* what comes back on the pins, two clocks later.                          *)
(*                                                                         *)
(* One step is one master clock.  Counters are tested bit by bit, as in    *)
(* the source; only their widths are scaled down.                          *)
(***************************************************************************)
EXTENDS Naturals

CONSTANTS
  COLD_RESET, COLD_RETRY,            (* the module's parameters            *)
  RTRY_WAIT, RTRY_PULSE, RTRY_MAX,   (* bit numbers, and attempts          *)
  RTRY_WIDTH,                        (* bits of rtry_cnt                   *)
  PWRUP,                             (* clocks of the power-up hold        *)
  RST_HOLD_7M,                       (* ticks a RESET instruction lasts    *)
  KBD_MIN                            (* clocks a keyboard reset lasts      *)

ASSUME ColdBootAssumption ==
  /\ {COLD_RESET, COLD_RETRY} \subseteq BOOLEAN
  /\ {RTRY_WAIT, RTRY_PULSE, RTRY_MAX, RTRY_WIDTH, PWRUP,
      RST_HOLD_7M, KBD_MIN}
        \subseteq Nat
  /\ RTRY_WAIT + 1 < RTRY_WIDTH
  /\ PWRUP >= 2   (* the synchronisers have settled: 2^25 in the source    *)
  /\ KBD_MIN >= 1 (* milliseconds on the board                             *)

(* Of any width; the provers know nothing of powers.                       *)
ASSUME WidthAssumption == {2^RTRY_WIDTH, 2^RTRY_PULSE} \subseteq Nat \ {0}

VARIABLES
  pwrup_cnt,
  cold_armed,
  s_reset, s_halt,       (* synchronisers: <<first, second>>, TRUE = low   *)
  rst_stretch, rst_cnt,
  rtry_cnt, rtry_n, rtry_rst, boot_ok,
  core,                  (* external: what the 68000 is doing              *)
  board, held,           (* external: the motherboard's pull, and for how  *)
                         (* many more clocks it must last                  *)
  asked                  (* history: who pulled both lines, as seen through*)
                         (* the synchroniser                               *)

resetVars == <<pwrup_cnt, cold_armed, s_reset, s_halt, rst_stretch, rst_cnt>>
rtryVars == <<rtry_cnt, rtry_n, rtry_rst, boot_ok>>
vars == <<resetVars, rtryVars, core, board, held, asked>>

CountersTyped ==
  /\ pwrup_cnt \in 0..PWRUP /\ rst_cnt \in 0..RST_HOLD_7M
  /\ rtry_cnt \in 0..2^RTRY_WIDTH-1 /\ rtry_n \in 0..RTRY_MAX /\ held \in 0..KBD_MIN
FlagsTyped ==
  /\ {cold_armed, rst_stretch, rtry_rst, boot_ok} \subseteq BOOLEAN
  /\ s_reset \in BOOLEAN \X BOOLEAN /\ s_halt \in BOOLEAN \X BOOLEAN
WorldTyped ==
  /\ core \in {"reset", "run", "resetting", "halted"}
  /\ board \in {"power-on", "idle", "keyboard"}
  /\ asked \in [1..2 -> SUBSET {"keyboard", "retry"}]
ColdBootTypeOK == CountersTyped /\ FlagsTyped /\ WorldTyped

----------------------------------------------------------------------------
(* The lines.                                                              *)

pwrup_done == pwrup_cnt = PWRUP
cold_rst == COLD_RESET /\ ~pwrup_done
core_halted == core = "halted"

ResetLow ==
  \/ core = "resetting" \/ rst_stretch \/ cold_rst \/ rtry_rst
  \/ board \in {"power-on", "keyboard"}
HaltLow == core_halted \/ cold_rst \/ rtry_rst \/ board = "keyboard"

\* mutant: the core listens to both lines only
ext_resetUnarmed == (s_reset[2] /\ s_halt[2]) \/ ~pwrup_done

\* mutant: /RESET alone resets the core
ext_resetAlone == s_reset[2] \/ ~pwrup_done \/ cold_armed

ext_reset == (s_reset[2] /\ s_halt[2]) \/ ~pwrup_done \/ cold_armed

Init ==
  /\ pwrup_cnt = 0 /\ cold_armed = TRUE
  /\ s_reset \in BOOLEAN \X BOOLEAN /\ s_halt \in BOOLEAN \X BOOLEAN
  /\ rst_stretch = FALSE /\ rst_cnt = 0
  /\ rtry_cnt = 0 /\ rtry_n = 0 /\ rtry_rst = FALSE /\ boot_ok = FALSE
  /\ core = "reset"
  /\ board \in {"power-on", "idle"} /\ held = 0
  /\ asked = <<{}, {}>>

----------------------------------------------------------------------------
Synchronise ==
  /\ s_reset' = <<ResetLow, s_reset[1]>>
  /\ s_halt' = <<HaltLow, s_halt[1]>>
  /\ cold_armed' = (cold_armed /\ (~pwrup_done \/ s_reset[2] \/ s_halt[2]))
  /\ asked' = << (IF board = "keyboard" THEN {"keyboard"} ELSE {})
                   \cup (IF rtry_rst THEN {"retry"} ELSE {}), asked[1] >>

(* A RESET instruction holds /RESET for RST_HOLD_7M ticks after it ends.   *)
Stretch(tick_r) ==
  \/ /\ ~pwrup_done
     /\ rst_stretch' = FALSE /\ rst_cnt' = 0
  \/ /\ pwrup_done /\ core = "resetting"
     /\ rst_stretch' = TRUE /\ rst_cnt' = 0
  \/ /\ pwrup_done /\ core # "resetting" /\ rst_stretch /\ tick_r
     /\ IF rst_cnt >= RST_HOLD_7M
        THEN rst_stretch' = FALSE /\ UNCHANGED rst_cnt
        ELSE rst_cnt' = rst_cnt + 1 /\ UNCHANGED rst_stretch
  \/ /\ pwrup_done /\ core # "resetting" /\ ~(rst_stretch /\ tick_r)
     /\ UNCHANGED <<rst_stretch, rst_cnt>>

Bit(n, b) == (n \div 2^b) % 2 = 1
CountUp == rtry_cnt' = (rtry_cnt + 1) % 2^RTRY_WIDTH

\* mutant: the pulse has no end
RetryPulseStuck ==
  /\ rtry_rst
  /\ CountUp /\ UNCHANGED <<rtry_n, boot_ok, rtry_rst>>

RetryPulse ==
  /\ rtry_rst
  /\ IF Bit(rtry_cnt, RTRY_PULSE)
     THEN rtry_rst' = FALSE /\ rtry_cnt' = 0
     ELSE CountUp /\ UNCHANGED rtry_rst
  /\ UNCHANGED <<rtry_n, boot_ok>>

\* mutant: the wait is not counted while halted
RetryHaltedUncounted ==
  /\ ~rtry_rst /\ core_halted
  /\ IF Bit(rtry_cnt, RTRY_WAIT) /\ rtry_n # RTRY_MAX
     THEN rtry_rst' = TRUE /\ rtry_n' = rtry_n + 1 /\ rtry_cnt' = 0
     ELSE UNCHANGED <<rtry_cnt, rtry_rst, rtry_n>>
  /\ UNCHANGED boot_ok

\* mutant: attempts are not limited
RetryHaltedUnlimited ==
  /\ ~rtry_rst /\ core_halted
  /\ IF Bit(rtry_cnt, RTRY_WAIT)
     THEN rtry_rst' = TRUE /\ rtry_n' = rtry_n + 1 /\ rtry_cnt' = 0
     ELSE CountUp /\ UNCHANGED <<rtry_rst, rtry_n>>
  /\ UNCHANGED boot_ok

RetryHalted ==
  /\ ~rtry_rst /\ core_halted
  /\ IF Bit(rtry_cnt, RTRY_WAIT) /\ rtry_n # RTRY_MAX
     THEN rtry_rst' = TRUE /\ rtry_n' = rtry_n + 1 /\ rtry_cnt' = 0
     ELSE CountUp /\ UNCHANGED <<rtry_rst, rtry_n>>
  /\ UNCHANGED boot_ok

RetryWatch ==
  /\ ~rtry_rst /\ ~core_halted
  /\ CountUp
  /\ boot_ok' = (boot_ok \/ Bit(rtry_cnt, RTRY_WAIT + 1))
  /\ UNCHANGED <<rtry_rst, rtry_n>>

Retry ==
  \/ /\ ~pwrup_done \/ ~COLD_RETRY
     /\ rtry_cnt' = 0 /\ rtry_n' = 0 /\ rtry_rst' = FALSE /\ boot_ok' = FALSE
  \/ /\ pwrup_done /\ COLD_RETRY /\ boot_ok
     /\ UNCHANGED rtryVars
  \/ /\ pwrup_done /\ COLD_RETRY /\ ~boot_ok
     /\ RetryPulse \/ RetryHalted \/ RetryWatch

----------------------------------------------------------------------------
(* The core (external): held by ext_reset; otherwise it runs, may execute  *)
(* a RESET instruction, may double-fault, and stays halted once it has.    *)
Goes == [reset |-> {"run"}, run |-> {"run", "resetting", "halted"},
         resetting |-> {"resetting", "run"}, halted |-> {"halted"}]
CoreClock == core' \in IF ext_reset THEN {"reset"} ELSE Goes[core]

(* The motherboard (external): its power-on reset pulls /RESET only (line  *)
(* 318); a keyboard reset pulls both lines, for milliseconds.              *)
BoardClock(b) ==
  /\ board' = b
  /\ \/ board = "power-on" /\ b \in {"power-on", "idle"} /\ UNCHANGED held
     \/ board = "idle" /\ b = "idle" /\ UNCHANGED held
     \/ board = "idle" /\ b = "keyboard" /\ held' = KBD_MIN
     \/ board = "keyboard" /\ held > 0 /\ b = "keyboard" /\ held' = held - 1
     \/ board = "keyboard" /\ held = 0 /\ b \in {"keyboard", "idle"} /\ UNCHANGED held

Clock(b, tick_r) ==
  /\ Synchronise /\ Stretch(tick_r) /\ Retry
  /\ CoreClock /\ BoardClock(b)
  /\ pwrup_cnt' = IF pwrup_done THEN pwrup_cnt ELSE pwrup_cnt + 1

Next == \E b \in {"power-on", "idle", "keyboard"}, tick_r \in BOOLEAN : Clock(b, tick_r)

(* The clock runs and 7M ticks keep coming, whether or not anyone touches  *)
(* the lines, and nobody keeps the motherboard in reset for ever.          *)
Fairness ==
  /\ WF_vars(\E tick_r \in BOOLEAN : Clock(board, tick_r))
  /\ WF_vars(Clock(board, TRUE))
  /\ SF_vars(\E tick_r \in BOOLEAN : Clock("idle", tick_r))

Spec == Init /\ [][Next]_vars /\ Fairness

----------------------------------------------------------------------------
(* Properties.                                                             *)

(* On a cold start the core does not run before the motherboard is out of  *)
(* its own power-on reset, however long that outlasts the FPGA's hold: the *)
(* FPGA stops driving, /HALT rises at once and /RESET does not (lines      *)
(* 310-330).                                                               *)
ColdStartTogether == ColdBootTypeOK /\ (core # "reset" => board # "power-on")

(* A core that is executing is reset only when the keyboard or a retry     *)
(* pulled both lines: its own RESET instruction, whose stretch holds the   *)
(* /RESET pin it listens to long after it has gone on, never resets it     *)
(* (lines 498-503).                                                        *)
RunningNotReset ==
  [][(core \in {"run", "resetting"} /\ core' = "reset") => asked[2] # {}]_vars

(* A core that double-faults before the machine has booted is given        *)
(* another reset, while attempts last (lines 526-528, 577-600).            *)
HaltedRetried ==
  (core_halted /\ pwrup_done /\ ~boot_ok /\ rtry_n # RTRY_MAX)
    ~> (rtry_rst \/ ~core_halted)

(* Reset never sustains itself: the FPGA drives the lines it listens to,   *)
(* and still the core always gets out of reset.                            *)
CoreReleased == core = "reset" ~> core # "reset"

(* No core stays down: neither halted while attempts last, nor in reset.   *)
CoreComesUp == HaltedRetried /\ CoreReleased

(* "a genuine double bus fault now HALTS and stays halted": a halted core  *)
(* leaves that state only when the keyboard or a retry pulled both lines.  *)
HaltStays ==
  [][core = "halted" /\ core' # "halted" => asked[2] # {}]_vars
=============================================================================
