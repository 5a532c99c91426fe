--------------------------- MODULE ColdBootProofs ---------------------------
(***************************************************************************)
(* ColdStartTogether of ColdBoot, for every length of the power-up hold,   *)
(* of the retry's and the RESET instruction's counters, with and without   *)
(* the cold reset pulse and the retries.                                   *)
(*                                                                         *)
(* cold_armed falls only when both synchronised lines are high.  As long   *)
(* as the motherboard is in its power-on reset it pulls /RESET: two clocks *)
(* into the hold, which is longer, the synchroniser has seen it, and       *)
(* cold_armed stands until the motherboard lets go.                        *)
(*                                                                         *)
(* RunningNotReset, likewise: whoever asks for a reset pulls both lines    *)
(* for two clocks or more, so the core is in reset before they let go.     *)
(*                                                                         *)
(* Then OneOwner of BusOwnership, for every length of the window; and of   *)
(* PhaseAligner, whose clock the hold waits for, LockIgnoresNoise.         *)
(***************************************************************************)
EXTENDS BusOwnership, PhaseAligner, TLAPS

(* What the synchroniser has seen of a motherboard still in power-on reset.*)
SeenLow ==
  board = "power-on" =>
    /\ core = "reset" /\ cold_armed
    /\ pwrup_cnt >= 1 => s_reset[1]
    /\ pwrup_cnt >= 2 => s_reset[2]

ColdInv == CountersTyped /\ FlagsTyped /\ WorldTyped /\ SeenLow

LEMMA Initially == Init => ColdInv
<1> SUFFICES ASSUME Init PROVE ColdInv
  OBVIOUS
<1>1. CountersTyped
  BY ColdBootAssumption, WidthAssumption DEF Init, CountersTyped
<1>2. FlagsTyped
  BY Zenon DEF Init, FlagsTyped
<1>3. WorldTyped
  <2>1. asked \in [1..2 -> SUBSET {"keyboard", "retry"}]
    BY DEF Init
  <2> QED BY <2>1 DEF Init, WorldTyped
<1>4. SeenLow
  BY DEF Init, SeenLow
<1> QED BY <1>1, <1>2, <1>3, <1>4 DEF ColdInv

LEMMA CountersKept ==
  ASSUME CountersTyped, NEW b, NEW tick_r \in BOOLEAN, Clock(b, tick_r)
  PROVE  CountersTyped'
<1>1. pwrup_cnt' \in 0..PWRUP
  BY ColdBootAssumption DEF Clock, CountersTyped, pwrup_done
<1>2. rst_cnt' \in 0..RST_HOLD_7M
  BY ColdBootAssumption DEF Clock, Stretch, CountersTyped
<1>3. CountUp => rtry_cnt' \in 0..2^RTRY_WIDTH-1
  BY WidthAssumption DEF CountUp, CountersTyped
<1>4. rtry_cnt' \in 0..2^RTRY_WIDTH-1 /\ rtry_n' \in 0..RTRY_MAX
  <2>1. 0 \in 0..2^RTRY_WIDTH-1 /\ 0 \in 0..RTRY_MAX
    BY ColdBootAssumption, WidthAssumption
  <2>2. CASE ~pwrup_done \/ ~COLD_RETRY \/ boot_ok
    BY <2>1, <2>2 DEF Clock, Retry, rtryVars, CountersTyped
  <2>3. CASE RetryPulse
    BY <1>3, <2>1, <2>3 DEF RetryPulse, CountersTyped
  <2>4. CASE RetryHalted
    BY <1>3, <2>1, <2>4, ColdBootAssumption DEF RetryHalted, CountersTyped
  <2>5. CASE RetryWatch
    BY <1>3, <2>5 DEF RetryWatch, CountersTyped
  <2> QED BY <2>2, <2>3, <2>4, <2>5 DEF Clock, Retry
<1>5. held' \in 0..KBD_MIN
  BY ColdBootAssumption DEF Clock, BoardClock, CountersTyped
<1> QED BY <1>1, <1>2, <1>4, <1>5 DEF CountersTyped

LEMMA FlagsKept ==
  ASSUME FlagsTyped, NEW b, NEW tick_r \in BOOLEAN, Clock(b, tick_r)
  PROVE  FlagsTyped'
<1>1. /\ ResetLow \in BOOLEAN /\ HaltLow \in BOOLEAN
      /\ s_reset[1] \in BOOLEAN /\ s_halt[1] \in BOOLEAN
  BY DEF ResetLow, HaltLow, FlagsTyped
<1>2. s_reset' \in BOOLEAN \X BOOLEAN /\ s_halt' \in BOOLEAN \X BOOLEAN
  BY <1>1 DEF Clock, Synchronise
<1>3. cold_armed' \in BOOLEAN
  BY Zenon DEF Clock, Synchronise
<1>4. rst_stretch' \in BOOLEAN
  BY Zenon DEF Clock, Stretch, FlagsTyped
<1>5. {rtry_rst', boot_ok'} \subseteq BOOLEAN
  BY Zenon DEF Clock, Retry, RetryPulse, RetryHalted, RetryWatch, rtryVars, FlagsTyped
<1> QED BY <1>2, <1>3, <1>4, <1>5, Zenon DEF FlagsTyped

LEMMA WorldKept ==
  ASSUME WorldTyped, NEW b, NEW tick_r \in BOOLEAN, Clock(b, tick_r)
  PROVE  WorldTyped'
<1>1. core' \in {"reset", "run", "resetting", "halted"}
  BY DEF Clock, CoreClock, Goes, WorldTyped
<1>2. board' \in {"power-on", "idle", "keyboard"}
  BY DEF Clock, BoardClock
<1>3. asked' \in [1..2 -> SUBSET {"keyboard", "retry"}]
  <2> DEFINE now == (IF board = "keyboard" THEN {"keyboard"} ELSE {})
                      \cup (IF rtry_rst THEN {"retry"} ELSE {})
  <2>1. now \in SUBSET {"keyboard", "retry"} /\ asked[1] \in SUBSET {"keyboard", "retry"}
    BY DEF WorldTyped
  <2>2. asked' = <<now, asked[1]>>
    BY DEF Clock, Synchronise
  <2> QED BY <2>1, <2>2
<1> QED BY <1>1, <1>2, <1>3 DEF WorldTyped

LEMMA SeenLowKept ==
  ASSUME ColdInv, NEW b, NEW tick_r \in BOOLEAN, Clock(b, tick_r)
  PROVE  SeenLow'
<1> SUFFICES ASSUME board' = "power-on"
             PROVE  /\ core' = "reset" /\ cold_armed'
                    /\ pwrup_cnt' >= 1 => s_reset[1]'
                    /\ pwrup_cnt' >= 2 => s_reset[2]'
  BY DEF SeenLow
<1>1. board = "power-on"
  BY DEF Clock, BoardClock
<1>2. core = "reset" /\ cold_armed
  BY <1>1 DEF ColdInv, SeenLow
<1>3. core' = "reset"
  BY <1>2 DEF Clock, CoreClock, ext_reset
<1>4. pwrup_done => s_reset[2]
  BY <1>1, ColdBootAssumption DEF ColdInv, SeenLow, CountersTyped, pwrup_done
<1>5. cold_armed'
  BY <1>2, <1>4, Zenon DEF Clock, Synchronise
<1>6. s_reset[1]'
  BY <1>1 DEF Clock, Synchronise, ResetLow
<1>7. s_reset[2]' = s_reset[1]
  BY DEF Clock, Synchronise
<1>8. pwrup_cnt' >= 2 => s_reset[1]
  BY <1>1, ColdBootAssumption DEF Clock, ColdInv, SeenLow, CountersTyped, pwrup_done
<1> QED BY <1>3, <1>5, <1>6, <1>7, <1>8

LEMMA Inductive == ColdInv /\ [Next]_vars => ColdInv'
<1> SUFFICES ASSUME ColdInv, [Next]_vars PROVE ColdInv'
  OBVIOUS
<1>1. CASE Next
  <2>1. PICK b \in {"power-on", "idle", "keyboard"}, tick_r \in BOOLEAN : Clock(b, tick_r)
    BY <1>1 DEF Next
  <2> QED BY <2>1, CountersKept, FlagsKept, WorldKept, SeenLowKept DEF ColdInv
<1>2. CASE UNCHANGED vars
  BY <1>2 DEF vars, resetVars, rtryVars, ColdInv, CountersTyped, FlagsTyped, WorldTyped, SeenLow
<1> QED BY <1>1, <1>2

(* Lines 310-330, 354-363: the core does not run before the motherboard is *)
(* out of its power-on reset, however long the hold and the reset last.    *)
THEOREM CoreWaitsForBoard == Spec => []ColdStartTogether
<1>1. ColdInv => ColdStartTogether
  BY DEF ColdInv, SeenLow, ColdStartTogether, ColdBootTypeOK
<1> QED BY <1>1, Initially, Inductive, PTL DEF Spec

-----------------------------------------------------------------------------
(* RunningNotReset of ColdBoot, for every length of the counters.          *)

Executing == core \in {"run", "resetting"}
BothLow(i) == s_reset[i] /\ s_halt[i]

(* Whoever asks for a reset pulls both lines, and for two clocks at least. *)
AskedTwice ==
  /\ \A i \in 1..2 : asked[i] # {} => BothLow(i)
  /\ board = "keyboard" /\ held # KBD_MIN => asked[1] # {}
  /\ rtry_rst /\ rtry_cnt # 0 => asked[1] # {}
  /\ asked[1] # {} => asked[2] # {} \/ board = "keyboard" \/ rtry_rst

(* Both lines low and nobody asking is a halted core in its own stretch:   *)
(* that core is reset until those samples are through.                     *)
OnlyAsked ==
  /\ Executing => \A i \in 1..2 : BothLow(i) => asked[i] # {}
  /\ core = "reset" /\ ~ext_reset /\ BothLow(1) => asked[1] # {}
  /\ core_halted /\ rst_stretch /\ BothLow(2) => BothLow(1)

HoldDone ==
  /\ ~pwrup_done => cold_armed
  /\ core # "reset" => pwrup_done /\ ~cold_armed
  /\ rtry_rst => pwrup_done /\ COLD_RETRY /\ ~boot_ok

RunInv == ColdInv /\ AskedTwice /\ OnlyAsked /\ HoldDone

LEMMA RunInitially == Init => RunInv
<1> SUFFICES ASSUME Init PROVE RunInv
  OBVIOUS
<1>1. ColdInv
  BY Initially
<1>2. ~pwrup_done
  BY ColdBootAssumption DEF Init, pwrup_done
<1>3. asked[1] = {} /\ asked[2] = {}
  BY DEF Init
<1>4. AskedTwice
  BY <1>3 DEF Init, AskedTwice
<1>5. OnlyAsked
  BY <1>2 DEF Init, OnlyAsked, Executing, core_halted, ext_reset
<1>6. HoldDone
  BY DEF Init, HoldDone
<1> QED BY <1>1, <1>4, <1>5, <1>6 DEF RunInv

(* What a clock does to the samples.                                       *)
LEMMA Sampled ==
  ASSUME ColdInv, NEW b, NEW tick_r \in BOOLEAN, Clock(b, tick_r)
  PROVE  /\ BothLow(1)' <=> ResetLow /\ HaltLow
         /\ BothLow(2)' <=> BothLow(1)
         /\ asked'[1] # {} <=> board = "keyboard" \/ rtry_rst
         /\ asked'[2] = asked[1]
<1>1. s_reset' = <<ResetLow, s_reset[1]>> /\ s_halt' = <<HaltLow, s_halt[1]>>
  BY DEF Clock, Synchronise
<1>2. /\ asked'[1] = (IF board = "keyboard" THEN {"keyboard"} ELSE {})
                       \cup (IF rtry_rst THEN {"retry"} ELSE {})
      /\ asked'[2] = asked[1]
  BY DEF Clock, Synchronise
<1>3. asked'[1] # {} <=> board = "keyboard" \/ rtry_rst
  BY <1>2
<1>4. BothLow(1)' <=> ResetLow /\ HaltLow
  BY <1>1, Zenon DEF BothLow
<1>5. BothLow(2)' <=> BothLow(1)
  BY <1>1, Zenon DEF BothLow
<1> QED BY <1>2, <1>3, <1>4, <1>5

LEMMA HoldDoneKept ==
  ASSUME RunInv, NEW b, NEW tick_r \in BOOLEAN, Clock(b, tick_r)
  PROVE  HoldDone'
<1>1. pwrup_done => pwrup_done'
  BY DEF Clock, pwrup_done
<1>2. ~pwrup_done' => cold_armed'
  BY <1>1 DEF Clock, Synchronise, RunInv, HoldDone
<1>3. core' # "reset" => ~ext_reset
  BY DEF Clock, CoreClock
<1>4. ~ext_reset => pwrup_done /\ ~cold_armed
  BY DEF ext_reset
<1>5. core' # "reset" => pwrup_done' /\ ~cold_armed'
  BY <1>1, <1>3, <1>4 DEF Clock, Synchronise
<1>6. rtry_rst' => pwrup_done /\ COLD_RETRY /\ ~boot_ok'
  BY Zenon DEF Clock, Retry, RetryPulse, RetryHalted, RetryWatch, rtryVars, RunInv, HoldDone
<1> QED BY <1>1, <1>2, <1>5, <1>6 DEF HoldDone

LEMMA AskedTwiceKept ==
  ASSUME RunInv, NEW b, NEW tick_r \in BOOLEAN, Clock(b, tick_r)
  PROVE  AskedTwice'
<1>1. /\ BothLow(1)' <=> ResetLow /\ HaltLow
      /\ BothLow(2)' <=> BothLow(1)
      /\ asked'[1] # {} <=> board = "keyboard" \/ rtry_rst
      /\ asked'[2] = asked[1]
  BY Sampled DEF RunInv
<1>2. \A i \in 1..2 : asked'[i] # {} => BothLow(i)'
  <2>1. asked'[1] # {} => BothLow(1)'
    BY <1>1 DEF ResetLow, HaltLow
  <2>2. asked'[2] # {} => BothLow(2)'
    BY <1>1 DEF RunInv, AskedTwice
  <2> QED BY <2>1, <2>2
<1>3. board' = "keyboard" /\ held' # KBD_MIN => asked'[1] # {}
  BY <1>1 DEF Clock, BoardClock
<1>4. rtry_rst' /\ rtry_cnt' # 0 => rtry_rst
  BY Zenon DEF Clock, Retry, RetryPulse, RetryHalted, RetryWatch, rtryVars
<1>5. ASSUME board = "keyboard", board' # "keyboard" PROVE asked[1] # {}
  <2>1. held = 0
    BY <1>5 DEF Clock, BoardClock
  <2> QED BY <1>5, <2>1, ColdBootAssumption DEF RunInv, AskedTwice
<1>6. ASSUME rtry_rst, ~rtry_rst' PROVE asked[1] # {}
  <2>1. RetryPulse
    BY <1>6 DEF Clock, Retry, RetryHalted, RetryWatch, rtryVars, RunInv, HoldDone
  <2>2. Bit(rtry_cnt, RTRY_PULSE)
    BY <1>6, <2>1 DEF RetryPulse
  <2>3. rtry_cnt # 0
    <3>1. ASSUME NEW w \in Nat \ {0} PROVE (0 \div w) % 2 = 0
      OBVIOUS
    <3>2. (0 \div 2^RTRY_PULSE) % 2 = 0
      BY <3>1, WidthAssumption
    <3> QED BY <2>2, <3>2 DEF Bit
  <2> QED BY <1>6, <2>3 DEF RunInv, AskedTwice
<1> QED BY <1>1, <1>2, <1>3, <1>4, <1>5, <1>6 DEF AskedTwice

LEMMA OnlyAskedKept ==
  ASSUME RunInv, NEW b, NEW tick_r \in BOOLEAN, Clock(b, tick_r)
  PROVE  OnlyAsked'
<1>1. /\ BothLow(1)' <=> ResetLow /\ HaltLow
      /\ BothLow(2)' <=> BothLow(1)
      /\ asked'[1] # {} <=> board = "keyboard" \/ rtry_rst
      /\ asked'[2] = asked[1]
  BY Sampled DEF RunInv
<1>2. HaltLow /\ ~core_halted /\ pwrup_done => asked'[1] # {}
  BY <1>1 DEF HaltLow, cold_rst
<1>3. \/ ext_reset /\ core' = "reset"
      \/ ~ext_reset /\ core' \in Goes[core]
  BY DEF Clock, CoreClock
<1>4. ~ext_reset => pwrup_done /\ ~BothLow(2)
  BY DEF ext_reset, BothLow
<1>5. core \in {"reset", "run", "resetting", "halted"}
  BY DEF RunInv, ColdInv, WorldTyped
<1>6. ASSUME Executing' PROVE \A i \in 1..2 : BothLow(i)' => asked'[i] # {}
  <2>1. ~ext_reset /\ ~core_halted
    BY <1>3, <1>5, <1>6 DEF Executing, Goes, core_halted
  <2>2. BothLow(1)' => asked'[1] # {}
    BY <1>1, <1>2, <1>4, <2>1
  <2>3. BothLow(2)' => asked'[2] # {}
    BY <1>1, <1>5, <2>1 DEF RunInv, OnlyAsked, Executing, core_halted
  <2> QED BY <2>2, <2>3
<1>7. ASSUME core' = "reset", ~ext_reset', BothLow(1)' PROVE asked'[1] # {}
  <2>1. ~cold_armed' /\ ~BothLow(2)'
    BY <1>7 DEF ext_reset, BothLow
  <2>2. pwrup_done
    BY <2>1 DEF Clock, Synchronise, RunInv, HoldDone
  <2>3. CASE core_halted
    <3>1. ext_reset /\ BothLow(2)
      BY <1>3, <1>7, <2>3 DEF Goes, core_halted, ext_reset, BothLow, RunInv, HoldDone
    <3>2. ~rst_stretch
      BY <1>1, <2>1, <2>3, <3>1 DEF RunInv, OnlyAsked
    <3>3. board # "power-on" /\ core # "resetting"
      BY <2>3 DEF core_halted, RunInv, ColdInv, SeenLow
    <3> QED BY <1>1, <1>7, <2>2, <3>2, <3>3 DEF ResetLow, cold_rst
  <2> QED BY <1>1, <1>2, <1>7, <2>2, <2>3
<1>8. ASSUME core_halted', rst_stretch', BothLow(2)' PROVE BothLow(1)'
  <2>1. ~ext_reset /\ core \in {"run", "halted"}
    BY <1>3, <1>5, <1>8 DEF core_halted, Goes
  <2>2. rst_stretch
    BY <1>8, <2>1, Zenon DEF Clock, Stretch
  <2>3. CASE core = "halted"
    BY <1>1, <2>2, <2>3 DEF ResetLow, HaltLow, core_halted
  <2>4. CASE core = "run"
    <3>1. asked[1] # {}
      BY <1>1, <1>8, <2>4 DEF RunInv, OnlyAsked, Executing
    <3>2. asked[2] = {}
      BY <1>4, <2>1 DEF RunInv, AskedTwice
    <3> QED BY <1>1, <3>1, <3>2 DEF RunInv, AskedTwice, ResetLow, HaltLow
  <2> QED BY <2>1, <2>3, <2>4
<1> QED BY <1>6, <1>7, <1>8 DEF OnlyAsked

LEMMA RunInductive == RunInv /\ [Next]_vars => RunInv'
<1> SUFFICES ASSUME RunInv, [Next]_vars PROVE RunInv'
  OBVIOUS
<1>1. ColdInv'
  BY Inductive DEF RunInv
<1>2. CASE Next
  <2>1. PICK b \in {"power-on", "idle", "keyboard"}, tick_r \in BOOLEAN : Clock(b, tick_r)
    BY <1>2 DEF Next
  <2> QED BY <1>1, <2>1, HoldDoneKept, AskedTwiceKept, OnlyAskedKept DEF RunInv
<1>3. CASE UNCHANGED vars
  BY <1>1, <1>3
  DEF vars, resetVars, rtryVars, RunInv, HoldDone, AskedTwice, OnlyAsked, Executing, BothLow,
      core_halted, ext_reset, pwrup_done
<1> QED BY <1>2, <1>3

(* Lines 498-503: no line the FPGA itself holds for the core resets a core *)
(* that is executing.                                                      *)
THEOREM OnlyAskedReset == Spec => RunningNotReset
<1>1. ASSUME RunInv, [Next]_vars
      PROVE  [(core \in {"run", "resetting"} /\ core' = "reset") => asked[2] # {}]_vars
  <2> SUFFICES ASSUME Next, core \in {"run", "resetting"}, core' = "reset"
               PROVE  asked[2] # {}
    BY <1>1
  <2>1. ext_reset
    BY DEF Next, Clock, CoreClock, Goes
  <2>2. BothLow(2)
    BY <1>1, <2>1 DEF ext_reset, BothLow, RunInv, HoldDone
  <2> QED BY <1>1, <2>2 DEF RunInv, OnlyAsked, Executing
<1> QED BY <1>1, RunInitially, RunInductive, PTL DEF Spec, RunningNotReset

-----------------------------------------------------------------------------
(* OneOwner of BusOwnership, for every length of the window.               *)

Window == 2^PASSIVE_BIT

(* Until the window has seen /BR high, a DMA master has asked for as many  *)
(* clocks as the window has run, and those on their way through the        *)
(* synchroniser: it has to let go before the window is over.               *)
DmaShort ==
  guest = "dma" /\ ~arb_settled =>
    /\ br => asking >= 1 /\ ~bgack
    /\ s_br[1] /\ pwrup_cnt >= 1 => BURST >= 1 /\ (br => asking >= 2)
    /\ s_br[2] /\ br_all /\ pwrup_cnt >= 2 =>
         /\ arb_cnt + 1 <= BURST
         /\ s_br[1] => arb_cnt + 2 <= BURST /\ (br => asking >= arb_cnt + 3)

(* An accelerator's /BR has come through before the hold is over, and      *)
(* stays; the switches wait for the decision.                              *)
AcceleratorHolds ==
  guest = "accelerator" =>
    /\ br /\ (pwrup_cnt >= 1 => s_br[1]) /\ (pwrup_cnt >= 2 => s_br[2])
    /\ br_all
    /\ PASSIVE_EN => (arb_settled => passive) /\ ~bus_enable

OwnerInv ==
  /\ CountersTyped /\ OwnershipTypeOK /\ DmaShort /\ AcceleratorHolds
  /\ ~pwrup_done => arb_cnt = 0 /\ br_all /\ ~arb_settled
  /\ passive => guest = "accelerator"

LEMMA LastBit ==
  ASSUME NEW w \in Nat \ {0}, NEW n \in 0..w
  PROVE  (n \div w) % 2 = 1 <=> n = w
<1>1. CASE n = w
  <2>1. n \div w = 1
    BY <1>1
  <2> QED BY <1>1, <2>1
<1>2. CASE n # w
  <2>1. n < w
    BY <1>2
  <2>2. n \div w = 0
    BY <2>1
  <2> QED BY <1>2, <2>2
<1> QED BY <1>1, <1>2

LEMMA WindowOver ==
  ASSUME OwnershipTypeOK
  PROVE  Bit(arb_cnt, PASSIVE_BIT) <=> arb_cnt = Window
BY LastBit, WindowAssumption DEF Bit, Window, OwnershipTypeOK

LEMMA OwnerInitially == OwnershipInit => OwnerInv
<1> SUFFICES ASSUME OwnershipInit PROVE OwnerInv
  OBVIOUS
<1>1. CountersTyped /\ pwrup_cnt = 0
  BY ColdBootAssumption, WidthAssumption DEF OwnershipInit, Init, CountersTyped
<1>2. OwnershipTypeOK
  <2>1. 0 \in 0..2^PASSIVE_BIT /\ 0 \in 0..BURST
    BY OwnershipAssumption, WindowAssumption
  <2> QED BY <2>1, Zenon DEF OwnershipInit, OwnershipTypeOK
<1>3. br <=> guest = "accelerator"
  BY Zenon DEF OwnershipInit
<1>4. ~(pwrup_cnt >= 1) /\ ~(pwrup_cnt >= 2)
  BY <1>1
<1>5. DmaShort
  BY <1>3, <1>4 DEF DmaShort
<1>6. AcceleratorHolds
  <2>1. br_all /\ ~bus_enable /\ ~arb_settled
    BY DEF OwnershipInit
  <2> QED BY <1>3, <1>4, <2>1 DEF AcceleratorHolds
<1> QED BY <1>1, <1>2, <1>5, <1>6 DEF OwnershipInit, OwnerInv

LEMMA OwnershipTyped ==
  ASSUME OwnershipTypeOK, NEW tick_r \in BOOLEAN, Ownership(tick_r), Guest
  PROVE  OwnershipTypeOK'
<1>1. s_br' \in BOOLEAN \X BOOLEAN /\ s_bgack' \in BOOLEAN \X BOOLEAN
  BY DEF Ownership, OwnershipTypeOK
<1>2. arb_cnt' \in 0..2^PASSIVE_BIT
  BY WindowOver, WindowAssumption DEF Ownership, Arbitrate, Decide, OwnershipTypeOK, Window
<1>3. {arb_settled', passive', br_all'} \subseteq BOOLEAN
  <2>1. s_br[2] \in BOOLEAN
    BY DEF OwnershipTypeOK
  <2> QED BY <2>1, Zenon DEF Ownership, Arbitrate, Decide, OwnershipTypeOK
<1>4. bus_enable' \in BOOLEAN
  BY Zenon DEF Ownership, Switches
<1>5. bg' \in BOOLEAN
  BY DEF Ownership, Grant, OwnershipTypeOK
<1>6. {br', bgack', driving'} \subseteq BOOLEAN /\ guest' = guest
  BY DEF Guest, Accelerator, DmaQuiet, DmaAsks, DmaTakes, DmaKeeps, guestVars, OwnershipTypeOK
<1>7. asking' \in 0..BURST
  <2>1. BURST \in Nat /\ asking \in 0..BURST
    BY OwnershipAssumption DEF OwnershipTypeOK
  <2>2. asking' \in {asking, 0} \/ (asking < BURST /\ asking' = asking + 1)
    BY DEF Guest, Accelerator, DmaQuiet, DmaAsks, DmaTakes, DmaKeeps, guestVars
  <2> QED BY <2>1, <2>2
<1> QED BY <1>1, <1>2, <1>3, <1>4, <1>5, <1>6, <1>7 DEF OwnershipTypeOK

(* A decision is taken at the end of the window, and only a window without *)
(* a high /BR makes the FPGA passive.                                      *)
LEMMA OwnerKept ==
  ASSUME OwnerInv, NEW b, NEW tick_r \in BOOLEAN, OwnershipClock(b, tick_r)
  PROVE  OwnerInv'
<1>1. CountersTyped'
  BY CountersKept DEF OwnerInv, OwnershipClock
<1>2. OwnershipTypeOK'
  BY OwnershipTyped DEF OwnerInv, OwnershipClock
<1>3. /\ s_br'[1] = br /\ s_br'[2] = s_br[1] /\ guest' = guest
      /\ pwrup_cnt \in Nat /\ PWRUP \in Nat /\ PWRUP >= 2
      /\ pwrup_cnt' = IF pwrup_cnt = PWRUP THEN pwrup_cnt ELSE pwrup_cnt + 1
  <2>1. s_br'[1] = br /\ s_br'[2] = s_br[1]
    BY DEF OwnershipClock, Ownership
  <2>2. guest' = guest
    BY DEF OwnershipClock, Guest, Accelerator, DmaQuiet, DmaAsks, DmaTakes, DmaKeeps, guestVars
  <2>3. pwrup_cnt \in Nat /\ PWRUP \in Nat /\ PWRUP >= 2
    BY ColdBootAssumption DEF OwnerInv, CountersTyped
  <2>4. pwrup_cnt' = IF pwrup_cnt = PWRUP THEN pwrup_cnt ELSE pwrup_cnt + 1
    BY DEF OwnershipClock, Clock, pwrup_done
  <2> QED BY <2>1, <2>2, <2>3, <2>4
<1>4. /\ {br, s_br[1], s_br[2], br_all, arb_settled, passive, bus_enable} \subseteq BOOLEAN
      /\ BURST \in Nat /\ asking \in 0..BURST /\ arb_cnt \in Nat
  BY OwnershipAssumption, WindowAssumption DEF OwnerInv, OwnershipTypeOK
<1>5. DmaShort'
  <2> SUFFICES ASSUME guest = "dma", ~arb_settled' PROVE DmaShort'
    BY <1>3 DEF DmaShort
  <2>1. ~arb_settled
    BY DEF OwnershipClock, Ownership, Arbitrate, Decide, OwnerInv
  <2>2. br' => asking' = asking + 1 /\ asking' >= 1 /\ ~bgack'
    <3>1. guest # "accelerator"
      OBVIOUS
    <3>2. DmaKeeps => ~br'
      BY <2>1 DEF DmaKeeps, guestVars, OwnerInv, DmaShort
    <3>3. DmaAsks => asking' = asking + 1 /\ asking' >= 1 /\ ~bgack'
      BY <1>4 DEF DmaAsks
    <3> QED BY <3>1, <3>2, <3>3 DEF OwnershipClock, Guest, Accelerator, DmaQuiet, DmaTakes
  <2>3. br => BURST >= 1 /\ asking <= BURST /\ asking >= 1
    BY <1>4, <2>1 DEF OwnerInv, DmaShort
  <2>4. s_br'[1] => BURST >= 1 /\ (br' => asking' >= 2)
    BY <1>3, <1>4, <2>2, <2>3
  <2>k. /\ s_br[1] /\ pwrup_cnt >= 1 => BURST >= 1 /\ (br => asking >= 2)
        /\ s_br[2] /\ br_all /\ pwrup_cnt >= 2 =>
             /\ arb_cnt + 1 <= BURST
             /\ s_br[1] => arb_cnt + 2 <= BURST /\ (br => asking >= arb_cnt + 3)
    BY <2>1 DEF OwnerInv, DmaShort
  <2>5. ASSUME s_br'[2], br_all', pwrup_cnt' >= 2
        PROVE  /\ arb_cnt' + 1 <= BURST
               /\ s_br'[1] => arb_cnt' + 2 <= BURST /\ (br' => asking' >= arb_cnt' + 3)
    <3>1. s_br[1] /\ pwrup_cnt >= 1
      BY <1>3, <2>5
    <3>2. CASE ~pwrup_done
      <4>1. arb_cnt' = 0
        BY <3>2 DEF OwnershipClock, Ownership, Arbitrate, Decide
      <4> QED BY <1>3, <1>4, <2>2, <2>3, <2>k, <3>1, <4>1
    <3>3. CASE pwrup_done
      <4>1. arb_cnt' = arb_cnt + 1 /\ s_br[2] /\ br_all /\ pwrup_cnt >= 2
        BY <1>3, <2>1, <2>5, <3>3
        DEF OwnershipClock, Ownership, Arbitrate, Decide, OwnerInv, pwrup_done
      <4> QED BY <1>3, <1>4, <2>2, <2>3, <2>k, <3>1, <4>1
    <3> QED BY <3>2, <3>3
  <2> QED BY <2>2, <2>4, <2>5 DEF DmaShort
<1>6. AcceleratorHolds'
  <2> SUFFICES ASSUME guest = "accelerator" PROVE AcceleratorHolds'
    BY <1>3 DEF AcceleratorHolds
  <2>1. br /\ br'
    BY DEF OwnerInv, AcceleratorHolds, OwnershipClock, Guest, Accelerator, DmaQuiet,
           DmaAsks, DmaTakes, DmaKeeps
  <2>2. pwrup_cnt' >= 2 => s_br'[2]
    BY <1>3 DEF OwnerInv, AcceleratorHolds
  <2>3. pwrup_done => s_br[2]
    BY <1>3 DEF OwnerInv, AcceleratorHolds, pwrup_done
  <2>a. br_all /\ (PASSIVE_EN => (arb_settled => passive))
    BY DEF OwnerInv, AcceleratorHolds
  <2>4. br_all'
    BY <1>4, <2>3, <2>a, Zenon DEF OwnershipClock, Ownership, Arbitrate, Decide
  <2>5. PASSIVE_EN => (arb_settled' => passive')
    BY <1>4, <2>3, <2>a, Zenon DEF OwnershipClock, Ownership, Arbitrate, Decide
  <2>6. PASSIVE_EN => ~bus_enable'
    BY DEF OwnerInv, AcceleratorHolds, OwnershipClock, Ownership, Switches, bus_owned
  <2> QED BY <1>3, <2>1, <2>2, <2>4, <2>5, <2>6 DEF AcceleratorHolds
<1>7. pwrup_done' \/ (arb_cnt' = 0 /\ br_all' /\ ~arb_settled')
  BY <1>3 DEF OwnershipClock, Ownership, Arbitrate, Decide, OwnerInv, pwrup_done
<1>8. passive' => guest' = "accelerator"
  <2> SUFFICES ASSUME passive', ~passive, guest = "dma" PROVE FALSE
    BY <1>3 DEF OwnerInv, OwnershipTypeOK
  <2>1. Decide /\ br_all /\ s_br[2]
    BY DEF OwnershipClock, Ownership, Arbitrate, Decide
  <2>2. arb_cnt = Window
    BY <2>1, WindowOver DEF Decide, OwnerInv
  <2>3. Window + 1 <= BURST
    BY <1>3, <2>1, <2>2 DEF Decide, OwnerInv, DmaShort, pwrup_done
  <2> QED BY <2>3, OwnershipAssumption, WindowAssumption DEF Window
<1> QED BY <1>1, <1>2, <1>5, <1>6, <1>7, <1>8 DEF OwnerInv

(* Lines 745-799, 1108-1112: who owns the bus is decided rightly, and once.*)
THEOREM BusHasOneOwner == OwnershipSpec => []OneOwner
<1>1. OwnerInv => OneOwner
  BY DEF OwnerInv, AcceleratorHolds, OneOwner
<1>2. OwnerInv /\ [OwnershipNext]_ownershipVars => OwnerInv'
  <2> SUFFICES ASSUME OwnerInv, [OwnershipNext]_ownershipVars PROVE OwnerInv'
    OBVIOUS
  <2>1. CASE OwnershipNext
    BY <2>1, OwnerKept DEF OwnershipNext
  <2>2. CASE UNCHANGED ownershipVars
    BY <2>2
    DEF ownershipVars, vars, resetVars, arbVars, guestVars, OwnerInv, CountersTyped, rtryVars,
        OwnershipTypeOK, DmaShort, AcceleratorHolds, pwrup_done
  <2> QED BY <2>1, <2>2
<1> QED BY <1>1, <1>2, OwnerInitially, PTL DEF OwnershipSpec

-----------------------------------------------------------------------------
(* LockIgnoresNoise of PhaseAligner, for every period, phase offset and    *)
(* tolerance, and any amount of noise.                                     *)
(*                                                                         *)
(* A reload needs SLIP_TOL disagreements that no regular edge interrupts.  *)
(* On the right grid every disagreement is a misplaced edge, so that       *)
(* slip_cnt never gets ahead of the environment's own count, burst; and a  *)
(* misplaced edge comes only while burst is below SLIP_TOL.                *)

OnGrid == ph_locked /\ slips = 0 /\ Finds = PHASE_OFS

(* Until the first slip a counter that is locked on the right grid has     *)
(* counted misplaced edges only.                                           *)
CountsNoise == OnGrid => slip_cnt <= burst
LockedTrusted == ph_locked => clock_trusted

AlignerInv == AlignerTypeOK /\ LockedTrusted /\ CountsNoise

(* The counter keeps its range, and the flags theirs, whatever it sees.    *)
LEMMA CounterTyped ==
  ASSUME AlignerTypeOK, NEW edge \in BOOLEAN, Counter(edge)
  PROVE  ph' \in 0..PERIOD-1 /\ slip_cnt' \in 0..SLIP_TOL
<1>1. CASE ~clock_trusted
  BY <1>1, AlignerAssumption DEF Counter, Held, Running, AlignerTypeOK, CountsTyped
<1>2. CASE clock_trusted
  BY <1>2, AlignerAssumption
  DEF Counter, Trusted, FreeRun, Agree, Acquire, Reacquire, Tolerate, Running,
      AlignerTypeOK, CountsTyped
<1> QED BY <1>1, <1>2

LEMMA FlagsStayTyped ==
  ASSUME PhaseFlagsTyped, NEW edge \in BOOLEAN, Counter(edge)
  PROVE  {ph_locked', ph_slip'} \subseteq BOOLEAN
BY Zenon
DEF PhaseFlagsTyped, Counter, Held, Trusted, FreeRun, Agree, Acquire, Reacquire, Tolerate

(* One clock later the next regular edge finds what it would have found,   *)
(* if the counter has just run on.                                         *)
LEMMA RunningKeepsGrid ==
  ASSUME AlignerTypeOK, ph' = Running, NextEdge
  PROVE  Finds' = Finds
BY AlignerAssumption DEF AlignerTypeOK, CountsTyped, Running, NextEdge, Before, Finds

LEMMA BeforeTyped == ASSUME NEW x \in 0..PERIOD-1 PROVE Before(x) \in 0..PERIOD-1
BY AlignerAssumption DEF Before

LEMMA AlignerInductive == AlignerInv /\ [AlignerNext]_gridVars => AlignerInv'
<1> SUFFICES ASSUME AlignerInv, [AlignerNext]_gridVars PROVE AlignerInv'
  OBVIOUS
<1> USE AlignerAssumption
<1>1. CASE Tick
  <2>1. AlignerTypeOK'
    <3>1. CountsTyped'
      <4>1. ph' \in 0..PERIOD-1 /\ slip_cnt' \in 0..SLIP_TOL
        <5>1. Counter(due = 0) /\ (due = 0) \in BOOLEAN
          BY <1>1 DEF Tick
        <5> QED BY <5>1, CounterTyped DEF AlignerInv
      <4> QED BY <1>1, <4>1, BeforeTyped
      DEF Tick, NextEdge, AlignerTypeOK, CountsTyped, AlignerInv
    <3>2. PhaseFlagsTyped'
      BY <1>1, FlagsStayTyped, Zenon DEF Tick, PhaseFlagsTyped, AlignerTypeOK, AlignerInv
    <3> QED BY <3>1, <3>2 DEF AlignerTypeOK
  <2>2. LockedTrusted'
    BY <1>1 DEF Tick, Counter, Held, LockedTrusted, AlignerInv
  <2>3. CountsNoise'
    <3>1. CASE ~clock_trusted
      BY <1>1, <3>1 DEF Tick, Counter, Held, CountsNoise, OnGrid
    <3>2. CASE clock_trusted /\ due # 0
      <4>1. ph' = Running /\ UNCHANGED <<slip_cnt, ph_locked, slips, burst>>
        BY <1>1, <3>2 DEF Tick, Counter, Trusted, FreeRun
      <4>2. Finds' = Finds
        BY <1>1, <4>1, RunningKeepsGrid DEF Tick, AlignerInv
      <4> QED BY <4>1, <4>2 DEF CountsNoise, OnGrid, AlignerInv
    <3>3. CASE clock_trusted /\ due = 0
      <4>1. slip_cnt' = 0 \/ ph # PHASE_OFS
        BY <1>1, <3>3 DEF Tick, Counter, Trusted, Agree, Acquire, Reacquire, Tolerate
      <4>2. burst' = 0
        BY <1>1, <3>3 DEF Tick
      <4>3. CASE slip_cnt' = 0
        BY <4>2, <4>3 DEF CountsNoise
      <4>4. CASE ph # PHASE_OFS
        <5>1. Finds = ph /\ Finds # PHASE_OFS
          BY <3>3, <4>4 DEF Finds, AlignerInv, AlignerTypeOK, CountsTyped
        <5>2. CASE Acquire
          BY <5>2, <1>1 DEF Acquire, CountsNoise, OnGrid
        <5>3. CASE Reacquire
          BY <5>3, <4>2 DEF Reacquire, CountsNoise
        <5>4. CASE Tolerate
          <6>1. Finds' = Finds
            BY <1>1, <5>4, RunningKeepsGrid DEF Tick, Tolerate, AlignerInv
          <6> QED BY <5>1, <6>1 DEF CountsNoise, OnGrid
        <5> QED BY <1>1, <3>3, <4>4, <5>2, <5>3, <5>4 DEF Tick, Counter, Trusted, Agree
      <4> QED BY <4>1, <4>3, <4>4
    <3> QED BY <3>1, <3>2, <3>3
  <2> QED BY <2>1, <2>2, <2>3 DEF AlignerInv
<1>2. CASE NoisyTick
  <2>1. AlignerTypeOK'
    <3>1. CountsTyped'
      <4>1. ph' \in 0..PERIOD-1 /\ slip_cnt' \in 0..SLIP_TOL
        <5>1. Counter(due # 0) /\ (due # 0) \in BOOLEAN
          BY <1>2 DEF NoisyTick
        <5> QED BY <5>1, CounterTyped DEF AlignerInv
      <4> QED BY <1>2, <4>1, BeforeTyped
      DEF NoisyTick, NextEdge, AlignerTypeOK, CountsTyped, AlignerInv
    <3>2. PhaseFlagsTyped'
      BY <1>2, FlagsStayTyped, Zenon DEF NoisyTick, PhaseFlagsTyped, AlignerTypeOK, AlignerInv
    <3> QED BY <3>1, <3>2 DEF AlignerTypeOK
  <2>2. LockedTrusted'
    BY <1>2 DEF NoisyTick, Counter, Held, LockedTrusted, AlignerInv
  <2>3. CountsNoise'
    <3>1. CASE ~clock_trusted
      BY <1>2, <3>1 DEF NoisyTick, Counter, Held, CountsNoise, OnGrid
    <3>2. CASE clock_trusted /\ ph' = Running /\ ph_locked' = ph_locked
      <4>1. Finds' = Finds /\ burst' = burst + 1 /\ slips' = slips
        BY <1>2, <3>2, RunningKeepsGrid DEF NoisyTick, AlignerInv
      <4>2. slip_cnt' \in {0, slip_cnt, slip_cnt + 1}
        BY <1>2, <3>2
        DEF NoisyTick, Counter, Trusted, FreeRun, Agree, Acquire, Reacquire, Tolerate
      <4> QED BY <3>2, <4>1, <4>2
      DEF CountsNoise, OnGrid, AlignerInv, AlignerTypeOK, CountsTyped
    <3>3. CASE Agree \/ Reacquire
      BY <1>2, <3>3
      DEF NoisyTick, Agree, Reacquire, CountsNoise, AlignerInv, AlignerTypeOK, CountsTyped
    <3>4. CASE Acquire
      BY <1>2, <3>4 DEF NoisyTick, Acquire, CountsNoise, OnGrid
    <3> QED BY <1>2, <3>1, <3>2, <3>3, <3>4
    DEF NoisyTick, Counter, Trusted, FreeRun, Tolerate
  <2> QED BY <2>1, <2>2, <2>3 DEF AlignerInv
<1>3. CASE PllSlip
  <2>1. AlignerTypeOK'
    <3>1. CountsTyped'
      <4>1. ph' \in 0..PERIOD-1 /\ slip_cnt' \in 0..SLIP_TOL
        <5>1. Counter(due = 0) /\ (due = 0) \in BOOLEAN
          BY <1>3 DEF PllSlip
        <5> QED BY <5>1, CounterTyped DEF AlignerInv
      <4> QED BY <1>3, <4>1 DEF PllSlip, AlignerTypeOK, CountsTyped, AlignerInv
    <3>2. PhaseFlagsTyped'
      BY <1>3, FlagsStayTyped, Zenon DEF PllSlip, PhaseFlagsTyped, AlignerTypeOK, AlignerInv
    <3> QED BY <3>1, <3>2 DEF AlignerTypeOK
  <2>2. LockedTrusted'
    BY <1>3 DEF PllSlip, Counter, Held, LockedTrusted, AlignerInv
  <2>3. CountsNoise'
    BY <1>3 DEF PllSlip, CountsNoise, OnGrid, AlignerInv, AlignerTypeOK, CountsTyped
  <2> QED BY <2>1, <2>2, <2>3 DEF AlignerInv
<1>4. CASE HoldOver
  <2>1. AlignerTypeOK'
    <3>1. CountsTyped'
      <4>1. ph' \in 0..PERIOD-1 /\ slip_cnt' \in 0..SLIP_TOL
        <5>1. Counter(due = 0) /\ (due = 0) \in BOOLEAN
          BY <1>4 DEF HoldOver
        <5> QED BY <5>1, CounterTyped DEF AlignerInv
      <4> QED BY <1>4, <4>1, BeforeTyped
      DEF HoldOver, NextEdge, AlignerTypeOK, CountsTyped, AlignerInv
    <3>2. PhaseFlagsTyped'
      BY <1>4, FlagsStayTyped, Zenon DEF HoldOver, PhaseFlagsTyped, AlignerTypeOK, AlignerInv
    <3> QED BY <3>1, <3>2 DEF AlignerTypeOK
  <2> QED BY <1>4, <2>1
  DEF HoldOver, Counter, Held, LockedTrusted, CountsNoise, OnGrid, AlignerInv
<1>5. CASE UNCHANGED gridVars
  BY <1>5
  DEF gridVars, alignerVars, clockVars, AlignerInv, AlignerTypeOK, CountsTyped, PhaseFlagsTyped,
              LockedTrusted, CountsNoise, OnGrid, Finds
<1> QED BY <1>1, <1>2, <1>3, <1>4, <1>5 DEF AlignerNext

LEMMA AlignerInitially == AlignerInit => AlignerInv
<1> SUFFICES ASSUME AlignerInit PROVE AlignerInv
  OBVIOUS
<1>1. CountsTyped /\ CountsNoise /\ LockedTrusted
  BY AlignerAssumption DEF AlignerInit, CountsTyped, CountsNoise, OnGrid, LockedTrusted
<1>2. PhaseFlagsTyped
  BY Zenon DEF AlignerInit, PhaseFlagsTyped
<1> QED BY <1>1, <1>2 DEF AlignerInv, AlignerTypeOK

(* The step that LockIgnoresNoise is about.                                *)
LEMMA NotMoved == AlignerInv /\ [AlignerNext]_gridVars =>
  [ph_locked /\ Finds = PHASE_OFS /\ slips = 0 => ph' = Running]_gridVars
<1> SUFFICES ASSUME AlignerInv, AlignerNext, OnGrid PROVE ph' = Running
  BY DEF OnGrid
<1>1. clock_trusted /\ slip_cnt <= burst
  BY DEF AlignerInv, LockedTrusted, CountsNoise, OnGrid
<1>2. CASE ~NoisyTick
  <2>1. Counter(due = 0)
    BY <1>2 DEF AlignerNext, Tick, PllSlip, HoldOver
  <2>2. due = 0 => ph = PHASE_OFS
    BY AlignerAssumption DEF OnGrid, Finds, AlignerInv, AlignerTypeOK, CountsTyped
  <2> QED BY <1>1, <2>1, <2>2
  DEF Counter, Trusted, FreeRun, Agree, Acquire, Reacquire, Tolerate
<1>3. CASE NoisyTick
  <2>1. slip_cnt # SLIP_TOL
    BY <1>1, <1>3, AlignerAssumption DEF NoisyTick, AlignerInv, AlignerTypeOK, CountsTyped
  <2> QED BY <1>1, <1>3, <2>1
         
          DEF NoisyTick, Counter, Trusted, FreeRun, Agree, Acquire, Reacquire, Tolerate, OnGrid
<1> QED BY <1>2, <1>3

(* The aligner, lines 384-429: once it has locked on regular edges it is   *)
(* not moved by noise, whatever the parameters.                            *)
THEOREM NoiseNeverMoves == AlignerSpec => LockIgnoresNoise
<1>1. AlignerInv => AlignerTypeOK
  BY DEF AlignerInv
<1> QED BY <1>1, AlignerInitially, AlignerInductive, NotMoved, PTL DEF AlignerSpec, LockIgnoresNoise
=============================================================================
