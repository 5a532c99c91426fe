---------------------------- MODULE BusOwnership ----------------------------
(***************************************************************************)
(* base64_top.sv, sections 9, 9b and 11, beside ColdBoot: whether the FPGA *)
(* owns the motherboard's bus.  It lets go while another master asserts    *)
(* /BGACK, and for good if another accelerator has held /BR for the whole  *)
(* decision window after the power-up hold.  The CBT switches between the  *)
(* FPGA and the motherboard are open until that is decided.                *)
(*                                                                         *)
(* The guest is the environment: a DMA master, which asks for the length   *)
(* of a transfer, or not at all, and takes the bus once granted; or an     *)
(* accelerator, which asks from power-up on, never lets go and drives when *)
(* it likes.                                                               *)
(***************************************************************************)
EXTENDS ColdBoot

CONSTANTS
  PASSIVE_EN,           (* the module's parameter                          *)
  PASSIVE_BIT,          (* a bit number: the length of the window          *)
  BURST                 (* clocks a DMA master keeps /BR at most           *)

ASSUME OwnershipAssumption ==
  /\ PASSIVE_EN \in BOOLEAN /\ {PASSIVE_BIT, BURST} \subseteq Nat
  /\ BURST <= 2^PASSIVE_BIT   (* "for the length of a transfer" (line 759) *)

(* Of any length; the provers know nothing of powers.                      *)
ASSUME WindowAssumption == 2^PASSIVE_BIT \in Nat \ {0}

VARIABLES
  s_br, s_bgack,        (* synchronisers: <<first, second>>, TRUE = low    *)
  bg,                   (* bg_pin_n, TRUE = low                            *)
  arb_cnt, arb_settled, br_all, passive,
  bus_enable,
  guest,                (* external: who else wants the bus                *)
  br, bgack, driving,   (* external: what it does                          *)
  asking                (* clocks of /BR so far                            *)

arbVars == <<s_br, s_bgack, bg, arb_cnt, arb_settled, br_all, passive, bus_enable>>
guestVars == <<guest, br, bgack, driving, asking>>
ownershipVars == <<vars, arbVars, guestVars>>

OwnershipTypeOK ==
  /\ s_br \in BOOLEAN \X BOOLEAN /\ s_bgack \in BOOLEAN \X BOOLEAN
  /\ arb_cnt \in 0..2^PASSIVE_BIT
  /\ {bg, arb_settled, br_all, passive, bus_enable, br, bgack, driving} \subseteq BOOLEAN
  /\ guest \in {"dma", "accelerator"}
  /\ asking \in 0..BURST

bus_owned == ~s_bgack[2] /\ ~passive

-----------------------------------------------------------------------------
\* mutant: only the last sample counts
DecideLast ==
  /\ pwrup_done /\ ~arb_settled /\ Bit(arb_cnt, PASSIVE_BIT)
  /\ arb_settled' = TRUE /\ passive' = (PASSIVE_EN /\ s_br[2])
  /\ br_all' = (br_all /\ s_br[2]) /\ UNCHANGED arb_cnt

Decide ==
  /\ pwrup_done /\ ~arb_settled /\ Bit(arb_cnt, PASSIVE_BIT)
  /\ arb_settled' = TRUE /\ passive' = (PASSIVE_EN /\ br_all /\ s_br[2])
  /\ br_all' = (br_all /\ s_br[2]) /\ UNCHANGED arb_cnt

Arbitrate ==
  \/ /\ ~pwrup_done
     /\ arb_cnt' = 0 /\ arb_settled' = FALSE /\ passive' = FALSE /\ br_all' = TRUE
  \/ /\ pwrup_done /\ ~arb_settled /\ ~Bit(arb_cnt, PASSIVE_BIT)
     /\ arb_cnt' = arb_cnt + 1 /\ br_all' = (br_all /\ s_br[2])
     /\ UNCHANGED <<arb_settled, passive>>
  \/ Decide
  \/ arb_settled /\ pwrup_done /\ UNCHANGED <<arb_cnt, arb_settled, passive, br_all>>

\* mutant: the switches do not wait for the decision
SwitchesEager == bus_enable' = (pwrup_done /\ bus_owned)

Switches == bus_enable' = (pwrup_done /\ arb_settled /\ bus_owned)

(* The core (external) answers /BR with /BG, some time, and goes on using  *)
(* the bus until /BGACK (line 734); /BG is retimed to 7M.                  *)
Grant(tick_r) ==
  bg' \in IF tick_r THEN {bg, s_br[2]} ELSE {bg}

Ownership(tick_r) ==
  /\ s_br' = <<br, s_br[1]>> /\ s_bgack' = <<bgack, s_bgack[1]>>
  /\ Arbitrate /\ Switches /\ Grant(tick_r)

-----------------------------------------------------------------------------
(* The guest (external).                                                   *)
Accelerator ==
  /\ guest = "accelerator" /\ driving' \in {driving, TRUE}
  /\ UNCHANGED <<guest, br, bgack, asking>>

(* /RESET resets a DMA master, too.                                        *)
DmaQuiet ==
  /\ guest = "dma" /\ br' = FALSE /\ bgack' = FALSE /\ driving' = FALSE
  /\ asking' = 0 /\ UNCHANGED guest

DmaAsks ==
  /\ guest = "dma" /\ ~ResetLow /\ ~bgack /\ asking < BURST
  /\ br' = TRUE /\ asking' = asking + 1 /\ UNCHANGED <<guest, bgack, driving>>

DmaTakes ==
  /\ guest = "dma" /\ ~ResetLow /\ br /\ bg
  /\ bgack' = TRUE /\ driving' = TRUE /\ br' = FALSE /\ asking' = 0 /\ UNCHANGED guest

DmaKeeps == guest = "dma" /\ ~ResetLow /\ bgack /\ UNCHANGED guestVars

Guest == Accelerator \/ DmaQuiet \/ DmaAsks \/ DmaTakes \/ DmaKeeps

-----------------------------------------------------------------------------
OwnershipInit ==
  /\ Init
  /\ s_br \in BOOLEAN \X BOOLEAN /\ s_bgack \in BOOLEAN \X BOOLEAN
  /\ bg = FALSE /\ arb_cnt = 0 /\ arb_settled = FALSE /\ br_all = TRUE
  /\ passive = FALSE /\ bus_enable = FALSE
  /\ guest \in {"dma", "accelerator"}
  /\ br = (guest = "accelerator") /\ bgack = FALSE /\ driving = FALSE
  /\ asking = 0

OwnershipClock(b, tick_r) == Clock(b, tick_r) /\ Ownership(tick_r) /\ Guest

OwnershipNext ==
  \E b \in {"power-on", "idle", "keyboard"}, tick_r \in BOOLEAN : OwnershipClock(b, tick_r)

OwnershipSpec ==
  /\ OwnershipInit /\ [][OwnershipNext]_ownershipVars
  /\ WF_ownershipVars(\E tick_r \in BOOLEAN : OwnershipClock(board, tick_r))
  /\ WF_ownershipVars(OwnershipClock(board, TRUE))
  /\ SF_ownershipVars(\E tick_r \in BOOLEAN : OwnershipClock("idle", tick_r))

-----------------------------------------------------------------------------
(* Properties.                                                             *)

(* "Both behaviours are right, for different situations, so the            *)
(* discriminator is DURATION" (lines 757-761), and "there is no interval   *)
(* in which both boards drive" (764-765): the switches are never closed    *)
(* beside an accelerator that holds /BR, whatever it drives and however    *)
(* often the machine is reset; and no DMA master, whenever it asks, drives *)
(* the FPGA off its bus for good.                                          *)
OneOwner ==
  /\ OwnershipTypeOK
  /\ PASSIVE_EN /\ guest = "accelerator" => ~(driving /\ bus_enable) /\ (arb_settled => passive)
  /\ passive => guest = "accelerator"

(* "hands the bus over for good: outputs tri-stated" (fx68k/README.md:149):*)
(* what the FPGA has handed over it does not reset.                        *)
PassiveQuiet == passive => ~(core = "resetting" \/ rst_stretch \/ rtry_rst \/ core_halted)
=============================================================================
