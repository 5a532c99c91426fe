--------------------------- MODULE FastmemBridge ---------------------------
(***************************************************************************)
(* fastmem_zii.v's bus bridge (lines 303-534) between the fx68k core and   *)
(* sdram_ctrl, cycle by cycle: the core, the bridge and the controller     *)
(* step together on every master clock.                                    *)
(*                                                                         *)
(* The core is not part of the repository (an empty submodule); it is the  *)
(* 68000 bus cycle the gateware's comments and the 6x clocking rely on:    *)
(* one S-state per master clock, the address out at S1, AS at S2 (with the *)
(* data strobes on a read), write data at S3 and its strobes at S4, DTACK  *)
(* sampled at the end of S4 and of every second clock after it, data       *)
(* latched at the end of S6, strobes released at S7.  RMW_CYCLES adds the  *)
(* read-modify-write cycle of TAS, whose two halves share one AS (see      *)
(* rtl/fx68k_sys.sv:14-15).                                                *)
(***************************************************************************)
EXTENDS SdramCtrl

CONSTANTS
  RMW_CYCLES,      (* does the program use TAS?                            *)
  MaxResets        (* resets explored (state bound)                        *)

ASSUME BridgeAssumption ==
  RMW_CYCLES \in BOOLEAN /\ MaxResets \in Nat /\ Lanes # {} /\ NoData \notin Word

VARIABLES
  s,               (* the core's S-state                                   *)
  kind,            (* "read", "write", "rmw" or, in its second half, "rmw2"*)
  mine, adr,       (* on the address bus: is it fast RAM, and which word   *)
  lanes,           (* the lanes the running cycle uses                     *)
  as_n, rw, ds,    (* strobes; ds is the set of asserted data strobes      *)
  dout,            (* core write data (NoData: not driven yet)             *)
  latched,         (* what the core latched in its last read               *)
  bstate, fm_hold, fm_dout_r,
  owns_r, saddr_r, (* registered decode and SDRAM address                  *)
  promised,        (* memory as the finished bus cycles left it (history)  *)
  resets

coreVars == <<s, kind, mine, adr, lanes, as_n, rw, ds, dout, latched>>
bridgeVars == <<bstate, fm_hold, fm_dout_r, owns_r, saddr_r>>
sysVars == <<vars, coreVars, bridgeVars, promised, resets>>

SStates == {"S0", "S1", "S2", "S3", "S4", "SW", "S5", "S6"}

BridgeTypeOK ==
  /\ TypeOK
  /\ s \in SStates /\ kind \in {"read", "write", "rmw", "rmw2"}
  /\ {mine, as_n, rw, fm_hold, owns_r} \subseteq BOOLEAN
  /\ adr \in Address /\ saddr_r \in Address
  /\ lanes \in (SUBSET Lanes) \ {{}} /\ ds \subseteq Lanes
  /\ {dout, latched, fm_dout_r} \subseteq Word \cup {NoData}
  /\ bstate \in {"B_IDLE", "B_REQ", "B_DONE"}
  /\ promised \in [Address -> Word]
  /\ resets \in 0..MaxResets

----------------------------------------------------------------------------
(* The bridge's combinational outputs.                                     *)

fm_space == owns_r /\ ~as_n
fm_req_now ==
  fm_space /\ init_done /\ bstate = "B_IDLE" /\ (rw => ds # {})
\* mutant: the request is not held while the controller is busy
reqPulse == fm_req_now

req == fm_req_now \/ bstate = "B_REQ"
ack_hit == ack \/ ack_early
\* mutant: the early acknowledge hands over the registered data
ack_datLate == rdata

ack_dat == IF ack_early THEN rdata_live ELSE rdata
ack_now == bstate = "B_REQ" /\ ack_hit
dtack == ack_now \/ fm_hold
fm_dout == IF ack_now THEN ack_dat ELSE fm_dout_r

BridgeClock ==
  /\ owns_r' = mine /\ saddr_r' = adr
  /\ \/ /\ bstate = "B_IDLE"
        /\ fm_hold' = FALSE
        /\ bstate' = IF fm_req_now THEN "B_REQ" ELSE "B_IDLE"
        /\ UNCHANGED fm_dout_r
     \/ /\ bstate = "B_REQ" /\ ack_hit
        /\ fm_dout_r' = ack_dat /\ fm_hold' = TRUE /\ bstate' = "B_DONE"
     \/ /\ bstate = "B_REQ" /\ ~ack_hit
        /\ UNCHANGED <<bstate, fm_hold, fm_dout_r>>
     \/ /\ bstate = "B_DONE" /\ as_n
        /\ fm_hold' = FALSE /\ bstate' = "B_IDLE" /\ UNCHANGED fm_dout_r
     \/ /\ bstate = "B_DONE" /\ ~as_n
        /\ UNCHANGED <<bstate, fm_hold, fm_dout_r>>

(* The controller samples the bus directly: direction, strobes, data.      *)
ControllerClock ==
  LET a == saddr_r
      w == IF dout = NoData THEN [l \in Lanes |-> CHOOSE v \in Byte : TRUE]
                            ELSE dout
  IN  Clock(req, ~rw, a[1], a[2], a[3], ds # {}, w, ds)

----------------------------------------------------------------------------
(* The core (external).                                                    *)

Writing == kind \in {"write", "rmw2"}
Merge(old, w, be) == [l \in Lanes |-> IF l \in be THEN w[l] ELSE old[l]]

(* S7/S0: strobes high; either stay, or put the next address out (S1).     *)
CoreRest ==
  /\ s = "S0"
  /\ UNCHANGED coreVars

CoreAddress ==
  /\ s = "S0" /\ s' = "S1"
  /\ mine' \in BOOLEAN /\ adr' \in Address
  /\ kind' \in {"read", "write"} \cup (IF RMW_CYCLES THEN {"rmw"} ELSE {})
  /\ lanes' \in (SUBSET Lanes) \ {{}}
  /\ UNCHANGED <<as_n, rw, ds, dout, latched>>

CoreStrobe ==
  /\ s = "S1" /\ s' = "S2"
  /\ as_n' = FALSE
  /\ rw' = ~Writing
  /\ ds' = IF Writing THEN {} ELSE lanes
  /\ UNCHANGED <<kind, mine, adr, lanes, dout, latched>>

CoreDrive ==
  /\ s = "S2" /\ s' = "S3"
  /\ IF Writing THEN dout' \in Word ELSE UNCHANGED dout
  /\ UNCHANGED <<kind, mine, adr, lanes, as_n, rw, ds, latched>>

CoreWriteStrobe ==
  /\ s = "S3" /\ s' = "S4"
  /\ ds' = lanes
  /\ UNCHANGED <<kind, mine, adr, lanes, as_n, rw, dout, latched>>

(* Cycles that are not ours are acknowledged by someone else, any time.    *)
CoreSample ==
  /\ s = "S4"
  /\ IF fm_space THEN s' = IF dtack THEN "S5" ELSE "SW"
                 ELSE s' \in {"S5", "SW"}
  /\ UNCHANGED <<kind, mine, adr, lanes, as_n, rw, ds, dout, latched>>

CoreWait ==
  /\ s = "SW" /\ s' = "S4"
  /\ UNCHANGED <<kind, mine, adr, lanes, as_n, rw, ds, dout, latched>>

CoreS5 ==
  /\ s = "S5" /\ s' = "S6"
  /\ UNCHANGED <<kind, mine, adr, lanes, as_n, rw, ds, dout, latched>>

(* End of S6: latch and release.  The first half of a read-modify-write    *)
(* releases the data strobes only, and goes on to write under the same AS. *)
CoreFinish ==
  /\ s = "S6"
  /\ latched' = IF Writing \/ ~fm_space THEN latched ELSE fm_dout
  /\ ds' = {}
  /\ IF kind = "rmw"
     THEN /\ kind' = "rmw2" /\ s' = "S2" /\ rw' = FALSE
          /\ UNCHANGED <<as_n, dout>>
     ELSE /\ s' = "S0" /\ as_n' = TRUE /\ rw' = TRUE /\ dout' = NoData
          /\ UNCHANGED kind
  /\ UNCHANGED <<mine, adr, lanes>>

CoreClock ==
  \/ CoreRest \/ CoreAddress \/ CoreStrobe \/ CoreDrive \/ CoreWriteStrobe
  \/ CoreSample \/ CoreWait \/ CoreS5 \/ CoreFinish

(* History: a write cycle that ends has happened.                          *)
Promise ==
  promised' = IF s = "S6" /\ Writing /\ fm_space
              THEN [promised EXCEPT ![adr] = Merge(@, dout, lanes)]
              ELSE promised

----------------------------------------------------------------------------
SysInit ==
  /\ Init
  /\ s = "S0" /\ kind = "read" /\ mine = FALSE /\ adr \in Address
  /\ lanes = Lanes /\ as_n = TRUE /\ rw = TRUE /\ ds = {}
  /\ dout = NoData /\ latched = NoData
  /\ bstate = "B_IDLE" /\ fm_hold = FALSE /\ fm_dout_r = NoData
  /\ owns_r = FALSE /\ saddr_r = adr
  /\ promised = mem /\ resets = 0

SysClock ==
  /\ CoreClock /\ BridgeClock /\ ControllerClock /\ Promise
  /\ UNCHANGED resets

(* ext_reset reaches core, bridge and controller together (base64_top.sv,  *)
(* slave_reset).  A write it interrupts may or may not have landed.        *)
SysReset ==
  /\ resets < MaxResets /\ resets' = resets + 1
  /\ Reset
  /\ s' = "S0" /\ as_n' = TRUE /\ rw' = TRUE /\ ds' = {} /\ dout' = NoData
  /\ bstate' = "B_IDLE" /\ fm_hold' = FALSE /\ fm_dout_r' = NoData
  /\ owns_r' = mine /\ saddr_r' = adr
  /\ promised' = mem
  /\ UNCHANGED <<kind, mine, adr, lanes, latched>>

SysNext == SysClock \/ SysReset
SysSpec == SysInit /\ [][SysNext]_sysVars /\ WF_sysVars(SysClock)

----------------------------------------------------------------------------
(* Properties.                                                             *)

(* Between bus cycles the array holds exactly what the finished write      *)
(* cycles wrote: every write cycle that was acknowledged has landed, once, *)
(* in its own word and lanes, and no cycle wrote anything else - with the  *)
(* request started at AS, two states before the data exists                *)
(* (fastmem_zii.v:505-516), and reset at any moment.                       *)
WritesLand == BridgeTypeOK /\ (s = "S0" => mem = promised)

(* What a read cycle latches at the end of S6 is what the last write left  *)
(* there: DTACK is given on the clock the data is on DQ (ack_early), and   *)
(* the captured copy must carry it until AS rises (fastmem_zii.v:482-493). *)
ReadsReturnLastWrite ==
  s = "S6" /\ ~Writing /\ fm_space => fm_dout = promised[adr]

(* No refresh is dropped: the interval counter never expires while the     *)
(* refresh of the interval before is still owed, although the CPU has      *)
(* priority (sdram_ctrl.v:258-265) and the flag has a single bit.  So the  *)
(* device never waits much longer than two intervals (the rule of          *)
(* sdram_model_checked.v:128).                                             *)
RefreshNotLost == ~(IntervalOver /\ refresh_due)

(* Every fast-RAM cycle is eventually acknowledged and ends: a request     *)
(* meeting a refresh, a row change or a late strobe is held, not lost.     *)
CycleEnds == (s = "S4" /\ mine) ~> (s = "S0")

(* The two halves of a read-modify-write cycle under one AS are both real  *)
(* accesses.  Checked with RMW_CYCLES = TRUE.                              *)
RmwLands == s = "S0" /\ kind = "rmw2" => mem = promised
=============================================================================
