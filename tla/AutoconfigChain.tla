-------------------------- MODULE AutoconfigChain --------------------------
(***************************************************************************)
(* The three autoconfig boards inside the gateware on their daisy chain    *)
(* (base64_top.sv 1328-1465): fast RAM, boot ROM, SD card.  Each answers   *)
(* at $00E80000 while its CFGIN is low and its CFGOUT is not, and passes   *)
(* the chain on when the cycle that configured it (or shut it up) has      *)
(* ended.  All three follow the core's bus on every master clock.          *)
(*                                                                         *)
(* External: the core, boards further up (CFGIN), and Kickstart, which     *)
(* places memory inside the Zorro II window and I/O boards on pages of     *)
(* their own.                                                              *)
(***************************************************************************)
EXTENDS FastmemConfig, Turbomem, SdConfig

CONSTANTS
  IoPage,          (* pages Kickstart gives to I/O boards                  *)
  STRAY_KEYS       (* do programs write keyed words elsewhere, to addresses*)
                   (* that look like the mapROM register?                  *)

ASSUME ChainAssumption ==
  /\ STRAY_KEYS \in BOOLEAN
  /\ IoPage \subseteq 233..239

VARIABLES
  cfgin_n,         (* s_cfgin_n[1]                                         *)
  told             (* history: slots Kickstart believes to hold memory     *)

vars == <<busVars, fmVars, tmVars, sdVars, cfgin_n, told>>

ChainTypeOK ==
  /\ ZorroBusTypeOK /\ FastmemConfigTypeOK /\ TurbomemTypeOK /\ SdConfigTypeOK
  /\ cfgin_n \in BOOLEAN /\ told \subseteq 0..7

----------------------------------------------------------------------------
fm_answers == fm_ac_access(cfgin_n)
tm_answers == tm_ac_access(fm_cfgout_n)
sd_answers == sd_ac_access(tm_cfgout_n)
fm_memory == fm_space("load" \in mr_ctrl, "active" \in mr_ctrl)

(* Who claims the running cycle.                                           *)
Claims ==
  {c \in {"fm_ac", "tm_ac", "sd_ac", "fm", "tm", "sd"} :
     \/ c = "fm_ac" /\ fm_answers
     \/ c = "tm_ac" /\ tm_answers
     \/ c = "sd_ac" /\ sd_answers
     \/ c = "fm" /\ fm_memory
     \/ c = "tm" /\ tm_space
     \/ c = "sd" /\ sd_space}

(* DTACK from a board that times it itself; anyone else's comes any time.  *)
Timed == Claims \cap {"fm_ac", "tm_ac", "sd_ac", "tm"} # {}
dtack == (~ds_n /\ (fm_answers \/ tm_answers)) \/ tm_hold \/ ~sd_dtack_n

----------------------------------------------------------------------------
(* What Kickstart writes to a board that answers (external).               *)

Size == [OFFER_8M |-> 8, OFFER_4M |-> 4, OFFER_2M |-> 2, OFFER_1M |-> 1,
         OFFER_S4 |-> 4, DONE |-> 0]
Block(n) == n-2 .. n-3 + Size[ac_state]
PlacesMemory(n) ==
  /\ Block(n) # {} /\ Block(n) \subseteq 0..7
  /\ Size[ac_state] > 1 => n % 2 = 0

PlacesBoard(page) ==
  /\ page \in IoPage
  /\ tm_configured => page # base
  /\ sd_configured => page # base_sd

Sensible(word) ==
  LET n == word \div 4096
      turn(in_n, out_n) == ConfigAddress /\ ~in_n /\ out_n
  IN  /\ turn(cfgin_n, fm_cfgout_n) /\ reg8 = BASE_HI => PlacesMemory(n)
      /\ turn(fm_cfgout_n, tm_cfgout_n) /\ reg6 = BASE_HI
           => PlacesBoard(16 * n + (base % 16))
      /\ turn(tm_cfgout_n, cfgout_n) /\ reg6 = BASE_HI
           => PlacesBoard(16 * n + (base_sd % 16))
      /\ STRAY_KEYS \/ tm_win \/ word \div 256 # MAPROM_KEY

----------------------------------------------------------------------------
Init ==
  /\ BusInit /\ FastmemInit /\ TurbomemInit /\ SdInit
  /\ cfgin_n = TRUE /\ told = {}

(* One clock of the boards.                                                *)
Decodes ==
  /\ as_n_q' = as_n
  /\ FastmemDecode(cfgin_n) /\ TurbomemDecode(fm_cfgout_n)
  /\ SdDecode(tm_cfgout_n)

Boards ==
  /\ FastmemClock(cfgin_n) /\ TurbomemClock(fm_cfgout_n)
  /\ SdClock(tm_cfgout_n) /\ Decodes

Rest == CoreRest /\ Boards /\ UNCHANGED <<cfgin_n, told>>
Start(addr) == CoreAddress(addr) /\ Boards /\ UNCHANGED <<cfgin_n, told>>
Strobe(read) ==
  /\ read \/ \E word \in Data : Sensible(word)
  /\ CoreStrobe(read) /\ Boards /\ UNCHANGED <<cfgin_n, told>>

Drive(word) ==
  /\ rw \/ Sensible(word)
  /\ CoreDrive(word) /\ Boards
  /\ told' = IF ~rw /\ fm_answers /\ reg8 = BASE_HI
             THEN told \cup Block(word \div 4096) ELSE told
  /\ UNCHANGED cfgin_n

Wait == ~dtack /\ CoreWait /\ Boards /\ UNCHANGED <<cfgin_n, told>>
Go == (dtack \/ ~Timed) /\ CoreGo /\ Boards /\ UNCHANGED <<cfgin_n, told>>
S5 == CoreS5 /\ Boards /\ UNCHANGED <<cfgin_n, told>>
Finish == CoreFinish /\ Boards /\ UNCHANGED <<cfgin_n, told>>

(* The board above has been configured, in a cycle of its own.             *)
CfginFalls ==
  /\ cfgin_n /\ cfgin_n' = FALSE
  /\ s = "S0" /\ CoreRest /\ Boards /\ UNCHANGED told

(* ext_reset: everything starts over, the boards above included.           *)
Reset ==
  /\ CoreReset /\ FastmemReset /\ TurbomemReset /\ SdReset /\ Decodes
  /\ cfgin_n' = TRUE /\ told' = {}

Clock ==
  \/ Rest \/ Wait \/ Go \/ S5 \/ Finish \/ CfginFalls
  \/ \E addr \in Address : Start(addr)
  \/ \E read \in BOOLEAN : Strobe(read)
  \/ \E word \in Data : Drive(word)

Next == Clock \/ Reset

Spec == Init /\ [][Next]_vars

----------------------------------------------------------------------------
(* Properties.                                                             *)

(* Never two slaves on one cycle: whatever is configured when, at most one *)
(* of the six decodes (three autoconfig windows, fast RAM with mapROM, ROM *)
(* window, SD window) claims a cycle.  The muxes of base64_top.sv:679-692  *)
(* and the isolation of the motherboard bus rest on it.                    *)
OneSlave == ChainTypeOK /\ Cardinality(Claims) <= 1

(* The claim on a cycle stands from AS to AS: a decode that is a clock     *)
(* old, the cycle that configures its own board, CFGOUT passing the chain  *)
(* on, mapROM being switched - none of it changes who answers a cycle that *)
(* has begun (fastmem_zii.v:166-169, 358-376).                             *)
ClaimSteady == [][~as_n /\ ~as_n' => Claims' = Claims]_vars

(* The memory Kickstart adds to its free pool is the memory the board      *)
(* answers, slot for slot, whatever offer it accepted (fastmem_zii.v:      *)
(* 204-260).                                                               *)
MemoryPlaced == s = "S0" => addr_match = told

(* No two addresses that the fast RAM answers share a word of the SDRAM,   *)
(* however fragmented the owned slots are (fastmem_zii.v:412-447).         *)
NoAliases == s = "S0" => Injective(addr_match, Address)

(* What a read of the ROM window latches is the word at that address: the  *)
(* data, two registers behind the address, are there before DTACK and stay *)
(* (turbomem_zii.v:330-413).                                               *)
TurbomemReads ==
  s = "S6" /\ rw /\ tm_space =>
    tm_dout = IF status_hit THEN StatusWord ELSE RomWord(a.off)

(* The chain reaches the pin: no board keeps CFGOUT to itself for ever,    *)
(* as long as Kickstart goes on refusing (or placing) what it is offered.  *)
Refusal == ConfigAddress /\ reg8 = SHUTUP /\ ~rw /\ Finish
ChainPasses ==
  []<><<Refusal>>_vars => (~cfgin_n ~> (~cfgout_n \/ cfgin_n))

(* "only a deliberate write can do it" (turbomem_zii.v:343-347): mapROM is *)
(* switched by a write to the register in the board's window, or by reset. *)
MapromDeliberate == [][mr_ctrl' # mr_ctrl => tm_space \/ mr_ctrl' = {}]_vars
=============================================================================
