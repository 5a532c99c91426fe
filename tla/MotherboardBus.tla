--------------------------- MODULE MotherboardBus ---------------------------
(***************************************************************************)
(* The core, the bus engines and the Amiga motherboard together, clock by  *)
(* clock, while the FPGA owns the bus.  RETIME chooses the engine whose    *)
(* pins are connected and whose acknowledge the core gets (base64_top.sv,  *)
(* the core's muxes and the pin drivers).                                  *)
(*                                                                         *)
(* The motherboard is the environment.  Ram answers with DTACK, any time   *)
(* after AS; read data may follow its DTACK by DATA_LAG clocks and go with *)
(* AS; it latches a write when AS rises, if strobes were there.  Cia and   *)
(* interrupt acknowledges are answered with VPA; Cia drives read data      *)
(* while E is high and latches a write when E falls, with VMA held.        *)
(* Silent is answered with BERR.  Answers end within REL clocks of AS.     *)
(***************************************************************************)
EXTENDS Retime

CONSTANTS DATA_LAG, REL, MaxResets

ASSUME BusAssumption ==
  {DATA_LAG, REL, MaxResets} \subseteq Nat

VARIABLES
  dtack, vpa, berr,     (* the motherboard's answers, TRUE = asserted      *)
  lag,                  (* clocks of DATA_LAG, or of REL, still to go      *)
  mem,                  (* what the motherboard's devices hold             *)
  promised,             (* what the finished core writes should have left  *)
  edges,                (* falls of E with VMA low in the current cycle    *)
  refused,              (* did this cycle get BERR from its device?        *)
  resets

mbVars == <<dtack, vpa, berr, lag, mem, edges, refused>>
vars == <<clockVars, syncVars, coreVars, bridgeVars, retimeVars, mbVars,
          promised, resets>>

Device == Ram \cup Cia

----------------------------------------------------------------------------
(* The core's muxes and the pin drivers.                                   *)
core_dtack(int_ack) == (IF RETIME THEN rt_dtack_lo ELSE core_dtack_lo) \/ int_ack

cpu_as_n == IF RETIME THEN rt_as_n ELSE p_as_n
cpu_ds == IF RETIME THEN rt_ds ELSE p_ds
cpu_rw == IF RETIME THEN rt_rw ELSE p_rw
cpu_a == IF RETIME THEN rt_a ELSE bx_a
cpu_fc7 == IF RETIME THEN rt_a \in Levels ELSE bx_iack
cpu_vma_n == IF RETIME THEN rt_vma_n ELSE p_vma_n
d_oe == IF RETIME THEN rt_d_oe ELSE p_d_oe

Driven == IF RETIME THEN rt_d ELSE p_d
cpu_d ==
  IF d_oe THEN Driven
  ELSE IF cpu_as_n \/ ~cpu_rw \/ cpu_fc7 THEN NoData
  ELSE IF cpu_a \in Ram /\ dtack /\ lag = 0 THEN mem[cpu_a]
  ELSE IF cpu_a \in Cia /\ ~cpu_vma_n /\ e_pin THEN mem[cpu_a]
  ELSE NoData

\* mutant: the bus itself, not the word captured from it
core_iedbLive == IF av_valid THEN av_num ELSE cpu_d

core_iedb ==
  IF RETIME THEN IF rt_av THEN av_num ELSE rt_rd
            ELSE IF av_valid THEN av_num ELSE rd_data

----------------------------------------------------------------------------
(* The motherboard (external).                                             *)

Release ==
  /\ cpu_as_n
  /\ \/ dtack' = FALSE /\ vpa' = FALSE /\ berr' = FALSE /\ lag' = 0
     \/ (dtack \/ vpa \/ berr) /\ lag > 0 /\ lag' = lag - 1
        /\ UNCHANGED <<dtack, vpa, berr>>

Respond ==
  /\ ~cpu_as_n
  /\ dtack' \in {dtack, dtack \/ cpu_a \in Ram}
  /\ vpa' \in {vpa, vpa \/ cpu_a \in Cia \/ cpu_fc7}
  /\ berr' \in {berr, berr \/ cpu_a \in Silent}
  /\ lag' = IF dtack' /\ ~dtack THEN DATA_LAG
            ELSE IF cpu_as_n' THEN REL
            ELSE IF lag > 0 THEN lag - 1 ELSE 0

AsRises == ~cpu_as_n /\ cpu_as_n'
EFalls == e_pin /\ ~e_pin'
VmaHeld == ~cpu_vma_n /\ ~cpu_vma_n'

Latch ==
  mem' = IF \/ AsRises /\ cpu_a \in Ram /\ cpu_ds /\ ~cpu_rw'
            \/ EFalls /\ VmaHeld /\ cpu_a \in Cia /\ ~cpu_rw'
         THEN [mem EXCEPT ![cpu_a'] = IF d_oe' THEN Driven' ELSE NoData]
         ELSE mem

Motherboard ==
  /\ Release \/ Respond
  /\ Latch
  /\ edges' = IF cpu_as_n THEN 0
              ELSE IF EFalls /\ VmaHeld /\ edges < 2 THEN edges + 1 ELSE edges
  /\ refused' = (~cpu_as_n /\ (refused \/ berr'))

----------------------------------------------------------------------------
Init ==
  /\ CoreBusInit /\ BridgeInit /\ RetimeInit
  /\ dtack = FALSE /\ vpa = FALSE /\ berr = FALSE /\ lag = 0
  /\ mem = [a \in Device |-> NoData] /\ promised = mem
  /\ edges = 0 /\ refused = FALSE /\ resets = 0

(* int_ack: the on-chip slave answers, at a time of its own.               *)
Clock(int_ack) ==
  /\ int_ack => int_space
  /\ Clocks /\ Synchronise(dtack, vpa, berr)
  /\ CoreClock(core_dtack(int_ack) \/ core_berr_lo)
  /\ BridgeClock(cpu_d) /\ RetimeClock(cpu_d)
  /\ Motherboard
  /\ promised' = IF s = "S6" /\ kind = "write" /\ adr \in Device
                 THEN [promised EXCEPT ![adr] = dout] ELSE promised
  /\ UNCHANGED resets

(* ext_reset, a whole pulse of it: thousands of clocks, after which the    *)
(* motherboard is quiet; a write it interrupts may be lost.                *)
Reset ==
  /\ resets < MaxResets /\ resets' = resets + 1
  /\ Clocks
  /\ s_dtack' = Quiet /\ s_vpa' = Quiet /\ s_berr' = Quiet
  /\ CoreReset /\ BridgeReset /\ RetimeReset
  /\ dtack' = FALSE /\ vpa' = FALSE /\ berr' = FALSE /\ lag' = 0
  /\ edges' = 0 /\ refused' = FALSE
  /\ Latch /\ promised' = mem'

Next == Reset \/ \E int_ack \in BOOLEAN : Clock(int_ack)

Spec == Init /\ [][Next]_vars

(* The clock runs; a device, and an on-chip slave, answers in the end.     *)
Answered == dtack' \/ vpa' \/ berr'
FairSpec ==
  /\ Spec /\ WF_vars(Next)
  /\ WF_vars(Next /\ Answered) /\ SF_vars(s = "S4" /\ Clock(TRUE))

BusTypeOK ==
  /\ CoreBusTypeOK /\ BridgeTypeOK /\ RetimeTypeOK
  /\ {dtack, vpa, berr, refused} \subseteq BOOLEAN
  /\ lag \in 0..(DATA_LAG + REL)
  /\ {mem, promised} \subseteq [Device -> Data \cup {NoData}]
  /\ edges \in 0..2 /\ resets \in 0..MaxResets

----------------------------------------------------------------------------
(* Properties.                                                             *)

(* Between motherboard cycles the devices hold what the core's finished    *)
(* write cycles wrote: each landed, with its data, at its address, and     *)
(* nothing else did.                                                       *)
WritesLand == BusTypeOK /\ (as_n /\ cpu_as_n => mem = promised)

(* What the core latches at the end of a read is what the device holds,    *)
(* although its data may come DATA_LAG clocks after its DTACK and go with  *)
(* AS (base64_top.sv, 10b: "quantising the ack to the 7M grid gives the    *)
(* slave's data ... to settle").                                           *)
ReadsReturn ==
  s = "S6" /\ kind = "read" /\ adr \in Device /\ ~core_berr_lo
    => core_iedb = mem[adr]

(* Address and R/W do not move while AS is low, nor on the clock it rises, *)
(* unless a reset cuts the cycle short.                                    *)
BusSteady ==
  [][~cpu_as_n /\ resets' = resets => cpu_a' = cpu_a /\ cpu_rw' = cpu_rw]_vars

(* A 6800 cycle that no reset interrupts meets the fall of E with VMA low  *)
(* exactly once: once, as a device acts on every fall.                     *)
OneEdge ==
  [][AsRises /\ cpu_a \in Cia /\ resets' = resets => edges = 1]_vars

(* Both: the pins keep the protocol of their devices.                      *)
PinsKeepProtocol == BusSteady /\ OneEdge

(* A cycle ends in a bus error only when its own device refused it.        *)
BerrIsOwn == s = "S5" /\ core_berr_lo => refused

(* Every cycle of the core ends, a refused one included, although a bus    *)
(* error reaches the core only through the engine that is not connected.   *)
CycleEnds == s = "S2" ~> s = "S0"

(* Interrupt acknowledges get "DTACK + autovector number (24+level), which *)
(* is behaviourally identical to a VPA autovector" (base64_top.sv:30-31).  *)
VectorIsLevel == s = "S6" /\ core_fc7 => core_iedb = adr

(* What the bridge hands to the core is this cycle's, though it is latched *)
(* for the device and kept for the core: a read's word, an acknowledge's   *)
(* vector (lines 953-1091).                                                *)
BridgeAnswers == ReadsReturn /\ VectorIsLevel
=============================================================================
