------------------------------ MODULE ZorroBus ------------------------------
(***************************************************************************)
(* The core's bus as the three autoconfig boards inside the gateware see   *)
(* it (base64_top.sv 1328-1465), master clock by master clock.  The core   *)
(* is external: address at S1, AS (and the strobes of a read) at S2, data  *)
(* and strobes of a write at S4, DTACK sampled at S4, everything released  *)
(* after S6.  S3, the clock between AS and the strobes of a write on which *)
(* only the data changes, is left out.                                     *)
(***************************************************************************)
EXTENDS FastmemMap

CONSTANTS
  Address,         (* addresses the program uses: a subset of Addresses    *)
  Data             (* 16-bit words it writes                               *)

ASSUME AddressAssumption == Address \subseteq Addresses
ASSUME DataAssumption == \A word \in Data : word \in Nat /\ word < 65536

VARIABLES
  s, a, rw, d, as_n, ds_n,
  as_n_q           (* AS one clock ago; each board has its own copy        *)

busVars == <<s, a, rw, d, as_n, ds_n, as_n_q>>

ZorroBusTypeOK ==
  /\ s \in {"S0", "S1", "S2", "S4", "S5", "S6"}
  /\ a \in Address /\ d \in Data \cup {0}
  /\ {rw, as_n, ds_n, as_n_q} \subseteq BOOLEAN

as_rise == as_n /\ ~as_n_q
nibble == d \div 4096

(* $00E8xxxx.  The boards decode their registers from A8-A1 or A6-A1.      *)
ConfigAddress == a.hi = 0 /\ a.page = 232
ConfigSpace == ConfigAddress /\ ~as_n
reg8 == (a.off % 512) \div 2
reg6 == (a.off % 128) \div 2
BASE_HI == 36      (* $48: assigns the base and completes                  *)
BASE_LO == 37      (* $4A                                                  *)
SHUTUP == 38       (* $4C                                                  *)

BusInit ==
  /\ s = "S0" /\ a \in Address /\ rw = TRUE /\ d = 0
  /\ as_n = TRUE /\ ds_n = TRUE /\ as_n_q = TRUE

CoreRest == s = "S0" /\ UNCHANGED <<s, a, rw, d, as_n, ds_n>>

CoreAddress(addr) ==
  /\ s = "S0" /\ s' = "S1"
  /\ a' = addr
  /\ UNCHANGED <<rw, d, as_n, ds_n>>

CoreStrobe(read) ==
  /\ s = "S1" /\ s' = "S2"
  /\ as_n' = FALSE /\ rw' = read /\ ds_n' = ~read
  /\ UNCHANGED <<a, d>>

CoreDrive(word) ==
  /\ s = "S2" /\ s' = "S4"
  /\ d' = IF rw THEN d ELSE word
  /\ ds_n' = FALSE
  /\ UNCHANGED <<a, rw, as_n>>

CoreWait == s = "S4" /\ UNCHANGED <<s, a, rw, d, as_n, ds_n>>
CoreGo == s = "S4" /\ s' = "S5" /\ UNCHANGED <<a, rw, d, as_n, ds_n>>
CoreS5 == s = "S5" /\ s' = "S6" /\ UNCHANGED <<a, rw, d, as_n, ds_n>>

CoreFinish ==
  /\ s = "S6" /\ s' = "S0"
  /\ as_n' = TRUE /\ ds_n' = TRUE /\ rw' = TRUE /\ d' = 0
  /\ UNCHANGED a

CoreReset ==
  /\ s' = "S0" /\ as_n' = TRUE /\ ds_n' = TRUE /\ rw' = TRUE /\ d' = 0
  /\ UNCHANGED a
=============================================================================
