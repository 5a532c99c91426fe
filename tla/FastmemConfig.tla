--------------------------- MODULE FastmemConfig ---------------------------
(***************************************************************************)
(* fastmem_zii.v's autoconfig side (lines 84-265) and its registered       *)
(* window decode (271-382): 8 MB is offered first, each shut-up halves the *)
(* offer, and the slots Kickstart assigns are collected in addr_match.     *)
(***************************************************************************)
EXTENDS ZorroBus

CONSTANT OFFER_SPLIT   (* the module's parameter                           *)

VARIABLES
  fm_configured, fm_shutup, ac_state, addr_match, fm_cfgout_n, fm_wr_q,
  owns_r, cpu_win_r, mr_win_r

fmVars == <<fm_configured, fm_shutup, ac_state, addr_match, fm_cfgout_n,
            fm_wr_q, owns_r, cpu_win_r, mr_win_r>>

FastmemConfigTypeOK ==
  /\ {fm_configured, fm_shutup, fm_cfgout_n, fm_wr_q, owns_r, cpu_win_r,
      mr_win_r} \subseteq BOOLEAN
  /\ ac_state \in {"OFFER_8M", "OFFER_4M", "OFFER_2M", "OFFER_1M",
                   "OFFER_S4", "DONE"}
  /\ addr_match \subseteq 0..7

fm_ac_access(cfgin_n) == ~cfgin_n /\ fm_cfgout_n /\ ConfigSpace
fm_ac_wr(cfgin_n) == fm_ac_access(cfgin_n) /\ ~ds_n /\ ~rw

owns == fm_configured /\ owned(addr_match, a)

fm_space(load, active) ==
  /\ ~as_n
  /\ \/ owns_r \/ cpu_win_r
     \/ mr_win_r /\ IF rw THEN active ELSE load

FastmemReset ==
  /\ fm_configured' = FALSE /\ fm_shutup' = FALSE /\ ac_state' = "OFFER_8M"
  /\ addr_match' = {} /\ fm_cfgout_n' = TRUE

FastmemInit ==
  /\ fm_configured = FALSE /\ fm_shutup = FALSE /\ ac_state = "OFFER_8M"
  /\ addr_match = {} /\ fm_cfgout_n = TRUE /\ fm_wr_q = FALSE
  /\ owns_r = FALSE /\ cpu_win_r = FALSE /\ mr_win_r = FALSE

Halved == [OFFER_8M |-> "OFFER_4M", OFFER_4M |-> "OFFER_2M",
           OFFER_2M |-> "OFFER_1M"]

\* mutant: the smallest offer is made for ever
RefuseForever ==
  /\ ac_state' = IF ac_state \in DOMAIN Halved THEN Halved[ac_state]
                 ELSE ac_state
  /\ UNCHANGED <<fm_shutup, fm_configured, addr_match>>

(* Kickstart cannot place the block.                                       *)
Refuse ==
  /\ IF ac_state \in DOMAIN Halved
     THEN ac_state' = Halved[ac_state] /\ UNCHANGED fm_shutup
     ELSE ac_state' = "DONE" /\ fm_shutup' = TRUE
  /\ UNCHANGED <<fm_configured, addr_match>>

\* mutant: 8'b00111000 for the 4 MB block at $400000
SlotsNarrow(offer, n) ==
  {k \in 0..7 :
     \/ offer = "OFFER_8M"
     \/ offer \in {"OFFER_4M", "OFFER_S4"} /\ n \in {2, 6} /\ k \in n-2 .. n+1
     \/ offer \in {"OFFER_4M", "OFFER_S4"} /\ n = 4 /\ k \in 3..5
     \/ offer = "OFFER_2M" /\ n \in {2, 4, 6, 8} /\ k \in n-2 .. n-1
     \/ offer = "OFFER_1M" /\ n \in 2..9 /\ k = n-2}

(* The slot masks of each offer, by the high nibble of the assigned base.  *)
Slots(offer, n) ==
  {k \in 0..7 :
     \/ offer = "OFFER_8M"
     \/ offer \in {"OFFER_4M", "OFFER_S4"} /\ n \in {2, 4, 6} /\ k \in n-2 .. n+1
     \/ offer = "OFFER_2M" /\ n \in {2, 4, 6, 8} /\ k \in n-2 .. n-1
     \/ offer = "OFFER_1M" /\ n \in 2..9 /\ k = n-2}

(* Kickstart has placed it.  A 2 MB block may be followed by a 4 MB one.   *)
Assign ==
  /\ addr_match' = addr_match \cup Slots(ac_state, nibble)
  /\ fm_configured' = (fm_configured \/ ac_state \notin {"OFFER_S4", "DONE"})
  /\ IF ac_state = "OFFER_2M" /\ OFFER_SPLIT
     THEN ac_state' = "OFFER_S4" /\ UNCHANGED fm_shutup
     ELSE ac_state' = "DONE" /\ fm_shutup' = TRUE

FastmemWrite ==
  \/ reg8 = SHUTUP /\ Refuse
  \/ reg8 = BASE_HI /\ ac_state # "DONE" /\ Assign
  \/ /\ reg8 \notin {SHUTUP, BASE_HI} \/ (reg8 = BASE_HI /\ ac_state = "DONE")
     /\ UNCHANGED <<fm_configured, fm_shutup, ac_state, addr_match>>

\* mutant: CFGOUT follows at once, not at the end of the cycle
FastmemPassEarly ==
  fm_cfgout_n' = ~(fm_configured \/ fm_shutup)

FastmemPass ==
  fm_cfgout_n' = IF as_rise THEN ~(fm_configured \/ fm_shutup) ELSE fm_cfgout_n

FastmemClock(cfgin_n) ==
  /\ FastmemPass
  /\ IF fm_ac_wr(cfgin_n) /\ ~fm_wr_q
     THEN FastmemWrite
     ELSE UNCHANGED <<fm_configured, fm_shutup, ac_state, addr_match>>

(* Registers outside the reset clause.                                     *)
FastmemDecode(cfgin_n) ==
  /\ fm_wr_q' = fm_ac_wr(cfgin_n)
  /\ owns_r' = owns /\ cpu_win_r' = cpu_win(a) /\ mr_win_r' = mr_win(a)
=============================================================================
