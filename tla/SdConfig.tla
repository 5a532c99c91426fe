------------------------------ MODULE SdConfig ------------------------------
(***************************************************************************)
(* autoconfig_zii.v (44-145): the SD card's autoconfig shell, the last     *)
(* board of the chain, with the registered decode of its window            *)
(* (sd_subsystem.v 80-84).                                                 *)
(***************************************************************************)
EXTENDS ZorroBus

CONSTANT SD_ACK        (* clocks from AS to DTACK on an autoconfig cycle   *)

ASSUME SdConfigAssumption == SD_ACK \in Nat

VARIABLES
  sd_configured, sd_shutup, base_sd, cfgout_n, sd_wr_q,
  sd_ack_cnt, sd_dtack_n,
  sd_hit_r

sdVars == <<sd_configured, sd_shutup, base_sd, cfgout_n, sd_wr_q,
            sd_ack_cnt, sd_dtack_n, sd_hit_r>>

SdConfigTypeOK ==
  /\ {sd_configured, sd_shutup, cfgout_n, sd_wr_q, sd_dtack_n, sd_hit_r}
        \subseteq BOOLEAN
  /\ base_sd \in Byte8 /\ sd_ack_cnt \in 0..SD_ACK

sd_ac_access(cfgin_n) == ~cfgin_n /\ cfgout_n /\ ConfigSpace
sd_ac_wr(cfgin_n) == sd_ac_access(cfgin_n) /\ ~ds_n /\ ~rw
sd_space == sd_hit_r /\ ~as_n

SdInit ==
  /\ sd_configured = FALSE /\ sd_shutup = FALSE /\ base_sd = 0 /\ cfgout_n = TRUE
  /\ sd_wr_q = FALSE /\ sd_ack_cnt = 0 /\ sd_dtack_n = TRUE /\ sd_hit_r = FALSE

SdReset ==
  /\ sd_configured' = FALSE /\ sd_shutup' = FALSE /\ base_sd' = 0 /\ cfgout_n' = TRUE

SdWrite ==
  \/ /\ reg6 = BASE_HI
     /\ base_sd' = 16 * nibble + (base_sd % 16) /\ sd_configured' = TRUE /\ UNCHANGED sd_shutup
  \/ /\ reg6 = BASE_LO
     /\ base_sd' = 16 * (base_sd \div 16) + nibble /\ UNCHANGED <<sd_configured, sd_shutup>>
  \/ reg6 = SHUTUP /\ sd_shutup' = TRUE /\ UNCHANGED <<sd_configured, base_sd>>
  \/ reg6 \notin {BASE_HI, BASE_LO, SHUTUP} /\ UNCHANGED <<sd_configured, sd_shutup, base_sd>>

SdPass ==
  cfgout_n' = IF as_rise THEN ~(sd_configured \/ sd_shutup) ELSE cfgout_n

SdClock(cfgin_n) ==
  /\ SdPass
  /\ IF sd_ac_wr(cfgin_n) /\ ~sd_wr_q
     THEN SdWrite ELSE UNCHANGED <<sd_configured, sd_shutup, base_sd>>

(* Registers outside the reset clauses.                                    *)
SdAnswer(cfgin_n) ==
  IF ~sd_ac_access(cfgin_n) THEN sd_dtack_n' = TRUE /\ sd_ack_cnt' = 0
  ELSE IF sd_ack_cnt = SD_ACK
       THEN sd_dtack_n' = FALSE /\ UNCHANGED sd_ack_cnt
       ELSE sd_ack_cnt' = sd_ack_cnt + 1 /\ UNCHANGED sd_dtack_n

SdDecode(cfgin_n) ==
  /\ sd_wr_q' = sd_ac_wr(cfgin_n)
  /\ sd_hit_r' = (sd_configured /\ a.hi = 0 /\ a.page = base_sd)
  /\ SdAnswer(cfgin_n)
=============================================================================
