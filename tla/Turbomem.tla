------------------------------ MODULE Turbomem ------------------------------
(***************************************************************************)
(* turbomem_zii.v (178-413): the second board of the chain, a 64 KB window *)
(* with a boot ROM and, at offset $F000, status words and the mapROM       *)
(* control register.                                                       *)
(*                                                                         *)
(* What the ROM holds is left out: a word read from it is the offset it    *)
(* was read at.                                                            *)
(***************************************************************************)
EXTENDS ZorroBus

CONSTANTS
  ACK_CLKS,            (* clocks from AS to DTACK on a ROM cycle           *)
  ROM_BYTES            (* the image repeats after this many bytes          *)

ASSUME TurbomemAssumption == ACK_CLKS \in Nat /\ ROM_BYTES \in Nat \ {0}

VARIABLES
  tm_configured, tm_shutup, base, tm_cfgout_n, tm_wr_q,
  rom_win_r, rom_q, status_sel, status_q, tm_dout,
  mr_ctrl,             (* {"load", "active"} or a part of it               *)
  ctrl_wr_q,
  tm_ack_cnt, tm_hold

tmVars == <<tm_configured, tm_shutup, base, tm_cfgout_n, tm_wr_q, rom_win_r,
            rom_q, status_sel, status_q, tm_dout, mr_ctrl, ctrl_wr_q,
            tm_ack_cnt, tm_hold>>

Controls == SUBSET {"load", "active"}
RomWord(n) == <<"rom", n % ROM_BYTES>>
RomWords == {RomWord(n) : n \in Offset}
StatusWords == {<<"status", n>> : n \in 0..3} \cup {<<"ctrl", c>> : c \in Controls}
                 \cup {<<"zero", {}>>}

TurbomemTypeOK ==
  /\ {tm_configured, tm_shutup, tm_cfgout_n, tm_wr_q, rom_win_r, status_sel,
      ctrl_wr_q, tm_hold} \subseteq BOOLEAN
  /\ base \in Byte8 /\ tm_ack_cnt \in 0..ACK_CLKS
  /\ mr_ctrl \in Controls
  /\ rom_q \in RomWords /\ status_q \in StatusWords
  /\ tm_dout \in RomWords \cup StatusWords

tm_ac_access(cfgin_n) == ~cfgin_n /\ tm_cfgout_n /\ ConfigSpace
tm_ac_wr(cfgin_n) == tm_ac_access(cfgin_n) /\ ~ds_n /\ ~rw
\* mutant: without the guard on A31-A24
tm_winAlias == tm_configured /\ a.page = base

tm_win == tm_configured /\ a.hi = 0 /\ a.page = base
tm_space == rom_win_r /\ ~as_n

status_hit == a.off \div 4096 = 15
ctrl_wr == status_hit /\ ~ds_n /\ ~rw /\ (a.off \div 2) % 8 = 4
MAPROM_KEY == 90       (* $5A                                              *)

TurbomemInit ==
  /\ tm_configured = FALSE /\ tm_shutup = FALSE /\ base = 0 /\ tm_cfgout_n = TRUE
  /\ tm_wr_q = FALSE /\ rom_win_r = FALSE
  /\ rom_q = RomWord(a.off) /\ status_sel = FALSE /\ status_q = <<"zero", {}>>
  /\ tm_dout = rom_q
  /\ mr_ctrl = {} /\ ctrl_wr_q = FALSE /\ tm_ack_cnt = 0 /\ tm_hold = FALSE

TurbomemReset ==
  /\ tm_configured' = FALSE /\ tm_shutup' = FALSE /\ base' = 0
  /\ tm_cfgout_n' = TRUE /\ mr_ctrl' = {} /\ tm_ack_cnt' = 0 /\ tm_hold' = FALSE

(* The low nibble of the base is written first, the high one completes.    *)
TurbomemWrite ==
  \/ /\ reg6 = BASE_HI
     /\ base' = 16 * nibble + (base % 16) /\ tm_configured' = TRUE /\ UNCHANGED tm_shutup
  \/ /\ reg6 = BASE_LO
     /\ base' = 16 * (base \div 16) + nibble /\ UNCHANGED <<tm_configured, tm_shutup>>
  \/ reg6 = SHUTUP /\ tm_shutup' = TRUE /\ UNCHANGED <<tm_configured, base>>
  \/ reg6 \notin {BASE_HI, BASE_LO, SHUTUP} /\ UNCHANGED <<tm_configured, tm_shutup, base>>

TurbomemPass ==
  tm_cfgout_n' = IF as_rise THEN ~(tm_configured \/ tm_shutup) ELSE tm_cfgout_n

Bits(n) == (IF n % 2 = 1 THEN {"load"} ELSE {})
             \cup (IF (n \div 2) % 2 = 1 THEN {"active"} ELSE {})

(* Decoded from A15-A12 and A3-A1 alone; a key in the high byte.           *)
Control ==
  mr_ctrl' = IF ctrl_wr /\ ~ctrl_wr_q /\ d \div 256 = MAPROM_KEY
             THEN Bits(d) ELSE mr_ctrl

\* mutant: the counter does not stop
AnswerRunsOn ==
  /\ tm_ack_cnt' = IF tm_space THEN tm_ack_cnt + 1 ELSE 0
  /\ tm_hold' = (tm_space /\ tm_ack_cnt >= ACK_CLKS)

Answer ==
  IF ~tm_space THEN tm_ack_cnt' = 0 /\ tm_hold' = FALSE
  ELSE IF tm_ack_cnt # ACK_CLKS
       THEN tm_ack_cnt' = tm_ack_cnt + 1 /\ UNCHANGED tm_hold
       ELSE tm_hold' = TRUE /\ UNCHANGED tm_ack_cnt

TurbomemClock(cfgin_n) ==
  /\ TurbomemPass
  /\ IF tm_ac_wr(cfgin_n) /\ ~tm_wr_q
     THEN TurbomemWrite ELSE UNCHANGED <<tm_configured, tm_shutup, base>>
  /\ Control /\ Answer

StatusWord ==
  IF (a.off \div 8) % 2 = 1
  THEN IF (a.off \div 2) % 4 = 0 THEN <<"ctrl", mr_ctrl>> ELSE <<"zero", {}>>
  ELSE <<"status", (a.off \div 2) % 4>>

\* mutant: the copy freezes with AS, not with DTACK
TurbomemDecodeFreeze(cfgin_n) ==
  /\ tm_wr_q' = tm_ac_wr(cfgin_n) /\ ctrl_wr_q' = ctrl_wr
  /\ rom_win_r' = tm_win
  /\ rom_q' = RomWord(a.off)
  /\ status_sel' = status_hit /\ status_q' = StatusWord
  /\ tm_dout' = IF tm_space THEN tm_dout ELSE IF status_sel THEN status_q ELSE rom_q

(* Registers outside the reset clauses: the decode, the ROM's output, the  *)
(* status word beside it, and the copy that freezes once DTACK is given.   *)
TurbomemDecode(cfgin_n) ==
  /\ tm_wr_q' = tm_ac_wr(cfgin_n) /\ ctrl_wr_q' = ctrl_wr
  /\ rom_win_r' = tm_win
  /\ rom_q' = RomWord(a.off)
  /\ status_sel' = status_hit /\ status_q' = StatusWord
  /\ tm_dout' = IF tm_hold THEN tm_dout ELSE IF status_sel THEN status_q ELSE rom_q
=============================================================================
