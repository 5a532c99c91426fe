-------------------------- MODULE AutoconfigProofs --------------------------
(***************************************************************************)
(* However the OS fragments the fast RAM, no two addresses it answers      *)
(* share a word of the SDRAM; and of the three boards on their chain one   *)
(* at most answers a cycle, from its beginning to its end, with the memory *)
(* and the ROM that are there.                                             *)
(***************************************************************************)
EXTENDS AutoconfigChain, FiniteSetTheorems, TLAPS

Below(match, j) == {i \in match : i < j}

(* The slots below an owned slot are at most seven.                        *)
LEMMA BelowCount ==
  ASSUME NEW match \in SUBSET (0..7), NEW j \in match
  PROVE  /\ IsFiniteSet(Below(match, j))
         /\ Cardinality(Below(match, j)) \in 0..7
<1>0. j \in 0..7 /\ \A i \in match : i \in 0..7
  OBVIOUS
<1>1. \A i \in Below(match, j) : i \in 0..6
  BY <1>0 DEF Below
<1>2. IsFiniteSet(0..6) /\ Cardinality(0..6) = 7
  <2>1. IsFiniteSet(0..6) /\ Cardinality(0..6) = IF 0 > 6 THEN 0 ELSE 6-0+1
    BY FS_Interval, 0 \in Int, 6 \in Int, Zenon
  <2> QED BY <2>1
<1>3. IsFiniteSet(Below(match, j)) /\ Cardinality(Below(match, j)) <= 7
  BY <1>1, <1>2, FS_Subset
<1>4. Cardinality(Below(match, j)) \in Nat
  BY <1>3, FS_CardinalityType
<1> QED BY <1>3, <1>4

(* The popcount grows strictly from an owned slot to the next one.         *)
LEMMA BelowGrows ==
  ASSUME NEW match \in SUBSET (0..7), NEW j \in match, NEW k \in match, j < k
  PROVE  Cardinality(Below(match, j)) < Cardinality(Below(match, k))
<1>0. /\ j \in 0..7 /\ k \in 0..7
      /\ \A i \in match : i \in 0..7
  OBVIOUS
<1>1. Below(match, j) \in SUBSET Below(match, k)
  <2>1. \A i \in 0..7 : i < j => i < k
    BY <1>0
  <2> QED BY <1>0, <2>1 DEF Below
<1>2. j \in Below(match, k) /\ j \notin Below(match, j)
  BY <1>0 DEF Below
<1>3. IsFiniteSet(Below(match, k))
  BY BelowCount
<1>4. /\ Cardinality(Below(match, j)) <= Cardinality(Below(match, k))
      /\ Cardinality(Below(match, j)) # Cardinality(Below(match, k))
  BY <1>1, <1>2, <1>3, FS_Subset
<1>5. Cardinality(Below(match, j)) \in 0..7 /\ Cardinality(Below(match, k)) \in 0..7
  BY BelowCount
<1> QED BY <1>4, <1>5

(* So the megabyte of the SDRAM tells the owned slot.                      *)
LEMMA DenseMb ==
  ASSUME NEW match \in SUBSET (0..7),
         NEW x \in Addresses, NEW y \in Addresses,
         owned(match, x), owned(match, y)
  PROVE  /\ dense_mb(match, x) \in 0..7
         /\ dense_mb(match, x) = dense_mb(match, y) => slot(x) = slot(y)
<1> DEFINE X == slot(x)
           Y == slot(y)
<1>1. X \in match /\ Y \in match
  BY DEF owned
<1>2. /\ dense_mb(match, x) = Cardinality(Below(match, X))
      /\ dense_mb(match, y) = Cardinality(Below(match, Y))
  BY DEF dense_mb, Below
<1>3. dense_mb(match, x) \in 0..7 /\ dense_mb(match, y) \in 0..7
  BY <1>1, <1>2, BelowCount
<1>4. ASSUME X < Y PROVE dense_mb(match, x) < dense_mb(match, y)
  <2> HIDE DEF X, Y
  <2> QED BY <1>1, <1>2, <1>4, BelowGrows
<1>5. ASSUME Y < X PROVE dense_mb(match, y) < dense_mb(match, x)
  <2> HIDE DEF X, Y
  <2> QED BY <1>1, <1>2, <1>5, BelowGrows
<1>6. X \in 0..7 /\ Y \in 0..7
  BY <1>1
<1> HIDE DEF X, Y
<1>7. dense_mb(match, x) = dense_mb(match, y) => X = Y
  BY <1>3, <1>4, <1>5, <1>6
<1> QED BY <1>3, <1>7 DEF X, Y

(* The three kinds of address have disjoint megabytes: autoconfigured      *)
(* memory 0-7, the mapROM shadow 8, the CPU window 16-31.                  *)
LEMMA Megabytes ==
  ASSUME NEW match \in SUBSET (0..7), NEW x \in Addresses, Answers(match, x)
  PROVE  /\ mr_win(x) => sdram_word(match, x).mb = 8
         /\ cpu_win(x) => /\ ~mr_win(x)
                          /\ sdram_word(match, x).mb = 16 + region(x)
                          /\ region(x) \in 0..15
         /\ owned(match, x) => /\ ~mr_win(x) /\ ~cpu_win(x)
                               /\ sdram_word(match, x).mb = dense_mb(match, x)
                               /\ dense_mb(match, x) \in 0..7
<1> DEFINE p == x.page
<1>1. x.hi \in 0..255 /\ p \in 0..255
  BY DEF Addresses, Byte8
<1>2. region(x) \in 0..15
  BY <1>1 DEF region
<1>3. mr_win(x) => sdram_word(match, x).mb = 8
  BY DEF sdram_word
<1>4. cpu_win(x) => ~mr_win(x) /\ sdram_word(match, x).mb = 16 + region(x)
  BY DEF sdram_word, cpu_win, mr_win
<1>5. ASSUME owned(match, x) PROVE ~mr_win(x) /\ ~cpu_win(x)
  BY <1>1, <1>5 DEF owned, in_window, region, mr_win, mr_boot, mr_ext, cpu_win
<1>6. owned(match, x) => sdram_word(match, x).mb = dense_mb(match, x)
  BY <1>5 DEF sdram_word
<1>7. owned(match, x) => dense_mb(match, x) \in 0..7
  BY DenseMb
<1> QED BY <1>2, <1>3, <1>4, <1>5, <1>6, <1>7

(* An address is its 1 MB region, its 64 KB page in it, and its offset.    *)
LEMMA SameAddress ==
  ASSUME NEW x \in Addresses, NEW y \in Addresses, x.hi = y.hi,
         region(x) = region(y), x.page % 16 = y.page % 16, x.off = y.off
  PROVE  x = y
<1>1. x.page \in 0..255 /\ y.page \in 0..255
  BY DEF Addresses, Byte8
<1>2. x.page = y.page
  BY <1>1 DEF region
<1> QED BY <1>2 DEF Addresses

(* sdram_word is one-to-one on the addresses the fast RAM answers, for     *)
(* every set of owned slots (fastmem_zii.v:412-447).                       *)
THEOREM WordsInjective ==
  \A match \in SUBSET (0..7) : Injective(match, Addresses)
<1> SUFFICES ASSUME NEW match \in SUBSET (0..7),
                    NEW x \in Addresses, NEW y \in Addresses,
                    Answers(match, x), Answers(match, y),
                    sdram_word(match, x) = sdram_word(match, y)
             PROVE  x = y
  BY DEF Injective
<1>1. x.page \in 0..255 /\ y.page \in 0..255
  BY DEF Addresses, Byte8
<1>2. CASE mr_win(x)
  <2>1. mr_win(y)
    <3>1. sdram_word(match, y).mb = 8
      BY <1>2, Megabytes
    <3>2. ~cpu_win(y)
      BY <3>1, Megabytes
    <3>3. ~owned(match, y)
      BY <3>1, Megabytes
    <3> QED BY <3>2, <3>3 DEF Answers
  <2>2. sdram_word(match, x).page
          = 8 * (IF mr_ext(x) THEN Ext ELSE Boot) + (x.page % 8)
    BY <1>2 DEF sdram_word
  <2>3. sdram_word(match, y).page
          = 8 * (IF mr_ext(y) THEN Ext ELSE Boot) + (y.page % 8)
    BY <2>1 DEF sdram_word
  <2>4. x.page \div 8 = y.page \div 8 /\ x.page % 8 = y.page % 8
    BY <1>1, <1>2, <2>1, <2>2, <2>3 DEF mr_win, mr_boot, mr_ext, Ext, Boot
  <2>5. x.page = y.page
    BY <1>1, <2>4
  <2>6. x.hi = y.hi /\ x.off = y.off
    BY <1>2, <2>1 DEF mr_win, sdram_word
  <2> QED BY <2>5, <2>6 DEF Addresses
<1>3. CASE cpu_win(x)
  <2>1. ~mr_win(x) /\ sdram_word(match, x).mb = 16 + region(x) /\ region(x) \in 0..15
    BY <1>3, Megabytes
  <2>2. cpu_win(y) /\ ~mr_win(y)
    <3>1. ~mr_win(y)
      BY <2>1, Megabytes
    <3>2. ~owned(match, y)
      BY <2>1, Megabytes
    <3> QED BY <3>1, <3>2 DEF Answers
  <2>3. sdram_word(match, y).mb = 16 + region(y) /\ region(y) \in 0..15
    BY <2>2, Megabytes
  <2>4. region(x) = region(y)
    BY <2>1, <2>3
  <2>5. x.page % 16 = y.page % 16 /\ x.off = y.off
    BY <1>3, <2>1, <2>2 DEF sdram_word
  <2>6. x.hi = y.hi
    BY <1>3, <2>2 DEF cpu_win
  <2> QED BY <2>4, <2>5, <2>6, SameAddress
<1>4. CASE owned(match, x)
  <2>1. /\ ~mr_win(x) /\ ~cpu_win(x) /\ dense_mb(match, x) \in 0..7
        /\ sdram_word(match, x).mb = dense_mb(match, x)
    BY <1>4, Megabytes
  <2>2. owned(match, y)
    <3>1. ~mr_win(y)
      BY <2>1, Megabytes
    <3>2. ~cpu_win(y)
      BY <2>1, Megabytes
    <3> QED BY <3>1, <3>2 DEF Answers
  <2>3. /\ ~mr_win(y) /\ ~cpu_win(y)
        /\ sdram_word(match, y).mb = dense_mb(match, y)
    BY <2>2, Megabytes
  <2>4. slot(x) = slot(y)
    BY <1>4, <2>1, <2>2, <2>3, DenseMb
  <2>5. region(x) = region(y)
    <3>1. region(x) \in 2..9 /\ region(y) \in 2..9
      BY <1>4, <2>2 DEF owned, in_window
    <3> QED BY <2>4, <3>1 DEF slot
  <2>6. x.page % 16 = y.page % 16 /\ x.off = y.off
    BY <2>1, <2>3 DEF sdram_word
  <2>7. x.hi = y.hi
    BY <1>4, <2>2 DEF owned, in_window
  <2> QED BY <2>5, <2>6, <2>7, SameAddress
<1> QED BY <1>2, <1>3, <1>4 DEF Answers

----------------------------------------------------------------------------
(* What a clock does to the core's bus, the boards aside.                  *)
CoreMoves ==
  \/ CoreRest \/ CoreWait \/ CoreGo \/ CoreS5 \/ CoreFinish
  \/ \E addr \in Address : CoreAddress(addr)
  \/ \E read \in BOOLEAN : CoreStrobe(read)
  \/ \E word \in Data : CoreDrive(word)

LEMMA ClockIs ==
  ASSUME Clock
  PROVE  Boards /\ CoreMoves
BY DEF Clock, CoreMoves, Rest, Start, Strobe, Drive, Wait, Go, S5, Finish, CfginFalls

LEMMA AddressTyped ==
  ASSUME a \in Address
  PROVE  /\ a \in Addresses
         /\ a.hi \in 0..255 /\ a.page \in 0..255 /\ a.off \in Nat
         /\ a.off \in Offset
<1>1. a \in Addresses
  BY AddressAssumption
<1>2. a.hi \in Byte8 /\ a.page \in Byte8 /\ a.off \in Offset
  BY <1>1 DEF Addresses
<1>3. a.off \in Nat
  BY <1>2, OffsetAssumption, Zenon
<1> QED BY <1>1, <1>2, <1>3, Zenon DEF Byte8

LEMMA NibbleTyped ==
  ASSUME d \in Data \cup {0}
  PROVE  d \in Nat /\ nibble \in 0..15
<1>1. d \in Nat /\ d < 65536
  <2>1. CASE d \in Data
    BY <2>1, DataAssumption, SMT
  <2>2. CASE d = 0
    BY <2>2, SMT
  <2> QED BY <2>1, <2>2
<1> QED BY <1>1, SMT DEF nibble

LEMMA FastmemTyped ==
  ASSUME FastmemConfigTypeOK, FastmemClock(cfgin_n), FastmemDecode(cfgin_n)
  PROVE  FastmemConfigTypeOK'
<1> DEFINE Kept == UNCHANGED <<fm_configured, fm_shutup, ac_state, addr_match>>
<1>0. FastmemWrite \/ Kept
  BY Zenon DEF FastmemClock
<1>1. fm_cfgout_n' \in BOOLEAN
  BY Zenon DEF FastmemClock, FastmemPass, FastmemConfigTypeOK
<1>2. {fm_wr_q', owns_r', cpu_win_r', mr_win_r'} \subseteq BOOLEAN
  BY Zenon DEF FastmemDecode, fm_ac_wr, owns, cpu_win, mr_win
<1>3. {fm_configured', fm_shutup'} \subseteq BOOLEAN
  <2>1. {fm_configured, fm_shutup} \subseteq BOOLEAN
    BY DEF FastmemConfigTypeOK
  <2> QED BY <1>0, <2>1, Zenon DEF FastmemWrite, Refuse, Assign
<1>4. ac_state' \in {"OFFER_8M", "OFFER_4M", "OFFER_2M", "OFFER_1M", "OFFER_S4", "DONE"}
  <2>1. ac_state \in {"OFFER_8M", "OFFER_4M", "OFFER_2M", "OFFER_1M", "OFFER_S4", "DONE"}
    BY DEF FastmemConfigTypeOK
  <2> QED BY <1>0, <2>1 DEF FastmemWrite, Refuse, Assign, Halved
<1>5. addr_match' \in SUBSET (0..7)
  <2>1. Slots(ac_state, nibble) \in SUBSET (0..7)
    BY DEF Slots
  <2>2. addr_match \in SUBSET (0..7)
    BY DEF FastmemConfigTypeOK
  <2> QED BY <1>0, <2>1, <2>2 DEF FastmemWrite, Refuse, Assign
<1> QED BY <1>1, <1>2, <1>3, <1>4, <1>5, Zenon DEF FastmemConfigTypeOK

LEMMA NewBase ==
  ASSUME NEW b \in 0..255, NEW n \in 0..15
  PROVE  16 * n + (b % 16) \in 0..255 /\ 16 * (b \div 16) + n \in 0..255
OBVIOUS

LEMMA StatusTyped ==
  ASSUME mr_ctrl \in Controls, a.off \in Nat
  PROVE  StatusWord \in StatusWords
<1>1. (a.off \div 2) % 4 \in 0..3
  OBVIOUS
<1>2. StatusWord \in {<<"ctrl", mr_ctrl>>, <<"zero", {}>>, <<"status", (a.off \div 2) % 4>>}
  BY Zenon DEF StatusWord
<1> QED BY <1>1, <1>2, Zenon DEF StatusWords

LEMMA TurbomemTyped ==
  ASSUME TurbomemTypeOK, ZorroBusTypeOK, TurbomemClock(fm_cfgout_n),
         TurbomemDecode(fm_cfgout_n)
  PROVE  TurbomemTypeOK'
<1> DEFINE Kept == UNCHANGED <<tm_configured, tm_shutup, base>>
<1>0. TurbomemWrite \/ Kept
  BY Zenon DEF TurbomemClock
<1>a. a.off \in Nat /\ a.off \in Offset /\ nibble \in 0..15
  BY AddressTyped, NibbleTyped DEF ZorroBusTypeOK
<1>1. tm_cfgout_n' \in BOOLEAN
  BY Zenon DEF TurbomemClock, TurbomemPass, TurbomemTypeOK
<1>2. {tm_wr_q', ctrl_wr_q', rom_win_r', status_sel'} \subseteq BOOLEAN
  <2>1. status_hit \in BOOLEAN
    BY DEF status_hit
  <2> QED BY <2>1, Zenon DEF TurbomemDecode, tm_ac_wr, ctrl_wr, tm_win
<1>3. {tm_configured', tm_shutup'} \subseteq BOOLEAN
  <2>1. {tm_configured, tm_shutup} \subseteq BOOLEAN
    BY DEF TurbomemTypeOK
  <2> QED BY <1>0, <2>1, Zenon DEF TurbomemWrite
<1>4. base' \in Byte8
  <2>1. base \in 0..255
    BY DEF TurbomemTypeOK, Byte8
  <2>2. base' \in {base, 16 * nibble + (base % 16), 16 * (base \div 16) + nibble}
    BY <1>0, Zenon DEF TurbomemWrite
  <2> HIDE DEF nibble
  <2> QED BY <1>a, <2>1, <2>2, NewBase DEF Byte8
<1>5. tm_ack_cnt' \in 0..ACK_CLKS
  <2>1. tm_ack_cnt \in 0..ACK_CLKS
    BY DEF TurbomemTypeOK
  <2> QED BY <2>1, TurbomemAssumption DEF TurbomemClock, Answer
<1>6. tm_hold' \in BOOLEAN
  BY Zenon DEF TurbomemClock, Answer, TurbomemTypeOK
<1>7. mr_ctrl' \in Controls
  <2>1. Bits(d) \in Controls
    BY DEF Bits, Controls
  <2> QED BY <2>1, Zenon DEF TurbomemClock, Control, TurbomemTypeOK
<1>8. rom_q' \in RomWords
  BY <1>a, Zenon DEF TurbomemDecode, RomWords
<1>9. status_q' \in StatusWords
  BY <1>a, StatusTyped DEF TurbomemDecode, TurbomemTypeOK
<1>10. tm_dout' \in RomWords \cup StatusWords
  BY Zenon DEF TurbomemDecode, TurbomemTypeOK
<1> QED BY <1>1, <1>2, <1>3, <1>4, <1>5, <1>6, <1>7, <1>8, <1>9, <1>10, Zenon
        DEF TurbomemTypeOK

LEMMA SdTyped ==
  ASSUME SdConfigTypeOK, ZorroBusTypeOK, SdClock(tm_cfgout_n), SdDecode(tm_cfgout_n)
  PROVE  SdConfigTypeOK'
<1> DEFINE Kept == UNCHANGED <<sd_configured, sd_shutup, base_sd>>
<1>0. SdWrite \/ Kept
  BY Zenon DEF SdClock
<1>a. nibble \in 0..15
  BY NibbleTyped DEF ZorroBusTypeOK
<1>1. cfgout_n' \in BOOLEAN
  BY Zenon DEF SdClock, SdPass, SdConfigTypeOK
<1>2. {sd_wr_q', sd_hit_r', sd_dtack_n'} \subseteq BOOLEAN
  BY Zenon DEF SdDecode, SdAnswer, sd_ac_wr, SdConfigTypeOK
<1>3. {sd_configured', sd_shutup'} \subseteq BOOLEAN
  <2>1. {sd_configured, sd_shutup} \subseteq BOOLEAN
    BY DEF SdConfigTypeOK
  <2> QED BY <1>0, <2>1, Zenon DEF SdWrite
<1>4. base_sd' \in Byte8
  <2>1. base_sd \in 0..255
    BY DEF SdConfigTypeOK, Byte8
  <2>2. base_sd' \in {base_sd, 16 * nibble + (base_sd % 16), 16 * (base_sd \div 16) + nibble}
    BY <1>0, Zenon DEF SdWrite
  <2> HIDE DEF nibble
  <2> QED BY <1>a, <2>1, <2>2, NewBase DEF Byte8
<1>5. sd_ack_cnt' \in 0..SD_ACK
  <2>1. sd_ack_cnt \in 0..SD_ACK
    BY DEF SdConfigTypeOK
  <2> QED BY <2>1, SdConfigAssumption DEF SdDecode, SdAnswer
<1> QED BY <1>1, <1>2, <1>3, <1>4, <1>5, Zenon DEF SdConfigTypeOK

LEMMA BusTyped ==
  ASSUME ZorroBusTypeOK, CoreMoves, as_n_q' = as_n
  PROVE  ZorroBusTypeOK'
<1>1. s' \in {"S0", "S1", "S2", "S4", "S5", "S6"}
  BY DEF CoreMoves, CoreRest, CoreWait, CoreGo, CoreS5, CoreFinish, CoreAddress,
         CoreStrobe, CoreDrive, ZorroBusTypeOK
<1>2. a' \in Address
  BY DEF CoreMoves, CoreRest, CoreWait, CoreGo, CoreS5, CoreFinish, CoreAddress,
         CoreStrobe, CoreDrive, ZorroBusTypeOK
<1>3. d' \in Data \cup {0}
  BY Zenon DEF CoreMoves, CoreRest, CoreWait, CoreGo, CoreS5, CoreFinish, CoreAddress,
         CoreStrobe, CoreDrive, ZorroBusTypeOK
<1>4. {rw', as_n', ds_n', as_n_q'} \subseteq BOOLEAN
  <2>1. {rw, as_n, ds_n, as_n_q} \subseteq BOOLEAN
    BY DEF ZorroBusTypeOK
  <2> QED BY <2>1 DEF CoreMoves, CoreRest, CoreWait, CoreGo, CoreS5, CoreFinish,
             CoreAddress, CoreStrobe, CoreDrive
<1> QED BY <1>1, <1>2, <1>3, <1>4, Zenon DEF ZorroBusTypeOK

(* The phases of a bus cycle.                                              *)
CorePhases ==
  /\ as_n <=> s \in {"S0", "S1"}
  /\ as_n => ds_n /\ rw
  /\ s = "S2" => (ds_n <=> ~rw)
  /\ s \in {"S4", "S5", "S6"} => ~ds_n
  /\ s = "S1" => as_n_q

LEMMA PhasesKept ==
  ASSUME ZorroBusTypeOK, CorePhases, CoreMoves, as_n_q' = as_n
  PROVE  CorePhases'
<1> USE DEF CorePhases
<1>1. CASE CoreRest
  BY <1>1 DEF CoreRest
<1>2. CASE CoreWait
  BY <1>2 DEF CoreWait
<1>3. CASE CoreGo
  BY <1>3 DEF CoreGo
<1>4. CASE CoreS5
  BY <1>4 DEF CoreS5
<1>5. CASE CoreFinish
  BY <1>5 DEF CoreFinish
<1>6. CASE \E addr \in Address : CoreAddress(addr)
  BY <1>6 DEF CoreAddress
<1>7. ASSUME NEW read \in BOOLEAN, CoreStrobe(read) PROVE CorePhases'
  BY <1>7 DEF CoreStrobe
<1>8. ASSUME NEW word \in Data, CoreDrive(word) PROVE CorePhases'
  BY <1>8 DEF CoreDrive
<1> QED BY <1>1, <1>2, <1>3, <1>4, <1>5, <1>6, <1>7, <1>8 DEF CoreMoves

LEMMA DriveIsSensible ==
  ASSUME NEW word \in Data, Drive(word), ~rw, fm_answers, reg8 = BASE_HI
  PROVE  PlacesMemory(word \div 4096)
<1>1. Sensible(word)
  BY Zenon DEF Drive
<1>2. ConfigAddress /\ ~cfgin_n /\ fm_cfgout_n
  BY Zenon DEF fm_answers, fm_ac_access, ConfigSpace
<1>3. ConfigAddress /\ ~cfgin_n /\ fm_cfgout_n /\ reg8 = BASE_HI
        => PlacesMemory(word \div 4096)
  BY <1>1 DEF Sensible
<1> QED BY <1>2, <1>3

LEMMA ToldTyped ==
  ASSUME told \in SUBSET (0..7), Clock
  PROVE  told' \in SUBSET (0..7)
<1>1. ASSUME NEW word \in Data, Drive(word) PROVE told' \in SUBSET (0..7)
  <2>1. CASE ~rw /\ fm_answers /\ reg8 = BASE_HI
    <3> DEFINE slots == Block(word \div 4096)
    <3>1. told' = told \cup slots
      BY <1>1, <2>1 DEF Drive
    <3>2. slots \in SUBSET (0..7)
      BY <1>1, <2>1, DriveIsSensible DEF PlacesMemory
    <3> HIDE DEF slots
    <3> QED BY <3>1, <3>2
  <2>2. CASE ~(~rw /\ fm_answers /\ reg8 = BASE_HI)
    BY <1>1, <2>2 DEF Drive
  <2> QED BY <2>1, <2>2
<1>2. CASE Rest \/ Wait \/ Go \/ S5 \/ Finish \/ CfginFalls
  BY <1>2 DEF Rest, Wait, Go, S5, Finish, CfginFalls
<1>3. ASSUME NEW addr \in Address, Start(addr) PROVE told' \in SUBSET (0..7)
  BY <1>3 DEF Start
<1>4. ASSUME NEW read \in BOOLEAN, Strobe(read) PROVE told' \in SUBSET (0..7)
  BY <1>4 DEF Strobe
<1> QED BY <1>1, <1>2, <1>3, <1>4 DEF Clock

LEMMA CfginTyped ==
  ASSUME cfgin_n \in BOOLEAN, Clock
  PROVE  cfgin_n' \in BOOLEAN
BY Zenon DEF Clock, Rest, Start, Strobe, Drive, Wait, Go, S5, Finish, CfginFalls

LEMMA TypeInitially == Init => ChainTypeOK
<1> SUFFICES ASSUME Init PROVE ChainTypeOK
  OBVIOUS
<1>1. ZorroBusTypeOK
  <2>1. s = "S0" /\ a \in Address /\ d = 0
    BY DEF Init, BusInit
  <2>2. {rw, as_n, ds_n, as_n_q} \subseteq BOOLEAN
    BY Zenon DEF Init, BusInit
  <2> QED BY <2>1, <2>2 DEF ZorroBusTypeOK
<1>2. FastmemConfigTypeOK
  <2>1. {fm_configured, fm_shutup, fm_cfgout_n, fm_wr_q, owns_r, cpu_win_r, mr_win_r}
           \subseteq BOOLEAN
    BY Zenon DEF Init, FastmemInit
  <2>2. ac_state = "OFFER_8M" /\ addr_match = {}
    BY DEF Init, FastmemInit
  <2> QED BY <2>1, <2>2 DEF FastmemConfigTypeOK
<1>3. TurbomemTypeOK
  <2>1. {tm_configured, tm_shutup, tm_cfgout_n, tm_wr_q, rom_win_r, status_sel,
         ctrl_wr_q, tm_hold} \subseteq BOOLEAN
    BY Zenon DEF Init, TurbomemInit
  <2>2. a.off \in Offset
    BY <1>1, AddressTyped DEF ZorroBusTypeOK
  <2>3. rom_q \in RomWords /\ tm_dout = rom_q
    BY <2>2, Zenon DEF Init, TurbomemInit, RomWords
  <2>4. status_q \in StatusWords
    BY Zenon DEF Init, TurbomemInit, StatusWords
  <2>5. base \in Byte8 /\ tm_ack_cnt \in 0..ACK_CLKS
    BY TurbomemAssumption DEF Init, TurbomemInit, Byte8
  <2>6. mr_ctrl \in Controls
    BY Zenon DEF Init, TurbomemInit, Controls
  <2> QED BY <2>1, <2>3, <2>4, <2>5, <2>6, Zenon DEF TurbomemTypeOK
<1>4. SdConfigTypeOK
  <2>1. {sd_configured, sd_shutup, cfgout_n, sd_wr_q, sd_dtack_n, sd_hit_r} \subseteq BOOLEAN
    BY Zenon DEF Init, SdInit
  <2>2. base_sd \in Byte8 /\ sd_ack_cnt \in 0..SD_ACK
    BY SdConfigAssumption DEF Init, SdInit, Byte8
  <2> QED BY <2>1, <2>2, Zenon DEF SdConfigTypeOK
<1>5. cfgin_n \in BOOLEAN /\ told \subseteq 0..7
  BY Zenon DEF Init
<1> QED BY <1>1, <1>2, <1>3, <1>4, <1>5 DEF ChainTypeOK

LEMMA ResetTyped ==
  ASSUME ChainTypeOK, Reset
  PROVE  ChainTypeOK'
<1>0. ZorroBusTypeOK /\ TurbomemTypeOK /\ SdConfigTypeOK
  BY DEF ChainTypeOK
<1>1. ZorroBusTypeOK'
  <2>1. s' = "S0" /\ a' \in Address /\ d' = 0
    BY <1>0 DEF Reset, CoreReset, ZorroBusTypeOK
  <2>2. {rw', as_n', ds_n', as_n_q'} \subseteq BOOLEAN
    BY <1>0, Zenon DEF Reset, CoreReset, Decodes, ZorroBusTypeOK
  <2> QED BY <2>1, <2>2 DEF ZorroBusTypeOK
<1>2. FastmemConfigTypeOK'
  <2>1. {fm_configured', fm_shutup', fm_cfgout_n'} \subseteq BOOLEAN
    BY Zenon DEF Reset, FastmemReset
  <2>2. {fm_wr_q', owns_r', cpu_win_r', mr_win_r'} \subseteq BOOLEAN
    BY Zenon DEF Reset, Decodes, FastmemDecode, fm_ac_wr, owns, cpu_win, mr_win
  <2>3. ac_state' = "OFFER_8M" /\ addr_match' = {}
    BY DEF Reset, FastmemReset
  <2> QED BY <2>1, <2>2, <2>3 DEF FastmemConfigTypeOK
<1>a. a.off \in Nat /\ a.off \in Offset
  BY <1>0, AddressTyped DEF ZorroBusTypeOK
<1>3. TurbomemTypeOK'
  <2>1. {tm_configured', tm_shutup', tm_cfgout_n', tm_hold'} \subseteq BOOLEAN
    BY Zenon DEF Reset, TurbomemReset
  <2>2. TurbomemDecode(fm_cfgout_n)
    BY DEF Reset, Decodes
  <2>3. {tm_wr_q', ctrl_wr_q', rom_win_r', status_sel'} \subseteq BOOLEAN
    <3>1. status_hit \in BOOLEAN
      BY DEF status_hit
    <3> QED BY <2>2, <3>1, Zenon DEF TurbomemDecode, tm_ac_wr, ctrl_wr, tm_win
  <2>4. base' \in Byte8 /\ tm_ack_cnt' \in 0..ACK_CLKS
    BY TurbomemAssumption DEF Reset, TurbomemReset, Byte8
  <2>5. mr_ctrl' \in Controls
    BY Zenon DEF Reset, TurbomemReset, Controls
  <2>6. rom_q' \in RomWords
    BY <1>a, <2>2, Zenon DEF TurbomemDecode, RomWords
  <2>7. status_q' \in StatusWords
    BY <1>0, <1>a, <2>2, StatusTyped DEF TurbomemDecode, TurbomemTypeOK
  <2>8. tm_dout' \in RomWords \cup StatusWords
    BY <1>0, <2>2, Zenon DEF TurbomemDecode, TurbomemTypeOK
  <2> QED BY <2>1, <2>3, <2>4, <2>5, <2>6, <2>7, <2>8, Zenon DEF TurbomemTypeOK
<1>4. SdConfigTypeOK'
  <2>1. {sd_configured', sd_shutup', cfgout_n'} \subseteq BOOLEAN
    BY Zenon DEF Reset, SdReset
  <2>2. SdDecode(tm_cfgout_n)
    BY DEF Reset, Decodes
  <2>3. {sd_wr_q', sd_hit_r', sd_dtack_n'} \subseteq BOOLEAN
    BY <1>0, <2>2, Zenon DEF SdDecode, SdAnswer, sd_ac_wr, SdConfigTypeOK
  <2>4. base_sd' \in Byte8
    BY DEF Reset, SdReset, Byte8
  <2>5. sd_ack_cnt' \in 0..SD_ACK
    <3>1. sd_ack_cnt \in 0..SD_ACK
      BY <1>0 DEF SdConfigTypeOK
    <3> QED BY <2>2, <3>1, SdConfigAssumption DEF SdDecode, SdAnswer
  <2> QED BY <2>1, <2>3, <2>4, <2>5, Zenon DEF SdConfigTypeOK
<1>5. cfgin_n' \in BOOLEAN /\ told' \subseteq 0..7
  BY Zenon DEF Reset
<1> QED BY <1>1, <1>2, <1>3, <1>4, <1>5 DEF ChainTypeOK

LEMMA TypeKept ==
  ASSUME ChainTypeOK, Clock
  PROVE  ChainTypeOK'
<1>0. /\ ZorroBusTypeOK /\ FastmemConfigTypeOK /\ TurbomemTypeOK /\ SdConfigTypeOK
      /\ cfgin_n \in BOOLEAN /\ told \in SUBSET (0..7)
  BY DEF ChainTypeOK
<1>1. Boards /\ CoreMoves
  BY ClockIs
<1>2. ZorroBusTypeOK'
  BY <1>0, <1>1, BusTyped DEF Boards, Decodes
<1>3. FastmemConfigTypeOK'
  BY <1>0, <1>1, FastmemTyped DEF Boards, Decodes
<1>4. TurbomemTypeOK'
  BY <1>0, <1>1, TurbomemTyped DEF Boards, Decodes
<1>5. SdConfigTypeOK'
  BY <1>0, <1>1, SdTyped DEF Boards, Decodes
<1>6. cfgin_n' \in BOOLEAN
  BY <1>0, CfginTyped
<1>7. told' \subseteq 0..7
  BY <1>0, ToldTyped
<1> QED BY <1>2, <1>3, <1>4, <1>5, <1>6, <1>7 DEF ChainTypeOK

(* Booleans as such, for the propositional steps.                          *)
Flags ==
  {rw, as_n, ds_n, as_n_q, cfgin_n, fm_configured, fm_shutup, fm_cfgout_n, fm_wr_q,
   tm_configured, tm_shutup, tm_cfgout_n, tm_wr_q,
   sd_configured, sd_shutup, cfgout_n, sd_wr_q}

LEMMA FlagsTyped == ChainTypeOK => Flags \subseteq BOOLEAN
<1> SUFFICES ASSUME ChainTypeOK PROVE Flags \subseteq BOOLEAN
  OBVIOUS
<1>1. {rw, as_n, ds_n, as_n_q} \subseteq BOOLEAN
  BY DEF ChainTypeOK, ZorroBusTypeOK
<1>2. {fm_configured, fm_shutup, fm_cfgout_n, fm_wr_q} \subseteq BOOLEAN
  BY DEF ChainTypeOK, FastmemConfigTypeOK
<1>3. {tm_configured, tm_shutup, tm_cfgout_n, tm_wr_q} \subseteq BOOLEAN
  BY DEF ChainTypeOK, TurbomemTypeOK
<1>4. {sd_configured, sd_shutup, cfgout_n, sd_wr_q} \subseteq BOOLEAN
  BY DEF ChainTypeOK, SdConfigTypeOK
<1>5. cfgin_n \in BOOLEAN
  BY DEF ChainTypeOK
<1> QED BY <1>1, <1>2, <1>3, <1>4, <1>5 DEF Flags

LEMMA FlagsTypedNext == ChainTypeOK' => (Flags \subseteq BOOLEAN)'
  BY FlagsTyped, PTL

LEMMA FlagsKept ==
  ASSUME ChainTypeOK, Clock
  PROVE  Flags' \subseteq BOOLEAN
<1>1. ChainTypeOK'
  BY TypeKept
<1> QED BY <1>1, FlagsTypedNext

(* Inside a cycle nothing changes but data and strobes, and no board       *)
(* passes the chain on.                                                    *)
LEMMA InsideCycle ==
  ASSUME ZorroBusTypeOK, CorePhases, Clock, ~as_n'
  PROVE  /\ s \in {"S1", "S2", "S4", "S5"} /\ ~as_rise
         /\ a' = a /\ cfgin_n' = cfgin_n
         /\ fm_cfgout_n' = fm_cfgout_n /\ tm_cfgout_n' = tm_cfgout_n /\ cfgout_n' = cfgout_n
         /\ s = "S1" => s' = "S2"
         /\ s = "S2" => s' = "S4"
         /\ s = "S4" => s' \in {"S4", "S5"}
         /\ s = "S5" => s' = "S6"
         /\ s # "S1" => rw' = rw /\ ~ds_n'
         /\ s \in {"S4", "S5"} => d' = d
<1>0. {rw, as_n, ds_n, as_n_q} \subseteq BOOLEAN
  BY DEF ZorroBusTypeOK
<1>1. Boards /\ CoreMoves
  BY ClockIs
<1>2. /\ s \in {"S1", "S2", "S4", "S5"} /\ a' = a
      /\ s = "S1" => s' = "S2"
      /\ s = "S2" => s' = "S4"
      /\ s = "S4" => s' \in {"S4", "S5"}
      /\ s = "S5" => s' = "S6"
      /\ s # "S1" => rw' = rw /\ ~ds_n'
      /\ s \in {"S4", "S5"} => d' = d
  <2> USE <1>0 DEF CorePhases
  <2>1. CASE CoreRest
    BY <2>1 DEF CoreRest
  <2>2. CASE CoreWait
    BY <2>2 DEF CoreWait
  <2>3. CASE CoreGo
    BY <2>3 DEF CoreGo
  <2>4. CASE CoreS5
    BY <2>4 DEF CoreS5
  <2>5. CASE CoreFinish
    BY <2>5 DEF CoreFinish
  <2>6. CASE \E addr \in Address : CoreAddress(addr)
    BY <2>6 DEF CoreAddress
  <2>7. CASE \E read \in BOOLEAN : CoreStrobe(read)
    BY <2>7 DEF CoreStrobe
  <2>8. CASE \E word \in Data : CoreDrive(word)
    BY <2>8 DEF CoreDrive
  <2> QED BY <1>1, <2>1, <2>2, <2>3, <2>4, <2>5, <2>6, <2>7, <2>8 DEF CoreMoves
<1>3. ~as_rise
  BY <1>0, <1>2 DEF as_rise, CorePhases
<1>4. fm_cfgout_n' = fm_cfgout_n /\ tm_cfgout_n' = tm_cfgout_n /\ cfgout_n' = cfgout_n
  BY <1>1, <1>3 DEF Boards, FastmemClock, FastmemPass, TurbomemClock, TurbomemPass,
                    SdClock, SdPass
<1>5. cfgin_n' = cfgin_n
  <2>1. CASE CfginFalls
    BY <1>2, <2>1 DEF CfginFalls
  <2>2. CASE Rest \/ Wait \/ Go \/ S5 \/ Finish
    BY <2>2 DEF Rest, Wait, Go, S5, Finish
  <2>3. ASSUME NEW addr \in Address, Start(addr) PROVE cfgin_n' = cfgin_n
    BY <2>3 DEF Start
  <2>4. ASSUME NEW read \in BOOLEAN, Strobe(read) PROVE cfgin_n' = cfgin_n
    BY <2>4 DEF Strobe
  <2>5. ASSUME NEW word \in Data, Drive(word) PROVE cfgin_n' = cfgin_n
    BY <2>5 DEF Drive
  <2> QED BY <2>1, <2>2, <2>3, <2>4, <2>5 DEF Clock
<1> QED BY <1>2, <1>3, <1>4, <1>5

----------------------------------------------------------------------------
(* A board takes one write of a cycle, on the first clock of its S4.       *)
fm_wr == fm_ac_wr(cfgin_n)
tm_wr == tm_ac_wr(fm_cfgout_n)
sd_wr == sd_ac_wr(tm_cfgout_n)

OneWrite ==
  /\ s \in {"S1", "S2"} => ~fm_wr_q /\ ~tm_wr_q /\ ~sd_wr_q
  /\ s \in {"S5", "S6"} =>
       (fm_wr => fm_wr_q) /\ (tm_wr => tm_wr_q) /\ (sd_wr => sd_wr_q)

LEMMA WritesSteady ==
  ASSUME ChainTypeOK, CorePhases, Clock, ~as_n', s # "S1"
  PROVE  /\ s # "S2" => fm_wr' = fm_wr /\ tm_wr' = tm_wr /\ sd_wr' = sd_wr
         /\ fm_answers' = fm_answers /\ tm_answers' = tm_answers /\ sd_answers' = sd_answers
         /\ ConfigAddress' = ConfigAddress /\ reg6' = reg6 /\ reg8' = reg8
         /\ s \in {"S4", "S5"} => nibble' = nibble
<1>0. ZorroBusTypeOK /\ {rw, as_n, ds_n, as_n_q} \subseteq BOOLEAN
  BY DEF ChainTypeOK, ZorroBusTypeOK
<1>1. /\ s \in {"S2", "S4", "S5"} /\ a' = a /\ cfgin_n' = cfgin_n
      /\ fm_cfgout_n' = fm_cfgout_n /\ tm_cfgout_n' = tm_cfgout_n /\ cfgout_n' = cfgout_n
      /\ rw' = rw /\ ~ds_n' /\ (s \in {"S4", "S5"} => d' = d)
  BY <1>0, InsideCycle
<1>2. ~as_n /\ (s # "S2" => ~ds_n)
  BY <1>1 DEF CorePhases
<1>3. ConfigAddress' = ConfigAddress /\ reg6' = reg6 /\ reg8' = reg8
  BY <1>1, Zenon DEF ConfigAddress, reg6, reg8
<1>4. fm_answers' = fm_answers /\ tm_answers' = tm_answers /\ sd_answers' = sd_answers
  <2>1. ConfigSpace' = ConfigAddress' /\ ConfigSpace = ConfigAddress
    BY <1>2, Zenon DEF ConfigSpace, ConfigAddress
  <2> QED BY <1>1, <1>3, <2>1, Zenon DEF fm_answers, tm_answers, sd_answers,
             fm_ac_access, tm_ac_access, sd_ac_access
<1>5. s # "S2" => fm_wr' = fm_wr /\ tm_wr' = tm_wr /\ sd_wr' = sd_wr
  <2> SUFFICES ASSUME s # "S2"
               PROVE  fm_wr' = fm_wr /\ tm_wr' = tm_wr /\ sd_wr' = sd_wr
    OBVIOUS
  <2>1. ds_n' \in BOOLEAN /\ ds_n \in BOOLEAN
    BY <1>0, TypeKept, Zenon DEF ChainTypeOK, ZorroBusTypeOK
  <2>2. ds_n' = ds_n
    BY <1>1, <1>2, <2>1
  <2>3. /\ fm_wr = (fm_answers /\ ~ds_n /\ ~rw)
        /\ tm_wr = (tm_answers /\ ~ds_n /\ ~rw)
        /\ sd_wr = (sd_answers /\ ~ds_n /\ ~rw)
    BY DEF fm_wr, tm_wr, sd_wr, fm_ac_wr, tm_ac_wr, sd_ac_wr, fm_answers, tm_answers,
       sd_answers
  <2>4. /\ fm_wr' = (fm_answers' /\ ~ds_n' /\ ~rw')
        /\ tm_wr' = (tm_answers' /\ ~ds_n' /\ ~rw')
        /\ sd_wr' = (sd_answers' /\ ~ds_n' /\ ~rw')
    BY DEF fm_wr, tm_wr, sd_wr, fm_ac_wr, tm_ac_wr, sd_ac_wr, fm_answers, tm_answers,
       sd_answers
  <2>5. rw' = rw
    BY <1>1
  <2> QED BY <1>4, <2>2, <2>3, <2>4, <2>5, Zenon
<1>6. s \in {"S4", "S5"} => nibble' = nibble
  BY <1>1 DEF nibble
<1> QED BY <1>3, <1>4, <1>5, <1>6

LEMMA OneWriteKept ==
  ASSUME ChainTypeOK, CorePhases, CorePhases', OneWrite, Clock
  PROVE  OneWrite'
<1>0. ZorroBusTypeOK /\ ZorroBusTypeOK' /\ Flags \subseteq BOOLEAN
  BY TypeKept, FlagsTyped DEF ChainTypeOK
<1>1. Boards /\ CoreMoves
  BY ClockIs
<1>2. fm_wr_q' = fm_wr /\ tm_wr_q' = tm_wr /\ sd_wr_q' = sd_wr
  BY <1>1 DEF Boards, Decodes, FastmemDecode, TurbomemDecode, SdDecode, fm_wr, tm_wr, sd_wr
<1>3. as_n => ~fm_wr /\ ~tm_wr /\ ~sd_wr
  BY Zenon DEF fm_wr, tm_wr, sd_wr, fm_ac_wr, tm_ac_wr, sd_ac_wr, fm_ac_access,
     tm_ac_access, sd_ac_access, ConfigSpace
<1>4. ASSUME s' \in {"S1", "S2"} PROVE ~fm_wr_q' /\ ~tm_wr_q' /\ ~sd_wr_q'
  <2>1. s \in {"S0", "S1"}
    BY <1>1, <1>4 DEF CoreMoves, CoreRest, CoreWait, CoreGo, CoreS5, CoreFinish,
       CoreAddress, CoreStrobe, CoreDrive
  <2> QED BY <1>2, <1>3, <2>1 DEF CorePhases
<1>5. ASSUME s' \in {"S5", "S6"}
      PROVE  (fm_wr' => fm_wr_q') /\ (tm_wr' => tm_wr_q') /\ (sd_wr' => sd_wr_q')
  <2>1. ~as_n'
    BY <1>0, <1>5 DEF CorePhases
  <2>2. s \in {"S4", "S5"}
    BY <1>0, <1>5, <2>1, InsideCycle
  <2> QED BY <1>2, <2>1, <2>2, WritesSteady
<1> QED BY <1>4, <1>5 DEF OneWrite

LEMMA WriteIsFirst ==
  ASSUME ChainTypeOK, CorePhases, OneWrite,
         \/ fm_wr /\ ~fm_wr_q
         \/ tm_wr /\ ~tm_wr_q
         \/ sd_wr /\ ~sd_wr_q
  PROVE  s = "S4" /\ ConfigAddress /\ ~as_n
<1>0. ZorroBusTypeOK /\ Flags \subseteq BOOLEAN
  BY FlagsTyped DEF ChainTypeOK
<1>1. ~as_n /\ ~ds_n /\ ~rw /\ ConfigAddress
  BY Zenon DEF fm_wr, tm_wr, sd_wr, fm_ac_wr, tm_ac_wr, sd_ac_wr, fm_ac_access,
     tm_ac_access, sd_ac_access, ConfigSpace
<1>2. s \in {"S2", "S4", "S5", "S6"}
  BY <1>0, <1>1 DEF CorePhases, ZorroBusTypeOK
<1>3. s # "S2"
  BY <1>0, <1>1 DEF CorePhases
<1>4. s \notin {"S5", "S6"}
  BY Zenon DEF OneWrite
<1> QED BY <1>1, <1>2, <1>3, <1>4

(* The chain passes in its order, and a board that has passed it is        *)
(* configured or shut up for good.                                         *)
Order ==
  /\ ~fm_cfgout_n => fm_configured \/ fm_shutup
  /\ tm_configured \/ tm_shutup => ~fm_cfgout_n
  /\ ~tm_cfgout_n => tm_configured \/ tm_shutup
  /\ sd_configured => ~tm_cfgout_n

LEMMA FastmemMonotone ==
  ASSUME Flags \subseteq BOOLEAN, FastmemClock(cfgin_n), fm_configured \/ fm_shutup
  PROVE  fm_configured' \/ fm_shutup'
<1>0. {fm_configured, fm_shutup} \subseteq BOOLEAN
  BY DEF Flags
<1>1. FastmemWrite \/ UNCHANGED <<fm_configured, fm_shutup, ac_state, addr_match>>
  BY Zenon DEF FastmemClock
<1>2. CASE FastmemWrite
  BY <1>0, <1>2 DEF FastmemWrite, Refuse, Assign
<1> QED BY <1>1, <1>2

(* What a clock does to a board's flags, the values aside.                 *)
LEMMA TurbomemFlags ==
  ASSUME TurbomemClock(fm_cfgout_n)
  PROVE  \/ tm_wr /\ ~tm_wr_q
            /\ tm_configured' \in {TRUE, tm_configured} /\ tm_shutup' \in {TRUE, tm_shutup}
         \/ tm_configured' = tm_configured /\ tm_shutup' = tm_shutup /\ base' = base
<1>1. CASE tm_wr /\ ~tm_wr_q
  <2>1. TurbomemWrite
    BY <1>1, Zenon DEF TurbomemClock, tm_wr
  <2> QED BY <1>1, <2>1, Zenon DEF TurbomemWrite
<1>2. CASE ~(tm_wr /\ ~tm_wr_q)
  BY <1>2, Zenon DEF TurbomemClock, tm_wr
<1> QED BY <1>1, <1>2

LEMMA SdFlags ==
  ASSUME SdClock(tm_cfgout_n)
  PROVE  \/ sd_wr /\ ~sd_wr_q
            /\ sd_configured' \in {TRUE, sd_configured}
         \/ sd_configured' = sd_configured /\ base_sd' = base_sd
<1>1. CASE sd_wr /\ ~sd_wr_q
  <2>1. SdWrite
    BY <1>1, Zenon DEF SdClock, sd_wr
  <2> QED BY <1>1, <2>1, Zenon DEF SdWrite
<1>2. CASE ~(sd_wr /\ ~sd_wr_q)
  BY <1>2, Zenon DEF SdClock, sd_wr
<1> QED BY <1>1, <1>2

LEMMA OrderKept ==
  ASSUME ChainTypeOK, Order, Clock
  PROVE  /\ Order'
         /\ ~fm_cfgout_n => ~fm_cfgout_n'
         /\ ~tm_cfgout_n => ~tm_cfgout_n'
<1>0. Flags \subseteq BOOLEAN /\ Flags' \subseteq BOOLEAN
  BY FlagsTyped, FlagsKept
<1>1. Boards
  BY ClockIs
<1>2. /\ fm_cfgout_n' = IF as_rise THEN ~(fm_configured \/ fm_shutup) ELSE fm_cfgout_n
      /\ tm_cfgout_n' = IF as_rise THEN ~(tm_configured \/ tm_shutup) ELSE tm_cfgout_n
  BY <1>1, Zenon DEF Boards, FastmemClock, FastmemPass, TurbomemClock, TurbomemPass
<1>3. fm_configured \/ fm_shutup => fm_configured' \/ fm_shutup'
  BY <1>0, <1>1, FastmemMonotone DEF Boards
<1>4. \/ tm_wr /\ tm_configured' \in {TRUE, tm_configured} /\ tm_shutup' \in {TRUE, tm_shutup}
      \/ tm_configured' = tm_configured /\ tm_shutup' = tm_shutup
  BY <1>1, TurbomemFlags DEF Boards
<1>5. sd_wr \/ sd_configured' = sd_configured
  BY <1>1, SdFlags DEF Boards
<1>6. (tm_wr => ~fm_cfgout_n) /\ (sd_wr => ~tm_cfgout_n)
  BY Zenon DEF tm_wr, sd_wr, tm_ac_wr, sd_ac_wr, tm_ac_access, sd_ac_access
<1>7. ~fm_cfgout_n => ~fm_cfgout_n'
  BY <1>0, <1>2 DEF Order, Flags
<1>8. ~tm_cfgout_n => ~tm_cfgout_n'
  BY <1>0, <1>2 DEF Order, Flags
<1>9. ~fm_cfgout_n' => fm_configured' \/ fm_shutup'
  BY <1>0, <1>2, <1>3 DEF Order, Flags
<1>10. tm_configured' \/ tm_shutup' => ~fm_cfgout_n'
  BY <1>0, <1>4, <1>6, <1>7 DEF Order, Flags
<1>11. ~tm_cfgout_n' => tm_configured' \/ tm_shutup'
  BY <1>0, <1>2, <1>4 DEF Order, Flags
<1>12. sd_configured' => ~tm_cfgout_n'
  BY <1>0, <1>5, <1>6, <1>8 DEF Order, Flags
<1> QED BY <1>7, <1>8, <1>9, <1>10, <1>11, <1>12 DEF Order

(* A configured board still answers as an unconfigured one until the cycle *)
(* that configured it is over, but takes no other write.                   *)
Closing ==
  /\ tm_configured /\ tm_cfgout_n => as_rise \/ (tm_wr /\ tm_wr_q)
  /\ sd_configured /\ cfgout_n => as_rise \/ (sd_wr /\ sd_wr_q)

LEMMA ClosingKept ==
  ASSUME ChainTypeOK, CorePhases, CorePhases', OneWrite, Closing, Clock
  PROVE  Closing'
<1>0. ZorroBusTypeOK /\ Flags \subseteq BOOLEAN /\ Flags' \subseteq BOOLEAN
  BY FlagsTyped, FlagsKept DEF ChainTypeOK
<1>1. Boards
  BY ClockIs
<1>2. /\ tm_cfgout_n' = IF as_rise THEN ~(tm_configured \/ tm_shutup) ELSE tm_cfgout_n
      /\ cfgout_n' = IF as_rise THEN ~(sd_configured \/ sd_shutup) ELSE cfgout_n
  BY <1>1, Zenon DEF Boards, TurbomemClock, TurbomemPass, SdClock, SdPass
<1>3. /\ tm_wr \/ tm_configured' = tm_configured
      /\ sd_wr \/ sd_configured' = sd_configured
  BY <1>1, TurbomemFlags, SdFlags DEF Boards
<1>4. tm_wr \/ sd_wr => ~as_n /\ ~ds_n /\ ~rw /\ ~as_rise
  BY Zenon DEF tm_wr, sd_wr, tm_ac_wr, sd_ac_wr, tm_ac_access, sd_ac_access, ConfigSpace,
     as_rise
<1>5. /\ tm_wr_q' = tm_wr /\ sd_wr_q' = sd_wr
      /\ as_n_q' = as_n
  BY <1>1 DEF Boards, Decodes, TurbomemDecode, SdDecode, tm_wr, sd_wr
<1>6. tm_configured' /\ tm_cfgout_n' => tm_wr
  BY <1>0, <1>2, <1>3, <1>4 DEF Closing, Flags
<1>7. sd_configured' /\ cfgout_n' => sd_wr
  BY <1>0, <1>2, <1>3, <1>4 DEF Closing, Flags
<1>8. ASSUME tm_wr \/ sd_wr, ~as_n' PROVE tm_wr' = tm_wr /\ sd_wr' = sd_wr
  <2>1. ~as_n /\ ~ds_n /\ ~rw
    BY <1>4, <1>8
  <2>2. s \notin {"S1", "S2"}
    BY <1>0, <2>1 DEF CorePhases, Flags
  <2> QED BY <1>8, <2>2, WritesSteady
<1>9. ASSUME tm_wr \/ sd_wr, as_n' PROVE as_rise'
  BY <1>4, <1>5, <1>9 DEF as_rise
<1>10. as_n' \in BOOLEAN
  BY <1>0 DEF Flags
<1>11. tm_configured' /\ tm_cfgout_n' => as_rise' \/ (tm_wr' /\ tm_wr_q')
  BY <1>5, <1>6, <1>8, <1>9, <1>10
<1>12. sd_configured' /\ cfgout_n' => as_rise' \/ (sd_wr' /\ sd_wr_q')
  BY <1>5, <1>7, <1>8, <1>9, <1>10
<1> QED BY <1>11, <1>12 DEF Closing

----------------------------------------------------------------------------
(* The boards have pages of their own, and the write that is about to give *)
(* one its page gives it a free one.                                       *)
Placed ==
  /\ tm_configured => base \in IoPage
  /\ sd_configured => base_sd \in IoPage
  /\ tm_configured /\ sd_configured => base # base_sd

Due ==
  /\ s = "S4" /\ tm_wr /\ ~tm_wr_q /\ reg6 = BASE_HI => PlacesBoard(16 * nibble + (base % 16))
  /\ s = "S4" /\ sd_wr /\ ~sd_wr_q /\ reg6 = BASE_HI => PlacesBoard(16 * nibble + (base_sd % 16))

LEMMA PlacedKept ==
  ASSUME ChainTypeOK, CorePhases, OneWrite, Order, Closing, Placed, Due, Clock
  PROVE  Placed'
<1>0. ZorroBusTypeOK /\ Flags \subseteq BOOLEAN /\ Flags' \subseteq BOOLEAN
  BY FlagsTyped, FlagsKept DEF ChainTypeOK
<1>1. TurbomemClock(fm_cfgout_n) /\ SdClock(tm_cfgout_n)
  BY ClockIs DEF Boards
<1>2. ~(tm_wr /\ sd_wr)
  BY Zenon DEF tm_wr, sd_wr, tm_ac_wr, sd_ac_wr, tm_ac_access, sd_ac_access
<1>3. CASE tm_wr /\ ~tm_wr_q
  <2>1. ~as_rise /\ tm_cfgout_n
    BY <1>3, Zenon DEF tm_wr, tm_ac_wr, tm_ac_access, ConfigSpace, as_rise
  <2>2. ~tm_configured /\ ~sd_configured
    BY <1>3, <2>1 DEF Closing, Order
  <2>3. sd_configured' = sd_configured /\ base_sd' = base_sd
    BY <1>1, <1>2, <1>3, SdFlags
  <2>4. TurbomemWrite /\ s = "S4"
    BY <1>1, <1>3, WriteIsFirst DEF TurbomemClock, tm_wr
  <2>5. CASE reg6 = BASE_HI
    <3>1. base' = 16 * nibble + (base % 16)
      BY <2>4, <2>5 DEF TurbomemWrite, BASE_HI, BASE_LO, SHUTUP
    <3>2. PlacesBoard(base')
      BY <1>3, <2>4, <2>5, <3>1 DEF Due
    <3> QED BY <2>2, <2>3, <3>2 DEF Placed, PlacesBoard
  <2>6. CASE reg6 # BASE_HI
    <3>1. tm_configured' = tm_configured
      BY <2>4, <2>6 DEF TurbomemWrite
    <3> QED BY <2>2, <2>3, <3>1 DEF Placed
  <2> QED BY <2>5, <2>6
<1>4. CASE sd_wr /\ ~sd_wr_q
  <2>1. ~as_rise /\ cfgout_n
    BY <1>4, Zenon DEF sd_wr, sd_ac_wr, sd_ac_access, ConfigSpace, as_rise
  <2>2. ~sd_configured
    BY <1>4, <2>1 DEF Closing
  <2>3. tm_configured' = tm_configured /\ base' = base
    BY <1>1, <1>2, <1>4, TurbomemFlags
  <2>4. SdWrite /\ s = "S4"
    BY <1>1, <1>4, WriteIsFirst DEF SdClock, sd_wr
  <2>5. CASE reg6 = BASE_HI
    <3>1. base_sd' = 16 * nibble + (base_sd % 16)
      BY <2>4, <2>5 DEF SdWrite, BASE_HI, BASE_LO, SHUTUP
    <3>2. PlacesBoard(base_sd')
      BY <1>4, <2>4, <2>5, <3>1 DEF Due
    <3> QED BY <2>2, <2>3, <3>2 DEF Placed, PlacesBoard
  <2>6. CASE reg6 # BASE_HI
    <3>1. sd_configured' = sd_configured
      BY <2>4, <2>6 DEF SdWrite
    <3> QED BY <2>2, <2>3, <3>1 DEF Placed
  <2> QED BY <2>5, <2>6
<1>5. CASE ~(tm_wr /\ ~tm_wr_q) /\ ~(sd_wr /\ ~sd_wr_q)
  <2>1. tm_configured' = tm_configured /\ base' = base
    BY <1>1, <1>5, TurbomemFlags
  <2>2. sd_configured' = sd_configured /\ base_sd' = base_sd
    BY <1>1, <1>5, SdFlags
  <2> QED BY <2>1, <2>2 DEF Placed
<1> QED BY <1>3, <1>4, <1>5

(* From S2 the core goes on only by driving a word.                        *)
LEMMA DriveAtS2 ==
  ASSUME Clock, s = "S2"
  PROVE  \E word \in Data : Drive(word)
<1>1. ~(Rest \/ Wait \/ Go \/ S5 \/ Finish \/ CfginFalls)
  BY DEF Rest, Wait, Go, S5, Finish, CfginFalls, CoreRest, CoreWait, CoreGo, CoreS5,
         CoreFinish
<1>2. ~(\E addr \in Address : Start(addr))
  BY DEF Start, CoreAddress
<1>3. ~(\E read \in BOOLEAN : Strobe(read))
  BY DEF Strobe, CoreStrobe
<1> QED BY <1>1, <1>2, <1>3 DEF Clock

LEMMA NoWriteAtS2 ==
  ASSUME ChainTypeOK, CorePhases, OneWrite, s = "S2"
  PROVE  ~(tm_wr /\ ~tm_wr_q) /\ ~(sd_wr /\ ~sd_wr_q) /\ ~(fm_wr /\ ~fm_wr_q)
BY WriteIsFirst

(* A write that is due at the next clock has just been driven.             *)
LEMMA JustDriven ==
  ASSUME ChainTypeOK, CorePhases, CorePhases', Clock, s' = "S4",
         \/ fm_wr' /\ ~fm_wr_q'
         \/ tm_wr' /\ ~tm_wr_q'
         \/ sd_wr' /\ ~sd_wr_q'
  PROVE  s = "S2" /\ ~rw /\ ~as_n'
<1>0. ZorroBusTypeOK /\ Flags \subseteq BOOLEAN /\ Flags' \subseteq BOOLEAN
  BY FlagsTyped, FlagsKept DEF ChainTypeOK
<1>1. ~as_n'
  BY <1>0 DEF CorePhases, Flags
<1>2. s \in {"S2", "S4"}
  BY <1>0, <1>1, InsideCycle
<1>3. fm_wr_q' = fm_wr /\ tm_wr_q' = tm_wr /\ sd_wr_q' = sd_wr
  BY ClockIs DEF Boards, Decodes, FastmemDecode, TurbomemDecode, SdDecode, fm_wr, tm_wr, sd_wr
<1>4. s = "S2"
  <2>1. s = "S4" => fm_wr' = fm_wr /\ tm_wr' = tm_wr /\ sd_wr' = sd_wr
    BY <1>1, <1>2, WritesSteady
  <2> QED BY <1>2, <1>3, <2>1
<1>5. ~rw'
  BY Zenon DEF fm_wr, tm_wr, sd_wr, fm_ac_wr, tm_ac_wr, sd_ac_wr
<1>6. rw' = rw
  BY <1>0, <1>1, <1>4, InsideCycle
<1> QED BY <1>1, <1>4, <1>5, <1>6

LEMMA DueKept ==
  ASSUME ChainTypeOK, CorePhases, CorePhases', OneWrite, Clock
  PROVE  Due'
<1>0. TurbomemClock(fm_cfgout_n) /\ SdClock(tm_cfgout_n)
  BY ClockIs DEF Boards
<1>1. ASSUME s' = "S4", \/ tm_wr' /\ ~tm_wr_q'
                        \/ sd_wr' /\ ~sd_wr_q'
      PROVE  /\ \E word \in Data : nibble' = word \div 4096 /\ Sensible(word)
             /\ UNCHANGED <<tm_configured, base, sd_configured, base_sd>>
             /\ s = "S2" /\ ~as_n'
  <2>1. s = "S2" /\ ~rw /\ ~as_n'
    BY <1>1, JustDriven
  <2>2. PICK word \in Data : Drive(word)
    BY <2>1, DriveAtS2
  <2>3. d' = word /\ Sensible(word)
    BY <2>1, <2>2 DEF Drive, CoreDrive
  <2>4. nibble' = word \div 4096
    BY <2>3 DEF nibble
  <2>5. tm_configured' = tm_configured /\ base' = base
    BY <1>0, <2>1, TurbomemFlags, NoWriteAtS2
  <2>6. sd_configured' = sd_configured /\ base_sd' = base_sd
    BY <1>0, <2>1, SdFlags, NoWriteAtS2
  <2> QED BY <2>1, <2>3, <2>4, <2>5, <2>6
<1>2. ASSUME s' = "S4", tm_wr', ~tm_wr_q', reg6' = BASE_HI
      PROVE  PlacesBoard(16 * nibble + (base % 16))'
  <2>1. PICK word \in Data : nibble' = word \div 4096 /\ Sensible(word)
    BY <1>1, <1>2
  <2>2. s = "S2" /\ ~as_n' /\ UNCHANGED <<tm_configured, base, sd_configured, base_sd>>
    BY <1>1, <1>2
  <2>3. tm_answers' = tm_answers /\ reg6' = reg6
    BY <2>2, WritesSteady
  <2>4. tm_answers'
    BY <1>2, Zenon DEF tm_wr, tm_ac_wr, tm_answers
  <2>5. ConfigAddress /\ ~fm_cfgout_n /\ tm_cfgout_n
    BY <2>3, <2>4, Zenon DEF tm_answers, tm_ac_access, ConfigSpace
  <2>6. PlacesBoard(16 * (word \div 4096) + (base % 16))
    BY <1>2, <2>1, <2>3, <2>5 DEF Sensible
  <2> QED BY <2>1, <2>2, <2>6 DEF PlacesBoard
<1>3. ASSUME s' = "S4", sd_wr', ~sd_wr_q', reg6' = BASE_HI
      PROVE  PlacesBoard(16 * nibble + (base_sd % 16))'
  <2>1. PICK word \in Data : nibble' = word \div 4096 /\ Sensible(word)
    BY <1>1, <1>3
  <2>2. s = "S2" /\ ~as_n' /\ UNCHANGED <<tm_configured, base, sd_configured, base_sd>>
    BY <1>1, <1>3
  <2>3. sd_answers' = sd_answers /\ reg6' = reg6
    BY <2>2, WritesSteady
  <2>4. sd_answers'
    BY <1>3, Zenon DEF sd_wr, sd_ac_wr, sd_answers
  <2>5. ConfigAddress /\ ~tm_cfgout_n /\ cfgout_n
    BY <2>3, <2>4, Zenon DEF sd_answers, sd_ac_access, ConfigSpace
  <2>6. PlacesBoard(16 * (word \div 4096) + (base_sd % 16))
    BY <1>3, <2>1, <2>3, <2>5 DEF Sensible
  <2> QED BY <2>1, <2>2, <2>6 DEF PlacesBoard
<1>4. BASE_HI' = BASE_HI
  BY DEF BASE_HI
<1> QED BY <1>2, <1>3, <1>4 DEF Due

----------------------------------------------------------------------------
(* The registered decodes tell the truth about the running cycle.          *)
sd_hit == sd_configured /\ a.hi = 0 /\ a.page = base_sd

DecodesTrue ==
  ~as_n =>
    /\ owns_r = owns /\ cpu_win_r = cpu_win(a) /\ mr_win_r = mr_win(a)
    /\ rom_win_r = tm_win /\ sd_hit_r = sd_hit

(* The configuration registers, memory and boards are different addresses. *)
LEMMA Disjoint ==
  ASSUME ChainTypeOK
  PROVE  /\ a.hi = 0 /\ a.page \in 232..239 =>
              ~in_window(a) /\ ~cpu_win(a) /\ ~mr_win(a)
         /\ ConfigAddress => a.hi = 0 /\ a.page = 232
         /\ \A page \in IoPage : page \in 233..239
<1>1. a.hi \in 0..255 /\ a.page \in 0..255
  BY AddressTyped DEF ChainTypeOK, ZorroBusTypeOK
<1>2. a.hi = 0 /\ a.page \in 232..239 => ~in_window(a) /\ ~cpu_win(a) /\ ~mr_win(a)
  BY <1>1 DEF in_window, region, cpu_win, mr_win, mr_boot, mr_ext
<1>3. \A page \in IoPage : page \in 233..239
  BY ChainAssumption
<1> QED BY <1>2, <1>3 DEF ConfigAddress

LEMMA NoConfigHits ==
  ASSUME ChainTypeOK, Placed, ConfigAddress
  PROVE  owns = FALSE /\ tm_win = FALSE /\ sd_hit = FALSE
<1>1. a.hi = 0 /\ a.page = 232 /\ ~in_window(a)
  BY Disjoint
<1>2. 232 \notin IoPage
  BY Disjoint
<1>3. owns = FALSE
  BY <1>1, Zenon DEF owns, owned
<1>4. tm_win = FALSE
  BY <1>1, <1>2, Zenon DEF tm_win, Placed
<1>5. sd_hit = FALSE
  BY <1>1, <1>2, Zenon DEF sd_hit, Placed
<1> QED BY <1>3, <1>4, <1>5

LEMMA NoConfigHitsNext ==
  (ChainTypeOK => (Placed /\ ConfigAddress => ~owns /\ ~tm_win /\ ~sd_hit))'
<1>1. ChainTypeOK => (Placed /\ ConfigAddress => ~owns /\ ~tm_win /\ ~sd_hit)
  BY NoConfigHits
<1> QED BY <1>1, PTL

LEMMA DecodesKept ==
  ASSUME ChainTypeOK, CorePhases, OneWrite, Placed, Placed', Clock, ~as_n'
  PROVE  /\ owns' = owns /\ tm_win' = tm_win /\ sd_hit' = sd_hit
         /\ DecodesTrue'
<1>0. ZorroBusTypeOK /\ ChainTypeOK'
  BY TypeKept DEF ChainTypeOK
<1>1. Boards
  BY ClockIs
<1>2. a' = a
  BY <1>0, InsideCycle
<1>3. /\ owns_r' = owns /\ cpu_win_r' = cpu_win(a) /\ mr_win_r' = mr_win(a)
      /\ rom_win_r' = tm_win /\ sd_hit_r' = sd_hit
  BY <1>1 DEF Boards, Decodes, FastmemDecode, TurbomemDecode, SdDecode, sd_hit
<1>4. cpu_win(a)' = cpu_win(a) /\ mr_win(a)' = mr_win(a)
  BY <1>2 DEF cpu_win, mr_win, mr_boot, mr_ext
<1>5. CASE ConfigAddress
  <2>1. ConfigAddress'
    BY <1>2, <1>5 DEF ConfigAddress
  <2>2. owns = FALSE /\ tm_win = FALSE /\ sd_hit = FALSE
    BY <1>5, NoConfigHits
  <2>3. ~owns' /\ ~tm_win' /\ ~sd_hit'
    BY <1>0, <2>1, NoConfigHitsNext
  <2>4. owns' \in BOOLEAN /\ tm_win' \in BOOLEAN /\ sd_hit' \in BOOLEAN
    BY Zenon DEF owns, tm_win, sd_hit
  <2>5. owns' = FALSE /\ tm_win' = FALSE /\ sd_hit' = FALSE
    BY <2>3, <2>4
  <2> QED BY <1>3, <1>4, <2>2, <2>5, Zenon DEF DecodesTrue
<1>6. CASE ~ConfigAddress
  <2>1. ~(fm_wr /\ ~fm_wr_q) /\ ~(tm_wr /\ ~tm_wr_q) /\ ~(sd_wr /\ ~sd_wr_q)
    BY <1>6, WriteIsFirst
  <2>2. fm_configured' = fm_configured /\ addr_match' = addr_match
    BY <1>1, <2>1, Zenon DEF Boards, FastmemClock, fm_wr
  <2>3. tm_configured' = tm_configured /\ base' = base
    BY <1>1, <2>1, TurbomemFlags DEF Boards
  <2>4. sd_configured' = sd_configured /\ base_sd' = base_sd
    BY <1>1, <2>1, SdFlags DEF Boards
  <2>5. owns' = owns
    BY <1>2, <2>2, Zenon DEF owns, owned, in_window, slot, region
  <2>6. tm_win' = tm_win
    BY <1>2, <2>3, Zenon DEF tm_win
  <2>7. sd_hit' = sd_hit
    BY <1>2, <2>4, Zenon DEF sd_hit
  <2> QED BY <1>3, <1>4, <2>5, <2>6, <2>7, Zenon DEF DecodesTrue
<1> QED BY <1>5, <1>6

(* Three kinds of address, and on each of them only one to answer.         *)
LEMMA WhoClaims ==
  ASSUME ChainTypeOK, Placed, DecodesTrue
  PROVE  /\ fm_answers \/ tm_answers \/ sd_answers => ConfigAddress /\ ~as_n
         /\ fm_memory => ~as_n /\ (owns \/ cpu_win(a) \/ mr_win(a))
         /\ tm_space => ~as_n /\ tm_win
         /\ sd_space => ~as_n /\ sd_hit
<1>1. fm_answers \/ tm_answers \/ sd_answers => ConfigAddress /\ ~as_n
  BY Zenon DEF fm_answers, tm_answers, sd_answers, fm_ac_access, tm_ac_access,
     sd_ac_access, ConfigSpace
<1>2. fm_memory => ~as_n /\ (owns_r \/ cpu_win_r \/ mr_win_r)
  BY Zenon DEF fm_memory, fm_space
<1>3. (tm_space => ~as_n /\ rom_win_r) /\ (sd_space => ~as_n /\ sd_hit_r)
  BY Zenon DEF tm_space, sd_space
<1>4. ~as_n => /\ (owns_r => owns) /\ (cpu_win_r => cpu_win(a)) /\ (mr_win_r => mr_win(a))
               /\ (rom_win_r => tm_win) /\ (sd_hit_r => sd_hit)
  BY DEF DecodesTrue
<1> QED BY <1>1, <1>2, <1>3, <1>4, Zenon

LEMMA Exclusive ==
  ASSUME ChainTypeOK, Order, Placed, DecodesTrue
  PROVE  /\ ~(fm_answers /\ tm_answers) /\ ~(fm_answers /\ sd_answers)
         /\ ~(tm_answers /\ sd_answers)
         /\ ~(fm_memory /\ tm_space) /\ ~(fm_memory /\ sd_space) /\ ~(tm_space /\ sd_space)
         /\ fm_answers \/ tm_answers \/ sd_answers => ~fm_memory /\ ~tm_space /\ ~sd_space
<1>1. ~(fm_answers /\ tm_answers) /\ ~(tm_answers /\ sd_answers)
  BY Zenon DEF fm_answers, tm_answers, sd_answers, fm_ac_access, tm_ac_access, sd_ac_access
<1>2. ~(fm_answers /\ sd_answers)
  <2>1. (fm_answers => fm_cfgout_n) /\ (sd_answers => ~tm_cfgout_n)
    BY Zenon DEF fm_answers, sd_answers, fm_ac_access, sd_ac_access
  <2> QED BY <2>1, Zenon DEF Order
<1>3. tm_win \/ sd_hit => a.hi = 0 /\ a.page \in IoPage
  BY Zenon DEF tm_win, sd_hit, Placed
<1>4. tm_win \/ sd_hit => a.hi = 0 /\ a.page \in 232..239
  BY <1>3, Disjoint
<1>5. tm_win \/ sd_hit => ~owns /\ ~cpu_win(a) /\ ~mr_win(a)
  <2>1. owns => in_window(a)
    BY Zenon DEF owns, owned
  <2> QED BY <1>4, <2>1, Disjoint
<1>6. ~(tm_win /\ sd_hit)
  BY Zenon DEF tm_win, sd_hit, Placed
<1>7. ~(fm_memory /\ tm_space) /\ ~(fm_memory /\ sd_space) /\ ~(tm_space /\ sd_space)
  BY <1>5, <1>6, WhoClaims
<1>8. ConfigAddress => ~owns /\ ~cpu_win(a) /\ ~mr_win(a) /\ ~tm_win /\ ~sd_hit
  BY NoConfigHits, Disjoint
<1>9. fm_answers \/ tm_answers \/ sd_answers => ~fm_memory /\ ~tm_space /\ ~sd_space
  BY <1>8, WhoClaims
<1> QED BY <1>1, <1>2, <1>7, <1>9

LEMMA ClaimsAtMostOne ==
  ASSUME ChainTypeOK, Order, Placed, DecodesTrue
  PROVE  Cardinality(Claims) <= 1
<1>1. \A x, y \in Claims : x = y
  BY Exclusive, Zenon DEF Claims
<1>2. CASE Claims = {}
  BY <1>2, FS_EmptySet
<1>3. CASE Claims # {}
  <2>1. PICK x \in Claims : TRUE
    BY <1>3
  <2>2. Claims = {x}
    BY <1>1, <2>1, Zenon
  <2> QED BY <2>2, FS_Singleton
<1> QED BY <1>2, <1>3

----------------------------------------------------------------------------
(* What is added to the free pool.                                         *)
MemoryDue == s = "S4" /\ fm_wr /\ ~fm_wr_q /\ reg8 = BASE_HI

MemoryGranted == PlacesMemory(nibble) /\ told = addr_match \cup Block(nibble)

Told ==
  /\ MemoryDue => MemoryGranted
  /\ ~MemoryDue => told = addr_match

LEMMA RangeIn ==
  ASSUME NEW i \in Int, NEW j \in Int, i <= j, i..j \in SUBSET (0..7)
  PROVE  i \in 0..7 /\ j \in 0..7 /\ {k \in 0..7 : k \in i..j} = i..j
<1>1. i \in i..j /\ j \in i..j
  OBVIOUS
<1>2. i \in 0..7 /\ j \in 0..7
  BY <1>1, Zenon
<1> QED BY <1>2

LEMMA SlotsAreBlock ==
  ASSUME ChainTypeOK, NEW n \in 0..15, PlacesMemory(n)
  PROVE  ac_state # "DONE" /\ Slots(ac_state, n) = Block(n)
<1>0. ac_state \in {"OFFER_8M", "OFFER_4M", "OFFER_2M", "OFFER_1M", "OFFER_S4", "DONE"}
  BY DEF ChainTypeOK, FastmemConfigTypeOK
<1>1. Block(n) # {} /\ Block(n) \in SUBSET (0..7) /\ (Size[ac_state] > 1 => n % 2 = 0)
  BY DEF PlacesMemory
<1>2. CASE ac_state = "OFFER_8M"
  <2>1. Block(n) = n-2 .. n+5 /\ Slots(ac_state, n) = 0..7
    BY <1>2 DEF Block, Size, Slots
  <2>2. n-2 \in 0..7 /\ n+5 \in 0..7
    BY <1>1, <2>1, n-2 \in Int, n+5 \in Int, n-2 <= n+5, RangeIn
  <2>3. n-2 = 0 /\ n+5 = 7
    BY <2>2
  <2> QED BY <1>2, <2>1, <2>3
<1>3. CASE ac_state \in {"OFFER_4M", "OFFER_S4"}
  <2>1. Block(n) = n-2 .. n+1 /\ n % 2 = 0
    BY <1>1, <1>3 DEF Block, Size
  <2>2. n-2 \in 0..7 /\ n+1 \in 0..7
    BY <1>1, <2>1, n-2 \in Int, n+1 \in Int, n-2 <= n+1, RangeIn
  <2>3. n \in {2, 4, 6}
    BY <2>1, <2>2
  <2>4. Slots(ac_state, n) = {k \in 0..7 : k \in n-2 .. n+1}
    BY <1>3, <2>3 DEF Slots
  <2> QED BY <1>1, <1>3, <2>1, <2>4, n-2 \in Int, n+1 \in Int, n-2 <= n+1, RangeIn
<1>4. CASE ac_state = "OFFER_2M"
  <2>1. Block(n) = n-2 .. n-1 /\ n % 2 = 0
    BY <1>1, <1>4 DEF Block, Size
  <2>2. n-2 \in 0..7 /\ n-1 \in 0..7
    BY <1>1, <2>1, n-2 \in Int, n-1 \in Int, n-2 <= n-1, RangeIn
  <2>3. n \in {2, 4, 6, 8}
    BY <2>1, <2>2
  <2>4. Slots(ac_state, n) = {k \in 0..7 : k \in n-2 .. n-1}
    BY <1>4, <2>3 DEF Slots
  <2> QED BY <1>1, <1>4, <2>1, <2>4, n-2 \in Int, n-1 \in Int, n-2 <= n-1, RangeIn
<1>5. CASE ac_state = "OFFER_1M"
  <2>1. Block(n) = n-2 .. n-2
    BY <1>5 DEF Block, Size
  <2>2. n-2 \in 0..7
    BY <1>1, <2>1, n-2 \in Int, n-2 <= n-2, RangeIn
  <2>3. Slots(ac_state, n) = {k \in 0..7 : k = n-2}
    BY <1>5, <2>2 DEF Slots
  <2> QED BY <1>5, <2>1, <2>2, <2>3
<1>6. CASE ac_state = "DONE"
  <2>1. Block(n) = n-2 .. n-3
    BY <1>6 DEF Block, Size
  <2>2. Block(n) = {}
    BY <2>1
  <2> QED BY <1>1, <2>2
<1> QED BY <1>0, <1>2, <1>3, <1>4, <1>5, <1>6

LEMMA ToldKept ==
  ASSUME ChainTypeOK, CorePhases, CorePhases', OneWrite, Told, Clock
  PROVE  Told'
<1>0. ZorroBusTypeOK /\ Flags \subseteq BOOLEAN /\ Flags' \subseteq BOOLEAN /\ nibble \in 0..15
  BY FlagsTyped, FlagsKept, NibbleTyped DEF ChainTypeOK, ZorroBusTypeOK
<1>1. FastmemClock(cfgin_n) /\ fm_wr_q' = fm_wr
  BY ClockIs DEF Boards, Decodes, FastmemDecode, fm_wr
<1>2. CASE fm_wr /\ ~fm_wr_q
  <2>1. s = "S4" /\ ~as_n /\ ~rw
    BY <1>2, WriteIsFirst, Zenon DEF fm_wr, fm_ac_wr
  <2>2. told' = told
    <3>1. CASE Rest \/ Wait \/ Go \/ S5 \/ Finish \/ CfginFalls
      BY <3>1 DEF Rest, Wait, Go, S5, Finish, CfginFalls
    <3>2. ~(\E addr \in Address : Start(addr)) /\ ~(\E read \in BOOLEAN : Strobe(read))
      BY <2>1 DEF Start, Strobe, CoreAddress, CoreStrobe
    <3>3. ~(\E word \in Data : Drive(word))
      BY <2>1 DEF Drive, CoreDrive
    <3> QED BY <3>1, <3>2, <3>3 DEF Clock
  <2>3. ~MemoryDue'
    BY <1>1, <1>2 DEF MemoryDue
  <2>4. FastmemWrite
    BY <1>1, <1>2 DEF FastmemClock, fm_wr
  <2>5. CASE reg8 = BASE_HI
    <3>1. MemoryDue
      BY <1>2, <2>1, <2>5 DEF MemoryDue
    <3>2. PlacesMemory(nibble) /\ told = addr_match \cup Block(nibble)
      BY <3>1 DEF Told, MemoryGranted
    <3>3. ac_state # "DONE" /\ Slots(ac_state, nibble) = Block(nibble)
      BY <1>0, <3>2, SlotsAreBlock
    <3>4. Assign
      BY <2>4, <2>5, <3>3 DEF FastmemWrite, BASE_HI, SHUTUP
    <3>5. addr_match' = addr_match \cup Slots(ac_state, nibble)
      BY <3>4 DEF Assign
    <3> QED BY <2>2, <2>3, <3>2, <3>3, <3>5, Zenon DEF Told
  <2>6. CASE reg8 # BASE_HI
    <3>1. ~MemoryDue
      BY <2>6, Zenon DEF MemoryDue
    <3>2. addr_match' = addr_match
      BY <2>4, <2>6 DEF FastmemWrite, Refuse
    <3> QED BY <2>2, <2>3, <3>1, <3>2, Zenon DEF Told
  <2> QED BY <2>5, <2>6
<1>3. CASE ~(fm_wr /\ ~fm_wr_q)
  <2>1. addr_match' = addr_match /\ ac_state' = ac_state
    BY <1>1, <1>3, Zenon DEF FastmemClock, fm_wr
  <2>2. told = addr_match
    BY <1>3, Zenon DEF Told, MemoryDue
  <2>3. ASSUME NEW word \in Data, Drive(word), ~rw, fm_answers, reg8 = BASE_HI
        PROVE  Told'
    <3>1. s = "S2" /\ s' = "S4" /\ d' = word /\ as_n' = as_n /\ ds_n' = FALSE /\ rw' = rw
          /\ told' = told \cup Block(word \div 4096)
      BY <2>3 DEF Drive, CoreDrive
    <3>2. PlacesMemory(word \div 4096)
      BY <2>3, DriveIsSensible
    <3>3. ~as_n' /\ ds_n
      BY <1>0, <2>3, <3>1 DEF CorePhases, Flags
    <3>4. fm_answers' = fm_answers /\ reg8' = reg8
      BY <3>1, <3>3, WritesSteady
    <3>5. fm_wr'
      <4>1. fm_answers' /\ ~ds_n' /\ ~rw'
        BY <2>3, <3>1, <3>4
      <4> QED BY <4>1, Zenon DEF fm_wr, fm_ac_wr, fm_answers
    <3>6. ~fm_wr
      BY <3>3, Zenon DEF fm_wr, fm_ac_wr
    <3>7. MemoryDue'
      BY <1>1, <2>3, <3>1, <3>4, <3>5, <3>6 DEF MemoryDue, BASE_HI
    <3>8. nibble' = word \div 4096
      BY <3>1 DEF nibble
    <3>9. PlacesMemory(nibble)' /\ Block(nibble)' = Block(word \div 4096)
      BY <2>1, <3>2, <3>8 DEF PlacesMemory, Block, Size
    <3>10. MemoryGranted'
      BY <2>1, <2>2, <3>1, <3>9 DEF MemoryGranted
    <3> QED BY <3>7, <3>10, Zenon DEF Told
  <2>4. CASE ~(\E word \in Data : Drive(word) /\ ~rw /\ fm_answers /\ reg8 = BASE_HI)
    <3>1. told' = told
      <4>1. CASE Rest \/ Wait \/ Go \/ S5 \/ Finish \/ CfginFalls
        BY <4>1 DEF Rest, Wait, Go, S5, Finish, CfginFalls
      <4>2. ASSUME NEW addr \in Address, Start(addr) PROVE told' = told
        BY <4>2 DEF Start
      <4>3. ASSUME NEW read \in BOOLEAN, Strobe(read) PROVE told' = told
        BY <4>3 DEF Strobe
      <4>4. ASSUME NEW word \in Data, Drive(word) PROVE told' = told
        <5>1. ~(~rw /\ fm_answers /\ reg8 = BASE_HI)
          BY <2>4, <4>4, Zenon
        <5> QED BY <4>4, <5>1 DEF Drive
      <4> QED BY <4>1, <4>2, <4>3, <4>4 DEF Clock
    <3>2. ~MemoryDue'
      <4> SUFFICES ASSUME MemoryDue' PROVE FALSE
        OBVIOUS
      <4>1. s' = "S4" /\ fm_wr' /\ ~fm_wr_q' /\ reg8' = BASE_HI
        BY DEF MemoryDue, BASE_HI
      <4>2. s = "S2" /\ ~rw /\ ~as_n'
        BY <4>1, JustDriven
      <4>3. fm_answers' = fm_answers /\ reg8' = reg8
        BY <4>2, WritesSteady
      <4>4. fm_answers'
        BY <4>1, Zenon DEF fm_wr, fm_ac_wr, fm_answers
      <4>5. PICK word \in Data : Drive(word)
        BY <4>2, DriveAtS2
      <4> QED BY <2>4, <4>1, <4>2, <4>3, <4>4, <4>5
    <3> QED BY <2>1, <2>2, <3>1, <3>2, Zenon DEF Told
  <2> QED BY <2>3, <2>4
<1> QED BY <1>2, <1>3

----------------------------------------------------------------------------
(* The ROM's data and the status word, two registers behind the address.   *)
Word == IF status_hit THEN StatusWord ELSE RomWord(a.off)

ReadAhead ==
  /\ s \in {"S2", "S4", "S5", "S6"} => /\ rom_q = RomWord(a.off) /\ status_sel = status_hit
                                       /\ rw => status_q = StatusWord
  /\ s = "S2" => ~tm_hold
  /\ s \in {"S4", "S5", "S6"} => (rw => tm_dout = Word)

LEMMA ControlUnlessWrite ==
  ASSUME Control, rw \/ ds_n
  PROVE  mr_ctrl' = mr_ctrl
BY Zenon DEF Control, ctrl_wr

LEMMA ReadAheadKept ==
  ASSUME ChainTypeOK, CorePhases, CorePhases', ReadAhead, Clock
  PROVE  ReadAhead'
<1>0. ZorroBusTypeOK /\ Flags \subseteq BOOLEAN /\ Flags' \subseteq BOOLEAN /\ ZorroBusTypeOK'
  BY FlagsTyped, FlagsKept, TypeKept DEF ChainTypeOK
<1>1. TurbomemClock(fm_cfgout_n) /\ TurbomemDecode(fm_cfgout_n)
  BY ClockIs DEF Boards, Decodes
<1>2. CASE as_n'
  <2>1. s' \notin {"S2", "S4", "S5", "S6"}
    BY <1>0, <1>2 DEF CorePhases, ZorroBusTypeOK
  <2> QED BY <2>1, Zenon DEF ReadAhead
<1>3. CASE ~as_n'
  <2>1. /\ s \in {"S1", "S2", "S4", "S5"} /\ a' = a
        /\ s = "S1" => s' = "S2"
        /\ s = "S2" => s' = "S4"
        /\ s \in {"S4", "S5"} => s' \in {"S4", "S5", "S6"}
        /\ s # "S1" => rw' = rw
    BY <1>0, <1>3, InsideCycle
  <2>2. rom_q' = RomWord(a.off)' /\ status_sel' = status_hit' /\ status_hit' = status_hit
    <3>1. rom_q' = RomWord(a.off) /\ status_sel' = status_hit
      BY <1>1 DEF TurbomemDecode
    <3>2. status_hit' = status_hit
      BY <2>1 DEF status_hit
    <3> QED BY <2>1, <3>1, <3>2, Zenon DEF RomWord
  <2>3. ASSUME rw' PROVE mr_ctrl' = mr_ctrl /\ StatusWord' = StatusWord /\ Word' = Word
    <3>1. rw \/ s = "S1"
      BY <2>1, <2>3
    <3>2. rw
      BY <3>1 DEF CorePhases
    <3>3. mr_ctrl' = mr_ctrl
      BY <1>1, <3>2, ControlUnlessWrite DEF TurbomemClock
    <3>4. StatusWord' = StatusWord
      BY <2>1, <3>3, Zenon DEF StatusWord
    <3> QED BY <2>1, <2>2, <3>3, <3>4, Zenon DEF Word, RomWord
  <2>4. status_q' = StatusWord
    BY <1>1 DEF TurbomemDecode
  <2>5. ASSUME s' = "S2" PROVE ~tm_hold'
    <3>1. as_n
      BY <2>1, <2>5 DEF CorePhases
    <3>2. ~tm_space
      BY <3>1, Zenon DEF tm_space
    <3> QED BY <1>1, <3>2, Zenon DEF TurbomemClock, Answer
  <2>6. ASSUME s' \in {"S4", "S5", "S6"}, rw' PROVE tm_dout' = Word'
    <3>1. s \in {"S2", "S4", "S5"} /\ rw
      BY <2>1, <2>6
    <3>2. rom_q = RomWord(a.off) /\ status_sel = status_hit /\ status_q = StatusWord
      BY <3>1, Zenon DEF ReadAhead
    <3>3. tm_dout' = IF tm_hold THEN tm_dout ELSE Word
      BY <1>1, <3>2, Zenon DEF TurbomemDecode, Word
    <3>4. tm_hold => tm_dout = Word
      BY <3>1 DEF ReadAhead
    <3>5. tm_dout' = Word
      BY <3>3, <3>4, Zenon
    <3> QED BY <2>3, <2>6, <3>5, Zenon
  <2>7. rw' => status_q' = StatusWord'
    BY <2>3, <2>4, Zenon
  <2> QED BY <2>2, <2>5, <2>6, <2>7, Zenon DEF ReadAhead
<1> QED BY <1>2, <1>3

----------------------------------------------------------------------------
ChainInv ==
  /\ ChainTypeOK /\ CorePhases /\ OneWrite
  /\ Order /\ Closing /\ Placed /\ Due
  /\ DecodesTrue /\ Told /\ ReadAhead

LEMMA ChainInitially == Init => ChainInv
<1> SUFFICES ASSUME Init PROVE ChainInv
  OBVIOUS
<1>1. ChainTypeOK
  BY TypeInitially
<1>2. s = "S0" /\ as_n = TRUE /\ ds_n = TRUE /\ rw = TRUE
  BY DEF Init, BusInit
<1>3. CorePhases
  BY <1>2 DEF CorePhases
<1>4. OneWrite /\ ReadAhead
  BY <1>2 DEF OneWrite, ReadAhead
<1>5. /\ fm_cfgout_n = TRUE /\ tm_cfgout_n = TRUE /\ cfgout_n = TRUE
      /\ tm_configured = FALSE /\ tm_shutup = FALSE /\ sd_configured = FALSE
      /\ told = {} /\ addr_match = {}
  BY DEF Init, FastmemInit, TurbomemInit, SdInit
<1>6. Order /\ Closing /\ Placed
  BY <1>5, Zenon DEF Order, Closing, Placed
<1>7. Due
  BY <1>2 DEF Due
<1>8. DecodesTrue
  BY <1>2, Zenon DEF DecodesTrue
<1>9. Told
  <2>1. ~MemoryDue
    BY <1>2 DEF MemoryDue
  <2> QED BY <1>5, <2>1 DEF Told
<1> QED BY <1>1, <1>3, <1>4, <1>6, <1>7, <1>8, <1>9 DEF ChainInv

LEMMA ChainClock ==
  ASSUME ChainInv, Clock
  PROVE  ChainInv'
<1> USE DEF ChainInv
<1>1. ChainTypeOK'
  BY TypeKept
<1>2. CorePhases'
  <2>1. Boards /\ CoreMoves
    BY ClockIs
  <2> QED BY <2>1, PhasesKept DEF ChainTypeOK, Boards, Decodes
<1>3. OneWrite'
  BY <1>2, OneWriteKept
<1>4. Order'
  BY OrderKept
<1>5. Closing'
  BY <1>2, ClosingKept
<1>6. Placed'
  BY PlacedKept
<1>7. Due'
  BY <1>2, DueKept
<1>8. DecodesTrue'
  <2>1. CASE as_n'
    BY <2>1, Zenon DEF DecodesTrue
  <2>2. CASE ~as_n'
    BY <1>6, <2>2, DecodesKept
  <2> QED BY <2>1, <2>2
<1>9. Told'
  BY <1>2, ToldKept
<1>10. ReadAhead'
  BY <1>2, ReadAheadKept
<1> QED BY <1>1, <1>2, <1>3, <1>4, <1>5, <1>6, <1>7, <1>8, <1>9, <1>10

LEMMA ChainReset ==
  ASSUME ChainInv, Reset
  PROVE  ChainInv'
<1>1. ChainTypeOK'
  BY ResetTyped DEF ChainInv
<1>2. s' = "S0" /\ as_n' = TRUE /\ ds_n' = TRUE /\ rw' = TRUE
  BY DEF Reset, CoreReset
<1>3. CorePhases'
  BY <1>2 DEF CorePhases
<1>4. OneWrite' /\ ReadAhead'
  BY <1>2 DEF OneWrite, ReadAhead
<1>5. /\ fm_cfgout_n' = TRUE /\ tm_cfgout_n' = TRUE /\ cfgout_n' = TRUE
      /\ tm_configured' = FALSE /\ tm_shutup' = FALSE /\ sd_configured' = FALSE
      /\ told' = {} /\ addr_match' = {}
  BY DEF Reset, FastmemReset, TurbomemReset, SdReset
<1>6. Order' /\ Closing' /\ Placed'
  BY <1>5, Zenon DEF Order, Closing, Placed
<1>7. Due'
  BY <1>2 DEF Due
<1>8. DecodesTrue'
  BY <1>2, Zenon DEF DecodesTrue
<1>9. Told'
  <2>1. ~MemoryDue'
    BY <1>2 DEF MemoryDue
  <2> QED BY <1>5, <2>1 DEF Told
<1> QED BY <1>1, <1>3, <1>4, <1>6, <1>7, <1>8, <1>9 DEF ChainInv

LEMMA ChainStutter ==
  ASSUME ChainInv, UNCHANGED vars
  PROVE  ChainInv'
<1> USE DEF vars, busVars, fmVars, tmVars, sdVars
<1>1. ChainTypeOK'
  BY DEF ChainInv, ChainTypeOK, ZorroBusTypeOK, FastmemConfigTypeOK, TurbomemTypeOK,
         SdConfigTypeOK
<1>2. CorePhases' /\ Order' /\ Placed'
  BY DEF ChainInv, CorePhases, Order, Placed
<1>3. fm_wr' = fm_wr /\ tm_wr' = tm_wr /\ sd_wr' = sd_wr /\ reg6' = reg6 /\ reg8' = reg8
      /\ nibble' = nibble /\ as_rise' = as_rise
  BY DEF fm_wr, tm_wr, sd_wr, fm_ac_wr, tm_ac_wr, sd_ac_wr, fm_ac_access, tm_ac_access,
         sd_ac_access, ConfigSpace, ConfigAddress, reg6, reg8, nibble, as_rise
<1>4. OneWrite' /\ Closing'
  BY <1>3 DEF ChainInv, OneWrite, Closing
<1>5. Due'
  BY <1>3 DEF ChainInv, Due, PlacesBoard, BASE_HI
<1>6. DecodesTrue'
  BY DEF ChainInv, DecodesTrue, owns, owned, in_window, slot, region, cpu_win, mr_win, mr_boot,
         mr_ext, tm_win, sd_hit
<1>7. Told'
  BY <1>3 DEF ChainInv, Told, MemoryDue, MemoryGranted, PlacesMemory, Block, Size, BASE_HI
<1>8. ReadAhead'
  BY DEF ChainInv, ReadAhead, Word, StatusWord, RomWord, status_hit
<1> QED BY <1>1, <1>2, <1>4, <1>5, <1>6, <1>7, <1>8 DEF ChainInv

LEMMA ChainStep == ChainInv /\ [Next]_vars => ChainInv'
BY ChainClock, ChainReset, ChainStutter DEF Next

(* The invariant holds, whatever Kickstart offers, refuses and places as the*)
(* Zorro rules bind it (Sensible), and whenever the machine is reset.      *)
THEOREM ChainInvariant == Spec => []ChainInv
<1> QED BY ChainInitially, ChainStep, PTL DEF Spec

(* OneSlave for any addresses, data, board pages and answering times: never*)
(* two of the six decodes claim a cycle (base64_top.sv:679-692).           *)
THEOREM OneAnswers == Spec => []OneSlave
<1>1. ChainInv => OneSlave
  BY ClaimsAtMostOne DEF ChainInv, OneSlave
<1> QED BY <1>1, ChainInvariant, PTL

(* MemoryPlaced: between two cycles the bitmap is, slot for slot, what     *)
(* Kickstart has been told is memory (fastmem_zii.v:204-260).              *)
THEOREM PoolIsMemory == Spec => []MemoryPlaced
<1>1. ChainInv => MemoryPlaced
  BY DEF ChainInv, MemoryPlaced, Told, MemoryDue
<1> QED BY <1>1, ChainInvariant, PTL

(* TurbomemReads: a read of the window latches the word at its address     *)
(* (turbomem_zii.v:330-413).                                               *)
THEOREM RomReads == Spec => []TurbomemReads
<1>1. ChainInv => TurbomemReads
  BY Zenon DEF ChainInv, TurbomemReads, ReadAhead, Word
<1> QED BY <1>1, ChainInvariant, PTL

----------------------------------------------------------------------------
(* Without stray keys a word with the key goes to the register only.       *)
Keyed ==
  s \in {"S4", "S5", "S6"} /\ ~rw => STRAY_KEYS \/ tm_win \/ d \div 256 # MAPROM_KEY

LEMMA KeyedKept ==
  ASSUME ChainInv, ChainInv', Keyed, Clock
  PROVE  Keyed'
<1> SUFFICES ASSUME s' \in {"S4", "S5", "S6"}, ~rw'
             PROVE  STRAY_KEYS \/ tm_win' \/ d' \div 256 # MAPROM_KEY
  BY DEF Keyed, MAPROM_KEY
<1>0. ChainTypeOK /\ ChainTypeOK' /\ ZorroBusTypeOK /\ CorePhases /\ CorePhases'
  BY DEF ChainInv, ChainTypeOK
<1>1. ~as_n'
  BY <1>0 DEF CorePhases
<1>2. s \in {"S2", "S4", "S5"} /\ rw' = rw /\ (s \in {"S4", "S5"} => d' = d)
  BY <1>0, <1>1, InsideCycle
<1>3. tm_win' = tm_win
  BY <1>1, DecodesKept DEF ChainInv
<1>4. CASE s = "S2"
  <2>1. PICK word \in Data : Drive(word)
    BY <1>4, DriveAtS2
  <2>2. d' = word /\ Sensible(word)
    BY <1>2, <2>1 DEF Drive, CoreDrive
  <2>3. STRAY_KEYS \/ tm_win \/ word \div 256 # MAPROM_KEY
    BY <2>2 DEF Sensible
  <2> QED BY <1>3, <2>2, <2>3
<1>5. CASE s \in {"S4", "S5"}
  BY <1>2, <1>3, <1>5 DEF Keyed
<1> QED BY <1>2, <1>4, <1>5

LEMMA ClaimsKept ==
  ASSUME ~STRAY_KEYS, ChainInv, ChainInv', Keyed, Clock, ~as_n, ~as_n'
  PROVE  Claims' = Claims
<1>0. ChainTypeOK /\ ZorroBusTypeOK /\ CorePhases /\ Flags \subseteq BOOLEAN
  BY FlagsTyped DEF ChainInv, ChainTypeOK
<1>1. s # "S1" /\ s \in {"S2", "S4", "S5"} /\ a' = a /\ rw' = rw
  BY <1>0, InsideCycle DEF CorePhases
<1>2. fm_answers' = fm_answers /\ tm_answers' = tm_answers /\ sd_answers' = sd_answers
  BY <1>0, <1>1, WritesSteady
<1>3. owns' = owns /\ tm_win' = tm_win /\ sd_hit' = sd_hit
  BY DecodesKept DEF ChainInv
<1>4. /\ owns_r = owns /\ cpu_win_r = cpu_win(a) /\ mr_win_r = mr_win(a)
      /\ rom_win_r = tm_win /\ sd_hit_r = sd_hit
  BY DEF ChainInv, DecodesTrue
<1>5. /\ owns_r' = owns' /\ cpu_win_r' = cpu_win(a)' /\ mr_win_r' = mr_win(a)'
      /\ rom_win_r' = tm_win' /\ sd_hit_r' = sd_hit'
  BY DEF ChainInv, DecodesTrue
<1>6. cpu_win(a)' = cpu_win(a) /\ mr_win(a)' = mr_win(a)
  BY <1>1 DEF cpu_win, mr_win, mr_boot, mr_ext
<1>7. /\ owns_r' = owns_r /\ cpu_win_r' = cpu_win_r /\ mr_win_r' = mr_win_r
      /\ rom_win_r' = rom_win_r /\ sd_hit_r' = sd_hit_r
  BY <1>3, <1>4, <1>5, <1>6, Zenon
<1>8. mr_win_r => mr_ctrl' = mr_ctrl
  <2> SUFFICES ASSUME mr_win_r, mr_ctrl' # mr_ctrl PROVE FALSE
    OBVIOUS
  <2>1. ctrl_wr /\ d \div 256 = MAPROM_KEY
    BY ClockIs, Zenon DEF Boards, TurbomemClock, Control
  <2>2. ~ds_n /\ ~rw
    BY <2>1, Zenon DEF ctrl_wr
  <2>3. s \in {"S4", "S5", "S6"}
    BY <1>0, <1>1, <2>2 DEF CorePhases, Flags
  <2>4. tm_win
    BY <2>1, <2>2, <2>3 DEF Keyed
  <2>5. a.hi = 0 /\ a.page \in IoPage
    BY <2>4, Zenon DEF tm_win, ChainInv, Placed
  <2>6. ~mr_win(a)
    <3>1. a.page \in 232..239
      BY <1>0, <2>5, Disjoint
    <3> QED BY <1>0, <2>5, <3>1, Disjoint
  <2> QED BY <1>4, <2>6
<1>9. /\ fm_memory <=> \/ owns_r \/ cpu_win_r
                       \/ mr_win_r /\ IF rw THEN "active" \in mr_ctrl ELSE "load" \in mr_ctrl
      /\ tm_space <=> rom_win_r
      /\ sd_space <=> sd_hit_r
  BY Zenon DEF fm_memory, fm_space, tm_space, sd_space
<1>10. /\ fm_memory' <=> \/ owns_r' \/ cpu_win_r'
                         \/ mr_win_r' /\ IF rw' THEN "active" \in mr_ctrl' ELSE "load" \in mr_ctrl'
       /\ tm_space' <=> rom_win_r'
       /\ sd_space' <=> sd_hit_r'
  BY Zenon DEF fm_memory, fm_space, tm_space, sd_space
<1>11. fm_memory' <=> fm_memory
  <2>1. CASE mr_win_r
    <3>1. mr_ctrl' = mr_ctrl
      BY <1>8, <2>1
    <3> QED BY <1>1, <1>7, <1>9, <1>10, <3>1, Zenon
  <2>2. CASE ~mr_win_r
    BY <1>7, <1>9, <1>10, <2>2, Zenon
  <2> QED BY <2>1, <2>2
<1>12. (tm_space' <=> tm_space) /\ (sd_space' <=> sd_space)
  BY <1>7, <1>9, <1>10, Zenon
<1> QED BY <1>2, <1>11, <1>12, Zenon DEF Claims

(* ClaimSteady: who answers a cycle answers it to its end, as long as no   *)
(* program writes a key to memory that looks like the register             *)
(* (fastmem_zii.v:166-169, 358-376).                                       *)
THEOREM ClaimsSteady == ~STRAY_KEYS => (Spec => ClaimSteady)
<1> SUFFICES ASSUME ~STRAY_KEYS PROVE Spec => ClaimSteady
  OBVIOUS
<1>1. Init => Keyed
  BY DEF Init, BusInit, Keyed
<1>2. ChainInv /\ ChainInv' /\ Keyed /\ [Next]_vars => Keyed'
  <2> SUFFICES ASSUME ChainInv, ChainInv', Keyed, [Next]_vars PROVE Keyed'
    OBVIOUS
  <2>1. CASE Clock
    BY <2>1, KeyedKept
  <2>2. CASE Reset
    BY <2>2 DEF Reset, CoreReset, Keyed
  <2>3. CASE UNCHANGED vars
    BY <2>3 DEF Keyed, vars, busVars, tmVars, tm_win, MAPROM_KEY
  <2> QED BY <2>1, <2>2, <2>3 DEF Next
<1>3. ChainInv /\ ChainInv' /\ Keyed /\ [Next]_vars
        => [~as_n /\ ~as_n' => Claims' = Claims]_vars
  <2> SUFFICES ASSUME ChainInv, ChainInv', Keyed, Next, ~as_n, ~as_n'
               PROVE  Claims' = Claims
    OBVIOUS
  <2>1. CASE Clock
    BY <2>1, ClaimsKept
  <2>2. CASE Reset
    BY <2>2 DEF Reset, CoreReset
  <2> QED BY <2>1, <2>2 DEF Next
<1> QED BY <1>1, <1>2, <1>3, ChainInvariant, PTL DEF Spec, ClaimSteady

(* In every reachable state the addresses of the program that fast RAM     *)
(* answers have SDRAM words of their own.                                  *)
THEOREM WordsKeptApart == Spec => []NoAliases
<1>1. ChainInv => NoAliases
  <2> SUFFICES ASSUME addr_match \in SUBSET (0..7)
               PROVE  Injective(addr_match, Address)
    BY DEF ChainInv, ChainTypeOK, FastmemConfigTypeOK, NoAliases
  <2>1. Injective(addr_match, Addresses)
    BY WordsInjective
  <2>2. \A x \in Address : x \in Addresses
    BY AddressAssumption
  <2> QED BY <2>1, <2>2, Zenon DEF Injective
<1> QED BY <1>1, ChainInvariant, PTL

=============================================================================
