--------------------------- MODULE SpiCardProofs ---------------------------
(***************************************************************************)
(* AddressedRight of SpiCard, and that the driver is a store of sectors,   *)
(* for every number of tries, every card, every time it takes to come up   *)
(* or to write, and every number of commands and blocks lost or refused.   *)
(*                                                                         *)
(* The argument goes along spi_init: where the driver is says what kind of *)
(* card has answered and, as long as CMD8 and CMD58 are heeded, how far it *)
(* has come.  The one place where a card becomes ready and the driver      *)
(* still takes it for one of sectors is CMD58, which asks it; a card that  *)
(* has not become ready by the last try never does.                        *)
(***************************************************************************)
EXTENDS SpiCard, TLAPS

Initialising == {"off", "reset", "CMD8", "CMD1", "CMD55", "CMD41", "CMD58", "CMD16", "CMD9"}
Reading == {"readcmd", "token"}
Writing == {"writecmd", "data", "wait"}
Places == Initialising \cup Reading \cup Writing \cup {"idle"}

AnyCard == [kind : Kinds, mode : {"native", "idle", "ready"}, sleep : 0..MaxSleep,
            left : 0..MaxLeft, selected : BOOLEAN, heard : {"none", "read", "write"},
            sector : Nat, busy : 0..MaxBusy]

Typed ==
  /\ card \in AnyCard /\ mem \in [Sectors -> Values]
  /\ drv \in [at : Places, i : Nat, j : Nat, is_sdhc : BOOLEAN]
  /\ drv.at \in Reading \cup Writing => ask \in Calls
  /\ drv.at \notin Reading \cup Writing => ask = NoAsk
  /\ faults \in 0..MaxFaults /\ fate \in {"due", "late", "refused", "stored"}
  /\ slow \in BOOLEAN

(* No CMD8 and no CMD58 has been lost or refused.                          *)
Heeded == missed \cap {"CMD8", "CMD58"} = {}

(* Nothing has been written yet, and the card is listening.                *)
Quiet ==
  /\ drv.at \in Initialising => card.busy = 0
  /\ drv.at \in Initialising \ {"off"} => card.selected

(* Tries are left wherever one is about to be used.                        *)
TriesLeft ==
  /\ drv.at \in {"reset", "CMD1", "CMD55", "CMD41"} => drv.i # 0
  /\ drv.at \in {"CMD55", "CMD41", "CMD58"} => drv.j # 0

(* How far the card has come, and what is known of its kind.               *)
CameUp ==
  /\ drv.at \in {"off", "reset"} => card.mode = "native"
  /\ drv.at \in {"reset", "CMD8", "CMD55", "CMD41", "CMD58"} => drv.is_sdhc = TRUE
  /\ drv.at \in {"CMD8", "CMD1", "CMD55", "CMD41"} => card.kind # "none"
  /\ drv.at = "CMD8" => card.mode = "idle"
  /\ drv.at \in {"CMD1", "CMD55", "CMD41"} => (Heeded => card.mode = "idle")
  /\ drv.at = "CMD1" => (Heeded => card.kind = "v1")
  /\ drv.at \in {"CMD55", "CMD41", "CMD58"} => card.kind \in {"v2", "hc"}

(* From the moment the capacity is known.                                  *)
Known ==
  (Heeded /\ drv.at \notin {"off", "reset", "CMD8", "CMD1", "CMD55", "CMD41", "CMD58"}) =>
    (card.mode = "ready" => (drv.is_sdhc = TRUE <=> card.kind = "hc"))

CardInv == Typed /\ Quiet /\ TriesLeft /\ CameUp /\ Known

-----------------------------------------------------------------------------
(* The commands of spi_init.  One that is lost changes nothing, and none   *)
(* of the answers the driver waits for comes.                              *)
InitCommands == {"CMD0", "CMD8", "CMD1", "CMD41", "CMD55", "CMD16", "CMD58"}

LEMMA Heard ==
  ASSUME Typed, NEW cmd, NEW arg, NEW r, cmd_write(cmd, arg, r)
  PROVE  /\ \/ /\ r = Responds(card, cmd, arg)[1] /\ card' = Responds(card, cmd, arg)[2]
               /\ missed' = missed
            \/ r \in {4, 255} /\ card' = card /\ cmd \in missed'
         /\ faults' \in 0..MaxFaults /\ (Heeded' => Heeded)
         /\ (Heeded' /\ cmd \in {"CMD8", "CMD58"}) =>
              r = Responds(card, cmd, arg)[1] /\ card' = Responds(card, cmd, arg)[2]
<1>1. CASE r = Responds(card, cmd, arg)[1] /\ card' = Responds(card, cmd, arg)[2]
           /\ UNCHANGED <<faults, missed>>
  BY <1>1 DEF Typed, Heeded
<1>2. CASE /\ MayFail /\ faults' = faults + 1 /\ missed' = missed \cup {cmd}
           /\ r \in {4, 255} /\ UNCHANGED card
  <2>1. faults' \in 0..MaxFaults
    BY <1>2, CardAssumption DEF MayFail, Typed
  <2> QED BY <1>2, <2>1 DEF Heeded
<1> QED BY <1>1, <1>2 DEF cmd_write

LEMMA Answered ==
  ASSUME Typed, Quiet, drv.at \in Initialising \ {"off"},
         NEW cmd \in InitCommands,
         NEW arg, NEW r \in Replies, cmd_write(cmd, arg, r)
  PROVE  /\ card' \in AnyCard /\ card'.kind = card.kind /\ card'.busy = 0 /\ card'.selected
         /\ card.kind = "none" => card' = card
         /\ faults' \in 0..MaxFaults /\ (Heeded' => Heeded)
<1>1. faults' \in 0..MaxFaults /\ (Heeded' => Heeded)
  BY Heard
<1>3. card.busy = 0 /\ card.selected /\ card \in AnyCard
  BY DEF Quiet, Typed
<1> SUFFICES ASSUME card' # card
             PROVE  /\ card' \in AnyCard /\ card'.kind = card.kind /\ card'.busy = 0
                    /\ card'.selected /\ card.kind # "none"
  BY <1>1, <1>3
<1>2. r = Responds(card, cmd, arg)[1] /\ card' = Responds(card, cmd, arg)[2]
  BY Heard
<1>4. CASE card.kind = "none"
  BY <1>2, <1>3, <1>4 DEF Responds
<1>5. CASE card.kind # "none"
  <2>1. CASE cmd = "CMD0"
    <3>1. r = Wakes(card)[1] /\ card' = Wakes(card)[2]
      BY <1>2, <1>3, <1>5, <2>1 DEF Responds, AnyCard
    <3>2. CASE card.sleep > 0
      <4>1. card' = [card EXCEPT !.sleep = card.sleep - 1] /\ card.sleep - 1 \in 0..MaxSleep
        BY <1>3, <3>1, <3>2, CardAssumption DEF Wakes, AnyCard
      <4> QED BY <1>2, <1>3, <4>1, <1>5 DEF AnyCard
    <3>3. CASE ~(card.sleep > 0)
      BY <1>2, <1>3, <1>5, <3>1, <3>3 DEF Wakes, AnyCard
    <3> QED BY <3>2, <3>3
  <2>2. CASE cmd = "CMD1" \/ cmd = "CMD41"
    <3>1. r = InitAnswer(card)[1] /\ card' = InitAnswer(card)[2]
      BY <1>2, <1>3, <1>5, <2>2 DEF Responds, AnyCard
    <3>2. CASE card.left > 0
      <4>1. card' = [card EXCEPT !.left = card.left - 1] /\ card.left - 1 \in 0..MaxLeft
        BY <1>3, <3>1, <3>2, CardAssumption DEF InitAnswer, AnyCard
      <4> QED BY <1>2, <1>3, <4>1, <1>5 DEF AnyCard
    <3>3. CASE ~(card.left > 0)
      BY <1>2, <1>3, <1>5, <3>1, <3>3 DEF InitAnswer, AnyCard
    <3> QED BY <3>2, <3>3
  <2>3. CASE cmd \in {"CMD8", "CMD55", "CMD16", "CMD58"}
    BY <1>2, <1>3, <1>5, <2>3 DEF Responds, AnyCard
  <2> QED BY <1>2, <1>5, <2>1, <2>2, <2>3 DEF InitCommands
<1> QED BY <1>4, <1>5

(* No block is asked for, and none written.                                *)
LEMMA SpeaksOnly ==
  ASSUME CardInv, drv.at \in Initialising \ {"off"}, card.heard = "none",
         NEW cmd \in InitCommands, NEW arg, NEW r \in Replies, cmd_write(cmd, arg, r)
  PROVE  card'.heard = "none" /\ card'.busy = 0
<1>1. (card' = Responds(card, cmd, arg)[2] \/ card' = card) /\ Typed /\ Quiet
  BY Heard DEF CardInv
<1>2. card'.busy = 0
  BY <1>1, Answered
<1>3. card' = card \/ card' = Wakes(card)[2] \/ card' = InitAnswer(card)[2]
  BY <1>1 DEF Responds, InitCommands
<1>4. \A c \in AnyCard : Wakes(c)[2].heard = c.heard /\ InitAnswer(c)[2].heard = c.heard
  BY DEF Wakes, InitAnswer, AnyCard
<1> QED BY <1>1, <1>2, <1>3, <1>4 DEF Typed

(* What Answered says of each command.                                     *)
LEMMA Cmd0 ==
  ASSUME Typed, Quiet, drv.at \in Initialising \ {"off"},
         NEW cmd \in InitCommands, NEW r \in Replies, cmd_write(cmd, 0, r)
  PROVE  cmd = "CMD0" =>
           /\ r = 1 => card'.mode = "idle" /\ card.kind # "none"
           /\ r # 1 => card'.mode = card.mode
<1> SUFFICES ASSUME ~(r \in {4, 255} /\ card' = card)
             PROVE  cmd = "CMD0" =>
                      /\ r = 1 => card'.mode = "idle" /\ card.kind # "none"
                      /\ r # 1 => card'.mode = card.mode
  OBVIOUS
<1>1. r = Responds(card, cmd, 0)[1] /\ card' = Responds(card, cmd, 0)[2]
  BY Heard
<1>2. CASE card.kind = "none"
  <2>1. r = 255 /\ card' = card
    BY <1>1, <1>2 DEF Responds
  <2> QED BY <2>1
<1>3. CASE card.kind # "none"
  BY <1>1, <1>3 DEF Responds, Wakes, Typed, AnyCard, Quiet, Initialising
<1> QED BY <1>2, <1>3

LEMMA Unmoved ==
  ASSUME Typed, Quiet, drv.at \in Initialising \ {"off"}, card.kind # "none",
         NEW cmd \in {"CMD8", "CMD55", "CMD16", "CMD58"}, NEW arg, NEW r \in Replies,
         cmd_write(cmd, arg, r)
  PROVE  /\ card' = card
         /\ cmd = "CMD8" => (r = 1 => card.kind # "v1")
         /\ Heeded' => /\ cmd = "CMD8" => (r = 1 <=> card.kind # "v1")
                       /\ cmd = "CMD58" => r = 0
<1>1. card.selected /\ ~(card.busy > 0)
  BY DEF Quiet, Initialising
<1>2. CASE r = Responds(card, cmd, arg)[1] /\ card' = Responds(card, cmd, arg)[2]
  BY <1>1, <1>2 DEF Responds
<1>3. CASE r \in {4, 255} /\ card' = card /\ cmd \in missed'
  BY <1>3 DEF Heeded
<1> QED BY <1>2, <1>3, Heard

LEMMA ComesUp ==
  ASSUME Typed, Quiet, drv.at \in Initialising \ {"off"}, card.kind # "none",
         card.mode = "idle",
         NEW cmd \in {"CMD1", "CMD41"}, NEW r \in Replies, cmd_write(cmd, 0, r)
  PROVE  IF r = 0 THEN card'.mode = "ready" ELSE card'.mode = "idle"
<1>1. CASE r = Responds(card, cmd, 0)[1] /\ card' = Responds(card, cmd, 0)[2]
  BY <1>1 DEF Responds, InitAnswer, Quiet, Typed, AnyCard
<1>2. CASE r \in {4, 255} /\ card' = card
  BY <1>2
<1> QED BY <1>1, <1>2, Heard

-----------------------------------------------------------------------------
(* spi_init.                                                               *)

LEMMA ResetKeeps == ASSUME CardInv, Reset PROVE CardInv'
<1>1. PICK r \in Replies :
        /\ cmd_write("CMD0", 0, r)
        /\ IF r = 1 THEN Go("CMD8")
           ELSE Retry(drv.i - 1, IF drv.i = 1 THEN "idle" ELSE "reset")
  BY DEF Reset
<1>2. drv.at = "reset" /\ Typed /\ Quiet /\ UNCHANGED <<mem, ask, answer, fate, slow>>
  BY DEF Reset, At, Same, CardInv
<1>3. card' \in AnyCard /\ card'.kind = card.kind /\ card'.busy = 0 /\ card'.selected
      /\ faults' \in 0..MaxFaults /\ (Heeded' => Heeded)
  BY <1>1, <1>2, Answered DEF Initialising, InitCommands
<1>4. CASE r = 1
  <2>1. drv' = [drv EXCEPT !.at = "CMD8"] /\ card'.mode = "idle" /\ card'.kind # "none"
    BY <1>1, <1>2, <1>3, <1>4, Cmd0 DEF Initialising, InitCommands, Go
  <2> QED BY <1>2, <1>3, <2>1 DEF CardInv, Typed, Quiet, TriesLeft, CameUp, Known,
                                  Places, Initialising, Reading, Writing
<1>5. CASE r # 1
  <2>1. /\ drv' = [drv EXCEPT !.i = drv.i - 1, !.at = IF drv.i = 1 THEN "idle" ELSE "reset"]
        /\ card'.mode = "native"
    BY <1>1, <1>2, <1>5, Cmd0 DEF Initialising, InitCommands, Retry, CardInv, CameUp
  <2>2. drv.i \in Nat \ {0}
    BY <1>2 DEF CardInv, TriesLeft, Typed
  <2>3. CASE drv.i = 1
    <3>1. drv' = [drv EXCEPT !.i = 0, !.at = "idle"]
      BY <2>1, <2>3
    <3>2. card'.mode = "native"
      BY <2>1
    <3> HIDE <2>1
    <3> QED BY <1>2, <1>3, <3>1, <3>2 DEF CardInv, Typed, Quiet, TriesLeft, CameUp, Known,
                                  Places, Initialising, Reading, Writing
  <2>4. CASE drv.i # 1
    <3>1. drv' = [drv EXCEPT !.i = drv.i - 1, !.at = "reset"] /\ drv.i - 1 \in Nat \ {0}
      BY <2>1, <2>2, <2>4
    <3> QED BY <1>2, <1>3, <2>1, <3>1 DEF CardInv, Typed, Quiet, TriesLeft, CameUp, Known,
                                          Places, Initialising, Reading, Writing
  <2> QED BY <2>3, <2>4
<1> QED BY <1>4, <1>5

LEMMA InterfaceKeeps == ASSUME CardInv, Interface PROVE CardInv'
<1>1. PICK r \in Replies :
        /\ cmd_write("CMD8", 0, r)
        /\ drv' = IF r = 1 THEN [drv EXCEPT !.at = "CMD55", !.i = INITV2_TRIES, !.j = SDHC_TRIES]
                  ELSE [drv EXCEPT !.at = "CMD1", !.i = INIT_TRIES]
  BY DEF Interface
<1>2. /\ drv.at = "CMD8" /\ Typed /\ Quiet /\ UNCHANGED <<mem, ask, answer, fate, slow>>
      /\ card.mode = "idle" /\ card.kind # "none" /\ drv.is_sdhc = TRUE
  BY DEF Interface, At, Same, CardInv, CameUp
<1>3. card' = card /\ faults' \in 0..MaxFaults /\ (Heeded' => Heeded)
      /\ (r = 1 => card.kind # "v1") /\ (Heeded' => (r = 1 <=> card.kind # "v1"))
  BY <1>1, <1>2, Answered, Unmoved DEF Initialising, InitCommands
<1>4. card.kind \in {"v1", "v2", "hc"}
  BY <1>2 DEF Typed, AnyCard, Kinds
<1> QED BY <1>1, <1>2, <1>3, <1>4, CardAssumption
        DEF CardInv, Typed, Quiet, TriesLeft, CameUp, Known, Places, Initialising, Reading, Writing

LEMMA WaitInitKeeps == ASSUME CardInv, WaitInit PROVE CardInv'
<1>1. PICK r \in Replies :
        /\ cmd_write("CMD1", 0, r)
        /\ IF r = 0 \/ drv.i = 1 THEN Small ELSE Retry(drv.i - 1, "CMD1")
  BY DEF WaitInit
<1>2. /\ drv.at = "CMD1" /\ Typed /\ Quiet /\ UNCHANGED <<mem, ask, answer, fate, slow>>
      /\ card.kind # "none" /\ (Heeded => card.mode = "idle" /\ card.kind = "v1")
      /\ drv.i \in Nat \ {0}
  BY DEF WaitInit, At, Same, CardInv, CameUp, TriesLeft, Typed
<1>3. /\ card' \in AnyCard /\ card'.kind = card.kind /\ card'.busy = 0 /\ card'.selected
      /\ faults' \in 0..MaxFaults /\ (Heeded' => Heeded)
      /\ r # 0 => (Heeded => card'.mode = "idle")
  BY <1>1, <1>2, Answered, ComesUp DEF Initialising, InitCommands
<1>4. \/ drv' = [drv EXCEPT !.at = "CMD16", !.is_sdhc = FALSE]
      \/ drv' = [drv EXCEPT !.i = drv.i - 1, !.at = "CMD1"] /\ r # 0 /\ drv.i - 1 \in Nat \ {0}
  BY <1>1, <1>2 DEF Small, Retry
<1> QED BY <1>2, <1>3, <1>4
        DEF CardInv, Typed, Quiet, TriesLeft, CameUp, Known, Places, Initialising, Reading, Writing

(* Where wait_initV2 may go on: another try, another round, or giving up   *)
(* on a card that has not become ready.                                    *)
LEMMA TriesAgain ==
  ASSUME CardInv, drv.at \in {"CMD55", "CMD41"}, OnceMore,
         card' \in AnyCard, card'.kind = card.kind, card'.busy = 0, card'.selected,
         Heeded' => Heeded /\ card'.mode = "idle", faults' \in 0..MaxFaults,
         UNCHANGED <<mem, ask, answer, fate, slow>>
  PROVE  CardInv'
<1>1. drv.i \in Nat \ {0} /\ drv.j \in Nat \ {0} /\ card.kind \in {"v2", "hc"}
  BY DEF CardInv, Typed, TriesLeft, CameUp
<1>2. \/ drv' = [drv EXCEPT !.at = "CMD16", !.is_sdhc = FALSE]
      \/ drv' = [drv EXCEPT !.at = "CMD55", !.i = INITV2_TRIES, !.j = drv.j - 1] /\ drv.j # 1
      \/ drv' = [drv EXCEPT !.i = drv.i - 1, !.at = "CMD55"] /\ drv.i # 1
  BY DEF OnceMore, Again, Small, Retry
<1>3. drv.is_sdhc = TRUE
  BY DEF CardInv, CameUp
<1>4. CASE drv' = [drv EXCEPT !.at = "CMD16", !.is_sdhc = FALSE]
  BY <1>1, <1>3, <1>4
  DEF CardInv, Typed, Quiet, TriesLeft, CameUp, Known, Places, Initialising, Reading, Writing
<1>5. CASE drv' = [drv EXCEPT !.at = "CMD55", !.i = INITV2_TRIES, !.j = drv.j - 1] /\ drv.j # 1
  <2>1. INITV2_TRIES \in Nat \ {0} /\ drv.j - 1 \in Nat \ {0}
    BY <1>1, <1>5, CardAssumption
  <2> QED BY <1>1, <1>3, <1>5, <2>1
      DEF CardInv, Typed, Quiet, TriesLeft, CameUp, Known, Places, Initialising, Reading, Writing
<1>6. CASE drv' = [drv EXCEPT !.i = drv.i - 1, !.at = "CMD55"] /\ drv.i # 1
  <2>1. drv.i - 1 \in Nat \ {0}
    BY <1>1, <1>6
  <2> QED BY <1>1, <1>3, <1>6, <2>1
      DEF CardInv, Typed, Quiet, TriesLeft, CameUp, Known, Places, Initialising, Reading, Writing
<1> QED BY <1>2, <1>4, <1>5, <1>6

LEMMA PrefixKeeps == ASSUME CardInv, Prefix PROVE CardInv'
<1>1. PICK r \in Replies :
        cmd_write("CMD55", 0, r) /\ IF r = 1 THEN Go("CMD41") ELSE OnceMore
  BY DEF Prefix
<1>2. /\ drv.at = "CMD55" /\ Typed /\ Quiet /\ UNCHANGED <<mem, ask, answer, fate, slow>>
      /\ (Heeded => card.mode = "idle") /\ card.kind # "none" /\ card.busy = 0 /\ card.selected
  BY DEF Prefix, At, Same, CardInv, CameUp, Quiet, Initialising
<1>3. card' = card /\ faults' \in 0..MaxFaults /\ (Heeded' => Heeded)
  BY <1>1, <1>2, Answered, Unmoved DEF Initialising, InitCommands
<1>4. CASE Go("CMD41")
  BY <1>2, <1>3, <1>4
  DEF Go, CardInv, Typed, Quiet, TriesLeft, CameUp, Known, Places, Initialising, Reading, Writing
<1>5. CASE OnceMore
  BY <1>2, <1>3, <1>5, TriesAgain DEF Typed
<1> QED BY <1>1, <1>4, <1>5

LEMMA WaitInitV2Keeps == ASSUME CardInv, WaitInitV2 PROVE CardInv'
<1>1. PICK r \in Replies :
        cmd_write("CMD41", 0, r) /\ IF r = 0 THEN Go("CMD58") ELSE OnceMore
  BY DEF WaitInitV2
<1>2. /\ drv.at = "CMD41" /\ Typed /\ Quiet /\ UNCHANGED <<mem, ask, answer, fate, slow>>
      /\ (Heeded => card.mode = "idle") /\ card.kind # "none"
  BY DEF WaitInitV2, At, Same, CardInv, CameUp
<1>3. /\ card' \in AnyCard /\ card'.kind = card.kind /\ card'.busy = 0 /\ card'.selected
      /\ faults' \in 0..MaxFaults /\ (Heeded' => Heeded)
  BY <1>1, <1>2, Answered DEF Initialising, InitCommands
<1>4. CASE r = 0
  BY <1>1, <1>2, <1>3, <1>4
  DEF Go, CardInv, Typed, Quiet, TriesLeft, CameUp, Known, Places, Initialising, Reading, Writing
<1>5. CASE r # 0
  <2>1. (Heeded' => Heeded /\ card'.mode = "idle") /\ OnceMore
    BY <1>1, <1>2, <1>3, <1>5, ComesUp DEF Initialising, InitCommands
  <2> QED BY <1>2, <1>3, <2>1, TriesAgain
<1> QED BY <1>4, <1>5

LEMMA CapacityKeeps == ASSUME CardInv, Capacity PROVE CardInv'
<1>1. PICK r \in Replies :
        /\ cmd_write("CMD58", 0, r)
        /\ IF r # 0 THEN Again ELSE IF card.kind = "hc" THEN Go("CMD9") ELSE Small
  BY DEF Capacity
<1>2. /\ drv.at = "CMD58" /\ Typed /\ Quiet /\ UNCHANGED <<mem, ask, answer, fate, slow>>
      /\ card.kind \in {"v2", "hc"} /\ drv.is_sdhc = TRUE
  BY DEF Capacity, At, Same, CardInv, CameUp
<1>3. /\ card' = card /\ faults' \in 0..MaxFaults
      /\ Heeded' => Heeded /\ r = 0
  BY <1>1, <1>2, Answered, Unmoved DEF Initialising, InitCommands
<1>4. drv.j \in Nat \ {0}
  BY <1>2 DEF CardInv, TriesLeft, Typed
<1>5. \/ drv' = [drv EXCEPT !.at = "CMD9"] /\ card.kind = "hc"
      \/ drv' = [drv EXCEPT !.at = "CMD16", !.is_sdhc = FALSE] /\ (r = 0 => card.kind # "hc")
      \/ /\ drv' = [drv EXCEPT !.at = "CMD55", !.i = INITV2_TRIES, !.j = drv.j - 1]
         /\ r # 0 /\ drv.j - 1 \in Nat \ {0}
  <2>1. CASE r = 0
    BY <1>1, <2>1 DEF Go, Small
  <2>2. CASE r # 0 /\ drv.j = 1
    BY <1>1, <2>2 DEF Again, Small
  <2>3. CASE r # 0 /\ drv.j # 1
    BY <1>1, <1>4, <2>3 DEF Again
  <2> QED BY <2>1, <2>2, <2>3
<1>6. CASE drv' = [drv EXCEPT !.at = "CMD9"] /\ card.kind = "hc"
  BY <1>2, <1>3, <1>6
  DEF CardInv, Typed, Quiet, TriesLeft, CameUp, Known, Places, Initialising, Reading, Writing
<1>7. CASE drv' = [drv EXCEPT !.at = "CMD16", !.is_sdhc = FALSE] /\ (r = 0 => card.kind # "hc")
  BY <1>2, <1>3, <1>7
  DEF CardInv, Typed, Quiet, TriesLeft, CameUp, Known, Places, Initialising, Reading, Writing
<1>8. CASE /\ drv' = [drv EXCEPT !.at = "CMD55", !.i = INITV2_TRIES, !.j = drv.j - 1]
           /\ r # 0 /\ drv.j - 1 \in Nat \ {0}
  <2>1. INITV2_TRIES \in Nat \ {0} /\ ~Heeded'
    BY <1>3, <1>8, CardAssumption
  <2> QED BY <1>2, <1>3, <1>8, <2>1
      DEF CardInv, Typed, Quiet, TriesLeft, CameUp, Known, Places, Initialising, Reading, Writing
<1> QED BY <1>5, <1>6, <1>7, <1>8

LEMMA BlockSizeKeeps == ASSUME CardInv, BlockSize PROVE CardInv'
<1>1. PICK r \in Replies : cmd_write("CMD16", Address(1), r)
  BY DEF BlockSize
<1>2. drv.at = "CMD16" /\ Typed /\ Quiet /\ Go("CMD9") /\ UNCHANGED <<mem, ask, answer, fate, slow>>
  BY DEF BlockSize, At, Same, CardInv
<1>3. card' = card /\ faults' \in 0..MaxFaults /\ (Heeded' => Heeded)
  <2>1. CASE card.kind = "none"
    BY <1>1, <1>2, <2>1, Answered DEF Initialising, InitCommands
  <2>2. CASE card.kind # "none"
    BY <1>1, <1>2, <2>2, Answered, Unmoved DEF Initialising, InitCommands
  <2> QED BY <2>1, <2>2
<1> QED BY <1>2, <1>3
      
        DEF Go, CardInv, Typed, Quiet, TriesLeft, CameUp, Known, Places, Initialising, Reading,
            Writing

LEMMA BeforeAndAfter ==
  ASSUME CardInv, Insert \/ Start \/ ReadCsd
  PROVE  CardInv'
<1>1. CASE Insert
  <2>1. card' \in Cards
    BY <1>1 DEF Insert
  <2>2. card' \in AnyCard /\ card'.mode = "native" /\ card'.busy = 0
    <3>1. PICK c \in Cards : card' = c
      BY <2>1
    <3>2. c.kind \in Kinds /\ c.mode = "native" /\ c.sleep \in 0..MaxSleep /\ c.left \in 0..MaxLeft
      BY DEF Cards
    <3>3. c.selected \in BOOLEAN /\ c.heard = "none" /\ c.sector = 0 /\ c.busy = 0
      BY DEF Cards
    <3>4. 0 \in 0..MaxBusy /\ 0 \in Nat
      BY CardAssumption
    <3>5. c = [kind |-> c.kind, mode |-> c.mode, sleep |-> c.sleep, left |-> c.left,
               selected |-> c.selected, heard |-> c.heard, sector |-> c.sector, busy |-> c.busy]
      BY DEF Cards
    <3>6. c \in AnyCard
      BY <3>2, <3>3, <3>4, <3>5 DEF AnyCard
    <3> QED BY <3>1, <3>2, <3>3, <3>6
  <2> QED BY <1>1, <2>2
          DEF Heeded, Insert, At, Same, CardInv, Typed, Quiet, TriesLeft, CameUp, Known, Places,
              Initialising, Reading, Writing
<1>2. CASE Start
  BY <1>2, CardAssumption
  DEF Heeded, Start, At, Same, Selected, CardInv, Typed, Quiet, TriesLeft, CameUp, Known, AnyCard,
      Places, Initialising, Reading, Writing
<1>3. CASE ReadCsd
  BY <1>3
  DEF Heeded, ReadCsd, At, Go, Same, Deselected, CardInv, Typed, Quiet, TriesLeft, CameUp, Known,
      AnyCard, Places, Initialising, Reading, Writing
<1> QED BY <1>1, <1>2, <1>3

-----------------------------------------------------------------------------
(* sd_read_sector and sd_write_sector leave the mode and the kind of the   *)
(* card, and is_sdhc, alone; and never go back to spi_init.                *)

LEMMA Kept ==
  ASSUME CardInv, drv.at \notin Initialising, Typed',
         card'.mode = card.mode, card'.kind = card.kind, drv'.is_sdhc = drv.is_sdhc,
         Heeded' => Heeded,
         drv'.at \notin Initialising
  PROVE  CardInv'
BY DEF CardInv, Typed, Quiet, TriesLeft, CameUp, Known, Initialising

LEMMA Transfer ==
  ASSUME Typed, NEW cmd \in {"read", "write"}, NEW arg, NEW r \in Replies,
         arg \in Nat, cmd_write(cmd, arg, r)
  PROVE  /\ card' \in AnyCard /\ card'.mode = card.mode /\ card'.kind = card.kind
         /\ faults' \in 0..MaxFaults /\ (Heeded' => Heeded)
<1>1. CASE card' = card
  BY <1>1, Heard DEF Typed
<1>2. CASE card' = Responds(card, cmd, arg)[2]
  <2>1. CASE card' = card
    BY <1>1, <2>1
  <2>2. CASE card' = Hears(card, cmd, arg)[2] /\ card' # card
    <3>1. PICK s \in Sectors : card' = [card EXCEPT !.heard = cmd, !.sector = s]
      BY <2>2 DEF Hears
    <3>2. s \in Nat
      BY CardAssumption
    <3> QED BY Heard, <3>1, <3>2 DEF Typed, AnyCard
  <2> QED BY <1>1, <1>2, <2>1, <2>2 DEF Responds
<1> QED BY <1>1, <1>2, Heard

LEMMA AddressTyped == ASSUME Typed, NEW lba \in Sectors PROVE Address(lba) \in Nat
BY CardAssumption DEF Address

LEMMA CommandKeeps ==
  ASSUME CardInv, ReadCommand \/ WriteCommand
  PROVE  CardInv'
<1>1. PICK cmd \in {"read", "write"}, r \in Replies :
        /\ cmd_write(cmd, Address(ask.lba), r)
        /\ \/ Return(Failed)
           \/ Go(IF cmd = "read" THEN "token" ELSE "data") /\ UNCHANGED <<ask, answer, fate>>
        /\ drv.at = IF cmd = "read" THEN "readcmd" ELSE "writecmd"
        /\ UNCHANGED <<mem, slow>>
  <2>1. CASE ReadCommand
    BY <2>1 DEF ReadCommand, At
  <2>2. CASE WriteCommand
    BY <2>2 DEF WriteCommand, At
  <2> QED BY <2>1, <2>2
<1>2. Typed /\ drv.at \in {"readcmd", "writecmd"} /\ ask \in Calls
  BY <1>1 DEF CardInv, Typed, Reading, Writing
<1>3. Address(ask.lba) \in Nat
  BY <1>2, AddressTyped DEF Calls
<1>4. card' \in AnyCard /\ card'.mode = card.mode /\ card'.kind = card.kind
      /\ faults' \in 0..MaxFaults /\ (Heeded' => Heeded)
  BY <1>1, <1>2, <1>3, Transfer
<1>5. CASE Return(Failed)
  <2>1. drv' = [drv EXCEPT !.at = "idle"] /\ ask' = NoAsk /\ fate' = "due"
    BY <1>5 DEF Return, Go
  <2>2. Typed'
    BY <1>1, <1>2, <1>4, <2>1 DEF Typed, Places, Initialising, Reading, Writing
  <2> QED BY <1>2, <1>4, <2>1, <2>2, Kept DEF Typed, Initialising
<1>6. CASE Go(IF cmd = "read" THEN "token" ELSE "data") /\ UNCHANGED <<ask, answer, fate>>
  <2>1. PICK s \in {"token", "data"} : drv' = [drv EXCEPT !.at = s]
    BY <1>6 DEF Go
  <2>2. Typed'
    <3>1. /\ drv' \in [at : Places, i : Nat, j : Nat, is_sdhc : BOOLEAN]
          /\ drv'.at \in {"token", "data"}
      <4>1. drv \in [at : Places, i : Nat, j : Nat, is_sdhc : BOOLEAN] /\ s \in Places
        BY <1>2 DEF Typed, Places, Reading, Writing
      <4> QED BY <2>1, <4>1
    <3>2. UNCHANGED <<mem, ask, fate, slow>>
      BY <1>1, <1>6
    <3> QED BY <1>2, <1>4, <3>1, <3>2 DEF Typed, Reading, Writing
  <2> QED BY <1>2, <1>4, <2>1, <2>2, Kept DEF Typed, Initialising
<1> QED BY <1>1, <1>5, <1>6

LEMMA BlockKeeps == ASSUME CardInv, ReadBlock \/ WriteBlock PROVE CardInv'
<1>1. CASE ReadBlock
  <2>1. /\ drv.at = "token" /\ drv' = [drv EXCEPT !.at = "idle"] /\ ask' = NoAsk
        /\ fate' = "due" /\ slow' = slow /\ (Heeded' => Heeded)
        /\ card' = [card EXCEPT !.selected = FALSE, !.heard = "none"] /\ mem' = mem
    BY <1>1 DEF ReadBlock, At, Return, Go, Deselected, Heeded
  <2>2. faults' \in 0..MaxFaults
    BY <1>1, CardAssumption DEF ReadBlock, MayFail, CardInv, Typed
  <2>3. Typed'
    BY <2>1, <2>2 DEF CardInv, Typed, AnyCard, Places, Initialising, Reading, Writing
  <2> QED BY <2>1, <2>3, Kept DEF CardInv, Typed, AnyCard, Initialising
<1>2. CASE WriteBlock
  <2>1. drv.at = "data" /\ ask \in Calls /\ UNCHANGED ask /\ (Heeded' => Heeded)
    BY <1>2 DEF WriteBlock, At, CardInv, Typed, Writing, Heeded
  <2>6. /\ faults' \in 0..MaxFaults /\ fate' \in {"due", "late", "refused", "stored"}
        /\ slow' \in BOOLEAN
    <3>1. faults \in 0..MaxFaults /\ (faults' = faults \/ (MayFail /\ faults' = faults + 1))
      BY <1>2 DEF WriteBlock, CardInv, Typed
    <3>2. faults' \in 0..MaxFaults
      BY <3>1, CardAssumption DEF MayFail
    <3>3. fate' \in {"stored", "refused", fate}
      BY <1>2 DEF WriteBlock
    <3>4. slow' \in BOOLEAN
      <4>1. slow \in BOOLEAN
        BY DEF CardInv, Typed
      <4>2. slow' = slow \/ \E n \in 0..MaxBusy : slow' = (n > BUSY_POLLS)
        BY <1>2, Zenon DEF WriteBlock
      <4>3. \A n : (n > BUSY_POLLS) \in BOOLEAN
        OBVIOUS
      <4> QED BY <4>1, <4>2, <4>3, Zenon
    <3> QED BY <3>2, <3>3, <3>4 DEF CardInv, Typed
  <2>2. drv' = [drv EXCEPT !.i = BUSY_POLLS, !.at = "wait"]
    BY <1>2 DEF WriteBlock, Retry
  <2>3. card' \in AnyCard /\ card'.mode = card.mode /\ card'.kind = card.kind
    <3>1. CASE card' = card
      BY <3>1 DEF CardInv, Typed
    <3>2. CASE \E n \in 0..MaxBusy : card' = [card EXCEPT !.heard = "none", !.busy = n]
      BY <3>2 DEF CardInv, Typed, AnyCard
    <3>3. CASE card' = [card EXCEPT !.heard = "none"]
      BY <3>3 DEF CardInv, Typed, AnyCard
    <3> QED BY <1>2, <3>1, <3>2, <3>3 DEF WriteBlock
  <2>4. mem' \in [Sectors -> Values]
    <3>1. ask.v \in Values /\ mem \in [Sectors -> Values]
      BY <2>1 DEF Calls, CardInv, Typed
    <3> QED BY <1>2, <3>1 DEF WriteBlock
  <2>5. Typed'
    BY <2>1, <2>2, <2>3, <2>4, <2>6, CardAssumption
    DEF CardInv, Typed, Places, Initialising, Reading, Writing
  <2> QED BY <2>1, <2>2, <2>3, <2>5, Kept DEF CardInv, Typed, Initialising
<1> QED BY <1>1, <1>2

LEMMA WaitKeeps == ASSUME CardInv, WaitWritten PROVE CardInv'
<1>1. drv.at = "wait" /\ ask \in Calls /\ UNCHANGED <<mem, faults, slow>> /\ card \in AnyCard
      /\ (Heeded' => Heeded)
  BY DEF WaitWritten, At, CardInv, Typed, Writing, Heeded
<1>2. CASE card.busy > 0 /\ drv.i > 1
  <2>1. /\ drv' = [drv EXCEPT !.i = drv.i - 1, !.at = "wait"] /\ UNCHANGED <<ask, fate>>
        /\ card' = [card EXCEPT !.busy = card.busy - 1]
    BY <1>2 DEF WaitWritten, Retry
  <2>2. drv.i - 1 \in Nat /\ card.busy - 1 \in 0..MaxBusy
    BY <1>1, <1>2, CardAssumption DEF CardInv, Typed, AnyCard
  <2>3. Typed'
    BY <1>1, <2>1, <2>2 DEF CardInv, Typed, AnyCard, Places, Initialising, Reading, Writing
  <2> QED BY <1>1, <2>1, <2>3, Kept DEF CardInv, Typed, AnyCard, Initialising
<1>3. CASE ~(card.busy > 0 /\ drv.i > 1)
  <2>1. PICK n \in 0..MaxBusy :
          card' = [card EXCEPT !.selected = FALSE, !.heard = "none", !.busy = n]
    <3> DEFINE n == IF card.busy > 0 THEN card.busy - 1 ELSE 0
    <3>1. n \in 0..MaxBusy
      BY <1>1, CardAssumption DEF AnyCard
    <3>2. card' = Deselected([card EXCEPT !.busy = n])
      BY <1>3 DEF WaitWritten
    <3> HIDE DEF n
    <3> QED BY <1>1, <3>1, <3>2 DEF Deselected, AnyCard
  <2>2. drv' = [drv EXCEPT !.at = "idle"] /\ ask' = NoAsk /\ fate' = "due"
    BY <1>3 DEF WaitWritten, Return, Go
  <2>3. Typed'
    BY <1>1, <2>1, <2>2 DEF CardInv, Typed, AnyCard, Places, Initialising, Reading, Writing
  <2> QED BY <1>1, <2>1, <2>2, <2>3, Kept DEF CardInv, Typed, AnyCard, Initialising
<1> QED BY <1>2, <1>3

LEMMA CallKeeps == ASSUME CardInv, Call PROVE CardInv'
<1>1. /\ drv.at = "idle" /\ ask' \in Calls /\ UNCHANGED <<mem, faults, slow>>
      /\ card' = [card EXCEPT !.selected = TRUE] /\ fate' \in {"due", "late"}
      /\ (Heeded' => Heeded)
  BY DEF Call, At, Selected, Heeded
<1>2. PICK s \in {"readcmd", "writecmd"} : drv' = [drv EXCEPT !.at = s]
  BY DEF Call, Go
<1>3. Typed'
  BY <1>1, <1>2 DEF CardInv, Typed, AnyCard, Places, Initialising, Reading, Writing
<1> QED BY <1>1, <1>2, <1>3, Kept DEF CardInv, Typed, AnyCard, Initialising

LEMMA CardFinishesKeeps == ASSUME CardInv, CardFinishes PROVE CardInv'
<1>1. /\ card' = [card EXCEPT !.busy = card.busy - 1]
      /\ UNCHANGED <<mem, drv, ask, answer, faults, fate, slow>>
      /\ card \in AnyCard /\ card.busy > 0 /\ (Heeded' => Heeded)
  BY DEF CardFinishes, CardInv, Typed, Heeded
<1>2. card.busy - 1 \in 0..MaxBusy
  BY <1>1, CardAssumption DEF AnyCard
<1>3. Typed'
  BY <1>1, <1>2 DEF CardInv, Typed, AnyCard
<1>4. drv.at \notin Initialising
  BY <1>1 DEF CardInv, Quiet
<1> QED BY <1>1, <1>3, <1>4, Kept DEF AnyCard

-----------------------------------------------------------------------------
LEMMA Initially == Init => CardInv
<1> SUFFICES ASSUME Init PROVE CardInv
  OBVIOUS
<1>1. PICK c \in Cards : card = c /\ c.kind = "none" /\ c.sleep = 0 /\ c.left = 0
  BY DEF Init
<1>2. /\ c = [kind |-> c.kind, mode |-> c.mode, sleep |-> c.sleep, left |-> c.left,
              selected |-> c.selected, heard |-> c.heard, sector |-> c.sector, busy |-> c.busy]
      /\ c.mode = "native" /\ c.selected \in BOOLEAN /\ c.heard = "none" /\ c.sector = 0
      /\ c.busy = 0
  BY DEF Cards
<1>3. 0 \in 0..MaxSleep /\ 0 \in 0..MaxLeft /\ 0 \in 0..MaxBusy /\ 0 \in 0..MaxFaults
  BY CardAssumption
<1>4. card \in AnyCard /\ card.mode = "native" /\ card.busy = 0
  BY <1>1, <1>2, <1>3 DEF AnyCard, Kinds
<1> QED BY <1>3, <1>4
      
        DEF Init, CardInv, Typed, Quiet, TriesLeft, CameUp, Known, Places, Initialising,
            Reading, Writing

LEMMA Inductive == CardInv /\ [Next]_vars => CardInv'
<1> SUFFICES ASSUME CardInv, [Next]_vars PROVE CardInv'
  OBVIOUS
<1>1. CASE Next
  BY <1>1, ResetKeeps, InterfaceKeeps, WaitInitKeeps, PrefixKeeps, WaitInitV2Keeps, CapacityKeeps,
     BlockSizeKeeps, BeforeAndAfter, CommandKeeps, BlockKeeps, WaitKeeps, CallKeeps,
     CardFinishesKeeps
  DEF Next, Running
<1>2. CASE UNCHANGED vars
  BY <1>2 DEF vars, CardInv, Typed, Quiet, TriesLeft, CameUp, Known, Heeded
<1> QED BY <1>1, <1>2

(* spi_init (406-460): a card that is ready is addressed in the unit it    *)
(* counts, whatever its kind, however slowly it comes up, however few      *)
(* tries it is given and whatever else is lost or refused, unless it has   *)
(* missed a CMD8 or a CMD58.                                               *)
THEOREM CardAddressedRight == Spec => []AddressedRight
<1>1. CardInv => AddressedRight
  <2> SUFFICES ASSUME CardInv PROVE AddressedRight
    OBVIOUS
  <2>1. SpiTypeOK
    BY DEF CardInv, Typed, AnyCard, SpiTypeOK
  <2>2. Heeded => ~WrongUnit
    BY DEF CardInv, Typed, Known, WrongUnit
  <2> QED BY <2>1, <2>2 DEF AddressedRight, Heeded
<1> QED BY <1>1, Initially, Inductive, PTL DEF Spec

-----------------------------------------------------------------------------
(* The refinement.  At every place of a transfer the card waits for what   *)
(* the driver is about to send, or was busy when the call came.  A driver  *)
(* that counts in the wrong unit is blind, and stays so.  A card that      *)
(* writes in time meets no call while it is at work: the polls outlast it. *)

Follows ==
  /\ drv.at \notin {"token", "data"} => card.heard = "none"
  /\ drv.at \in {"readcmd", "token"} => ask.fn = "read"
  /\ drv.at \in {"writecmd", "data", "wait"} => ask.fn = "write"
  /\ drv.at \in {"readcmd", "token", "writecmd", "data"} => fate \in {"due", "late"}
  /\ drv.at \in {"readcmd", "writecmd"} => (card.busy > 0 => fate = "late")
  /\ drv.at = "token" => card.heard \in {"none", "read"}
  /\ drv.at = "data" => card.heard \in {"none", "write"}
  /\ drv.at = "data" => (card.heard = "none" => fate = "late")
  /\ drv.at \in {"token", "data"} =>
       (card.heard # "none" => WrongUnit \/ card.sector = ask.lba)
  /\ drv.at = "wait" => fate \in {"stored", "refused", "late"}
  /\ drv.at \in Initialising \cup {"idle"} => fate = "due"

InTime ==
  /\ drv.at # "wait" => (card.busy > 0 => slow)
  /\ drv.at = "wait" => (card.busy > drv.i => slow)

StoreInv == CardInv /\ Follows /\ InTime

(* The step that a step of the driver is of the store.                     *)
Seen == Store!Ask \/ Store!Store \/ Store!Refuse \/ Store!Answer
        \/ UNCHANGED <<mem, ask, answer, fate, slow>>

(* Once spi_init is over, neither the unit nor the card's changes.         *)
LEMMA UnitKept ==
  ASSUME Typed, drv.at \notin Initialising, drv'.at \notin Initialising, Typed',
         card'.mode = card.mode, card'.kind = card.kind, drv'.is_sdhc = drv.is_sdhc
  PROVE  WrongUnit' = WrongUnit
<1>1. /\ drv.at \in {"idle", "readcmd", "token", "writecmd", "data", "wait"}
      /\ drv'.at \in {"idle", "readcmd", "token", "writecmd", "data", "wait"}
  BY DEF Typed, Places, Initialising, Reading, Writing
<1> QED BY <1>1 DEF WrongUnit

(* A sector is found under the address the driver gives it.                *)
LEMMA AddressFound ==
  ASSUME CardInv, drv.at \in {"readcmd", "writecmd"}, card.mode = "ready", ~WrongUnit,
         NEW lba \in Sectors
  PROVE  (IF card.kind = "hc" THEN Address(lba) ELSE Address(lba) \div 512) = lba
<1>1. drv.is_sdhc = TRUE <=> card.kind = "hc"
  BY DEF WrongUnit, CardInv, Typed
<1>2. drv.is_sdhc \in BOOLEAN /\ lba \in Nat
  BY CardAssumption DEF CardInv, Typed
<1>3. (lba * 512) \div 512 = lba
  BY <1>2
<1>4. CASE drv.is_sdhc = TRUE
  BY <1>1, <1>4 DEF Address
<1>5. CASE drv.is_sdhc = FALSE
  <2>1. Address(lba) = lba * 512
    BY <1>5 DEF Address
  <2> QED BY <1>1, <1>3, <1>5, <2>1
<1> QED BY <1>2, <1>4, <1>5

(* A command that is accepted is heard, for the sector that was meant, or  *)
(* meets a card at work.                                                   *)
LEMMA CommandHeard ==
  ASSUME StoreInv, drv.at \in {"readcmd", "writecmd"},
         NEW cmd \in {"read", "write"}, NEW r \in Replies, cmd_write(cmd, Address(ask.lba), r)
  PROVE  \/ card' = card /\ (r = 0 => card.busy > 0)
         \/ \E s \in Sectors : /\ card' = [card EXCEPT !.heard = cmd, !.sector = s]
                               /\ r = 0 /\ (WrongUnit \/ s = ask.lba)
<1> DEFINE a == Address(ask.lba)
           sector == IF card.kind = "hc" THEN a ELSE a \div 512
<1>1. ask.lba \in Sectors /\ card \in AnyCard
  BY DEF StoreInv, CardInv, Typed, Reading, Writing, Calls
<1>2. CASE card' = card /\ r \in {4, 255}
  <2>1. r # 0
    BY <1>2
  <2> QED BY <1>2, <2>1
<1>3. CASE r = Responds(card, cmd, a)[1] /\ card' = Responds(card, cmd, a)[2]
  <2>1. CASE card' = card /\ r = 255
    BY <2>1
  <2>2. CASE card' = card /\ card.busy > 0
    BY <2>2
  <2>3. CASE r = Hears(card, cmd, a)[1] /\ card' = Hears(card, cmd, a)[2]
    <3>1. CASE card.mode \in {"native", "idle"}
      <4>1. card' = card /\ r # 0
        BY <2>3, <3>1 DEF Hears
      <4> QED BY <4>1
    <3>2. CASE card.mode = "ready" /\ sector \notin Sectors
      <4>1. card' = card /\ r # 0
        BY <2>3, <3>2 DEF Hears
      <4> QED BY <4>1
    <3>3. CASE card.mode = "ready" /\ sector \in Sectors
      <4>1. card' = [card EXCEPT !.heard = cmd, !.sector = sector] /\ r = 0
        BY <2>3, <3>3 DEF Hears
      <4>2. WrongUnit \/ sector = ask.lba
        BY <1>1, <3>3, AddressFound DEF StoreInv
      <4> QED BY <3>3, <4>1, <4>2
    <3> QED BY <1>1, <3>1, <3>2, <3>3 DEF AnyCard
  <2> QED BY <1>3, <2>1, <2>2, <2>3 DEF Responds
<1> QED BY <1>2, <1>3 DEF cmd_write

(* Up to the first call nothing happens that the FAT library would see.    *)
Boots ==
  \/ Insert \/ Start \/ Reset \/ Interface \/ WaitInit \/ Prefix \/ WaitInitV2 \/ Capacity
  \/ BlockSize \/ ReadCsd

LEMMA BootsQuietly ==
  ASSUME StoreInv, Boots
  PROVE  /\ Follows' /\ UNCHANGED <<mem, ask, answer, fate, slow>> /\ ~WrongUnit
         /\ card'.busy = 0 /\ drv'.at # "wait"
<1>1. /\ drv.at \in Initialising /\ UNCHANGED <<mem, ask, answer, fate, slow>>
      /\ CardInv /\ card.heard = "none" /\ fate = "due"
  BY DEF Boots, Insert, Start, Reset, Interface, WaitInit, Prefix, WaitInitV2, Capacity, BlockSize,
         ReadCsd, At, Same, Initialising, StoreInv, Follows
<1>2. CardInv'
  BY <1>1, ResetKeeps, InterfaceKeeps, WaitInitKeeps, PrefixKeeps, WaitInitV2Keeps, CapacityKeeps,
     BlockSizeKeeps, BeforeAndAfter
  DEF Boots
<1>3. drv'.at \in Initialising \cup {"idle"}
  <2>1. ask' = NoAsk /\ NoAsk \notin Calls
    BY <1>1 DEF CardInv, Typed, Initialising, Reading, Writing, NoAsk, Calls
  <2> QED BY <1>2, <2>1 DEF CardInv, Typed, Places
<1>4. card'.heard = "none" /\ card'.busy = 0
  <2>1. CASE Insert
    BY <2>1 DEF Insert, Cards
  <2>2. CASE Start \/ ReadCsd
    BY <1>1, <2>2 DEF Start, ReadCsd, Selected, Deselected, CardInv, Typed, AnyCard, Quiet
  <2>3. CASE ~(Insert \/ Start \/ ReadCsd)
    <3>1. drv.at \in Initialising \ {"off"}
      BY <1>1, <2>3 DEF Boots, Reset, Interface, WaitInit, Prefix, WaitInitV2, Capacity,
                        BlockSize, At,
                        Initialising
    <3> DEFINE Sent(cmd, arg) == \E r \in Replies : cmd_write(cmd, arg, r)
    <3>2. ASSUME NEW cmd \in InitCommands, NEW arg, Sent(cmd, arg)
          PROVE  card'.heard = "none" /\ card'.busy = 0
      BY <1>1, <3>1, <3>2, SpeaksOnly
    <3>3. CASE Reset \/ Interface \/ WaitInit
      <4>1. Sent("CMD0", 0) \/ Sent("CMD8", 0) \/ Sent("CMD1", 0)
        BY <3>3, Zenon DEF Reset, Interface, WaitInit
      <4> QED BY <3>2, <4>1, Zenon DEF InitCommands
    <3>4. CASE Prefix \/ WaitInitV2 \/ Capacity
      <4>1. Sent("CMD55", 0) \/ Sent("CMD41", 0) \/ Sent("CMD58", 0)
        BY <3>4, Zenon DEF Prefix, WaitInitV2, Capacity
      <4> QED BY <3>2, <4>1, Zenon DEF InitCommands
    <3>5. CASE BlockSize
      <4>1. Sent("CMD16", Address(1))
        BY <3>5, Zenon DEF BlockSize
      <4> QED BY <3>2, <4>1, Zenon DEF InitCommands
    <3> QED BY <2>3, <3>3, <3>4, <3>5 DEF Boots
  <2> QED BY <2>1, <2>2, <2>3
<1>5. ~WrongUnit
  BY <1>1 DEF WrongUnit, Initialising
<1> QED BY <1>1, <1>3, <1>4, <1>5 DEF Follows, Initialising

LEMMA CommandRefines ==
  ASSUME StoreInv, CardInv', ReadCommand \/ WriteCommand
  PROVE  /\ Follows' /\ Seen /\ WrongUnit' = WrongUnit
         /\ card'.busy = card.busy /\ drv.at # "wait" /\ drv'.at # "wait" /\ fate' \in {fate, "due"}
<1>1. PICK cmd \in {"read", "write"}, r \in Replies :
        /\ cmd_write(cmd, Address(ask.lba), r)
        /\ \/ r # 0 /\ Return(Failed)
           \/ /\ r = 0 /\ Go(IF cmd = "read" THEN "token" ELSE "data")
              /\ UNCHANGED <<ask, answer, fate>>
        /\ drv.at = IF cmd = "read" THEN "readcmd" ELSE "writecmd"
        /\ UNCHANGED <<mem, slow>>
  <2>1. CASE ReadCommand
    BY <2>1 DEF ReadCommand, At
  <2>2. CASE WriteCommand
    BY <2>2 DEF WriteCommand, At
  <2> QED BY <2>1, <2>2
<1>2. /\ drv.at \in {"readcmd", "writecmd"} /\ ask \in Calls /\ card.heard = "none"
      /\ card \in AnyCard /\ ask.fn = cmd /\ fate \in {"due", "late"}
      /\ card.busy > 0 => fate = "late"
  BY <1>1 DEF StoreInv, Follows, CardInv, Typed, Reading, Writing
<1>3. \/ card' = card /\ (r = 0 => card.busy > 0)
      \/ \E s \in Sectors : /\ card' = [card EXCEPT !.heard = cmd, !.sector = s]
                            /\ r = 0 /\ (WrongUnit \/ s = ask.lba)
  BY <1>1, <1>2, CommandHeard
<1>4. card'.mode = card.mode /\ card'.kind = card.kind /\ card'.busy = card.busy
  BY <1>2, <1>3 DEF AnyCard
<1>5. CASE r # 0 /\ Return(Failed)
  <2>1. /\ drv' = [drv EXCEPT !.at = "idle"] /\ ask' = NoAsk /\ answer' = Failed
        /\ fate' = "due"
    BY <1>5 DEF Return, Go
  <2>2. drv'.at = "idle" /\ drv'.is_sdhc = drv.is_sdhc
    BY <2>1 DEF StoreInv, CardInv, Typed
  <2>3. card' = card
    BY <1>3, <1>5
  <2>4. Follows'
    BY <1>2, <2>1, <2>2, <2>3 DEF Follows
  <2>5. WrongUnit' = WrongUnit
    BY <1>2, <1>4, <2>2, UnitKept DEF StoreInv, CardInv, Initialising
  <2>6. Store!Answer
    <3>1. ask # Store!Idle
      BY <1>2 DEF Calls, Store!Idle
    <3> QED BY <1>1, <1>2, <2>1, <3>1, Zenon
        DEF Store!Answer, Store!Failed, Store!Idle, Failed, NoAsk
  <2> QED BY <1>2, <1>4, <2>1, <2>2, <2>4, <2>5, <2>6 DEF Seen
<1>6. CASE r = 0 /\ Go(IF cmd = "read" THEN "token" ELSE "data") /\ UNCHANGED <<ask, answer, fate>>
  <2>1. drv' = [drv EXCEPT !.at = IF cmd = "read" THEN "token" ELSE "data"]
    BY <1>6 DEF Go
  <2>2. /\ drv'.at = (IF cmd = "read" THEN "token" ELSE "data") /\ drv'.is_sdhc = drv.is_sdhc
    BY <2>1 DEF StoreInv, CardInv, Typed
  <2>3. WrongUnit' = WrongUnit
    BY <1>1, <1>2, <1>4, <2>2, UnitKept DEF StoreInv, CardInv, Initialising
  <2>4. /\ card'.heard \in {"none", cmd}
        /\ card'.heard = "none" => fate = "late"
        /\ card'.heard # "none" => WrongUnit \/ card'.sector = ask.lba
    <3>1. CASE card' = card /\ card.busy > 0
      BY <1>2, <3>1
    <3>2. CASE \E s \in Sectors : /\ card' = [card EXCEPT !.heard = cmd, !.sector = s]
                                  /\ (WrongUnit \/ s = ask.lba)
      <4>1. PICK s \in Sectors : /\ card' = [card EXCEPT !.heard = cmd, !.sector = s]
                                 /\ (WrongUnit \/ s = ask.lba)
        BY <3>2
      <4>2. card'.heard = cmd /\ card'.sector = s /\ cmd # "none"
        BY <1>2, <4>1 DEF AnyCard
      <4> QED BY <4>1, <4>2
    <3> QED BY <1>3, <1>6, <3>1, <3>2
  <2>5. Follows'
    <3>1. ask' = ask /\ fate' = fate
      BY <1>6
    <3>2. CASE cmd = "read"
      BY <1>2, <2>2, <2>3, <2>4, <3>1, <3>2 DEF Follows, Initialising
    <3>3. CASE cmd = "write"
      BY <1>2, <2>2, <2>3, <2>4, <3>1, <3>3 DEF Follows, Initialising
    <3> QED BY <3>2, <3>3
  <2> QED BY <1>1, <1>2, <1>4, <1>6, <2>2, <2>3, <2>5 DEF Seen
<1> QED BY <1>1, <1>5, <1>6

LEMMA ReadBlockRefines ==
  ASSUME StoreInv, CardInv', ReadBlock
  PROVE  Follows' /\ (Seen \/ WrongUnit) /\ WrongUnit' = WrongUnit
<1>1. /\ drv.at = "token" /\ ask.fn = "read" /\ fate \in {"due", "late"}
      /\ ask \in Calls /\ card \in AnyCard
      /\ card.heard # "none" => WrongUnit \/ card.sector = ask.lba
  BY DEF ReadBlock, At, StoreInv, Follows, CardInv, Typed, Reading
<1>2. /\ drv' = [drv EXCEPT !.at = "idle"] /\ ask' = NoAsk /\ UNCHANGED <<mem, slow>> /\ fate' = "due"
      /\ card' = [card EXCEPT !.selected = FALSE, !.heard = "none"]
  BY DEF ReadBlock, Return, Go, Deselected
<1>3. /\ drv'.at = "idle" /\ drv'.is_sdhc = drv.is_sdhc
      /\ card'.heard = "none" /\ card'.mode = card.mode /\ card'.kind = card.kind
  BY <1>1, <1>2 DEF StoreInv, CardInv, Typed, AnyCard
<1>4. Follows'
  BY <1>2, <1>3 DEF Follows
<1>5. WrongUnit' = WrongUnit
  BY <1>1, <1>3, UnitKept DEF StoreInv, CardInv, Initialising
<1>6. ASSUME ~WrongUnit PROVE answer' = Failed \/ answer' = [ok |-> TRUE, v |-> mem[ask.lba]]
  BY <1>1, <1>6 DEF ReadBlock, Return
<1>7. ask # Store!Idle
  BY <1>1 DEF Calls, Store!Idle
<1>8. ASSUME ~WrongUnit PROVE Store!Answer
  BY <1>1, <1>2, <1>6, <1>7, <1>8, Zenon DEF Store!Answer, Store!Failed, Store!Idle, Failed, NoAsk
<1> QED BY <1>4, <1>5, <1>8 DEF Seen

LEMMA WriteBlockRefines ==
  ASSUME StoreInv, CardInv', WriteBlock
  PROVE  Follows' /\ (Seen \/ WrongUnit) /\ WrongUnit' = WrongUnit
<1>1. /\ drv.at = "data" /\ ask.fn = "write" /\ fate \in {"due", "late"}
      /\ ask \in Calls /\ card \in AnyCard /\ card.heard \in {"none", "write"}
      /\ card.heard = "none" => fate = "late"
      /\ card.heard # "none" => WrongUnit \/ card.sector = ask.lba
  BY DEF WriteBlock, At, StoreInv, Follows, CardInv, Typed, Writing
<1>2. /\ drv' = [drv EXCEPT !.i = BUSY_POLLS, !.at = "wait"] /\ UNCHANGED <<ask, answer>>
  BY DEF WriteBlock, Retry
<1>3. /\ card'.heard = "none" /\ card'.mode = card.mode /\ card'.kind = card.kind
  BY <1>1 DEF WriteBlock, AnyCard
<1>4. drv'.at = "wait" /\ drv'.is_sdhc = drv.is_sdhc
  BY <1>2 DEF StoreInv, CardInv, Typed
<1>5. WrongUnit' = WrongUnit
  BY <1>1, <1>3, <1>4, UnitKept DEF StoreInv, CardInv, Initialising
<1>6. fate' \in {"stored", "refused", "late"}
  BY <1>1 DEF WriteBlock
<1>7. Follows'
  BY <1>1, <1>2, <1>3, <1>4, <1>6 DEF Follows, Initialising
<1>8. ASSUME ~WrongUnit PROVE Seen
  <2>1. Store!Writing
    BY <1>1 DEF Store!Writing, Store!Idle, Calls
  <2>2. CASE /\ fate' = "stored" /\ mem' = [mem EXCEPT ![card.sector] = ask.v]
             /\ card.heard = "write" /\ slow' \in BOOLEAN
    <3>1. card.sector = ask.lba
      BY <1>1, <1>8, <2>2
    <3>2. Store!Store
      BY <1>2, <2>1, <2>2, <3>1 DEF Store!Store
    <3> QED BY <3>2 DEF Seen
  <2>3. CASE fate' = "refused" /\ UNCHANGED <<mem, slow>>
    BY <1>2, <2>1, <2>3 DEF Store!Refuse, Seen
  <2>4. CASE UNCHANGED <<mem, fate, slow>>
    BY <1>2, <2>4 DEF Seen
  <2>5. slow' \in BOOLEAN
    BY DEF CardInv, Typed
  <2> QED BY <2>2, <2>3, <2>4, <2>5 DEF WriteBlock
<1> QED BY <1>5, <1>7, <1>8

LEMMA WaitRefines ==
  ASSUME StoreInv, CardInv', WaitWritten
  PROVE  Follows' /\ Seen /\ WrongUnit' = WrongUnit
<1>1. /\ drv.at = "wait" /\ card.heard = "none" /\ ask.fn = "write"
      /\ ask \in Calls /\ card \in AnyCard /\ UNCHANGED <<mem, slow>>
      /\ fate \in {"stored", "refused", "late"}
  BY DEF WaitWritten, At, StoreInv, Follows, CardInv, Typed, Writing
<1>2. /\ card'.heard = "none" /\ card'.mode = card.mode /\ card'.kind = card.kind
  BY <1>1 DEF WaitWritten, Deselected, AnyCard
<1>3. CASE card.busy > 0 /\ drv.i > 1
  <2>1. drv' = [drv EXCEPT !.i = drv.i - 1, !.at = "wait"] /\ UNCHANGED <<ask, answer, fate>>
    BY <1>3 DEF WaitWritten, Retry
  <2>2. drv'.at = "wait" /\ drv'.is_sdhc = drv.is_sdhc
    BY <2>1 DEF StoreInv, CardInv, Typed
  <2>3. Follows'
    BY <1>1, <1>2, <2>1, <2>2 DEF Follows, Initialising
  <2>4. WrongUnit' = WrongUnit
    BY <1>1, <1>2, <2>2, UnitKept DEF StoreInv, CardInv, Initialising
  <2> QED BY <1>1, <2>1, <2>3, <2>4 DEF Seen
<1>4. CASE ~(card.busy > 0 /\ drv.i > 1)
  <2>1. /\ drv' = [drv EXCEPT !.at = "idle"] /\ ask' = NoAsk /\ answer' = [ok |-> TRUE]
        /\ fate' = "due"
    BY <1>4 DEF WaitWritten, Return, Go
  <2>2. drv'.at = "idle" /\ drv'.is_sdhc = drv.is_sdhc /\ ask # Store!Idle
    BY <1>1, <2>1 DEF Store!Idle, Calls, StoreInv, CardInv, Typed
  <2>3. Follows'
    BY <1>2, <2>1, <2>2 DEF Follows
  <2>4. WrongUnit' = WrongUnit
    BY <1>1, <1>2, <2>2, UnitKept DEF StoreInv, CardInv, Initialising
  <2>5. Store!Answer
    BY <1>1, <2>1, <2>2, Zenon DEF Store!Answer, Store!Idle, NoAsk
  <2> QED BY <2>3, <2>4, <2>5 DEF Seen
<1> QED BY <1>3, <1>4

LEMMA CallRefines ==
  ASSUME StoreInv, CardInv', Call
  PROVE  Follows' /\ Seen /\ WrongUnit' = WrongUnit
<1>1. /\ drv.at = "idle" /\ ask' \in Calls /\ UNCHANGED <<mem, answer>> /\ ask = NoAsk
      /\ card' = [card EXCEPT !.selected = TRUE] /\ card \in AnyCard
      /\ card.heard = "none" /\ fate' \in {"due", "late"} /\ (card.busy > 0 <=> fate' = "late")
      /\ card.busy > 0 => slow
      /\ slow' = slow
  BY DEF Call, At, Selected, StoreInv, Follows, InTime, CardInv, Typed, Reading, Writing
<1>2. drv' = [drv EXCEPT !.at = IF ask'.fn = "read" THEN "readcmd" ELSE "writecmd"]
  BY DEF Call, Go
<1>3. ask'.fn \in {"read", "write"}
  BY <1>1 DEF Calls
<1>4. /\ drv'.at \in {"readcmd", "writecmd"} /\ drv'.is_sdhc = drv.is_sdhc
      /\ drv'.at = "readcmd" => ask'.fn = "read"
      /\ drv'.at = "writecmd" => ask'.fn = "write"
  BY <1>2, <1>3 DEF StoreInv, CardInv, Typed
<1>5. /\ card'.heard = "none" /\ card'.busy = card.busy
      /\ card'.mode = card.mode /\ card'.kind = card.kind
  BY <1>1 DEF AnyCard
<1>6. Follows'
  BY <1>1, <1>4, <1>5 DEF Follows, Initialising
<1>7. WrongUnit' = WrongUnit
  BY <1>1, <1>4, <1>5, UnitKept DEF StoreInv, CardInv, Initialising
<1>8. Store!Ask
  BY <1>1 DEF Store!Ask, Store!Idle, Store!Asks, NoAsk, Calls
<1> QED BY <1>6, <1>7, <1>8 DEF Seen

LEMMA CardFinishesRefines ==
  ASSUME StoreInv, CardInv', CardFinishes
  PROVE  Follows' /\ Seen /\ WrongUnit' = WrongUnit
<1>1. /\ card' = [card EXCEPT !.busy = card.busy - 1]
      /\ UNCHANGED <<mem, drv, ask, answer, fate, slow>>
      /\ card \in AnyCard /\ card.busy > 0 /\ drv.at \notin Initialising
  BY DEF CardFinishes, StoreInv, CardInv, Typed, Quiet
<1>2. /\ card'.heard = card.heard /\ card'.sector = card.sector /\ card'.busy = card.busy - 1
      /\ card'.mode = card.mode /\ card'.kind = card.kind
  BY <1>1 DEF AnyCard
<1>3. WrongUnit' = WrongUnit
  BY <1>1, <1>2 DEF WrongUnit
<1>4. Follows'
  BY <1>1, <1>2, <1>3 DEF StoreInv, Follows
<1> QED BY <1>1, <1>3, <1>4 DEF Seen

LEMMA StaysInTime ==
  ASSUME StoreInv, CardInv', [Next]_vars
  PROVE  InTime'
<1>1. /\ card \in AnyCard /\ drv.i \in Nat /\ card.busy \in Nat /\ drv.at \in Places
      /\ slow \in BOOLEAN /\ InTime
  BY CardAssumption DEF StoreInv, CardInv, Typed, AnyCard
<1>2. CASE Boots
  BY <1>2, BootsQuietly DEF InTime
<1>3. CASE ReadCommand \/ WriteCommand
  <2>1. slow' = slow
    BY <1>3 DEF ReadCommand, WriteCommand
  <2> QED BY <1>1, <1>3, <2>1, CommandRefines DEF InTime
<1>4. CASE ReadBlock
  <2>1. drv.at = "token" /\ drv' = [drv EXCEPT !.at = "idle"] /\ slow' = slow
    BY <1>4 DEF ReadBlock, At, Return, Go
  <2>2. card'.busy = card.busy /\ drv'.at = "idle"
    BY <1>1, <1>4, <2>1 DEF ReadBlock, Deselected, AnyCard, StoreInv, CardInv, Typed
  <2> QED BY <1>1, <2>1, <2>2 DEF InTime
<1>5. CASE WriteBlock
  <2>1. drv.at = "data" /\ drv' = [drv EXCEPT !.i = BUSY_POLLS, !.at = "wait"]
    BY <1>5 DEF WriteBlock, At, Retry
  <2>2. drv'.at = "wait" /\ drv'.i = BUSY_POLLS
    BY <2>1 DEF StoreInv, CardInv, Typed
  <2>3. CASE \E n \in 0..MaxBusy : /\ card' = [card EXCEPT !.heard = "none", !.busy = n]
                                  /\ slow' = (n > BUSY_POLLS)
    <3>1. PICK n \in 0..MaxBusy : /\ card' = [card EXCEPT !.heard = "none", !.busy = n]
                                 /\ slow' = (n > BUSY_POLLS)
      BY <2>3
    <3>2. card'.busy = n
      BY <1>1, <3>1 DEF AnyCard
    <3> QED BY <2>2, <3>1, <3>2 DEF InTime
  <2>4. CASE card'.busy = card.busy /\ slow' = slow
    BY <1>1, <2>1, <2>2, <2>4, CardAssumption DEF InTime
  <2> QED BY <1>1, <1>5, <2>3, <2>4 DEF WriteBlock, AnyCard
<1>6. CASE WaitWritten
  <2>1. drv.at = "wait" /\ (card.busy > drv.i => slow) /\ slow' = slow
    BY <1>1, <1>6 DEF WaitWritten, At, InTime
  <2>2. CASE card.busy > 0 /\ drv.i > 1
    <3>1. /\ drv' = [drv EXCEPT !.i = drv.i - 1, !.at = "wait"]
          /\ card' = [card EXCEPT !.busy = card.busy - 1]
      BY <1>6, <2>2 DEF WaitWritten, Retry
    <3>2. drv'.at = "wait" /\ drv'.i = drv.i - 1 /\ card'.busy = card.busy - 1
      BY <1>1, <3>1 DEF AnyCard, StoreInv, CardInv, Typed
    <3> QED BY <1>1, <2>1, <3>1, <3>2 DEF InTime
  <2>3. CASE ~(card.busy > 0 /\ drv.i > 1)
    <3>1. drv' = [drv EXCEPT !.at = "idle"]
      BY <1>6, <2>3 DEF WaitWritten, Return, Go
    <3>2. card'.busy = IF card.busy > 0 THEN card.busy - 1 ELSE 0
      BY <1>1, <1>6, <2>3 DEF WaitWritten, Deselected, AnyCard
    <3>3. drv'.at = "idle"
      BY <3>1 DEF StoreInv, CardInv, Typed
    <3>4. card'.busy > 0 => card.busy > drv.i
      BY <1>1, <2>3, <3>2
    <3> QED BY <2>1, <3>3, <3>4 DEF InTime
  <2> QED BY <2>2, <2>3
<1>7. CASE Call
  <2>1. drv.at = "idle" /\ card' = [card EXCEPT !.selected = TRUE] /\ slow' = slow
    BY <1>7 DEF Call, At, Selected
  <2>2. card'.busy = card.busy
    BY <1>1, <2>1 DEF AnyCard
  <2>3. drv'.at # "wait"
    BY <1>1, <1>7 DEF Call, Go, StoreInv, CardInv, Typed
  <2> QED BY <1>1, <2>1, <2>2, <2>3 DEF InTime
<1>8. CASE CardFinishes
  <2>1. card' = [card EXCEPT !.busy = card.busy - 1] /\ card.busy > 0 /\ UNCHANGED <<drv, slow>>
    BY <1>8 DEF CardFinishes
  <2>2. card'.busy = card.busy - 1
    BY <1>1, <2>1 DEF AnyCard
  <2> QED BY <1>1, <2>1, <2>2 DEF InTime
<1>9. CASE UNCHANGED vars
  BY <1>1, <1>9 DEF vars, InTime
<1> QED BY <1>2, <1>3, <1>4, <1>5, <1>6, <1>7, <1>8, <1>9 DEF Next, Running, Boots

(* A blind driver's step is the store's whatever it does; the others'      *)
(* count, and leave it blind or not as it was.                             *)
LEMMA StepRefines ==
  ASSUME StoreInv, [Next]_vars
  PROVE  StoreInv' /\ [Store!Next]_Store!vars
<1>1. CardInv' /\ InTime'
  BY Inductive, StaysInTime DEF StoreInv
<1>2. Follows' /\ (Seen \/ WrongUnit) /\ (WrongUnit => WrongUnit')
  <2>1. CASE Boots
    BY <2>1, BootsQuietly DEF Seen
  <2>2. CASE ReadCommand \/ WriteCommand
    BY <1>1, <2>2, CommandRefines
  <2>3. CASE ReadBlock \/ WriteBlock
    BY <1>1, <2>3, ReadBlockRefines, WriteBlockRefines
  <2>4. CASE WaitWritten \/ Call \/ CardFinishes
    BY <1>1, <2>4, WaitRefines, CallRefines, CardFinishesRefines
  <2>5. CASE UNCHANGED vars
    <3>1. WrongUnit' = WrongUnit
      BY <2>5 DEF vars, WrongUnit
    <3> QED BY <2>5, <3>1 DEF vars, StoreInv, Follows, Seen
  <2> QED BY <2>1, <2>2, <2>3, <2>4, <2>5 DEF Next, Running, Boots
<1>3. CASE WrongUnit'
  BY <1>1, <1>2, <1>3 DEF StoreInv, Store!Next
<1>4. CASE ~WrongUnit'
  <2>1. ~WrongUnit /\ Seen
    BY <1>2, <1>4
  <2>2. WrongUnit' = WrongUnit
    BY <1>4, <2>1 DEF WrongUnit
  <2>3. [Store!Next]_Store!vars
    BY <2>1, <2>2 DEF Seen, Store!Next, Store!vars
  <2> QED BY <1>1, <1>2, <2>3 DEF StoreInv
<1> QED BY <1>3, <1>4

(* sd_read_sector and sd_write_sector (237-352): whatever is lost, refused *)
(* or answered late, the driver is a store of sectors, for any number of   *)
(* sectors and of failures, as long as it counts in the card's unit; what  *)
(* its answers are worth when a card is late or refuses, SectorStore says. *)
THEOREM DriverIsAStore == Spec => ImplementsSectorStore
<1>1. Init => StoreInv /\ Store!Init
  <2> SUFFICES ASSUME Init PROVE StoreInv /\ Store!Init
    OBVIOUS
  <2>1. PICK c \in Cards : card = c
    BY DEF Init
  <2>2. Follows /\ InTime
    BY <2>1 DEF Cards, Init, Follows, InTime
  <2>3. ~WrongUnit
    BY DEF Init, WrongUnit
  <2> QED BY <2>2, <2>3, Initially
          DEF StoreInv, Init, Store!Init, Store!Idle, Store!Failed, NoAsk, Failed
<1>2. StoreInv /\ [Next]_vars => StoreInv' /\ [Store!Next]_Store!vars
  BY StepRefines
<1> QED BY <1>1, <1>2, PTL DEF Spec, ImplementsSectorStore, Store!Spec

=============================================================================
