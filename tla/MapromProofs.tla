---------------------------- MODULE MapromProofs ----------------------------
(***************************************************************************)
(* For every number of Shells, every size of the banks and of a word,      *)
(* every ROM without a stray key and whatever the shadow holds at power-up *)
(* or suffers while it is filled: ROM code never runs from a shadow that   *)
(* is not the ROM, until a check passes over two wrong words of a bank.    *)
(***************************************************************************)
EXTENDS MapromTool, TLAPS, NaturalsInduction, WellFoundedInduction

(* Places where a program has interrupts off.                              *)
Critical == {"arm", "check", "decide", "enable"}

(* Places where a program knows the ROM's sums.                            *)
Summed == {"load", "read", "write", "close", "disable", "arm", "check", "decide"}

(* The sums s of the two banks of c, of which k words have been read.      *)
Tally(s, c, k) ==
  \E f \in [Addr -> Words] :
    /\ \A a \in Addr : a < k => f[a] = Folded(IF a = 0 THEN 0 ELSE f[a-1], a, c[a])
    /\ \A a \in Addr : a < k /\ a + 1 \in {k, LEN, 2*LEN} => s[Bank(a)] = f[a]

MutualExclusion == \A t \in Tasks : tool[t].at \in Critical <=> disabled = t
ColdRests == boot = "cold" => \A t \in Tasks : tool[t].at = "rest"
OneBit == ctrl \in {{}, {"load"}, {"active"}}
InBank == \A t \in Tasks : tool[t].at \in {"sum", "read", "write", "check"} => tool[t].k \in Addr

(* The part of a checksum taken so far, and the word in hand, are the      *)
(* ROM's, although they may have been read from the shadow.                *)
SumsTrue ==
  \A t \in Tasks :
    /\ tool[t].at = "sum" => Tally(tool[t].sum, rom, tool[t].k)
    /\ tool[t].at \in Summed => Tally(tool[t].sum, rom, 2*LEN)
    /\ tool[t].at = "write" => tool[t].word = rom[tool[t].k]

(* What is summed with the shadow active are the shadow's words.           *)
CheckTold ==
  \A t \in Tasks :
    /\ tool[t].at = "check" /\ "active" \in ctrl => Tally(tool[t].got, shadow, tool[t].k)
    /\ tool[t].at = "decide" /\ "active" \in ctrl => Tally(tool[t].got, shadow, 2*LEN)

Served == RomRuns /\ "active" \in ctrl => shadow = rom

CleanInv == OneBit /\ SumsTrue /\ CheckTold /\ Served

IInv ==
  /\ ToolTypeOK /\ MutualExclusion /\ ColdRests /\ InBank
  /\ Clean /\ ~fooled => CleanInv

(* exec's list is empty when the machine boots, the image is kept from     *)
(* then on, and a program that allocates a name has seen its probes pass.  *)
MemInv ==
  /\ AddTypeOK
  /\ names # {} => Whole
  /\ boot = "cold" => names = {}
  /\ boot # "cold" => kept
  /\ \A n \in names : n[1] = "text" => no_mem
  /\ \A t \in Tasks : tool[t].at = "alloc" => Whole

USE DEF Nobody, Controls, NotArming

-----------------------------------------------------------------------------
LEMMA Constants ==
  /\ LEN \in Nat \ {0} /\ 0 \in Addr /\ Diag \in Tasks /\ Shells \subseteq Tasks
  /\ HALF \in Nat \ {0} /\ 0 \in Words
  /\ Roms \subseteq [Addr -> Words] /\ Noise \subseteq [Addr -> Words]
  /\ Images \subseteq Addr /\ "nobody" \notin Tasks
  BY SizeAssumption, ContentAssumption, TaskAssumption DEF Tasks, Addr, Words

-----------------------------------------------------------------------------
(* The checksum.                                                           *)

(* A step of the sum keeps two sums apart, and two words.                  *)
LEMMA MixApart ==
  ASSUME NEW s \in Words, NEW w \in Words
  PROVE  /\ Mix(s, w) \in Words
         /\ \A r \in Words : Mix(r, w) = Mix(s, w) => r = s
         /\ \A v \in Words : Mix(s, v) = Mix(s, w) => v = w
  BY Constants DEF Mix, rotated, Words

LEMMA FoldedTyped ==
  ASSUME NEW s \in Words, NEW k, NEW w \in Words
  PROVE  Folded(s, k, w) \in Words
  BY MixApart, Constants DEF Folded

LEMMA NoneTallied ==
  ASSUME NEW c \in [Addr -> Words], NEW s
  PROVE  Tally(s, c, 0)
<1>1. \A a \in Addr : ~(a < 0)
  BY DEF Addr
<1> QED BY <1>1 DEF Tally

LEMMA OneMoreTallied ==
  ASSUME NEW c \in [Addr -> Words], NEW k \in Addr, NEW s \in [Banks -> Words], Tally(s, c, k)
  PROVE  LET t == [s EXCEPT ![Bank(k)] = Folded(@, k, c[k])]
         IN  t \in [Banks -> Words] /\ Tally(t, c, k + 1)
<1> DEFINE w == Folded(s[Bank(k)], k, c[k])
           t == [s EXCEPT ![Bank(k)] = w]
<1>1. PICK f \in [Addr -> Words] :
        /\ \A a \in Addr : a < k => f[a] = Folded(IF a = 0 THEN 0 ELSE f[a-1], a, c[a])
        /\ \A a \in Addr : a < k /\ a + 1 \in {k, LEN, 2*LEN} => s[Bank(a)] = f[a]
  BY DEF Tally
<1>2. Bank(k) \in Banks /\ s[Bank(k)] \in Words /\ c[k] \in Words
  BY DEF Bank, Banks
<1>3. w \in Words
  BY <1>2, FoldedTyped
<1>4. w = Folded(IF k = 0 THEN 0 ELSE f[k-1], k, c[k])
  <2>1. CASE k \in {0, LEN}
    BY <2>1 DEF Folded
  <2>2. CASE k \notin {0, LEN}
    <3>1. k - 1 \in Addr /\ k - 1 < k /\ (k - 1) + 1 = k /\ Bank(k - 1) = Bank(k) /\ k # 0
      BY <2>2, Constants DEF Addr, Bank
    <3>2. s[Bank(k)] = f[k-1]
      BY <1>1, <3>1
    <3> QED BY <3>1, <3>2
  <2> QED BY <2>1, <2>2
<1> HIDE DEF w
<1> DEFINE g == [f EXCEPT ![k] = w]
<1>5. g \in [Addr -> Words] /\ g[k] = w /\ \A a \in Addr : a # k => g[a] = f[a]
  BY <1>1, <1>3
<1>6. t \in [Banks -> Words] /\ t[Bank(k)] = w /\ \A b \in Banks : b # Bank(k) => t[b] = s[b]
  BY <1>2, <1>3
<1> HIDE DEF g, t
<1>7. ASSUME NEW a \in Addr, a < k + 1 PROVE g[a] = Folded(IF a = 0 THEN 0 ELSE g[a-1], a, c[a])
  <2>1. a = k \/ a < k
    BY <1>7 DEF Addr
  <2>2. a # 0 => a - 1 \in Addr /\ a - 1 # k /\ g[a-1] = f[a-1]
    BY <1>5, <1>7, Constants DEF Addr
  <2> QED BY <1>1, <1>4, <1>5, <2>1, <2>2
<1>8. ASSUME NEW a \in Addr, a < k + 1, a + 1 \in {k + 1, LEN, 2*LEN} PROVE t[Bank(a)] = g[a]
  <2>1. CASE a = k
    BY <1>5, <1>6, <2>1
  <2>2. CASE a # k
    <3>1. a < k /\ a + 1 \in {LEN, 2*LEN}
      BY <1>8, <2>2 DEF Addr
    <3>2. Bank(a) # Bank(k) /\ Bank(a) \in Banks
      BY <3>1, Constants DEF Addr, Bank, Banks
    <3> QED BY <1>1, <1>5, <1>6, <2>2, <3>1, <3>2
  <2> QED BY <2>1, <2>2
<1>9. Tally(t, c, k + 1)
  BY <1>5, <1>7, <1>8 DEF Tally
<1> QED BY <1>6, <1>9 DEF t, w

LEMMA Least ==
  ASSUME NEW S, S \subseteq Nat, S # {}
  PROVE  \E x \in S : \A y \in S : x <= y
<1>1. PICK x \in S : \A y \in S : ~(<<y, x>> \in OpToRel(<, Nat))
  BY NatLessThanWellFounded, WFMin
<1>2. \A y \in S : ~(y < x)
  BY <1>1 DEF OpToRel
<1> QED BY <1>2

(* Two contents with the same sums are the same, or two words of a bank    *)
(* are apart.                                                              *)
LEMMA CheckNotices ==
  ASSUME NEW c \in [Addr -> Words], NEW d \in [Addr -> Words], NEW s,
         Tally(s, c, 2*LEN), Tally(s, d, 2*LEN), c # d
  PROVE  Collide(c, d)
<1>1. PICK f \in [Addr -> Words] :
        /\ \A a \in Addr : a < 2*LEN => f[a] = Folded(IF a = 0 THEN 0 ELSE f[a-1], a, c[a])
        /\ \A a \in Addr : a < 2*LEN /\ a + 1 \in {2*LEN, LEN} => s[Bank(a)] = f[a]
  BY DEF Tally
<1>2. PICK g \in [Addr -> Words] :
        /\ \A a \in Addr : a < 2*LEN => g[a] = Folded(IF a = 0 THEN 0 ELSE g[a-1], a, d[a])
        /\ \A a \in Addr : a < 2*LEN /\ a + 1 \in {2*LEN, LEN} => s[Bank(a)] = g[a]
  BY DEF Tally
<1>3. \A a \in Addr : a \in Nat /\ a < 2*LEN
  BY Constants DEF Addr
<1>4. LEN - 1 \in Addr /\ (LEN - 1) + 1 = LEN /\ 2*LEN - 1 \in Addr /\ (2*LEN - 1) + 1 = 2*LEN
  BY Constants DEF Addr
<1>5. f \in Sums(c) /\ g \in Sums(d) /\ f[LEN-1] = g[LEN-1] /\ f[2*LEN-1] = g[2*LEN-1]
  BY <1>1, <1>2, <1>3, <1>4 DEF Sums
<1>6. PICK a \in Addr : c[a] # d[a]
  OBVIOUS
<1>7. ASSUME \A b \in Addr : b # a /\ Bank(b) = Bank(a) => c[b] = d[b] PROVE FALSE
  <2> DEFINE lo == IF a < LEN THEN 0 ELSE LEN
             hi == IF a < LEN THEN LEN - 1 ELSE 2*LEN - 1
  <2>1. /\ lo \in Addr /\ hi \in Addr /\ lo <= a /\ a <= hi
        /\ lo \in {0, LEN} /\ f[hi] = g[hi]
        /\ \A b \in Addr : lo <= b /\ b <= hi => Bank(b) = Bank(a)
        /\ \A b \in Addr : lo < b /\ b <= hi => b \notin {0, LEN} /\ b - 1 \in Addr
    BY <1>4, <1>5, Constants DEF Addr, Bank
  <2> HIDE DEF lo, hi
  <2>2. \A b \in Addr : f[b] \in Words /\ g[b] \in Words /\ c[b] \in Words /\ d[b] \in Words
    OBVIOUS
  <2>3. f[lo] = Mix(0, c[lo]) /\ g[lo] = Mix(0, d[lo])
    <3>1. lo \in Addr /\ lo < 2*LEN /\ lo \in {0, LEN}
      BY <1>3, <2>1
    <3>2. /\ f[lo] = Folded(IF lo = 0 THEN 0 ELSE f[lo-1], lo, c[lo])
          /\ g[lo] = Folded(IF lo = 0 THEN 0 ELSE g[lo-1], lo, d[lo])
      BY <1>1, <1>2, <3>1
    <3> QED BY <3>1, <3>2 DEF Folded
  <2>4. ASSUME NEW b \in Addr, lo < b, b <= hi
        PROVE  f[b] = Mix(f[b-1], c[b]) /\ g[b] = Mix(g[b-1], d[b])
    <3>1. b \notin {0, LEN} /\ b # 0
      BY <2>1, <2>4
    <3> QED BY <1>1, <1>2, <1>3, <3>1 DEF Folded
  <2>5. \A b \in Addr : lo <= b /\ b < a => f[b] = g[b]
    <3> DEFINE S == {b \in Addr : lo <= b /\ b < a /\ f[b] # g[b]}
    <3>1. SUFFICES ASSUME S # {} PROVE FALSE
      OBVIOUS
    <3>2. S \subseteq Nat
      BY <1>3
    <3>3. PICK b \in S : \A y \in S : b <= y
      BY <3>1, <3>2, Least
    <3>4. b \in Addr /\ lo <= b /\ b < a /\ b <= hi /\ f[b] # g[b] /\ c[b] = d[b]
      BY <1>3, <1>7, <2>1, <3>3
    <3>5. CASE b = lo
      BY <2>3, <3>4, <3>5
    <3>6. CASE b # lo
      <4>1. lo < b /\ b - 1 \in Addr
        BY <1>3, <2>1, <3>4, <3>6
      <4>2. b - 1 \notin S /\ lo <= b - 1 /\ b - 1 < a
        BY <1>3, <2>1, <3>3, <3>4, <4>1
      <4> QED BY <2>4, <3>4, <4>1, <4>2
    <3> QED BY <3>5, <3>6
  <2>6. f[a] # g[a]
    <3>1. CASE a = lo
      BY <1>6, <2>2, <2>3, <3>1, MixApart, Constants
    <3>2. CASE a # lo
      <4>1. lo < a /\ a - 1 \in Addr /\ lo <= a - 1 /\ a - 1 < a
        BY <1>3, <2>1, <3>2
      <4>2. f[a-1] = g[a-1]
        BY <2>5, <4>1
      <4> QED BY <1>6, <2>1, <2>2, <2>4, <4>1, <4>2, MixApart
    <3> QED BY <3>1, <3>2
  <2>7. \A b \in Addr : a <= b /\ b <= hi => f[b] # g[b]
    <3> DEFINE S == {b \in Addr : a <= b /\ b <= hi /\ f[b] = g[b]}
    <3>1. SUFFICES ASSUME S # {} PROVE FALSE
      OBVIOUS
    <3>2. S \subseteq Nat
      BY <1>3
    <3>3. PICK b \in S : \A y \in S : b <= y
      BY <3>1, <3>2, Least
    <3>4. b \in Addr /\ a < b /\ lo < b /\ b <= hi /\ f[b] = g[b] /\ c[b] = d[b] /\ b - 1 \in Addr
      <4>1. b \in Addr /\ a <= b /\ b <= hi /\ f[b] = g[b] /\ b # a
        BY <2>6, <3>3
      <4>2. a < b /\ lo <= b /\ lo < b
        BY <1>3, <2>1, <4>1
      <4> QED BY <1>7, <2>1, <4>1, <4>2
    <3>5. b - 1 \notin S /\ a <= b - 1 /\ b - 1 <= hi
      BY <1>3, <2>1, <3>3, <3>4
    <3>6. f[b-1] # g[b-1]
      BY <3>4, <3>5
    <3> QED BY <2>2, <2>4, <3>4, <3>6, MixApart
  <2> QED BY <1>3, <2>1, <2>7
<1> QED BY <1>5, <1>6, <1>7 DEF Collide

-----------------------------------------------------------------------------
(* The programs.                                                           *)

LEMMA RestType == Rest \in Programs /\ Rest.at = "rest" /\ [Rest EXCEPT !.at = "done"] \in Programs
                  /\ [Rest EXCEPT !.at = "done"].at = "done"
<1> DEFINE r == [at |-> "rest", k |-> 0, sum |-> Zero, got |-> Zero, word |-> 0]
<1>1. Zero \in [Banks -> Words] /\ 0 \in 0..2*LEN /\ 0 \in Words
  BY Constants DEF Zero
<1>2. r \in Programs /\ r.at = "rest" /\ [r EXCEPT !.at = "done"] \in Programs
      /\ [r EXCEPT !.at = "done"].at = "done"
  BY <1>1 DEF Programs, Places
<1> QED BY <1>2 DEF Rest

LEMMA InitInv == Init => IInv
<1> SUFFICES ASSUME Init PROVE IInv OBVIOUS
<1>1. tool \in [Tasks -> Programs] /\ \A t \in Tasks : tool[t].at = "rest"
  BY RestType DEF Init
<1>2. ToolTypeOK
  <2>1. 0 \in 0..MaxFaults /\ 0 \in 0..MaxResets
    BY SizeAssumption
  <2>2. rom \in Roms /\ shadow \in [Addr -> Words] /\ window \in BOOLEAN /\ ctrl = {}
        /\ boot = "cold" /\ disabled = "nobody" /\ faults = 0 /\ resets = 0 /\ fooled = FALSE
    BY Constants DEF Init
  <2> QED BY <1>1, <2>1, <2>2 DEF ToolTypeOK
<1>3. MutualExclusion /\ ColdRests /\ InBank /\ SumsTrue /\ CheckTold
  BY <1>1, Constants DEF Init, MutualExclusion, ColdRests, InBank, SumsTrue, CheckTold,
                         Critical, Summed
<1>4. OneBit /\ Served
  BY DEF Init, OneBit, Served
<1> QED BY <1>2, <1>3, <1>4 DEF IInv, CleanInv

(* What the moves of one task leave of the others and of its own variables.*)
LEMMA GoesTo ==
  ASSUME ToolTypeOK, NEW t \in Tasks, NEW p \in Places, Goes(t, p)
  PROVE  /\ tool' \in [Tasks -> Programs]
         /\ tool'[t].at = p /\ tool'[t].k = 0 /\ tool'[t].sum = tool[t].sum
         /\ tool'[t].got = tool[t].got /\ tool'[t].word = tool[t].word
         /\ \A u \in Tasks : u # t => tool'[u] = tool[u]
<1> DEFINE n == [tool[t] EXCEPT !.at = p, !.k = 0]
<1>1. tool \in [Tasks -> Programs] /\ 0 \in 0..2*LEN
  BY Constants DEF ToolTypeOK
<1>2. n \in Programs /\ n.at = p /\ n.k = 0 /\ n.sum = tool[t].sum /\ n.got = tool[t].got
      /\ n.word = tool[t].word
  BY <1>1 DEF Programs
<1>3. tool' = [tool EXCEPT ![t] = n]
  BY <1>1 DEF Goes, Programs
<1> HIDE DEF n
<1> QED BY <1>1, <1>2, <1>3

LEMMA FurtherTo ==
  ASSUME NEW p \in Programs, p.k \in Addr, NEW q \in Places
  PROVE  /\ Further(p, q) \in Programs
         /\ Further(p, q).k = (IF p.k + 1 \in Addr THEN p.k + 1 ELSE 0)
         /\ Further(p, q).at = (IF p.k + 1 \in Addr THEN p.at ELSE q)
         /\ Further(p, q).sum = p.sum /\ Further(p, q).got = p.got
         /\ Further(p, q).word = p.word
<1>1. p.k + 1 \in 0..2*LEN /\ 0 \in 0..2*LEN
  BY Constants DEF Addr
<1>2. CASE p.k + 1 \in Addr
  BY <1>1, <1>2 DEF Further, Programs
<1>3. CASE p.k + 1 \notin Addr
  BY <1>1, <1>3 DEF Further, Programs
<1> QED BY <1>2, <1>3

LEMMA CleanSteady == UNCHANGED rom => (Clean' <=> Clean)
  BY DEF Clean

(* The other programs keep what they have.                                 *)
LEMMA TalliesStay ==
  ASSUME SumsTrue, rom' = rom, NEW t \in Tasks, \A u \in Tasks : u # t => tool'[u] = tool[u],
         tool'[t].at = "sum" => Tally(tool'[t].sum, rom, tool'[t].k),
         tool'[t].at \in Summed => Tally(tool'[t].sum, rom, 2*LEN),
         tool'[t].at = "write" => tool'[t].word = rom[tool'[t].k]
  PROVE  SumsTrue'
<1> SUFFICES ASSUME NEW u \in Tasks
    PROVE /\ tool'[u].at = "sum" => Tally(tool'[u].sum, rom, tool'[u].k)
          /\ tool'[u].at \in Summed => Tally(tool'[u].sum, rom, 2*LEN)
          /\ tool'[u].at = "write" => tool'[u].word = rom[tool'[u].k]
  BY DEF SumsTrue, Tally
<1>1. CASE u = t
  BY <1>1
<1>2. CASE u # t
  BY <1>2 DEF SumsTrue
<1> QED BY <1>1, <1>2

(* A program moves on without touching the shadow or the interrupts, at    *)
(* most switching ACTIVE off.                                              *)
LEMMA MovesOn ==
  ASSUME IInv, NEW t \in Tasks, NEW q \in Places, NEW p \in Places, At(t, q), Goes(t, p),
         q \notin Critical, p \notin Critical \cup {"write"},
         p \in Summed => q \in Summed, boot # "cold",
         ctrl' = ctrl \/ ctrl' = {} \/ ctrl' = {"load"},
         UNCHANGED <<rom, shadow, window, boot, disabled, faults, resets, fooled>>
  PROVE  IInv'
<1>1. /\ tool' \in [Tasks -> Programs]
      /\ tool'[t].at = p /\ tool'[t].k = 0 /\ tool'[t].sum = tool[t].sum
      /\ \A u \in Tasks : u # t => tool'[u] = tool[u]
  BY GoesTo DEF IInv
<1>2. tool[t].at = q /\ disabled \in {"nobody", t}
  BY DEF At
<1>3. disabled = "nobody" /\ disabled' = "nobody"
  BY <1>2 DEF IInv, MutualExclusion
<1>4. ToolTypeOK'
  BY <1>1 DEF IInv, ToolTypeOK
<1>5. MutualExclusion'
  BY <1>1, <1>2, <1>3 DEF IInv, MutualExclusion
<1>6. ColdRests' /\ InBank'
  BY <1>1, Constants DEF IInv, ColdRests, InBank
<1>7. ASSUME Clean', ~fooled' PROVE CleanInv'
  <2>1. OneBit /\ SumsTrue /\ CheckTold /\ Served
    BY <1>7, CleanSteady DEF IInv, CleanInv
  <2>2. OneBit'
    BY <2>1 DEF OneBit
  <2>3. SumsTrue'
    <3>1. Tally(tool'[t].sum, rom, 0)
      BY NoneTallied, Constants DEF IInv, ToolTypeOK
    <3>2. tool'[t].at = "sum" => Tally(tool'[t].sum, rom, tool'[t].k)
      BY <1>1, <3>1
    <3>3. tool'[t].at \in Summed => Tally(tool'[t].sum, rom, 2*LEN)
      BY <1>1, <1>2, <2>1 DEF SumsTrue
    <3> QED BY <1>1, <2>1, <3>2, <3>3, TalliesStay DEF SumsTrue
  <2>4. CheckTold' /\ Served'
    BY <1>1, <1>3, <2>1 DEF CheckTold, Served, RomRuns, Critical
  <2> QED BY <2>2, <2>3, <2>4 DEF CleanInv
<1> QED BY <1>4, <1>5, <1>6, <1>7 DEF IInv

LEMMA ProbeInv ==
  ASSUME IInv, NEW t \in Tasks, Probe(t) \/ AllocName(t) \/ FindBoard(t) \/ Load(t) \/ Close(t)
  PROVE  IInv'
<1>1. PICK q \in {"probe", "alloc", "find", "load", "close"} : At(t, q)
  BY DEF Probe, AllocName, FindBoard, Load, Close
<1>2. boot # "cold"
  BY <1>1 DEF At, IInv, ColdRests
<1>3. UNCHANGED <<rom, shadow, window, boot, disabled, faults, resets, fooled>>
  BY DEF Probe, AllocName, FindBoard, Load, Close, Quiet, Steady, Bus, Only, ctrl_write
<1>4. CASE Probe(t) \/ AllocName(t) \/ FindBoard(t)
  <2>1. ctrl' = ctrl /\ (Goes(t, "find") \/ Goes(t, "exit") \/ Goes(t, "alloc") \/ Goes(t, "sum"))
    BY <1>4 DEF Probe, AllocName, FindBoard
  <2> QED BY <1>1, <1>2, <1>3, <2>1, MovesOn DEF Places, Critical, Summed
<1>5. CASE Load(t)
  <2>1. ctrl' = {"load"} /\ Goes(t, "read") /\ At(t, "load")
    BY <1>5 DEF Load, ctrl_write
  <2> QED BY <1>2, <1>3, <2>1, MovesOn DEF Places, Critical, Summed
<1>6. CASE Close(t)
  <2>1. ctrl' = {} /\ Goes(t, "disable") /\ At(t, "close")
    BY <1>6 DEF Close, ctrl_write
  <2> QED BY <1>2, <1>3, <2>1, MovesOn DEF Places, Critical, Summed
<1> QED BY <1>4, <1>5, <1>6

LEMMA StartInv ==
  ASSUME IInv, NEW t \in Shells, Maprom(t) \/ TurnOff(t) \/ Status(t) \/ TestAddTurboMem(t)
  PROVE  IInv'
<1>1. PICK p \in {"find", "exit", "probe"} : Starts(t, p)
  BY DEF Maprom, TurnOff, Status, TestAddTurboMem
<1>2. ctrl' = ctrl \/ ctrl' = {}
  BY DEF Maprom, TurnOff, Status, TestAddTurboMem, ctrl_write
<1>3. At(t, "rest") /\ Goes(t, p) /\ boot # "cold"
      /\ UNCHANGED <<rom, shadow, window, boot, disabled, faults, resets, fooled>>
  BY <1>1 DEF Starts, Only, Quiet, Steady, Maprom, TurnOff, Status, TestAddTurboMem, ctrl_write, Bus
<1> QED BY <1>2, <1>3, MovesOn, Constants DEF Places, Critical, Summed

LEMMA SumInv ==
  ASSUME IInv, NEW t \in Tasks, Sum(t)
  PROVE  IInv'
<1> DEFINE k == tool[t].k
           s == [tool[t].sum EXCEPT ![Bank(k)] = Folded(@, k, Reads(k))]
           m == [tool[t] EXCEPT !.sum = s]
           n == Further(m, "load")
<1>1. tool[t] \in Programs /\ tool \in [Tasks -> Programs] /\ tool[t].at = "sum" /\ k \in Addr
      /\ disabled \in {"nobody", t}
  BY DEF IInv, ToolTypeOK, InBank, Sum, At
<1>2. disabled = "nobody" /\ boot # "cold"
  BY <1>1 DEF IInv, MutualExclusion, Critical, ColdRests
<1>3. rom \in [Addr -> Words] /\ shadow \in [Addr -> Words] /\ Reads(k) \in Words
  BY <1>1, Constants DEF IInv, ToolTypeOK, Reads
<1>4. s \in [Banks -> Words]
  <2>1. Bank(k) \in Banks /\ tool[t].sum \in [Banks -> Words]
    BY <1>1 DEF Bank, Banks, Programs
  <2>2. Folded(tool[t].sum[Bank(k)], k, Reads(k)) \in Words
    BY <1>3, <2>1, FoldedTyped
  <2> QED BY <2>1, <2>2
<1>5. m \in Programs /\ m.k = k /\ m.at = "sum" /\ m.sum = s
  BY <1>1, <1>4 DEF Programs
<1>6. tool' = [tool EXCEPT ![t] = n]
  BY DEF Sum
<1> HIDE DEF m, s
<1>7. n \in Programs /\ n.sum = s /\ n.k = (IF k + 1 \in Addr THEN k + 1 ELSE 0)
      /\ n.at = (IF k + 1 \in Addr THEN "sum" ELSE "load")
  BY <1>1, <1>5, FurtherTo DEF Places
<1>8. UNCHANGED <<rom, shadow, window, ctrl, boot, disabled, faults, resets, fooled>>
  BY DEF Sum, Only, Quiet, Steady, Bus
<1> HIDE DEF n
<1>9. tool' \in [Tasks -> Programs] /\ tool'[t] = n /\ \A u \in Tasks : u # t => tool'[u] = tool[u]
  BY <1>1, <1>6, <1>7
<1>10. ToolTypeOK'
  BY <1>8, <1>9 DEF IInv, ToolTypeOK
<1>11. MutualExclusion' /\ ColdRests' /\ InBank'
  BY <1>1, <1>2, <1>7, <1>8, <1>9, Constants DEF IInv, MutualExclusion, ColdRests, InBank, Critical
<1>12. ASSUME Clean', ~fooled' PROVE CleanInv'
  <2>1. OneBit /\ SumsTrue /\ CheckTold /\ Served
    BY <1>8, <1>12, CleanSteady DEF IInv, CleanInv
  <2>2. OneBit' /\ CheckTold' /\ Served'
    BY <1>2, <1>7, <1>8, <1>9, <2>1 DEF OneBit, CheckTold, Served, RomRuns, Critical
  <2>3. Reads(k) = rom[k]
    BY <1>2, <2>1 DEF Served, RomRuns, Reads
  <2>4. Tally(s, rom, k + 1)
    <3>1. Tally(tool[t].sum, rom, k) /\ tool[t].sum \in [Banks -> Words]
      BY <1>1, <2>1 DEF SumsTrue, Programs
    <3> QED BY <1>1, <1>3, <2>3, <3>1, OneMoreTallied DEF s
  <2>5. k + 1 \notin Addr => k + 1 = 2*LEN
    BY <1>1, Constants DEF Addr
  <2>6. SumsTrue'
    BY <1>7, <1>8, <1>9, <2>1, <2>4, <2>5, TalliesStay DEF Summed
  <2> QED BY <2>2, <2>6 DEF CleanInv
<1> QED BY <1>10, <1>11, <1>12 DEF IInv

LEMMA CopyReadInv ==
  ASSUME IInv, NEW t \in Tasks, CopyRead(t)
  PROVE  IInv'
<1> DEFINE n == [tool[t] EXCEPT !.word = Reads(tool[t].k), !.at = "write"]
<1>1. tool[t] \in Programs /\ tool \in [Tasks -> Programs] /\ tool[t].at = "read"
      /\ tool[t].k \in Addr /\ disabled \in {"nobody", t}
  BY DEF IInv, ToolTypeOK, InBank, CopyRead, At
<1>2. disabled = "nobody" /\ boot # "cold"
  BY <1>1 DEF IInv, MutualExclusion, Critical, ColdRests
<1>3. Reads(tool[t].k) \in Words
  BY <1>1, Constants DEF IInv, ToolTypeOK, Reads
<1>4. n \in Programs /\ n.sum = tool[t].sum /\ n.k = tool[t].k /\ n.at = "write"
      /\ n.word = Reads(tool[t].k)
  BY <1>1, <1>3 DEF Programs, Places
<1>5. tool' = [tool EXCEPT ![t] = n]
  BY <1>1 DEF CopyRead, Programs
<1>6. UNCHANGED <<rom, shadow, window, ctrl, boot, disabled, faults, resets, fooled>>
  BY DEF CopyRead, Only, Quiet, Steady, Bus
<1> HIDE DEF n
<1>7. tool' \in [Tasks -> Programs] /\ tool'[t] = n /\ \A u \in Tasks : u # t => tool'[u] = tool[u]
  BY <1>1, <1>4, <1>5
<1>8. ToolTypeOK'
  BY <1>6, <1>7 DEF IInv, ToolTypeOK
<1>9. MutualExclusion' /\ ColdRests' /\ InBank'
  BY <1>1, <1>2, <1>3, <1>4, <1>6, <1>7 DEF IInv, MutualExclusion, ColdRests, InBank, Critical
<1>10. ASSUME Clean', ~fooled' PROVE CleanInv'
  <2>1. OneBit /\ SumsTrue /\ CheckTold /\ Served
    BY <1>6, <1>10, CleanSteady DEF IInv, CleanInv
  <2>2. OneBit' /\ CheckTold' /\ Served'
    BY <1>2, <1>4, <1>6, <1>7, <2>1 DEF OneBit, CheckTold, Served, RomRuns, Critical
  <2>3. Reads(tool[t].k) = rom[tool[t].k]
    BY <1>2, <2>1 DEF Served, RomRuns, Reads
  <2>4. SumsTrue'
    <3>1. Tally(n.sum, rom, 2*LEN)
      BY <1>1, <1>4, <2>1 DEF SumsTrue, Summed
    <3> QED BY <1>4, <1>6, <1>7, <2>1, <2>3, <3>1, TalliesStay
  <2> QED BY <2>2, <2>4 DEF CleanInv
<1> QED BY <1>8, <1>9, <1>10 DEF IInv

LEMMA CopyWriteInv ==
  ASSUME IInv, NEW t \in Tasks, CopyWrite(t)
  PROVE  IInv'
<1> DEFINE k == tool[t].k
           n == [tool[t] EXCEPT !.word = 0, !.k = IF k + 1 \in Addr THEN k + 1 ELSE 0,
                                !.at = IF k + 1 \in Addr THEN "read" ELSE "close"]
<1>1. tool[t] \in Programs /\ tool \in [Tasks -> Programs] /\ tool[t].at = "write" /\ k \in Addr
      /\ disabled \in {"nobody", t}
  BY DEF IInv, ToolTypeOK, InBank, CopyWrite, At
<1>2. disabled = "nobody" /\ boot # "cold"
  BY <1>1 DEF IInv, MutualExclusion, Critical, ColdRests
<1>3. k + 1 \in 0..2*LEN /\ 0 \in 0..2*LEN
  BY <1>1, Constants DEF Addr
<1>4. n \in Programs /\ n.sum = tool[t].sum /\ n.k = (IF k + 1 \in Addr THEN k + 1 ELSE 0)
      /\ n.at = (IF k + 1 \in Addr THEN "read" ELSE "close")
  BY <1>1, <1>3, Constants DEF Programs, Places
<1>5. tool' = [tool EXCEPT ![t] = n]
  BY DEF CopyWrite
<1>6. UNCHANGED <<rom, window, boot, disabled, resets, fooled>> /\ Lands(k, tool[t].word)
      /\ Looks(k, tool[t].word)
  BY DEF CopyWrite, Only, Quiet, Steady
<1> HIDE DEF n
<1>7. tool' \in [Tasks -> Programs] /\ tool'[t] = n /\ \A u \in Tasks : u # t => tool'[u] = tool[u]
  BY <1>1, <1>4, <1>5
<1>8. tool[t].word \in Words /\ rom \in [Addr -> Words] /\ shadow \in [Addr -> Words]
  BY <1>1, Constants DEF IInv, Programs, ToolTypeOK
<1>9. MutualExclusion' /\ ColdRests' /\ InBank'
  BY <1>1, <1>2, <1>4, <1>6, <1>7, Constants DEF IInv, MutualExclusion, ColdRests, InBank, Critical
<1>10. shadow' \in [Addr -> Words] /\ faults' \in 0..MaxFaults
       /\ ("load" \notin ctrl => shadow' = shadow)
  <2>1. faults \in 0..MaxFaults /\ (faults < MaxFaults => faults + 1 \in 0..MaxFaults)
    BY SizeAssumption DEF IInv, ToolTypeOK
  <2>2. CASE /\ shadow' = (IF "load" \in ctrl THEN [shadow EXCEPT ![k] = tool[t].word] ELSE shadow)
             /\ UNCHANGED faults
    BY <1>1, <1>8, <2>1, <2>2
  <2>3. CASE /\ faults < MaxFaults /\ faults' = faults + 1 /\ "load" \in ctrl
             /\ \/ UNCHANGED shadow
                \/ \E b \in Addr : shadow' = [shadow EXCEPT ![b] = tool[t].word]
    BY <1>8, <2>1, <2>3
  <2> QED BY <1>6, <2>2, <2>3 DEF Lands
<1>11. ctrl' \in SUBSET {"load", "active"}
  <2>1. ctrl \in SUBSET {"load", "active"}
    BY DEF IInv, ToolTypeOK
  <2>2. Arms[tool[t].word] # {"no key"} => Arms[tool[t].word] \in SUBSET {"load", "active"}
    BY <1>8, KeyAssumption
  <2> QED BY <1>6, <2>1, <2>2 DEF Looks
<1>12. ToolTypeOK'
  BY <1>6, <1>7, <1>10, <1>11 DEF IInv, ToolTypeOK
<1>13. ASSUME Clean', ~fooled' PROVE CleanInv'
  <2>1. Clean /\ OneBit /\ SumsTrue /\ CheckTold /\ Served
    BY <1>6, <1>13, CleanSteady DEF IInv, CleanInv
  <2>2. ctrl' = ctrl
    BY <1>1, <1>6, <2>1 DEF Looks, Clean, SumsTrue
  <2>3. "active" \in ctrl => shadow' = shadow
    BY <1>10, <2>1 DEF OneBit
  <2>4. OneBit' /\ CheckTold' /\ Served'
    BY <1>2, <1>4, <1>6, <1>7, <2>1, <2>2, <2>3 DEF OneBit, CheckTold, Served, RomRuns, Critical
  <2>5. SumsTrue'
    <3>1. Tally(n.sum, rom, 2*LEN)
      BY <1>1, <1>4, <2>1 DEF SumsTrue, Summed
    <3> QED BY <1>4, <1>6, <1>7, <2>1, <3>1, TalliesStay
  <2> QED BY <2>4, <2>5 DEF CleanInv
<1> QED BY <1>9, <1>12, <1>13 DEF IInv

LEMMA DisableInv ==
  ASSUME IInv, NEW t \in Tasks, Disable(t)
  PROVE  IInv'
<1>1. /\ tool' \in [Tasks -> Programs]
      /\ tool'[t].at = "arm" /\ tool'[t].sum = tool[t].sum
      /\ \A u \in Tasks : u # t => tool'[u] = tool[u]
  BY GoesTo DEF IInv, Disable, Places
<1>2. tool[t].at = "disable" /\ disabled' = t
      /\ UNCHANGED <<rom, shadow, window, ctrl, boot, faults, resets, fooled>>
  BY DEF Disable, At, Only, Quiet, Steady, Bus
<1>3. disabled = "nobody" /\ boot # "cold"
  BY <1>2 DEF IInv, MutualExclusion, Critical, ColdRests, Disable, At
<1>4. ToolTypeOK' /\ MutualExclusion' /\ ColdRests' /\ InBank'
  BY <1>1, <1>2, <1>3, Constants DEF IInv, ToolTypeOK, MutualExclusion, ColdRests, InBank, Critical
<1>5. ASSUME Clean', ~fooled' PROVE CleanInv'
  <2>1. OneBit /\ SumsTrue /\ CheckTold
    BY <1>2, <1>5, CleanSteady DEF IInv, CleanInv
  <2>2. OneBit' /\ CheckTold' /\ Served'
    BY <1>1, <1>2, <2>1, Constants DEF OneBit, CheckTold, Served, RomRuns
  <2>3. SumsTrue'
    BY <1>1, <1>2, <2>1 DEF SumsTrue, Summed
  <2> QED BY <2>2, <2>3 DEF CleanInv
<1> QED BY <1>4, <1>5 DEF IInv

LEMMA ArmInv ==
  ASSUME IInv, NEW t \in Tasks, Arm(t)
  PROVE  IInv'
<1>1. /\ tool' \in [Tasks -> Programs]
      /\ tool'[t].at = "check" /\ tool'[t].k = 0 /\ tool'[t].sum = tool[t].sum
      /\ \A u \in Tasks : u # t => tool'[u] = tool[u]
  BY GoesTo DEF IInv, Arm, Places
<1>2. tool[t].at = "arm" /\ ctrl' = {"active"}
      /\ UNCHANGED <<rom, shadow, window, disabled, boot, faults, resets, fooled>>
  BY DEF Arm, At, Only, Quiet, Steady, ctrl_write, Bus
<1>3. disabled = t /\ boot # "cold"
  BY <1>2 DEF IInv, MutualExclusion, Critical, ColdRests
<1>4. ToolTypeOK' /\ MutualExclusion' /\ ColdRests' /\ InBank'
  BY <1>1, <1>2, <1>3, Constants DEF IInv, ToolTypeOK, MutualExclusion, ColdRests, InBank, Critical
<1>5. ASSUME Clean', ~fooled' PROVE CleanInv'
  <2>1. SumsTrue
    BY <1>2, <1>5, CleanSteady DEF IInv, CleanInv
  <2>2. \A u \in Tasks : tool'[u].at \in {"check", "decide"} => u = t
    BY <1>1, <1>3 DEF IInv, MutualExclusion, Critical
  <2>3. OneBit' /\ CheckTold' /\ Served'
    <3>1. shadow \in [Addr -> Words]
      BY DEF IInv, ToolTypeOK
    <3>2. Tally(tool'[t].got, shadow, 0)
      BY <3>1, NoneTallied
    <3>3. Tally(tool'[t].got, shadow', 0)
      BY <1>2, <3>2 DEF Tally
    <3> QED BY <1>1, <1>2, <1>3, <2>2, <3>3, Constants DEF OneBit, CheckTold, Served, RomRuns
  <2>4. SumsTrue'
    BY <1>1, <1>2, <2>1 DEF SumsTrue, Summed
  <2> QED BY <2>3, <2>4 DEF CleanInv
<1> QED BY <1>4, <1>5 DEF IInv

LEMMA CheckInv ==
  ASSUME IInv, NEW t \in Tasks, Check(t)
  PROVE  IInv'
<1> DEFINE k == tool[t].k
           s == [tool[t].got EXCEPT ![Bank(k)] = Folded(@, k, Reads(k))]
           m == [tool[t] EXCEPT !.got = s]
           n == Further(m, "decide")
<1>1. tool[t] \in Programs /\ tool \in [Tasks -> Programs] /\ tool[t].at = "check" /\ k \in Addr
      /\ UNCHANGED <<rom, shadow, window, ctrl, disabled, boot, faults, resets, fooled>>
  BY DEF IInv, ToolTypeOK, InBank, Check, At, Only, Quiet, Steady, Bus
<1>2. disabled = t /\ boot # "cold"
  BY <1>1 DEF IInv, MutualExclusion, Critical, ColdRests
<1>3. rom \in [Addr -> Words] /\ shadow \in [Addr -> Words] /\ Reads(k) \in Words
  BY <1>1, Constants DEF IInv, ToolTypeOK, Reads
<1>4. s \in [Banks -> Words]
  <2>1. Bank(k) \in Banks /\ tool[t].got \in [Banks -> Words]
    BY <1>1 DEF Bank, Banks, Programs
  <2>2. Folded(tool[t].got[Bank(k)], k, Reads(k)) \in Words
    BY <1>3, <2>1, FoldedTyped
  <2> QED BY <2>1, <2>2
<1>5. m \in Programs /\ m.k = k /\ m.at = "check" /\ m.sum = tool[t].sum /\ m.got = s
  BY <1>1, <1>4 DEF Programs
<1>6. tool' = [tool EXCEPT ![t] = n]
  BY DEF Check
<1> HIDE DEF m, s
<1>7. n \in Programs /\ n.sum = tool[t].sum /\ n.got = s
      /\ n.k = (IF k + 1 \in Addr THEN k + 1 ELSE 0)
      /\ n.at = (IF k + 1 \in Addr THEN "check" ELSE "decide")
  BY <1>1, <1>5, FurtherTo DEF Places
<1> HIDE DEF n
<1>8. tool' \in [Tasks -> Programs] /\ tool'[t] = n /\ \A u \in Tasks : u # t => tool'[u] = tool[u]
  BY <1>1, <1>6, <1>7
<1>9. ToolTypeOK' /\ MutualExclusion' /\ ColdRests' /\ InBank'
  BY <1>1, <1>2, <1>7, <1>8 DEF IInv, ToolTypeOK, MutualExclusion, ColdRests, InBank, Critical
<1>10. ASSUME Clean', ~fooled' PROVE CleanInv'
  <2>1. OneBit /\ SumsTrue /\ CheckTold
    BY <1>1, <1>10, CleanSteady DEF IInv, CleanInv
  <2>2. \A u \in Tasks : tool'[u].at \in {"check", "decide"} => u = t
    BY <1>2, <1>8 DEF IInv, MutualExclusion, Critical
  <2>3. ASSUME "active" \in ctrl PROVE Tally(s, shadow, k + 1)
    <3>1. Tally(tool[t].got, shadow, k) /\ tool[t].got \in [Banks -> Words]
      BY <1>1, <2>1, <2>3 DEF CheckTold, Programs
    <3>2. Reads(k) = shadow[k]
      BY <2>3 DEF Reads
    <3> QED BY <1>1, <1>3, <3>1, <3>2, OneMoreTallied DEF s
  <2>4. k + 1 \notin Addr => k + 1 = 2*LEN
    BY <1>1, Constants DEF Addr
  <2>5. CheckTold'
    <3>1. ASSUME NEW u \in Tasks, "active" \in ctrl
          PROVE /\ tool'[u].at = "check" => Tally(tool'[u].got, shadow, tool'[u].k)
                /\ tool'[u].at = "decide" => Tally(tool'[u].got, shadow, 2*LEN)
      BY <1>7, <1>8, <2>2, <2>3, <2>4, <3>1
    <3> QED BY <1>1, <3>1 DEF CheckTold, Tally
  <2>6. OneBit' /\ Served'
    BY <1>1, <1>2, <1>7, <1>8, <2>1, Constants DEF OneBit, Served, RomRuns
  <2>7. SumsTrue'
    <3>1. Tally(n.sum, rom, 2*LEN)
      BY <1>1, <1>7, <2>1 DEF SumsTrue, Summed
    <3> QED BY <1>1, <1>7, <1>8, <2>1, <3>1, TalliesStay
  <2> QED BY <2>5, <2>6, <2>7 DEF CleanInv
<1> QED BY <1>9, <1>10 DEF IInv

LEMMA DecideInv ==
  ASSUME IInv, NEW t \in Tasks, Decide(t)
  PROVE  IInv'
<1>1. /\ tool' \in [Tasks -> Programs]
      /\ tool'[t].at = "enable" /\ \A u \in Tasks : u # t => tool'[u] = tool[u]
  BY GoesTo DEF IInv, Decide, Places
<1>2. tool[t].at = "decide" /\ ctrl' = (IF bad(t) # {} THEN {} ELSE ctrl)
      /\ UNCHANGED <<rom, shadow, window, disabled, boot, faults, resets>>
      /\ fooled' = (fooled \/ (bad(t) = {} /\ Collide(rom, shadow)))
  BY DEF Decide, At, Steady, Fools, ctrl_write, Bus
<1>3. disabled = t /\ boot # "cold"
  BY <1>2 DEF IInv, MutualExclusion, Critical, ColdRests
<1>4. ToolTypeOK' /\ MutualExclusion' /\ ColdRests' /\ InBank'
  <2>1. fooled' \in BOOLEAN
    BY <1>2 DEF IInv, ToolTypeOK
  <2>2. ToolTypeOK'
    BY <1>1, <1>2, <2>1 DEF IInv, ToolTypeOK
  <2> QED BY <1>1, <1>2, <1>3, <2>2, Constants DEF IInv, MutualExclusion, ColdRests, InBank, Critical
<1>5. ASSUME Clean', ~fooled' PROVE CleanInv'
  <2>1. OneBit /\ SumsTrue /\ CheckTold
    BY <1>2, <1>5, CleanSteady DEF IInv, CleanInv
  <2>2. ASSUME "active" \in ctrl' PROVE shadow' = rom'
    <3>1. bad(t) = {} /\ "active" \in ctrl /\ ~Collide(rom, shadow)
      BY <1>2, <1>5, <2>2
    <3>2. tool[t].got = tool[t].sum
      <4>1. tool[t].got \in [Banks -> Words] /\ tool[t].sum \in [Banks -> Words]
        BY DEF IInv, ToolTypeOK, Programs
      <4>2. \A b \in Banks : tool[t].got[b] = tool[t].sum[b]
        BY <3>1 DEF bad
      <4> QED BY <4>1, <4>2
    <3>3. Tally(tool[t].sum, shadow, 2*LEN) /\ Tally(tool[t].sum, rom, 2*LEN)
      BY <1>2, <2>1, <3>1, <3>2 DEF CheckTold, SumsTrue, Summed
    <3>4. rom \in [Addr -> Words] /\ shadow \in [Addr -> Words]
      BY Constants DEF IInv, ToolTypeOK
    <3> QED BY <1>2, <3>1, <3>3, <3>4, CheckNotices
  <2>3. OneBit' /\ Served'
    BY <1>2, <2>1, <2>2 DEF OneBit, Served
  <2>4. \A u \in Tasks : tool'[u].at \notin {"check", "decide"}
    BY <1>1, <1>3 DEF IInv, MutualExclusion, Critical
  <2>5. CheckTold'
    BY <2>4 DEF CheckTold
  <2>6. SumsTrue'
    BY <1>1, <1>2, <2>1, TalliesStay DEF Summed
  <2> QED BY <2>3, <2>5, <2>6 DEF CleanInv
<1> QED BY <1>4, <1>5 DEF IInv

LEMMA EnableInv ==
  ASSUME IInv, NEW t \in Tasks, Enable(t)
  PROVE  IInv'
<1>1. /\ tool' \in [Tasks -> Programs]
      /\ tool'[t].at = "exit" /\ \A u \in Tasks : u # t => tool'[u] = tool[u]
  BY GoesTo DEF IInv, Enable, Places
<1>2. tool[t].at = "enable" /\ disabled' = "nobody"
      /\ UNCHANGED <<rom, shadow, window, ctrl, boot, faults, resets, fooled>>
  BY DEF Enable, At, Only, Quiet, Steady, Bus
<1>3. disabled = t /\ boot # "cold"
  BY <1>2 DEF IInv, MutualExclusion, Critical, ColdRests
<1>4. ToolTypeOK' /\ MutualExclusion' /\ ColdRests' /\ InBank'
  BY <1>1, <1>2, <1>3, Constants DEF IInv, ToolTypeOK, MutualExclusion, ColdRests, InBank, Critical
<1>5. ASSUME Clean', ~fooled' PROVE CleanInv'
  <2>1. OneBit /\ SumsTrue /\ CheckTold /\ Served
    BY <1>2, <1>5, CleanSteady DEF IInv, CleanInv
  <2>2. "active" \in ctrl => shadow = rom
    BY <1>2, <1>3, <2>1 DEF Served, RomRuns
  <2>3. OneBit' /\ CheckTold' /\ Served'
    <3>1. \A u \in Tasks : tool'[u].at \notin {"check", "decide"}
      BY <1>1, <1>3 DEF IInv, MutualExclusion, Critical
    <3> QED BY <1>2, <2>1, <2>2, <3>1 DEF OneBit, CheckTold, Served
  <2>4. SumsTrue'
    BY <1>1, <1>2, <2>1 DEF SumsTrue, Summed
  <2> QED BY <2>3, <2>4 DEF CleanInv
<1> QED BY <1>4, <1>5 DEF IInv

LEMMA ExitInv ==
  ASSUME IInv, NEW t \in Tasks, Exit(t)
  PROVE  IInv'
<1> DEFINE n == [Rest EXCEPT !.at = "done"]
<1>1. n \in Programs /\ n.at = "done"
  BY RestType
<1>2. tool[t].at = "exit" /\ disabled \in {"nobody", t} /\ tool' = [tool EXCEPT ![t] = n]
      /\ UNCHANGED <<rom, shadow, window, ctrl, disabled, faults, resets, fooled>> /\ boot' \in {boot, "up"}
  BY DEF Exit, At, Bus
<1> HIDE DEF n
<1>3. tool' \in [Tasks -> Programs] /\ tool'[t] = n /\ \A u \in Tasks : u # t => tool'[u] = tool[u]
  BY <1>1, <1>2 DEF IInv, ToolTypeOK
<1>4. disabled = "nobody" /\ boot' # "cold"
  BY <1>2 DEF IInv, MutualExclusion, Critical, ColdRests
<1>5. ToolTypeOK' /\ MutualExclusion' /\ ColdRests' /\ InBank'
  BY <1>1, <1>2, <1>3, <1>4, Constants DEF IInv, ToolTypeOK, MutualExclusion, ColdRests, InBank,
                                           Critical
<1>6. ASSUME Clean', ~fooled' PROVE CleanInv'
  <2>1. OneBit /\ SumsTrue /\ CheckTold /\ Served
    BY <1>2, <1>6, CleanSteady DEF IInv, CleanInv
  <2>2. OneBit' /\ CheckTold' /\ Served'
    BY <1>1, <1>2, <1>3, <1>4, <2>1 DEF OneBit, CheckTold, Served, RomRuns
  <2>3. SumsTrue'
    BY <1>1, <1>2, <1>3, <2>1 DEF SumsTrue, Summed
  <2> QED BY <2>2, <2>3 DEF CleanInv
<1> QED BY <1>5, <1>6 DEF IInv

LEMMA BootInv ==
  ASSUME IInv, BootDiag
  PROVE  IInv'
<1> DEFINE n == [tool[Diag] EXCEPT !.at = "probe"]
<1>1. tool \in [Tasks -> Programs] /\ \A t \in Tasks : tool[t].at = "rest"
  BY DEF IInv, ToolTypeOK, BootDiag, ColdRests
<1>2. n \in Programs /\ n.at = "probe"
  <2>1. tool[Diag] \in Programs /\ "probe" \in Places
    BY <1>1, Constants DEF Places
  <2> QED BY <2>1 DEF Programs
<1>3. tool' = [tool EXCEPT ![Diag] = n] /\ boot' = "diag"
      /\ UNCHANGED <<rom, shadow, window, ctrl, disabled, faults, resets, fooled>>
  BY <1>1, Constants DEF BootDiag, boardVars, Programs
<1> HIDE DEF n
<1>4. tool' \in [Tasks -> Programs] /\ \A u \in Tasks : tool'[u].at \in {"probe", "rest"}
  BY <1>1, <1>2, <1>3
<1>5. disabled = "nobody"
  BY <1>1 DEF IInv, ToolTypeOK, MutualExclusion, Critical
<1>6. ToolTypeOK' /\ MutualExclusion' /\ ColdRests' /\ InBank'
  BY <1>1, <1>3, <1>4, <1>5, Constants DEF IInv, ToolTypeOK, MutualExclusion, ColdRests, InBank,
                                           Critical
<1>7. ASSUME Clean', ~fooled' PROVE CleanInv'
  <2>1. OneBit /\ CheckTold /\ Served
    BY <1>3, <1>7, CleanSteady DEF IInv, CleanInv
  <2>2. OneBit' /\ CheckTold' /\ Served'
    BY <1>3, <1>4, <1>5, <2>1 DEF OneBit, CheckTold, Served, RomRuns
  <2>3. SumsTrue'
    BY <1>4 DEF SumsTrue, Summed
  <2> QED BY <2>2, <2>3 DEF CleanInv
<1> QED BY <1>6, <1>7 DEF IInv

LEMMA ResetInv ==
  ASSUME IInv, Reset
  PROVE  IInv'
<1>1. resets' \in 0..MaxResets
  BY SizeAssumption DEF IInv, ToolTypeOK, Reset
<1>2. tool' \in [Tasks -> Programs] /\ \A t \in Tasks : tool'[t].at = "rest"
  BY RestType DEF Reset
<1>3. ctrl' = {} /\ disabled' = "nobody" /\ boot' = "cold" /\ fooled' = FALSE
      /\ UNCHANGED <<rom, shadow, window, faults>>
  BY DEF Reset
<1>4. ToolTypeOK' /\ MutualExclusion' /\ ColdRests' /\ InBank'
  BY <1>1, <1>2, <1>3, Constants DEF IInv, ToolTypeOK, MutualExclusion, ColdRests, InBank, Critical
<1>5. CleanInv'
  BY <1>2, <1>3 DEF CleanInv, OneBit, SumsTrue, CheckTold, Served, Summed
<1> QED BY <1>4, <1>5 DEF IInv

LEMMA NextInv == IInv /\ [Next]_vars => IInv'
<1> SUFFICES ASSUME IInv, [Next]_vars PROVE IInv' OBVIOUS
<1>1. ASSUME NEW t \in Tasks, Step(t) PROVE IInv'
  BY <1>1, ProbeInv, SumInv, CopyReadInv, CopyWriteInv, DisableInv, ArmInv, CheckInv,
     DecideInv, EnableInv, ExitInv DEF Step
<1>2. ASSUME NEW t \in Shells, Maprom(t) \/ TurnOff(t) \/ Status(t) \/ TestAddTurboMem(t)
      PROVE IInv'
  BY <1>2, StartInv
<1>3. CASE BootDiag
  BY <1>3, BootInv
<1>4. CASE Reset
  BY <1>4, ResetInv
<1>5. CASE UNCHANGED vars
  <2>1. UNCHANGED <<rom, shadow, window, ctrl, boot, tool, disabled, faults, resets, fooled>>
    BY <1>5 DEF vars, boardVars
  <2>2. ToolTypeOK' /\ MutualExclusion' /\ ColdRests' /\ InBank'
    BY <2>1 DEF IInv, ToolTypeOK, MutualExclusion, ColdRests, InBank
  <2>3. ASSUME Clean', ~fooled' PROVE CleanInv'
    <3>1. OneBit /\ SumsTrue /\ CheckTold /\ Served
      BY <2>1, <2>3, CleanSteady DEF IInv, CleanInv
    <3>2. OneBit' /\ Served'
      BY <2>1, <3>1 DEF OneBit, Served, RomRuns
    <3>3. SumsTrue'
      BY <2>1, <3>1 DEF SumsTrue, Tally
    <3>4. CheckTold'
      BY <2>1, <3>1 DEF CheckTold, Tally
    <3> QED BY <3>2, <3>3, <3>4 DEF CleanInv
  <2> QED BY <2>2, <2>3 DEF IInv
<1> QED BY <1>1, <1>2, <1>3, <1>4, <1>5 DEF Next

LEMMA InvServed == IInv => RomServed
  BY DEF IInv, CleanInv, Served, RomServed

(* For every number of Shells and every size of the banks and of a         *)
(* longword, whatever the shadow held, whatever goes astray while it is    *)
(* filled and whenever the machine is reset: as long as no word of the ROM *)
(* looks like the register's key and no check has met equal sums with two  *)
(* wrong words in a bank, ROM code never runs from a shadow that is not    *)
(* the ROM (maprom.c:25-30).                                               *)
THEOREM RomAlwaysServed == Spec => []RomServed
<1>1. Spec => []IInv
  BY InitInv, NextInv, PTL DEF Spec
<1> QED BY <1>1, InvServed, PTL

-----------------------------------------------------------------------------
LEMMA ProbesFindAll == ASSUME AddTypeOK, Passes PROVE Whole
<1>1. fold \in [Probes -> 0..NPROBES] /\ NPROBES \in Nat /\ NPROBES # 1
  BY ProbeAssumption DEF AddTypeOK
<1>2. ASSUME NEW p \in Probes PROVE fold[p] # 0
  <2>1. ReadBack(p) = p
    BY DEF Passes
  <2> QED BY <1>1, <2>1 DEF ReadBack, Probes
<1>3. ASSUME NEW p \in Probes, NEW q \in Probes, fold[p] = fold[q] PROVE p = q
  <2>1. LastTo(fold[p]) = p /\ LastTo(fold[q]) = q
    BY <1>2 DEF Passes, ReadBack
  <2> QED BY <1>3, <2>1
<1> QED BY <1>2, <1>3 DEF Whole

LEMMA MemInit == Init => MemInv
<1> SUFFICES ASSUME Init PROVE MemInv OBVIOUS
<1>1. \A t \in Tasks : tool[t].at = "rest"
  BY RestType DEF Init
<1> QED BY <1>1 DEF Init, AddInit, MemInv, AddTypeOK

(* A step that leaves exec's list and the image alone.                     *)
LEMMA MemSteady ==
  ASSUME IInv, MemInv, UNCHANGED <<fold, old_exec, names, kept, no_mem, boot>>,
         \A t \in Tasks : tool'[t].at = "alloc" => tool[t].at = "alloc"
  PROVE  MemInv'
  BY DEF MemInv, AddTypeOK, Whole

LEMMA MemGoes ==
  ASSUME IInv, MemInv, NEW t \in Tasks, NEW p \in Places \ {"alloc"}, Goes(t, p),
         UNCHANGED <<fold, old_exec, names, kept, no_mem, boot>>
  PROVE  MemInv'
<1>1. tool'[t].at = p /\ \A u \in Tasks : u # t => tool'[u] = tool[u]
  BY GoesTo DEF IInv
<1> QED BY <1>1, MemSteady

LEMMA MemProbe ==
  ASSUME IInv, MemInv, NEW t \in Tasks, Probe(t)
  PROVE  MemInv'
<1>1. UNCHANGED <<fold, old_exec, kept, no_mem, boot>> /\ boot # "cold"
  BY DEF Probe, At, Quiet, Steady, IInv, ColdRests
<1>2. CASE old_exec \/ ~Passes
  <2>1. (Goes(t, "find") \/ Goes(t, "exit")) /\ UNCHANGED names
    BY <1>2 DEF Probe
  <2> QED BY <1>1, <2>1, MemGoes DEF Places
<1>3. CASE ~old_exec /\ Passes
  <2>1. Whole
    BY <1>3, ProbesFindAll DEF MemInv
  <2>2. Whole' /\ AddTypeOK'
    BY <1>1, <2>1 DEF MemInv, AddTypeOK, Whole
  <2>3. names' = names \/ names' = names \cup {<<"image", t>>}
    BY <1>3 DEF Probe, AddMemList
  <2>4. \A n \in names' : n[1] = "text" => no_mem'
    BY <1>1, <2>3 DEF MemInv
  <2> QED BY <1>1, <2>2, <2>4 DEF MemInv
<1> QED BY <1>2, <1>3

LEMMA MemAlloc ==
  ASSUME IInv, MemInv, NEW t \in Tasks, AllocName(t)
  PROVE  MemInv'
<1>1. UNCHANGED <<fold, old_exec, kept, boot>> /\ tool[t].at = "alloc" /\ boot # "cold"
      /\ no_mem \in BOOLEAN
  BY DEF AllocName, At, Quiet, Steady, IInv, ColdRests, MemInv, AddTypeOK
<1>2. Whole /\ Whole'
  BY <1>1 DEF MemInv, Whole
<1>3. /\ no_mem' \in BOOLEAN
      /\ no_mem => no_mem'
      /\ \A n \in names' : n[1] = "text" => no_mem'
  <2>1. \A n \in names : n[1] = "text" => no_mem
    BY DEF MemInv
  <2>2. CASE no_mem' = TRUE
    BY <2>2
  <2>3. CASE no_mem' = no_mem /\ names' = names \cup {<<"heap", t>>}
    <3>1. no_mem' \in BOOLEAN /\ (no_mem => no_mem')
      BY <1>1, <2>3, Zenon
    <3>2. ASSUME NEW n \in names', n[1] = "text" PROVE n \in names
      BY <2>3, <3>2
    <3>3. \A n \in names' : n[1] = "text" => no_mem
      BY <2>1, <3>2, Zenon
    <3> QED BY <2>3, <3>1, <3>3, Zenon
  <2> QED BY <2>2, <2>3, Zenon DEF AllocName, AddMemList
<1>4. AddTypeOK'
  <2>1. AddTypeOK
    BY DEF MemInv
  <2>2. fold' \in Folds /\ old_exec' \in BOOLEAN /\ kept' \in BOOLEAN
    BY <1>1, <2>1, Zenon DEF AddTypeOK
  <2> QED BY <1>3, <2>2, Zenon DEF AddTypeOK
<1> QED BY <1>1, <1>2, <1>3, <1>4 DEF MemInv

LEMMA MemNext == IInv /\ MemInv /\ [Next]_vars => MemInv'
<1> SUFFICES ASSUME IInv, MemInv, [Next]_vars PROVE MemInv' OBVIOUS
<1>1. ASSUME NEW t \in Tasks, Step(t) PROVE MemInv'
  <2>1. CASE FindBoard(t) \/ Load(t) \/ Close(t) \/ Disable(t) \/ Arm(t) \/ Decide(t) \/ Enable(t)
    <3>1. PICK p \in Places \ {"alloc"} : Goes(t, p)
      BY <2>1 DEF FindBoard, Load, Close, Disable, Arm, Decide, Enable, Places
    <3>2. UNCHANGED <<fold, old_exec, names, kept, no_mem, boot>>
      BY <2>1 DEF FindBoard, Load, Close, Disable, Arm, Decide, Enable, Only, Quiet, Steady, Memory
    <3> QED BY <3>1, <3>2, MemGoes
  <2>2. CASE Sum(t) \/ CopyRead(t) \/ CopyWrite(t) \/ Check(t)
    <3>1. UNCHANGED <<fold, old_exec, names, kept, no_mem, boot>>
      BY <2>2 DEF Sum, CopyRead, CopyWrite, Check, Only, Quiet, Steady, Memory
    <3>2. tool \in [Tasks -> Programs] /\ tool[t].at \in {"sum", "read", "write", "check"}
      BY <2>2 DEF IInv, ToolTypeOK, Sum, CopyRead, CopyWrite, Check, At
    <3>3. PICK n : tool' = [tool EXCEPT ![t] = n] /\ n.at # "alloc"
      <4>1. CASE Sum(t)
        <5> DEFINE m == [tool[t] EXCEPT !.sum =
             [tool[t].sum EXCEPT ![Bank(tool[t].k)] = Folded(@, tool[t].k, Reads(tool[t].k))]]
        <5>1. tool' = [tool EXCEPT ![t] = Further(m, "load")]
          BY <4>1 DEF Sum
        <5>2. m.at = tool[t].at /\ m \in [at : Places, k : 0..2*LEN, sum : {m.sum},
                                         got : [Banks -> Words], word : Words]
          BY <3>2 DEF Programs
        <5> HIDE DEF m
        <5>3. Further(m, "load").at # "alloc"
          BY <3>2, <5>2 DEF Further
        <5> QED BY <5>1, <5>3
      <4>2. CASE CopyRead(t)
        <5> DEFINE n == [tool[t] EXCEPT !.word = Reads(tool[t].k), !.at = "write"]
        <5>1. tool' = [tool EXCEPT ![t] = n]
          BY <4>2 DEF CopyRead
        <5>2. n.at # "alloc"
          BY <3>2 DEF Programs
        <5> HIDE DEF n
        <5> QED BY <5>1, <5>2
      <4>3. CASE CopyWrite(t)
        <5> DEFINE n == [tool[t] EXCEPT !.word = 0,
                       !.k = IF tool[t].k + 1 \in Addr THEN tool[t].k + 1 ELSE 0,
                       !.at = IF tool[t].k + 1 \in Addr THEN "read" ELSE "close"]
        <5>1. tool' = [tool EXCEPT ![t] = n]
          BY <4>3 DEF CopyWrite
        <5>2. n.at # "alloc"
          BY <3>2 DEF Programs
        <5> HIDE DEF n
        <5> QED BY <5>1, <5>2
      <4>4. CASE Check(t)
        <5> DEFINE m == [tool[t] EXCEPT !.got =
             [tool[t].got EXCEPT ![Bank(tool[t].k)] = Folded(@, tool[t].k, Reads(tool[t].k))]]
        <5>1. tool' = [tool EXCEPT ![t] = Further(m, "decide")]
          BY <4>4 DEF Check
        <5>2. m.at = tool[t].at /\ m \in [at : Places, k : 0..2*LEN, sum : [Banks -> Words],
                                         got : {m.got}, word : Words]
          BY <3>2 DEF Programs
        <5> HIDE DEF m
        <5>3. Further(m, "decide").at # "alloc"
          BY <3>2, <5>2 DEF Further
        <5> QED BY <5>1, <5>3
      <4> QED BY <2>2, <4>1, <4>2, <4>3, <4>4
    <3>4. tool'[t].at # "alloc" /\ \A u \in Tasks : u # t => tool'[u] = tool[u]
      BY <3>2, <3>3
    <3> QED BY <3>1, <3>4, MemSteady
  <2>3. CASE Exit(t)
    <3>1. tool' = [tool EXCEPT ![t] = [Rest EXCEPT !.at = "done"]]
          /\ fold' = fold /\ names' = names /\ old_exec' = old_exec /\ no_mem' = no_mem
      BY <2>3 DEF Exit
    <3>2. boot # "cold"
      BY <2>3 DEF Exit, At, IInv, ColdRests
    <3>3. kept /\ kept' /\ boot' # "cold"
      <4>1. kept
        BY <3>2 DEF MemInv
      <4>2. CASE t = Diag
        <5>1. returns # 0
          BY DEF returns
        <5>2. boot' = "up" /\ kept' = (returns # 0)
          BY <2>3, <4>2, Zenon DEF Exit
        <5> QED BY <4>1, <5>1, <5>2, Zenon
      <4>3. CASE t # Diag
        BY <2>3, <3>2, <4>1, <4>3, Zenon DEF Exit
      <4> QED BY <4>1, <4>2, <4>3
    <3>4. \A u \in Tasks : tool'[u].at = "alloc" => tool[u].at = "alloc"
      <4>1. tool \in [Tasks -> Programs]
        BY DEF IInv, ToolTypeOK
      <4> QED BY <3>1, <4>1, RestType
    <3>5. AddTypeOK' /\ (names' # {} => Whole')
      <4>1. AddTypeOK /\ (names # {} => Whole)
        BY DEF MemInv
      <4>2. kept' \in BOOLEAN
        <5>1. CASE t = Diag
          BY <2>3, <5>1, Zenon DEF Exit
        <5>2. CASE t # Diag
          BY <2>3, <4>1, <5>2, Zenon DEF Exit, AddTypeOK
        <5> QED BY <5>1, <5>2
      <4>3. AddTypeOK'
        BY <3>1, <4>1, <4>2, Zenon DEF AddTypeOK
      <4> QED BY <3>1, <4>1, <4>3, Zenon DEF Whole
    <3>6. Whole => Whole'
      BY <3>1 DEF Whole
    <3> QED BY <3>1, <3>3, <3>4, <3>5, <3>6 DEF MemInv
  <2> QED BY <1>1, <2>1, <2>2, <2>3, MemProbe, MemAlloc DEF Step
<1>2. ASSUME NEW t \in Shells, Maprom(t) \/ TurnOff(t) \/ Status(t) \/ TestAddTurboMem(t)
      PROVE MemInv'
  <2>1. PICK p \in {"find", "exit", "probe"} : Starts(t, p)
    BY <1>2 DEF Maprom, TurnOff, Status, TestAddTurboMem
  <2>2. Goes(t, p) /\ UNCHANGED <<fold, old_exec, names, kept, no_mem, boot>>
    BY <2>1 DEF Starts, Only, Quiet, Steady, Memory
  <2> QED BY <2>2, MemGoes, Constants DEF Places
<1>3. CASE BootDiag
  <2>1. \A t \in Tasks : tool'[t].at \in {"probe", "rest"}
    BY <1>3 DEF IInv, ToolTypeOK, BootDiag, ColdRests, Programs
  <2> QED BY <1>3, <2>1 DEF BootDiag, MemInv, AddTypeOK, Whole
<1>4. CASE Reset
  <2>1. \A t \in Tasks : tool'[t].at = "rest"
    BY <1>4, RestType DEF Reset
  <2> QED BY <1>4, <2>1 DEF Reset, MemInv, AddTypeOK, Whole
<1>5. CASE UNCHANGED vars
  BY <1>5, MemSteady DEF vars, addVars
<1> QED BY <1>1, <1>2, <1>3, <1>4, <1>5 DEF Next

LEMMA MemInvAdded == MemInv => MemoryAdded
  BY DEF MemInv, MemoryAdded, Alive

(* For every list of at least two probes and whatever the window decodes,  *)
(* folds or leaves out: memory that turbomem_add has handed to exec        *)
(* answers every probe from a cell of its own, and its name is in memory   *)
(* nobody frees, unless AllocMem has failed.                               *)
THEOREM MemoryAlwaysWhole == Spec => []MemoryAdded
<1>1. Spec => [](IInv /\ MemInv)
  BY InitInv, NextInv, MemInit, MemNext, PTL DEF Spec
<1> QED BY <1>1, MemInvAdded, PTL
=============================================================================
