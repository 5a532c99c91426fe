------------------------------- MODULE Library -------------------------------
(***************************************************************************)
(* What the library functions and the tools are called with, what they     *)
(* compute, and what they should: C's definitions, the layout of the CSD   *)
(* and of the DiagArea, and what their callers rely on.  A call is a       *)
(* record, fn says what of.                                                *)
(***************************************************************************)
EXTENDS SmallPrintf, CStrings, MemCheck, RomGen, DiagDump

CONSTANT SHORTLOGW                  (* small longs, divided exhaustively   *)
Short == INSTANCE Ldiv WITH LOGW <- SHORTLOGW

-----------------------------------------------------------------------------
(* Division, by the words printf divides by.                               *)
Quotients(d) == [n \in 0..Short!LONG-1 |-> Short!divu(n, d)]
Exact(n, d, r) == r = <<n \div d, n % d>>

-----------------------------------------------------------------------------
(* printf: a directive is a record of flag, width, conversion and value.   *)

Spelt(d) == <<"%">> \o (IF d.zero THEN <<"0">> ELSE <<>>)
            \o (IF d.width > 0 THEN <<Digit[d.width + 1]>> ELSE <<>>) \o <<d.conv>>
Spelling(ds) == FlattenSeq([i \in DOMAIN ds |-> Append(Spelt(ds[i]), ":")])
Arguments(ds) == [i \in DOMAIN ds |-> ds[i].val]

Numeral(v, base) ==                 \* six digits are enough for a small long
  LET n == Min({k \in 1..6 : base^k > v})
  IN  [i \in 1..n |-> Digit[((v \div base^(n-i)) % base) + 1]]
Padded(d, s) == [i \in 1..(d.width - Len(s)) |-> IF d.zero THEN "0" ELSE " "] \o s
Negative(d) == d.conv = "d" /\ d.val >= LONG \div 2
Meaning(d) ==
  CASE d.conv = "s" -> d.val
    [] d.conv = "c" -> <<d.val>>
    [] d.conv \in {"d", "u"} ->
         IF Negative(d) THEN <<"-">> \o Numeral(LONG - d.val, 10) ELSE Padded(d, Numeral(d.val, 10))
    [] d.conv = "x" -> Padded(d, Numeral(d.val, 16))
Text(ds) == FlattenSeq([i \in DOMAIN ds |-> Append(Meaning(ds[i]), ":")])

(* _cvt has room for W characters.                                         *)
Room16(d) == d.conv \in {"s", "c"} \/ Len(_cvt(d.val, Radix(d.conv), d.width, d.zero)) <= W

-----------------------------------------------------------------------------
(* Tokens and numbers in strings.                                          *)

Runs(s, delim) ==
  {r \in (DOMAIN s) \X (DOMAIN s) :
     /\ r[1] <= r[2] /\ \A i \in r[1]..r[2] : s[i] \notin delim
     /\ r[1] = 1 \/ s[r[1] - 1] \in delim
     /\ r[2] = Len(s) \/ s[r[2] + 1] \in delim}
Tokens(s, delim) ==
  LET runs == SetToSortSeq(Runs(s, delim), LAMBDA a, b : a[1] < b[1])
  IN  [i \in DOMAIN runs |-> SubSeq(s, runs[i][1], runs[i][2])]

DigitOf(c) == IF c \in ToSet(Decimal) THEN Find(c, Decimal)
              ELSE IF c \in ToSet(Upper) THEN 10 + Find(c, Upper)
              ELSE IF c \in ToSet(Lower) THEN 10 + Find(c, Lower) ELSE 99
(* The number [value, end] that starts at p: digits p to q.                *)
IsNumber(r, s, p, base) ==
  \E q \in p..Len(s) :
    /\ \A i \in p..q : DigitOf(s[i]) < base
    /\ q = Len(s) \/ DigitOf(s[q + 1]) >= base
    /\ r.end = q + 1
    /\ r.value = MapThenSumSet(LAMBDA i : DigitOf(s[i]) * base^(q - i), p..q)
Begins(s) == Min({i \in DOMAIN s : s[i] # " "} \cup {Len(s) + 1})
HasNumber(s, p, base) ==      \* and no digit too large for the base
  /\ p <= Len(s) /\ DigitOf(s[p]) < base
  /\ \A i \in DOMAIN s : s[i] \in ToSet(Decimal) => DigitOf(s[i]) < base

-----------------------------------------------------------------------------
(* The CSD: c_size, c_size_mult and read_bl_len of a small card, or c_size *)
(* alone; the bits around them all alike.                                  *)
CsdOf(c) ==
  IF c.version = 1
  THEN [i \in 1..16 |->
         CASE i = 1 -> c.rest * 63
           [] i = 6 -> c.rest * 240 + c.len
           [] i = 7 -> c.rest * 252 + c.size \div 1024
           [] i = 8 -> (c.size \div 4) % 256
           [] i = 9 -> (c.size % 4) * 64 + c.rest * 63
           [] i = 10 -> c.rest * 252 + c.mult \div 2
           [] i = 11 -> (c.mult % 2) * 128 + c.rest * 127
           [] OTHER -> c.rest * 255]
  ELSE [i \in 1..16 |->
         CASE i = 1 -> 64 + c.rest * 63
           [] i = 8 -> c.rest * 192 + c.size \div 65536
           [] i = 9 -> (c.size \div 256) % 256
           [] i = 10 -> c.size % 256
           [] OTHER -> c.rest * 255]
Blocks(c) == IF c.version = 1 THEN (c.size + 1) * 2^(c.mult + 2 + c.len - 9)
             ELSE (c.size + 1) * 1024

-----------------------------------------------------------------------------
(* romgen: a file whose bytes are all different, as lanes: each starts a   *)
(* word after the last and steps over the words of the others.             *)
Bytes(n) == [i \in 1..n |-> i]
LaneOptions(c, i) ==
  (IF c.swap THEN << <<"b", 0>> >> ELSE <<>>) \o << <<"z", c.wordsize>>, <<"s", c.lanes - 1>> >>
  \o (IF c.limit > 0 THEN << <<"l", c.limit>> >> ELSE <<>>)
  \o [j \in 1..i |-> <<"o", c.wordsize>>]
Lanes(c) == [i \in 1..c.lanes |-> romgen(LaneOptions(c, i - 1), Bytes(c.len))]

WordsOf(c) == (c.len + c.wordsize - 1) \div c.wordsize
InLane(c, w) == (w % c.lanes) + 1
LineOf(c, w) == (w \div c.lanes) + 1
(* Word w of the file, in the order it is wanted.                          *)
FileByte(c, w, i) == LET at == w * c.wordsize + (IF c.swap THEN c.wordsize + 1 - i ELSE i)
                     IN  IF at <= c.len THEN at ELSE 0
Wanted(c, w) == c.limit = 0 \/ w < InLane(c, w) - 1 + c.limit \div c.wordsize
Interleaved(c, r) ==
  LET words == {w \in 0..WordsOf(c)-1 : Wanted(c, w)}
  IN  /\ \A i \in 1..c.lanes :
           r[i].status = 0 /\ Len(r[i].lines) = Cardinality({w \in words : InLane(c, w) = i})
      /\ \A w \in words : r[InLane(c, w)].lines[LineOf(c, w)]
                           = [i \in 1..c.wordsize |-> FileByte(c, w, i)]

-----------------------------------------------------------------------------
(* cfgdump: the turbomem board, whose area is word-wide; a board whose     *)
(* area is byte-wide, at odd addresses; and the SD card's, whose window    *)
(* reads as registers once its driver has written to it: at odd addresses, *)
(* one value in every other 16 bytes and another between.                  *)
Fields(c) == <<c.config, 0, c.size \div 256, c.size % 256, 0, 160, 0, 14,
               c.name \div 256, c.name % 256>>
InfoByte(c, n) == IF n < 10 THEN Fields(c)[n + 1] ELSE IF n \in c.name..c.name+2 THEN 84 ELSE 0
Board(c) ==
  LET reads(a) ==
        CASE c.wide = "word" -> IF a < 8192 THEN 0 ELSE InfoByte(c, a - 8192)
          [] c.wide = "byte" -> InfoByte(c, a \div 2)
          [] c.wide = "registers" -> IF (a \div 16) % 2 = 1 THEN c.name % 256 ELSE c.size \div 256
  IN  [size |-> 65536, diagvalid |-> TRUE, vec |-> IF c.wide = "word" THEN 8192 ELSE 1,
       byte |-> [a \in Nat |-> reads(a)]]

Dumped(c) == LET b == Board(c) IN [reads |-> DumpReads(b), header |-> Header(b), name |-> NameReads(b)]

(* A read that takes a byte out of the receive FIFO (sdcard.v:222-226).    *)
Pops(a) == a % 2 = 0 /\ (a \div 16) % 2 = 1

(* What the window shows of byte n of the area.                            *)
Shown(c, n) ==
  IF c.wide # "registers" THEN InfoByte(c, n)
  ELSE IF (n \div 8) % 2 = 1 THEN c.name % 256 ELSE c.size \div 256
ShownWord(c, n) == 256 * Shown(c, n) + Shown(c, n + 1)

(* Inside the window, the area and the name; what is there is what is      *)
(* printed; and the driver's data are left alone.                          *)
SeesOnly(c, r) ==
  /\ \A a \in r.reads : a < 65536
  /\ c.wide # "word" => \A a \in r.reads : ~Pops(a)
  /\ r.header = [config |-> Shown(c, 0), flags |-> Shown(c, 1), size |-> ShownWord(c, 2),
                 diag |-> ShownWord(c, 4), boot |-> ShownWord(c, 6), name |-> ShownWord(c, 8)]
  /\ \A a \in r.name : (IF c.wide = "word" THEN a - 8192 ELSE a \div 2) < r.header.size
  /\ c.wide # "registers" => Cardinality(r.name) <= 4

-----------------------------------------------------------------------------
Compute(c) ==
  CASE c.fn = "divide" -> [quotients |-> Quotients(c.d)]
    [] c.fn = "printf" -> [printf |-> printf(Spelling(c.ds), Arguments(c.ds)),
                           sprintf |-> sprintf(Spelling(c.ds), Arguments(c.ds))]
    [] c.fn = "snprintf" -> [snprintf |-> snprintf(c.size, Spelling(c.ds), Arguments(c.ds))]
    [] c.fn = "strtok" -> [tokens |-> strtok(c.s, c.delim)]
    [] c.fn = "strtol" -> [strtol |-> strtol(c.s, c.base), strtoul |-> strtoul(c.s, c.base)]
    [] c.fn = "memcheck" -> [bits |-> MemBits(c.bits)]
    [] c.fn = "csd" -> [blocks |-> CardSize(CsdOf(c))]
    [] c.fn = "romgen" -> [lanes |-> Lanes(c)]
    [] c.fn = "cfgdump" -> Dumped(c)

RightText(c, r) ==
  /\ r.printf = Text(c.ds) /\ \A i \in DOMAIN c.ds : Room16(c.ds[i])
  /\ (\A i \in DOMAIN c.ds : ~Negative(c.ds[i])) => r.sprintf = Append(r.printf, "NUL")

RightBuffer(c, buf) ==
  /\ Len(buf) = Min({Len(Text(c.ds)) + 1, c.size})
  /\ buf[Len(buf)] = "NUL" /\ IsPrefix(Front(buf), Text(c.ds))

RightNumber(c, r) ==
  LET b == Begins(c.s)
  IN  /\ HasNumber(c.s, b, c.base) =>
            r.strtol = r.strtoul /\ IsNumber(r.strtol, c.s, b, c.base)
      /\ b <= Len(c.s) /\ c.s[b] = "-" /\ HasNumber(c.s, b + 1, c.base) =>
            IsNumber([r.strtol EXCEPT !.value = -@], c.s, b + 1, c.base)

Right(c, r) ==
  CASE c.fn = "divide" -> \A n \in DOMAIN r.quotients : Exact(n, c.d, r.quotients[n])
    [] c.fn = "printf" -> RightText(c, r)
    [] c.fn = "snprintf" -> RightBuffer(c, r.snprintf)
    [] c.fn = "strtok" -> r.tokens = Tokens(c.s, c.delim)
    [] c.fn = "strtol" -> RightNumber(c, r)
    [] c.fn = "memcheck" -> r.bits = c.bits
    [] c.fn = "csd" -> r.blocks = Blocks(c)
    [] c.fn = "romgen" -> Interleaved(c, r.lanes)
    [] c.fn = "cfgdump" -> SeesOnly(c, r)
=============================================================================
