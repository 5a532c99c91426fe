------------------------------ MODULE CStrings ------------------------------
(***************************************************************************)
(* string_c.c.  A string is a sequence of characters without its NUL; a    *)
(* buffer is the characters with it, a pointer an index into it, 0 NULL.   *)
(***************************************************************************)
EXTENDS Integers, SequencesExt, FiniteSetsExt

NUL == "NUL"

(* The first position whose character is in stop, or the end.              *)
FirstIn(s, stop) == LET at == {i \in 1..Len(s) : s[i] \in stop}
                    IN  IF at = {} THEN Len(s) + 1 ELSE Min(at)
strspn(s, inc) == FirstIn(s, ToSet(s) \ inc) - 1
strcspn(s, exc) == FirstIn(s, exc) - 1

StringAt(buf, p) == SubSeq(buf, p, p + FirstIn(SubSeq(buf, p, Len(buf)), {NUL}) - 2)

(* A token of c characters ends at a NUL, which takes a delimiter's place; *)
(* *saveptr goes past it.                                                  *)
\* mutant: the delimiter stays
TerminatedNot(buf, end) == [buf |-> buf, save |-> IF buf[end] = NUL THEN 0 ELSE end + 1]

Terminated(buf, end) ==
  IF buf[end] = NUL THEN [buf |-> buf, save |-> 0]
  ELSE [buf |-> [buf EXCEPT ![end] = NUL], save |-> end + 1]

strtok_r(buf, save, delim) ==
  LET str == save + strspn(StringAt(buf, save), delim)
      c == strcspn(StringAt(buf, str), delim)
      r == Terminated(buf, str + c)
  IN  IF save = 0 \/ c = 0 THEN [buf |-> buf, save |-> save, tok |-> 0]
      ELSE [buf |-> r.buf, save |-> r.save, tok |-> str]

(* strtok, called until it returns 0: the tokens, and the buffer.          *)
strtok(s, delim) ==
  LET calls[n \in Nat] ==
        IF n = 0 THEN <<strtok_r(Append(s, NUL), 1, delim)>>
        ELSE LET before == calls[n-1]
                 last == before[Len(before)]
             IN  IF last.tok = 0 THEN before
                 ELSE Append(before, strtok_r(last.buf, last.save, delim))
      all == calls[Len(s) + 1]
      end == all[Len(all)]
      found == SelectSeq(all, LAMBDA r : r.tok # 0)
  IN  [i \in DOMAIN found |-> StringAt(end.buf, found[i].tok)]

-----------------------------------------------------------------------------
Decimal == <<"0", "1", "2", "3", "4", "5", "6", "7", "8", "9">>
Upper == <<"A", "B", "C", "D", "E", "F">>
Lower == <<"a", "b", "c", "d", "e", "f">>
Find(c, seq) == Min({i \in DOMAIN seq : seq[i] = c}) - 1

(* -1: no digit.  The base counts for letters alone.                       *)
todigit(c, base) ==
  IF c \in ToSet(Upper) /\ base = 16 THEN 10 + Find(c, Upper)
  ELSE IF c \in ToSet(Lower) /\ base = 16 THEN 10 + Find(c, Lower)
  ELSE IF c \in ToSet(Decimal) THEN Find(c, Decimal) ELSE -1

(* The value, and the position where the number ends.                      *)
Number(s, p, base) ==
  LET digits == FirstIn(SubSeq(s, p, Len(s)), {c \in ToSet(s) : todigit(c, base) < 0}) - 1
  IN  [value |-> FoldLeft(LAMBDA v, c : v * base + todigit(c, base), 0,
                          SubSeq(s, p, p + digits - 1)),
       end |-> p + digits]

strtol(s, base) ==
  LET p == strspn(s, {" "}) + 1
      r == Number(s, p + 1, base)
  IN  IF p <= Len(s) /\ s[p] = "-" THEN [r EXCEPT !.value = -@] ELSE Number(s, p, base)

strtoul(s, base) == Number(s, strspn(s, {" "}) + 1, base)
=============================================================================
