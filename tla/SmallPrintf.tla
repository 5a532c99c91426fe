----------------------------- MODULE SmallPrintf -----------------------------
(***************************************************************************)
(* printf and its relatives (small_printf.c).  An int is a long of Ldiv; a *)
(* format is a sequence of characters, and so is what comes out.  What the *)
(* functions return is left out: nothing looks at it.                      *)
(***************************************************************************)
EXTENDS Ldiv

Digit == <<"0", "1", "2", "3", "4", "5", "6", "7", "8", "9", "A", "B", "C", "D", "E", "F">>

(* _cvt: a dividend keeps its sign bit, and counts as unsigned.            *)
Digits(val, radix) ==
  LET ds[v \in Nat] ==
        IF v = 0 THEN <<>> ELSE Append(ds[divu(v, radix)[1]], Digit[divu(v, radix)[2] + 1])
  IN  ds[val]
Padding(n, padzero) == [i \in 1..n |-> IF padzero THEN "0" ELSE " "]

_cvt(val, radix, width, padzero) ==
  LET ds == Digits(val, radix)
  IN  IF val = 0 THEN <<"0">> ELSE Padding(width - Len(ds), padzero) \o ds

(* _printfcore, a character of the format at a time.                       *)
Start(args) == [out |-> <<>>, nextfmt |-> FALSE, padzero |-> FALSE, width |-> 0, args |-> args]
Emits(st, s) == [st EXCEPT !.out = @ \o s, !.nextfmt = FALSE]
Takes(st, s) == [Emits(st, s) EXCEPT !.args = Tail(@)]

Radix(c) == CASE c \in {"d", "D", "u"} -> 10 [] c = "b" -> 2 [] c \in {"p", "x", "X"} -> 16

(* The sign goes to putchar, whatever f is.                                *)
Integer(st, c, tobuf) ==
  LET v == Head(st.args)
      neg == c = "d" /\ v >= LONG \div 2
      sign == IF neg /\ ~tobuf THEN <<"-">> ELSE <<>>
  IN  Takes(st, sign \o _cvt(IF neg THEN Neg(v) ELSE v, Radix(c), st.width, st.padzero))

Width == {"1", "2", "3", "4", "5", "6", "7", "8"}      \* c>'0' && c<'9'
Value(c) == CHOOSE i \in 0..9 : Digit[i + 1] = c

\* mutant: the last directive's width is still there
PercentStale(st) == [st EXCEPT !.nextfmt = TRUE]

Percent(st) == [st EXCEPT !.nextfmt = TRUE, !.padzero = FALSE, !.width = 0]

Flag(st, c) ==
  IF c = "0" THEN [st EXCEPT !.padzero = TRUE]
  ELSE IF c \in Width THEN [st EXCEPT !.width = 10 * @ + Value(c)]
  ELSE st                                             \* l ' # space - +

Directive(st, c, tobuf) ==
  IF c \in {"d", "D", "u", "b", "p", "x", "X"} THEN Integer(st, c, tobuf)
  ELSE IF c = "s" THEN Takes(st, Head(st.args))
  ELSE IF c = "c" THEN Takes(st, <<Head(st.args)>>)
  ELSE IF c = "%" THEN Emits(st, <<"%">>)
  ELSE IF c \in Width \cup {"0", "l", "'", "#", " ", "-", "+"} THEN Flag(st, c)
  ELSE [st EXCEPT !.nextfmt = FALSE]

_printfcore(fmt, args, tobuf) ==
  FoldLeft(LAMBDA st, c : IF st.nextfmt THEN Directive(st, c, tobuf)
                          ELSE IF c = "%" THEN Percent(st) ELSE Emits(st, <<c>>),
           Start(args), fmt).out

printf(fmt, args) == _printfcore(fmt, args, FALSE)

(* A buffer of size takes one character less; then the NUL, where the text *)
(* ends.                                                                   *)
sprintf(fmt, args) == _printfcore(fmt, args, TRUE) \o <<"NUL">>

\* mutant: the NUL is not counted
RoomFull(size) == size

Room(size) == (size + LONG - 1) % LONG

snprintf(size, fmt, args) ==
  LET out == _printfcore(fmt, args, TRUE)
      text == IF Room(size) < Len(out) THEN SubSeq(out, 1, Room(size)) ELSE out
  IN  IF size = 0 THEN text ELSE Append(text, "NUL")
=============================================================================
