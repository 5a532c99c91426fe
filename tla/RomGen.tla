------------------------------- MODULE RomGen -------------------------------
(***************************************************************************)
(* romgen (romgen.c): a binary file as the lines of a ROM.  A line is the  *)
(* bytes of its word in the order they are printed.                        *)
(***************************************************************************)
EXTENDS Integers, SequencesExt, FiniteSetsExt

NoLimit == 2147483647

(* ParseOptions: a sequence of options <<letter, value>>.  Offsets add up. *)
\* mutant: the last one counts
OffsetLast(total, n) == n

Offset(total, n) == total + n

Defaults == [offset |-> 0, stride |-> 0, limit |-> NoLimit, byteswap |-> FALSE,
             word |-> FALSE, wordsize |-> 4, hex |-> FALSE]
Option(o, opt) ==
  CASE opt[1] = "o" -> [o EXCEPT !.offset = Offset(@, opt[2])]
    [] opt[1] = "l" -> [o EXCEPT !.limit = opt[2]]
    [] opt[1] = "s" -> [o EXCEPT !.stride = opt[2]]
    [] opt[1] = "z" -> [o EXCEPT !.wordsize = opt[2]]
    [] opt[1] = "b" -> [o EXCEPT !.byteswap = TRUE]
    [] opt[1] = "w" -> [o EXCEPT !.word = TRUE]
    [] opt[1] = "x" -> [o EXCEPT !.hex = TRUE]
    [] OTHER -> o
ParseOptions(argv) == FoldLeft(Option, Defaults, argv)

(* A word, filled up with zeros where the file ends in it.                 *)
Word(file, pos, o) ==
  LET w == [i \in 1..o.wordsize |-> IF pos + i <= Len(file) THEN file[pos + i] ELSE 0]
  IN  IF o.byteswap THEN Reverse(w) ELSE w

(* The offset is stepped over a word at a time.                            *)
Skipped(o) == ((o.offset + o.wordsize - 1) \div o.wordsize) * o.wordsize

(* count is what is left of the limit; a word of the stride counts too.    *)
\* mutant: the words stepped over do not count
CountsOne(o) == 1

Counts(o) == 1 + o.stride

Rom(file, o) ==
  LET lines[n \in Nat] ==
        LET pos == Skipped(o) + n * (1 + o.stride) * o.wordsize
            count == o.limit \div o.wordsize - 1 - n * Counts(o)
        IN  IF count < 0 \/ pos >= Len(file) THEN <<>>
            ELSE <<Word(file, pos, o)>> \o lines[n + 1]
  IN  lines[0]

(* In bytes, a line cannot be one byte: then it is printed as a word.      *)
Format(o) == IF o.word \/ (o.wordsize = 1 /\ ~o.hex) THEN "word"
             ELSE IF o.hex THEN "hex" ELSE "bytes"

romgen(argv, file) ==
  LET o == ParseOptions(argv)
  IN  IF o.wordsize \notin {1, 2, 4} THEN [status |-> 1]
      ELSE [status |-> 0, format |-> Format(o), lines |-> Rom(file, o)]
=============================================================================
