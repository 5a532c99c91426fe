----------------------------- MODULE FastmemMap -----------------------------
(***************************************************************************)
(* Which addresses the fast RAM answers and where in the SDRAM it keeps    *)
(* them (fastmem_zii.v 271-278, 303, 346-348, 414-447).  No state here:    *)
(* `match' is the set of owned 1 MB slots (the bitmap addr_match).         *)
(*                                                                         *)
(* An address is [hi, page, off]: A31-A24, A23-A16, and the word within    *)
(* its 64 KB page.  An SDRAM word is [mb, page, off]: its megabyte (bits   *)
(* 23-19 of the word address), the 64 KB page in it and the word.          *)
(***************************************************************************)
EXTENDS Integers, FiniteSets

CONSTANT Offset        (* byte offsets explored within a 64 KB page        *)

ASSUME OffsetAssumption == Offset \subseteq Nat

Byte8 == 0..255
Addresses == [hi : Byte8, page : Byte8, off : Offset]

region(a) == a.page \div 16
slot(a) == region(a) - 2
in_window(a) == a.hi = 0 /\ region(a) \in 2..9
owned(match, a) == in_window(a) /\ slot(a) \in match
cpu_win(a) == a.hi = 8
mr_boot(a) == a.page \div 8 = 31
mr_ext(a) == a.page \div 8 = 28
mr_win(a) == a.hi = 0 /\ (mr_boot(a) \/ mr_ext(a))

\* mutant: the loop stops one slot short
dense_mbShort(match, a) == Cardinality({i \in match : i < slot(a) - 1})

(* Owned slots are packed in SDRAM in the order of their addresses.        *)
dense_mb(match, a) == Cardinality({i \in match : i < slot(a)})

Boot == 0   (* {5'b01000, mr_ext, a[18:1]}: the boot bank comes first      *)
Ext == 1

sdram_word(match, a) ==
  IF mr_win(a)
  THEN [mb |-> 8, page |-> 8 * (IF mr_ext(a) THEN Ext ELSE Boot) + (a.page % 8),
        off |-> a.off]
  ELSE IF cpu_win(a)
  THEN [mb |-> 16 + region(a), page |-> a.page % 16, off |-> a.off]
  ELSE [mb |-> dense_mb(match, a), page |-> a.page % 16, off |-> a.off]

(* Everything the fast RAM may answer, mapROM included.                    *)
Answers(match, a) == owned(match, a) \/ cpu_win(a) \/ mr_win(a)

(* No two addresses share a word of the SDRAM.                             *)
Injective(match, S) ==
  \A x, y \in S :
    /\ Answers(match, x) /\ Answers(match, y)
    /\ sdram_word(match, x) = sdram_word(match, y)
    => x = y
=============================================================================
