------------------------------ MODULE DiagDump ------------------------------
(***************************************************************************)
(* cfgdump (cfgdump.c) reads the DiagArea of every autoconfig board back   *)
(* through the board's window.  A board is a record: size, vec (its        *)
(* er_InitDiagVec), diagvalid, and byte, what its window reads.            *)
(***************************************************************************)
EXTENDS Integers, FiniteSetsExt

(* The information of a byte-wide area is at every second address.         *)
\* mutant: every area is taken for a word-wide one
shiftNone(board) == 1

shift(board) == IF board.vec % 2 = 1 THEN 2 ELSE 1

(* dump_diagarea: the address of byte n, and the fields.                   *)
InfoAt(board, n) == board.vec + n * shift(board)
Info(board, n) == board.byte[InfoAt(board, n)]
Field(board, n) == 256 * Info(board, n) + Info(board, n + 1)

Header(board) == [config |-> Info(board, 0), flags |-> Info(board, 1),
                  size |-> Field(board, 2), diag |-> Field(board, 4),
                  boot |-> Field(board, 6), name |-> Field(board, 8)]

(* The name is read up to a NUL, da_Size or 79 characters, if the area is  *)
(* inside the window.                                                      *)
\* mutant: da_Size is believed
FitsAlways(board, h) == h.name # 0 /\ h.name < h.size

Fits(board, h) ==
  h.name # 0 /\ h.name < h.size /\ h.size * shift(board) <= board.size - board.vec

NameReads(board) ==
  LET h == Header(board)
      left == {k \in 0..78 : h.name + k < h.size}
      ends == {k \in left : Info(board, h.name + k) = 0}
  IN  IF ~Fits(board, h) THEN {}
      ELSE {InfoAt(board, h.name + k) : k \in IF ends = {} THEN left ELSE {j \in left : j <= Min(ends)}}

(* rdw: a word as two bytes.                                               *)
rdw(a) == {a, a + 1}

(* The statistics at $F000, if their magic word is there.                  *)
Statistics(board) ==
  UNION {rdw(61440 + a) : a \in
    IF board.byte[61440] = 84 /\ board.byte[61441] = 77 THEN {0, 2, 4, 6} ELSE {0}}

(* Every address the tool reads.                                           *)
DumpReads(board) ==
  IF ~board.diagvalid THEN {}
  ELSE UNION {rdw(a) : a \in {0, 2, board.vec, board.vec + 2}}
       \cup {InfoAt(board, n) : n \in 0..9} \cup NameReads(board)
       \cup Statistics(board)
=============================================================================
