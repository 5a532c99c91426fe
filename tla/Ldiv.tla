-------------------------------- MODULE Ldiv --------------------------------
(***************************************************************************)
(* Division of a long by a word on a CPU that divides a long by a word     *)
(* into a word (ldiv.s): printf's, the only one the firmware has.  A word  *)
(* has W bits and a long 2W: 16 and 32 in the code.                        *)
(***************************************************************************)
EXTENDS Integers, SequencesExt

CONSTANT LOGW

W == 2^LOGW
WORD == 2^W
LONG == WORD * WORD
Neg(x) == (LONG - x) % LONG         \* of a long, two's complement

(* The halves of the dividend, one by one: quotient and remainder.         *)
\* mutant: the remainder of the high half is lost
HalvesApart(n, d) ==
  <<((n \div WORD) \div d) * WORD + ((n % WORD) \div d), (n % WORD) % d>>

divu(n, d) ==
  LET rest == (((n \div WORD) % d) * WORD) + (n % WORD)
  IN  <<((n \div WORD) \div d) * WORD + (rest \div d), rest % d>>
=============================================================================
