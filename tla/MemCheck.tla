------------------------------ MODULE MemCheck ------------------------------
(***************************************************************************)
(* How the firmware finds the size of the memory (_INIT_1_MemCheck in      *)
(* boot.c) and of the card (sd_readsizefromcard in spi_c.c).               *)
(***************************************************************************)
EXTENDS Integers, FiniteSetsExt

CONSTANT MAXMEMBIT                  (* 25                                  *)

(* A memory of 2^bits longwords answers everywhere, modulo its size.  The  *)
(* longwords at 0 and at the powers of two are written, then the one at 0  *)
(* again: the powers that have changed with it are aliases.                *)
Cell(bits, a1) == a1 % 2^bits
aliases(bits) == {i \in 0..MAXMEMBIT-2 : Cell(bits, 2^i) = Cell(bits, 0)}

(* aliases<<=2; then a bit less of memory for every shift until none of    *)
(* them is left in 1<<MAXMEMBIT.                                           *)
\* mutant: the longwords are taken for bytes
HalvesBytes(as) == LET left == {i \in as : i < MAXMEMBIT}
                   IN  IF left = {} THEN 0 ELSE MAXMEMBIT - Min(left)

Halves(as) == LET top == {i + 2 : i \in as}
              IN  IF top = {} THEN 0 ELSE Max({1, MAXMEMBIT - Min(top)})

(* The size printed, as the logarithm of its longwords.                    *)
MemBits(bits) == MAXMEMBIT - 1 - Halves(aliases(bits))

-----------------------------------------------------------------------------
(* The size from the CSD, a sequence of 16 bytes, in blocks of 512.        *)
Bits(byte, low, n) == (byte \div 2^low) % 2^n
Csd(csd, i) == csd[i + 1]

Version2(csd) == 1024 * (1 + Bits(Csd(csd, 7), 0, 6) * 65536 + Csd(csd, 8) * 256 + Csd(csd, 9))

c_size_mult(csd) == 2 * Bits(Csd(csd, 9), 0, 2) + Bits(Csd(csd, 10), 7, 1)
read_bl_len(csd) == Bits(Csd(csd, 5), 0, 4)
csize(csd) == 1024 * Bits(Csd(csd, 6), 0, 2) + 4 * Csd(csd, 7) + Bits(Csd(csd, 8), 6, 2)

\* mutant: a block is taken for 512 bytes
ScaleOne(len) == 1

Scale(len) == IF len > 9 THEN 2^(len - 9) ELSE 1
Version1(csd) == (csize(csd) + 1) * 2^(2 + c_size_mult(csd)) * Scale(read_bl_len(csd))

CardSize(csd) == IF Bits(Csd(csd, 0), 6, 2) = 1 THEN Version2(csd) ELSE Version1(csd)
=============================================================================
