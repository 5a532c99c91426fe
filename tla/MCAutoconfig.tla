---------------------------- MODULE MCAutoconfig ----------------------------
(* Addresses: the configuration registers, memory in three slots and in the*)
(* CPU window, both mapROM banks, the two I/O pages, and the offset of the *)
(* mapROM register in the board and elsewhere.                             *)
EXTENDS AutoconfigChain

At(h, p, o) == [hi |-> h, page |-> p, off |-> o]
MCOffset == {0, 72, 74, 76, 61448}
MCAddress ==
  {At(0, 232, 72), At(0, 232, 74), At(0, 232, 76),
   At(0, 32, 0), At(0, 48, 0), At(0, 64, 0), At(8, 32, 0), At(8, 233, 0),
   At(0, 248, 0), At(0, 224, 0), At(0, 233, 0), At(0, 234, 0),
   At(0, 233, 61448)}
MCStrayAddress == MCAddress \cup {At(0, 32, 61448)}
=============================================================================
