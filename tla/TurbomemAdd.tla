---------------------------- MODULE TurbomemAdd ----------------------------
(***************************************************************************)
(* turbomem_add (turbomem.c): probe the fast RAM window and hand it to     *)
(* exec.  The window may decode fewer address bits than it should, or not  *)
(* answer at all; a pattern is the number of the probe it belongs to.      *)
(*                                                                         *)
(* exec keeps the pointer to the region's name: into the image that        *)
(* expansion.library copied to RAM, into memory from AllocMem, or into the *)
(* text of a program, which goes when the program does.                    *)
(***************************************************************************)
EXTENDS Integers, FiniteSets

CONSTANTS
  NPROBES,            (* probe_offsets, in their order                      *)
  Folds               (* what the window may decode: probe -> cell, 0: none *)

Probes == 1..NPROBES

ASSUME ProbeAssumption ==
  /\ NPROBES \in Nat \ {0, 1}
  /\ Folds \subseteq [Probes -> 0..NPROBES]

VARIABLES
  fold,               (* the window's decoding                              *)
  old_exec,           (* exec before V33                                    *)
  names,              (* whose memory the names in exec's list are in       *)
  kept,               (* the image is in memory that has not been freed     *)
  no_mem              (* an AllocMem has failed                             *)

addVars == <<fold, old_exec, names, kept, no_mem>>

AddTypeOK ==
  /\ fold \in Folds
  /\ old_exec \in BOOLEAN /\ kept \in BOOLEAN /\ no_mem \in BOOLEAN

AddInit ==
  /\ fold \in Folds /\ old_exec \in BOOLEAN
  /\ names = {} /\ kept = FALSE /\ no_mem = FALSE

-----------------------------------------------------------------------------
(* A cell keeps the last pattern written to it; where nothing answers, the *)
(* lines still carry the last word transferred.                            *)
LastTo(c) ==
  CHOOSE p \in Probes : fold[p] = c /\ \A q \in Probes : fold[q] = c => q <= p
ReadBack(p) ==
  IF fold[p] # 0 THEN LastTo(fold[p])
  ELSE IF p = 1 THEN NPROBES
  ELSE p - 1          \* the probes before it all read back right

\* mutant: each address is read straight after it is written, so that cells
\* shared with other probes, and the lines themselves, read back right
PassesEach == TRUE

(* Every probe is written before any is read.                              *)
Passes == \A p \in Probes : ReadBack(p) = p

(* The window answers every probe from a cell of its own.                  *)
Whole == \A p, q \in Probes : fold[p] # 0 /\ (fold[p] = fold[q] => p = q)

AddMemList(name) == names' = names \cup {name}
=============================================================================
