------------------------------ MODULE MCMinFat ------------------------------
(* A FAT32 volume of four clusters of two sectors: the root directory has  *)
(* two of them, the files of two names share the others, and the FAT has   *)
(* just the links these need.                                              *)
EXTENDS MinFat, TLC

MCJunk == (0 :> 4) @@ (1 :> 0)
MCEntry(n, a, f, s) == [name |-> n, attr |-> a, first |-> f, size |-> s,
                       rest |-> "none"]
Gap == MCEntry("empty", "normal", 0, 0)
Label == MCEntry("other", "volume", 0, 0)
Old == MCEntry("deleted", "archive", 3, 1)
Parent == MCEntry("other", "directory", 0, 0)
Long(n) == MCEntry(n, "lfn", 0, 0)
MCJunkDir == (0 :> Gap) @@ (1 :> Gap)

MCDir(a, b) == [kind |-> "dir", v |-> (0 :> a) @@ (1 :> b)]
MCFat(a, b) == [kind |-> "fat", v |-> (0 :> a) @@ (1 :> b)]
Boot(fs, sig) == [kind |-> "boot", fs |-> fs, sig |-> sig, ok |-> TRUE]
Unwritten == [kind |-> "data", v |-> <<"none", 0>>]

(* mbr, boot; the links of the FAT; the directory; the sectors of files.   *)
Volume(mbr, boot, fat, root, data) ==
  [s \in Lba |->
     IF s = 0 THEN mbr ELSE IF s = PART THEN boot
     ELSE IF s < data_start /\ s >= fat_start THEN fat[1 + ((s - fat_start) % fat_size)]
     ELSE IF s \in ClusterLba(2)..(ClusterLba(3) - 1) THEN root[1 + s - ClusterLba(2)]
     ELSE IF s >= ClusterLba(5) THEN root[1 + cluster_size + s - ClusterLba(5)]
     ELSE IF s \in DOMAIN data THEN data[s] ELSE Unwritten]

Sparse(fat, data, a, b, c) == Volume(Boot(FALSE, TRUE), Boot(TRUE, TRUE), fat,
  <<MCDir(Label, a), MCDir(b, Old), MCDir(Old, Parent), MCDir(Label, c)>>, data)

NoFiles == <<MCFat(EOC - 7, EOC), MCFat(5, 0), MCFat(0, EOC - 7)>>
OneFile == <<MCFat(EOC - 7, EOC), MCFat(5, EOC), MCFat(0, EOC - 7)>>
FileA ==
  [s \in ClusterLba(3)..(ClusterLba(4) - 1) |-> Token("a", s - ClusterLba(3))]
(* It ends within its second sector.                                       *)
EntryA == [MCEntry("a", "archive", 3, cluster_size) EXCEPT !.rest = "in"]

MCVolumes ==
  {Sparse(OneFile, FileA, Long("a"), EntryA, Gap),
   Sparse(NoFiles, <<>>, Gap, MCEntry("b", "archive", 0, 0), Old),
   Volume(Boot(FALSE, FALSE), Boot(TRUE, TRUE), NoFiles, [i \in 1..4 |-> MCDir(Gap, Gap)], <<>>)}
=============================================================================
