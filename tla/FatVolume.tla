----------------------------- MODULE FatVolume -----------------------------
(***************************************************************************)
(* The volume under the FAT library (minfat.c, minfat.h): where things are *)
(* on the card, the one sector_buffer that every function shares, and the  *)
(* static functions that read and write the FAT through it.                *)
(*                                                                         *)
(* A sector's content is [kind, v]: a FAT sector holds a function to links,*)
(* a directory sector a function to entries, a data sector a token.  io is *)
(* what the static functions work on: buf is sector_buffer, cached is      *)
(* cachedsector, and todo the sectors handed to sd_write_sector and not on *)
(* the card yet, in order.  The functions return the new io; a read that   *)
(* sd_read_sector fails leaves the buffer as it was.  What a failed write  *)
(* does is told where sectors land; left is what it takes with it: the     *)
(* copies of the FAT that SetCluster has still to write.                   *)
(***************************************************************************)
EXTENDS Integers, Sequences, FiniteSets

CONSTANTS
  FAT32,            (* volume format is FAT32                              *)
  EPS, DPS,         (* FAT links, directory entries in a sector            *)
  PART, RESERVED,   (* boot sector of the partition, sectors before FAT 1  *)
  fat_number, fat_size, cluster_size,
  ROOT_SECTORS,     (* FAT16: size of the root directory                   *)
  ROOT_CLUSTER,     (* FAT32: its first cluster                            *)
  CLUSTERS,         (* data clusters on the card; the code does not know   *)
  EOC,              (* 0x0fffffff or 0xffff: the largest link              *)
  Junk, JunkDir     (* what other content reads as, taken as FAT or names  *)

ASSUME VolumeAssumption ==
  /\ FAT32 \in BOOLEAN
  /\ {EPS, DPS, RESERVED, fat_number, fat_size, cluster_size} \subseteq Nat \ {0}
  /\ {PART, ROOT_SECTORS, ROOT_CLUSTER, CLUSTERS, EOC} \subseteq Nat
  /\ EOC > fat_size * EPS + 8 /\ fat_size * EPS >= CLUSTERS + 2
  /\ FAT32 => ROOT_CLUSTER \in 2..(CLUSTERS + 1)
  /\ Junk \in [0..(EPS - 1) -> 0..EOC]

VARIABLES card, io

None == -1          (* cachedsector before the first read                  *)

(* FindDrive's arithmetic on the boot sector.                              *)
fat_start == PART + RESERVED
data_start == fat_start + fat_number * fat_size + (IF FAT32 THEN 0 ELSE ROOT_SECTORS)
ClusterLba(c) == data_start + cluster_size * (c - 2)
root_directory_cluster == IF FAT32 THEN ROOT_CLUSTER ELSE 0
root_directory_start ==
  IF FAT32 THEN ClusterLba(ROOT_CLUSTER) ELSE fat_start + fat_number * fat_size
DIR_SECTORS == IF FAT32 THEN cluster_size ELSE ROOT_SECTORS
dir_entries == DPS * DIR_SECTORS

Clusters == 2..(CLUSTERS + 1)
Lba == 0..(data_start + cluster_size * CLUSTERS - 1)
FatSectors == fat_start..(fat_start + fat_size - 1)
Link == 0..EOC
\* mutant: only the largest link ends a directory
EndOfDirectoryExact(c) == c = EOC

EndOfDirectory(c) == c > EOC - 8      (* (c & 0x0FFFFFF8) == 0x0FFFFFF8    *)

(* cachedsector of cluster's link in the first FAT, and its place there.   *)
FatSector(c) == fat_start + c \div EPS
FatIndex(c) == c % EPS

AsFat(b) == IF b.kind = "fat" THEN b.v ELSE Junk
AsDir(b) == IF b.kind = "dir" THEN b.v ELSE JunkDir
OnCard(s) == IF s \in Lba THEN card[s] ELSE [kind |-> "none"]

(* cachedsector = s; sd_read_sector(s, sector_buffer)                      *)
ReadSector(m, s, ok) == [m EXCEPT !.cached = s, !.buf = IF ok THEN OnCard(s) ELSE @]

\* mutant: the buffer is taken for the FAT sector without looking
FetchFatNever(m, c, ok) ==
  IF m.cached \in FatSectors THEN m ELSE ReadSector(m, FatSector(c), ok)

FetchFat(m, c, ok) ==
  IF m.cached = FatSector(c) THEN m ELSE ReadSector(m, FatSector(c), ok)

FetchFails(m, c, ok) == m.cached # FatSector(c) /\ ~ok

(* The link behind cluster c; 0 when the FAT cannot be read.               *)
NextCluster(m, c, ok) ==
  IF FetchFails(m, c, ok) THEN 0 ELSE AsFat(FetchFat(m, c, ok).buf)[FatIndex(c)]

Write(m, s, b) == [m EXCEPT !.buf = b, !.todo = Append(@, [lba |-> s, b |-> b, left |-> 0])]

\* mutant: the link goes to the first FAT only in the buffer
SetClusterUnwritten(m, c, target, ok) ==
  LET f == FetchFat(m, c, ok) IN
  IF FetchFails(m, c, ok) THEN f
  ELSE [f EXCEPT !.buf = [kind |-> "fat", v |-> [AsFat(@) EXCEPT ![FatIndex(c)] = target]]]

(* The changed sector goes to every copy of the FAT, until one fails.      *)
SetCluster(m, c, target, ok) ==
  LET f == FetchFat(m, c, ok)
      b == [kind |-> "fat", v |-> [AsFat(f.buf) EXCEPT ![FatIndex(c)] = target]]
      copies == [i \in 1..fat_number |->
                   [lba |-> FatSector(c) + (i - 1) * fat_size, b |-> b, left |-> fat_number - i]]
  IN  IF FetchFails(m, c, ok) THEN f ELSE [f EXCEPT !.buf = b, !.todo = @ \o copies]

(* Links of the first FAT that are 0.  The search ends with the FAT, not   *)
(* with the clusters: a FAT with room to spare makes clusters up.          *)
FreeClusters ==
  {c \in 2..(fat_size * EPS - 1) : AsFat(card[FatSector(c)])[FatIndex(c)] = 0}

FirstOf(S) == CHOOSE x \in S : \A y \in S : x <= y

(* Every FAT sector is read anew until one has a free link; bad is the     *)
(* sector whose read fails.                                                *)
SearchEnd == IF FreeClusters = {} THEN fat_start + fat_size - 1
             ELSE FatSector(FirstOf(FreeClusters))
SearchFails(bad) == bad \in fat_start..SearchEnd
Searched(m, bad) ==
  IF ~SearchFails(bad) THEN ReadSector(m, SearchEnd, TRUE)
  ELSE ReadSector(IF bad = fat_start THEN m ELSE ReadSector(m, bad - 1, TRUE), bad, FALSE)

Allocated(bad) ==
  IF SearchFails(bad) \/ FreeClusters = {} THEN 0 ELSE FirstOf(FreeClusters)

\* mutant: the parent is linked before the new cluster is marked
AllocateClusterLinkFirst(m, parent, bad) ==
  LET c == Allocated(bad)  s == Searched(m, bad)
      linked == IF parent = 0 THEN s ELSE SetCluster(s, parent, c, bad # FatSector(parent))
  IN  IF c = 0 THEN s ELSE SetCluster(linked, c, EOC, TRUE)

(* Allocated(bad) is marked as an end and linked behind parent, if any.    *)
AllocateCluster(m, parent, bad) ==
  LET c == Allocated(bad)  s == Searched(m, bad)
      marked == SetCluster(s, c, EOC, TRUE)
  IN  IF c = 0 THEN s
      ELSE IF parent = 0 THEN marked
      ELSE SetCluster(marked, parent, c, bad # FatSector(parent))
=============================================================================
