------------------------------- MODULE MinFat -------------------------------
(***************************************************************************)
(* The calls of the FAT library (minfat.c) by a program that keeps several *)
(* files open, on a card that may fail a read or a write and lose power at *)
(* any sector it writes.                                                   *)
(*                                                                         *)
(* A call runs in steps: one per directory sector, FAT access or cluster.  *)
(* A step hands its sectors to io.todo; they reach the card one by one     *)
(* (Land) before the next step.                                            *)
(*                                                                         *)
(* FileSize is in bytes.  size counts sectors, the last one included that  *)
(* the file only has a part of (rest is then "in").  FileWriteSector adds  *)
(* 512 bytes even when it rewrites such a sector: rest is "past" when      *)
(* FileSize reaches into a sector behind those that size counts.           *)
(***************************************************************************)
EXTENDS FatVolume

CONSTANTS
  Names,
  Volumes,          (* what may be on the card at first                    *)
  MaxSectors,       (* a file is not made longer than this                 *)
  MaxFaults,        (* steps that go wrong: see faults                     *)
  MaxCrashes        (* times the power is lost                             *)

VARIABLES
  mounted,          (* fat_start # 0                                       *)
  call,             (* the call that is running, with current_directory    *)
                    (* (index, sector, chain) and the long name collected  *)
  file,             (* the fileTYPE structures                              *)
  image,            (* what LoadFileAbs has put into memory                *)
  kick,             (* what boot.c did with it                             *)
  kept,             (* sectors of the files that were closed, else -1      *)
  torn,             (* files whose deletion the power cut short            *)
  faults,           (* steps in which the card failed a read or a write,   *)
                    (* or a program went on behind the end of its file     *)
  crashes

vars == <<card, io, mounted, call, file, image, kick, kept, torn, faults, crashes>>

NoName == "none"
Free == {"empty", "deleted"}          (* SLOT_EMPTY, SLOT_DELETED          *)
Rests == {"none", "in", "past"}
Attributes == {"normal", "archive", "directory", "volume", "lfn"}
Entry == {e \in [name : Names \cup Free \cup {"other"}, attr : Attributes, first : Link,
                size : 0..MaxSectors, rest : Rests] : e.attr = "lfn" => e.name \in Names \cup {"deleted"}}
Token(n, k) == [kind |-> "data", v |-> <<n, k>>]

-----------------------------------------------------------------------------
(* What a sound volume is.  L are the links of the first FAT, R the other  *)
(* sectors, D the clusters of the directory; pos says where in its chain a *)
(* cluster is, and own in which slot of the directory its file is.         *)

Links == 0..(fat_size * EPS - 1)
FatArea == fat_start..(fat_start + fat_number * fat_size - 1)
LinksOf(v) == [c \in Links |-> v[FatSector(c)].v[FatIndex(c)]]
PlainOf(v) == [s \in Lba \ FatArea |-> v[s]]
EndMark(x) == x > EOC - 8             (* of a chain, as the format has it *)
IsLink(x) == x # 0 /\ ~EndMark(x)

FatContent == [kind : {"fat"}, v : [0..(EPS - 1) -> Link]]
DirContent == [kind : {"dir"}, v : [0..(DPS - 1) -> Entry]]
Formatted(v) ==
  /\ v = [s \in Lba |-> v[s]]
  /\ \A s \in Lba : /\ v[s].kind = "fat" => v[s] \in FatContent
                    /\ v[s].kind = "dir" =>
                         /\ v[s] \in DirContent
                         /\ \A i \in 0..(DPS - 1) :
                              v[s].v[i].attr = "directory" => v[s].v[i].name \notin Names
  /\ \A s \in FatArea : v[s].kind = "fat"
Mirrored(v) == \A s \in FatSectors, i \in 0..(fat_number - 1) : v[s + i * fat_size] = v[s]

DirSectors(R) == {s \in Lba \ FatArea : R[s].kind = "dir"}
DirSlots(R) == DirSectors(R) \X (0..(DPS - 1))
Ent(R, p) == R[p[1]].v[p[2]]
FileSlots(R) ==
  {p \in DirSlots(R) : Ent(R, p).name \notin Free /\ Ent(R, p).attr \notin {"lfn", "volume"}}

(* The directory is the root: a chain of clusters, or the area of FAT16.   *)
DirBase(c) == IF FAT32 THEN ClusterLba(c) ELSE root_directory_start
DirectoryOK(L, R, D, pos) ==
  /\ IF FAT32 THEN root_directory_cluster \in D /\ D \subseteq Clusters
     ELSE D = {root_directory_cluster}
  /\ DirSectors(R) = {DirBase(c) + j : c \in D, j \in 0..(DIR_SECTORS - 1)}
  /\ pos[root_directory_cluster] = 0
  /\ \A c \in D : \/ /\ L[c] \in D \ {root_directory_cluster} /\ pos[L[c]] = pos[c] + 1
                  \/ /\ EndMark(L[c]) /\ \A d \in D : pos[d] <= pos[c]
  /\ \A c, d \in D : pos[c] \in Nat /\ (pos[c] = pos[d] => c = d)
  /\ \A d \in D \ {root_directory_cluster} : \E c \in D : L[c] = d

(* A long name stands before an entry, which it names.                     *)
Follows(L, D, p, q) ==
  \/ p[1] = q[1] /\ q[2] = p[2] + 1
  \/ /\ p[2] = DPS - 1 /\ q[2] = 0
     /\ \E c \in D :
          \/ \E j \in 0..(DIR_SECTORS - 2) : p[1] = DirBase(c) + j /\ q[1] = p[1] + 1
          \/ p[1] = DirBase(c) + DIR_SECTORS - 1 /\ L[c] \in D /\ q[1] = DirBase(L[c])
Named(e, n) == e.attr \in {"normal", "archive"} /\ e.name \in Free \cup {n}
LongNamesOK(L, R, D) ==
  \A p, q \in DirSlots(R) :
    Follows(L, D, p, q) /\ Ent(R, p).attr = "lfn" => Named(Ent(R, q), Ent(R, p).name)

(* The chains of files end with EOC, and never meet.                       *)
ChainsOK(L, D, own, pos) ==
  /\ \A c \in Clusters \ D :
       /\ pos[c] \in Nat
       /\ EndMark(L[c]) => L[c] = EOC
       /\ IsLink(L[c]) => /\ L[c] \in Clusters \ D /\ L[L[c]] # 0
                          /\ own[L[c]] = own[c] /\ pos[L[c]] = pos[c] + 1
       /\ \A d \in Clusters \ D : IsLink(L[c]) /\ L[d] = L[c] => d = c
  /\ \A c \in Links \ Clusters : c >= 2 => L[c] # 0

Linked(L, D, c) == \E d \in Clusters \ D : L[d] = c

(* Cluster f leads the file of slot p, called n, whose size sectors are in *)
(* the clusters behind it.                                                 *)
FileOK(L, R, D, own, pos, p, f, size, n) ==
  /\ f = 0 => size = 0
  /\ f # 0 => f \in Clusters \ D /\ L[f] # 0 /\ own[f] = p /\ pos[f] = 0
  /\ \A c \in Clusters \ D : own[c] = p =>
       /\ c = f \/ Linked(L, D, c) \/ ~IsLink(L[c])
       /\ c = f \/ Linked(L, D, c) =>
            /\ cluster_size * (pos[c] + 1) < size => IsLink(L[c])
            /\ \A i \in 0..(cluster_size - 1) : cluster_size * pos[c] + i < size =>
                 R[ClusterLba(c) + i] = Token(n, cluster_size * pos[c] + i)
            /\ \A d \in Clusters \ D :
                 own[d] = p /\ (d = f \/ Linked(L, D, d)) /\ pos[d] = pos[c] => d = c

Nobody == <<-1, 0>>
SoundVolume(v) ==
  LET L == LinksOf(v)
      R == PlainOf(v)
      D == IF FAT32 THEN {c \in Clusters : R[ClusterLba(c)].kind = "dir"}
           ELSE {root_directory_cluster}
  IN
  /\ Formatted(v) /\ Mirrored(v)
  /\ \A p, q \in FileSlots(R) :
       Ent(R, p).name = Ent(R, q).name /\ Ent(R, p).name \in Names => p = q
  /\ \A p \in FileSlots(R) : Ent(R, p).rest = "in" => Ent(R, p).size > 0
  /\ LongNamesOK(L, R, D)
  /\ \A c \in Clusters \ D :
       L[c] = 0 \/ Linked(L, D, c) \/ \E p \in FileSlots(R) : Ent(R, p).first = c
  /\ \E pos \in [Clusters \cup {root_directory_cluster} -> 0..CLUSTERS],
        own \in [Clusters \ D -> FileSlots(R) \cup {Nobody}] :
       /\ DirectoryOK(L, R, D, pos) /\ ChainsOK(L, D, own, pos)
       /\ \A p \in FileSlots(R) :
            FileOK(L, R, D, own, pos, p, Ent(R, p).first, Ent(R, p).size, Ent(R, p).name)

ASSUME VolumesAssumption ==
  /\ MaxSectors \in Nat /\ MaxFaults \in Nat /\ MaxCrashes \in Nat
  /\ Names \cap (Free \cup {NoName}) = {}
  /\ JunkDir \in [0..(DPS - 1) -> Entry]
  /\ \A v \in Volumes : SoundVolume(v)

-----------------------------------------------------------------------------
NoFile == [open |-> FALSE, name |-> NoName, first |-> 0, cluster |-> 0, sector |-> 0,
           size |-> 0, rest |-> "none", dirsector |-> 0, dirindex |-> 0, dirty |-> FALSE,
           eof |-> FALSE]
NoCall == [fn |-> "none", step |-> "none", h |-> NoName, name |-> NoName, cluster |-> 0,
           index |-> 0, sector |-> 0, chain |-> 0, longname |-> NoName]

Blank == [cached |-> None, buf |-> [kind |-> "none"], todo |-> <<>>]

MinFatTypeOK ==
  /\ DOMAIN card = Lba /\ io.cached \in Int
  /\ \/ faults > 0
     \/ /\ \A i \in DOMAIN io.todo : io.todo[i].lba \in Lba
        /\ \A s \in FatSectors : card[s].kind = "fat" /\ card[s].v \in [0..(EPS - 1) -> Link]
  /\ mounted \in BOOLEAN /\ call.index \in Nat /\ call.longname \in Names \cup {NoName, "deleted"}
  /\ call.fn \in {"none", "open", "create", "delete", "close", "load"}
  /\ call.step \in {"none", "scan", "alloc", "slot", "release", "unlink", "return", "read"}
  /\ \A h \in Names : file[h].size \in 0..MaxSectors /\ file[h].first \in Link
  /\ kick \in {"none", "softkick", "stock"}
  /\ kept \in [Names -> -1..MaxSectors] /\ torn \subseteq Names

Init ==
  /\ card \in Volumes
  /\ io = Blank /\ mounted = FALSE /\ call = NoCall
  /\ file = [h \in Names |-> NoFile]
  /\ image = <<>> /\ kick = "none"
  /\ kept = [n \in Names |->
       LET entries == {e \in UNION {{card[s].v[i] : i \in 0..(DPS - 1)} :
                                      s \in {t \in Lba : card[t].kind = "dir"}} :
                         e.name = n /\ e.attr \notin {"lfn", "volume"}}
       IN  IF entries = {} THEN -1 ELSE (CHOOSE e \in entries : TRUE).size]
  /\ torn = {} /\ faults = 0 /\ crashes = 0

(* Whether this step may go wrong; which FAT sector may fail.  The call    *)
(* that met a fault is followed to its end, and only LoadROM after; no     *)
(* history has both a fault and a loss of power.                           *)
MayFail == faults < MaxFaults /\ crashes = 0
Oks == IF MayFail THEN BOOLEAN ELSE {TRUE}
Bads == {None} \cup (IF MayFail THEN FatSectors ELSE {})
Count(failed) == faults' = faults + (IF failed THEN 1 ELSE 0)

Idle == call.fn = "none" /\ io.todo = <<>> /\ kick = "none"
Ready == Idle /\ mounted /\ faults = 0
Running(step) == call.fn # "none" /\ call.step = step /\ io.todo = <<>>
UnchangedRest == UNCHANGED <<card, mounted, torn, crashes>>

(* FindDrive: the boot sector is sector 0, or the first partition's.       *)
Mount ==
  /\ ~mounted /\ io.todo = <<>> /\ call.fn = "none"
  /\ \E ok1, ok2 \in Oks :
       LET m == ReadSector(io, 0, ok1)
           b == ReadSector(m, PART, ok2)
           alone == m.buf.kind = "boot" /\ m.buf.fs
           partition == m.buf.kind = "boot" /\ ~m.buf.fs /\ m.buf.sig
           boot == IF alone THEN m.buf ELSE b.buf
           found == /\ ok1 /\ (alone \/ (partition /\ ok2))
                    /\ boot.kind = "boot" /\ boot.fs /\ boot.sig /\ boot.ok
       IN  /\ io' = [io EXCEPT !.buf = IF partition THEN b.buf ELSE m.buf]
           /\ mounted' = found
           /\ faults' = faults + (IF ok1 THEN 0 ELSE 1)
                          + (IF ok1 /\ partition /\ ~ok2 THEN 1 ELSE 0)
           /\ faults' <= MaxFaults
  /\ UNCHANGED <<card, call, file, image, kick, kept, torn, crashes>>

-----------------------------------------------------------------------------
(* Looking through the directory: NextDirEntry and its two users.          *)

Rewound(c) == [c EXCEPT !.index = 0, !.sector = root_directory_start,
                        !.chain = root_directory_cluster, !.longname = NoName]

Begin(fn, step, h, n) ==
  call' = Rewound([NoCall EXCEPT !.fn = fn, !.step = step, !.h = h, !.name = n])

(* The long name collected when entry i is reached.                        *)
LongName(e, i) ==
  IF i = 0 THEN call.longname
  ELSE IF e[i - 1].attr = "lfn" THEN e[i - 1].name ELSE NoName

(* FindDirEntry: by long or by short name.                                 *)
Matches(e) ==
  {i \in 0..(DPS - 1) :
     /\ e[i].attr \notin {"lfn", "volume"}
     /\ e[i].attr = "directory" \/ e[i].name \notin Free
     /\ call.name \in {LongName(e, i), e[i].name}}

(* FindFreeDirEntry: matchfreeentry sees the long name where there is one, *)
(* and `Attributes && ATTR_DIRECTORY' passes over any attribute at all.    *)
Slots(e) ==
  {i \in 0..(DPS - 1) : e[i].attr = "normal" /\ LongName(e, i) = NoName
                          /\ e[i].name \in Free}

Opened(n, e, i, dirty) ==
  [NoFile EXCEPT !.open = TRUE, !.name = n, !.first = e[i].first, !.cluster = e[i].first,
     !.size = e[i].size, !.rest = e[i].rest, !.dirsector = call.sector,
     !.dirindex = call.index + i, !.dirty = dirty]

(* FileOpen leaves dirty as it was, anything in a structure on the stack:  *)
(* dirty is FALSE here when nobody has assigned it.                        *)
FoundName(e, i) ==
  IF call.fn = "create"                     \* file already exists
  THEN call' = NoCall /\ UNCHANGED file
  ELSE /\ file' = [file EXCEPT ![call.h] = Opened(call.name, e, i, FALSE)]
       /\ call' = IF call.fn = "load" THEN [call EXCEPT !.step = "read"] ELSE NoCall

NewEntry == [name |-> call.name, attr |-> "normal", first |-> call.cluster, size |-> 0,
             rest |-> "none"]

FoundSlot(m, e, i) ==
  /\ io' = Write(m, call.sector, [kind |-> "dir", v |-> [e EXCEPT ![i] = NewEntry]])
  /\ file' = [file EXCEPT ![call.h] = Opened(call.name, [j \in {i} |-> NewEntry], i, TRUE)]
  /\ call' = NoCall

(* One sector of the directory.                                            *)
ScanSector ==
  /\ Running("scan") \/ Running("slot")
  /\ call.index < dir_entries
  /\ \E ok \in Oks :
       LET m == ReadSector(io, call.sector, ok)
           e == AsDir(m.buf)
           hits == IF call.step = "scan" THEN Matches(e) ELSE Slots(e)
           last == e[DPS - 1]
       IN  /\ Count(~ok)
           /\ \/ /\ hits = {} /\ io' = m /\ UNCHANGED file
                 /\ call' = [call EXCEPT !.index = @ + DPS, !.sector = @ + 1, !.longname =
                               IF last.attr = "lfn" THEN last.name ELSE NoName]
              \/ /\ hits # {} /\ call.step = "scan"
                 /\ io' = m /\ FoundName(e, FirstOf(hits))
              \/ /\ hits # {} /\ call.step = "slot"
                 /\ FoundSlot(m, e, FirstOf(hits))
  /\ UnchangedRest /\ UNCHANGED <<image, kick, kept>>

(* The directory has been searched in vain.                                *)
NotFound ==
  /\ call' = CASE call.fn = "create" /\ call.step = "scan" -> [call EXCEPT !.step = "alloc"]
              [] call.fn = "create" /\ call.step = "slot" -> [call EXCEPT !.step = "release"]
              [] OTHER -> [NoCall EXCEPT !.name = call.name]
  /\ kick' = IF call.fn = "load" THEN "stock" ELSE kick

(* Behind the last entry of a cluster, or of a FAT16 root: the chain.      *)
ScanCluster ==
  /\ Running("scan") \/ Running("slot")
  /\ call.index >= dir_entries
  /\ \E ok \in Oks :
       LET next == NextCluster(io, call.chain, ok)
       IN  /\ io' = FetchFat(io, call.chain, ok)
           /\ Count(FetchFails(io, call.chain, ok))
           /\ \/ EndOfDirectory(next) /\ NotFound
              \/ /\ ~EndOfDirectory(next) /\ UNCHANGED kick
                 /\ call' = [call EXCEPT !.chain = next, !.index = 0,
                                         !.sector = ClusterLba(next)]
  /\ UnchangedRest /\ UNCHANGED <<file, image, kept>>

-----------------------------------------------------------------------------
(* Calls.  A name is opened once, and a torn file is left alone.  The      *)
(* structures are told apart by a name; which one is taken is immaterial.  *)

Unused(h, n) ==
  /\ ~file[h].open /\ (h = n \/ file[n].open)
  /\ \A g \in Names : ~(file[g].open /\ file[g].name = n)

FileOpen(h, n) ==
  /\ Ready /\ Unused(h, n) /\ n \notin torn
  /\ Begin("open", "scan", h, n)
  /\ UnchangedRest /\ UNCHANGED <<kick, io, file, image, kept, faults>>

FileCreate(h, n) ==
  /\ Ready /\ Unused(h, n)
  /\ Begin("create", "scan", h, n)
  /\ UnchangedRest /\ UNCHANGED <<kick, io, file, image, kept, faults>>

CreateAllocates ==
  /\ Running("alloc")
  /\ \E bad \in Bads :
       LET c == Allocated(bad)
       IN  /\ Count(SearchFails(bad))
           /\ io' = AllocateCluster(io, 0, bad)
           /\ call' = IF c = 0 THEN NoCall
                      ELSE Rewound([call EXCEPT !.step = "slot", !.cluster = c])
  /\ UnchangedRest /\ UNCHANGED <<file, image, kick, kept>>

(* ReleaseCluster, one cluster: only the exact end mark ends the chain.    *)
ReleaseStep ==
  /\ Running("release")
  /\ \E ok \in Oks :
       LET c == call.cluster
           next == NextCluster(io, c, ok)
           rest == IF next = EOC THEN 0 ELSE next
       IN  /\ Count(FetchFails(io, c, ok))
           /\ io' = SetCluster(FetchFat(io, c, ok), c, 0, TRUE)
           /\ call' = IF rest # 0 THEN [call EXCEPT !.cluster = rest]
                      ELSE IF call.fn = "delete" THEN [call EXCEPT !.step = "unlink"]
                      ELSE NoCall
  /\ UnchangedRest /\ UNCHANGED <<file, image, kick, kept>>

FileDelete(h) ==
  /\ Ready /\ file[h].open
  /\ LET f == file[h] IN
       /\ call' = [NoCall EXCEPT !.fn = "delete", !.h = h, !.name = f.name, !.cluster = f.first,
                     !.step = IF f.first = 0 THEN "unlink" ELSE "release"]
       /\ kept' = [kept EXCEPT ![f.name] = -1]
  /\ UnchangedRest /\ UNCHANGED <<kick, io, file, image, faults>>

(* The entry of an open file, as GetDirEntry finds it.                     *)
EntryRead(f, ok) == AsDir(ReadSector(io, f.dirsector, ok).buf)[f.dirindex % DPS]

(* GetDirEntry, a changed entry, WriteDirEntry; nothing if it cannot be    *)
(* read.                                                                   *)
EntryChanged(f, ok, entry) ==
  LET m == ReadSector(io, f.dirsector, ok)
  IN  IF ok THEN Write(m, f.dirsector,
                   [kind |-> "dir", v |-> [AsDir(m.buf) EXCEPT ![f.dirindex % DPS] = entry]])
      ELSE m

(* SLOT_DELETED; the rest of the entry is never read again.                *)
Deleted(e) == [e EXCEPT !.name = "deleted", !.first = 0, !.size = 0,
                        !.rest = "none"]

DeleteUnlinks ==
  /\ Running("unlink")
  /\ \E ok \in Oks :
       /\ Count(~ok)
       /\ io' = EntryChanged(file[call.h], ok, Deleted(EntryRead(file[call.h], ok)))
  /\ call' = [call EXCEPT !.step = "return"]
  /\ UnchangedRest /\ UNCHANGED <<file, image, kick, kept>>

(* FileClose writes the size of a file that has grown.  When it returns,   *)
(* the sectors of the file are what the caller relies on.                  *)
FileClose(h) ==
  LET f == file[h] IN
  /\ Ready /\ f.open
  /\ Begin("close", "return", h, f.name)
  /\ \/ ~f.dirty /\ UNCHANGED <<io, file, faults>>
     \/ \E ok \in Oks :
          /\ Count(~ok)
          /\ io' = EntryChanged(f, ok, [EntryRead(f, ok) EXCEPT !.size = f.size,
                                                                     !.rest = f.rest])
          /\ file' = [file EXCEPT ![h] = [f EXCEPT !.dirty = ~ok]]
  /\ UnchangedRest /\ UNCHANGED <<kick, image, kept>>

Return ==
  /\ Running("return")
  /\ kept' = IF call.fn = "close" /\ ~file[call.h].dirty
             THEN [kept EXCEPT ![call.name] = file[call.h].size] ELSE kept
  /\ call' = NoCall /\ file' = [file EXCEPT ![call.h] = NoFile]
  /\ UnchangedRest /\ UNCHANGED <<io, image, kick, faults>>

(* SetFilename, on a file that has been created and not written yet.       *)
SetFilename(h, n) ==
  /\ Ready /\ file[h].open /\ file[h].dirty /\ file[h].size = 0 /\ kept[file[h].name] = -1
  /\ n \in Names \ torn /\ \A g \in Names : ~(file[g].open /\ file[g].name = n)
  /\ \A s \in Lba : card[s].kind = "dir" => \A i \in 0..(DPS - 1) : card[s].v[i].name # n
  /\ \E ok \in Oks :
       /\ Count(~ok)
       /\ io' = EntryChanged(file[h], ok, [EntryRead(file[h], ok) EXCEPT !.name = n])
       /\ file' = IF ok THEN [file EXCEPT ![h] = [file[h] EXCEPT !.name = n]] ELSE file
  /\ UnchangedRest /\ UNCHANGED <<kick, call, image, kept>>

SectorLba(f) == ClusterLba(f.cluster) + (f.sector % cluster_size)

(* FileSize \div 512, and the sectors that FileSize reaches into.          *)
Whole(f) == IF f.rest = "in" THEN f.size - 1 ELSE f.size
Reach(f) == IF f.rest = "past" THEN f.size + 1 ELSE f.size

(* size += 512                                                             *)
Lengthened(f) ==
  IF f.sector < f.size THEN [f EXCEPT !.rest = "past", !.dirty = TRUE]
  ELSE [f EXCEPT !.size = @ + 1, !.dirty = TRUE]

(* FileWriteSector from a buffer of the caller's.  It looks at nothing:    *)
(* with cluster 0 the sector lies before the data.                         *)
Astray(f) == f.cluster = 0 \/ f.sector > f.size
FileWriteSector(h) ==
  LET f == file[h] IN
  /\ Ready /\ f.open /\ f.sector < MaxSectors
  /\ Astray(f) => MayFail
  /\ Count(Astray(f))
  /\ io' = [io EXCEPT !.cached = SectorLba(f),
              !.todo = <<[lba |-> SectorLba(f), b |-> Token(f.name, f.sector), left |-> 0]>>]
  /\ file' = IF f.sector + 1 > Whole(f) THEN [file EXCEPT ![h] = Lengthened(f)] ELSE file
  /\ UnchangedRest /\ UNCHANGED <<kick, call, image, kept>>

(* FileNextSector(file, 1, append): what it makes of io and of the file.   *)
\* mutant: the last sector of a cluster is one too early
CrossesEarly(f) == f.sector % cluster_size = 0

Crosses(f) == (f.sector + 1) % cluster_size = 0

\* mutant: the new cluster is not linked behind the last one
NextIoUnlinked(m, f, append, ok, bad) ==
  LET r == FetchFat(m, f.cluster, ok) IN
  IF ~Crosses(f) THEN m
  ELSE IF append /\ NextCluster(m, f.cluster, ok) = EOC THEN AllocateCluster(r, 0, bad) ELSE r

NextIo(m, f, append, ok, bad) ==
  LET r == FetchFat(m, f.cluster, ok) IN
  IF ~Crosses(f) THEN m
  ELSE IF append /\ NextCluster(m, f.cluster, ok) = EOC
  THEN AllocateCluster(r, f.cluster, bad) ELSE r

Stepped(m, f, append, ok, bad) ==
  LET next == NextCluster(m, f.cluster, ok)
      c == IF next # EOC THEN next ELSE IF append THEN Allocated(bad) ELSE 0
  IN  IF ~Crosses(f) THEN [f EXCEPT !.sector = @ + 1]
      ELSE [f EXCEPT !.sector = @ + 1, !.cluster = c, !.eof = @ \/ (next = EOC /\ c = 0)]

(* Behind the last sector there is nothing to step to.                     *)
Beyond(f) == f.cluster = 0 \/ f.sector >= f.size
StepFaults(f, ok, bad) ==
  /\ Count(Beyond(f) \/ (Crosses(f) /\ FetchFails(io, f.cluster, ok)) \/ bad # None)
  /\ bad = None \/ (ok /\ Crosses(f) /\ NextCluster(io, f.cluster, ok) = EOC)

FileNextSector(h, append) ==
  LET f == file[h] IN
  /\ Ready /\ f.open
  /\ Beyond(f) => MayFail
  /\ \E ok \in Oks, bad \in Bads :
       /\ StepFaults(f, ok, bad)
       /\ io' = NextIo(io, f, append, ok, bad)
       /\ file' = [file EXCEPT ![h] = Stepped(io, f, append, ok, bad)]
  /\ UnchangedRest /\ UNCHANGED <<kick, call, image, kept>>

(* FileReadSector into sector_buffer: what a caller that edits does.       *)
\* mutant: cachedsector is not told
FileReadSectorUnclaimed(h) ==
  LET f == file[h] IN
  /\ Ready /\ f.open
  /\ io' = [io EXCEPT !.buf = OnCard(SectorLba(f))]
  /\ UnchangedRest /\ UNCHANGED <<kick, call, file, image, kept, faults>>

FileReadSector(h) ==
  LET f == file[h] IN
  /\ Ready /\ f.open
  /\ \E ok \in Oks : Count(~ok) /\ io' = ReadSector(io, SectorLba(f), ok)
  /\ UnchangedRest /\ UNCHANGED <<kick, call, file, image, kept>>

-----------------------------------------------------------------------------
(* boot.c: LoadROM and what main does with its answer.                     *)

LoadROM(n) ==
  /\ Idle /\ n \notin torn /\ \A g \in Names : ~file[g].open
  /\ \/ mounted /\ Begin("load", "scan", n, n) /\ UNCHANGED kick
     \/ ~mounted /\ kick' = "stock" /\ UNCHANGED call
  /\ UnchangedRest /\ UNCHANGED <<io, file, image, kept, faults>>

(* BootSoftKick and BootStock end the program.                             *)
Loaded(result) ==
  /\ kick' = IF result THEN "softkick" ELSE "stock"
  /\ call' = [NoCall EXCEPT !.name = call.name]
  /\ file' = [file EXCEPT ![call.h] = NoFile]

(* LoadFileAbs, one sector: into memory, then FileNextSector.  It reads as *)
(* far as FileSize reaches, be the last sector in the chain or not.        *)
LoadSector ==
  LET f == file[call.h]
      m == [io EXCEPT !.cached = SectorLba(f)]
      more == Len(image) + 1 < Reach(f)
  IN
  /\ Running("read")
  /\ \/ Len(image) >= Reach(f) /\ Loaded(TRUE) /\ UNCHANGED <<io, image, faults>>
     \/ /\ Len(image) < Reach(f) /\ MayFail
        /\ Count(TRUE) /\ io' = m /\ Loaded(FALSE) /\ UNCHANGED image
     \/ /\ Len(image) < Reach(f)
        /\ image' = Append(image, OnCard(SectorLba(f)))
        /\ \E ok \in Oks :
             /\ ok \/ (more /\ Crosses(f) /\ FetchFails(m, f.cluster, ok))
             /\ Count(~ok)
             /\ io' = IF more THEN NextIo(m, f, FALSE, ok, None) ELSE m
             /\ file' = IF more THEN [file EXCEPT ![call.h] = Stepped(m, f, FALSE, ok, None)]
                        ELSE file
             /\ UNCHANGED <<call, kick>>
  /\ UnchangedRest /\ UNCHANGED kept

-----------------------------------------------------------------------------
(* The card.                                                               *)

(* sd_write_sector may fail: the driver tells SetCluster, which leaves out *)
(* the copies it has still to write and is not listened to, or thinks that *)
(* the sector was written.                                                 *)
Land ==
  /\ io.todo # <<>>
  /\ LET w == Head(io.todo) IN
     \/ /\ card' = IF w.lba \in Lba THEN [card EXCEPT ![w.lba] = w.b] ELSE card
        /\ io' = [io EXCEPT !.todo = Tail(@)]
        /\ UNCHANGED faults
     \/ /\ MayFail /\ Count(TRUE) /\ UNCHANGED card
        /\ \E told \in BOOLEAN :
             io' = [io EXCEPT !.todo =
                      IF told THEN SubSeq(@, w.left + 2, Len(@)) ELSE Tail(@)]
  /\ UNCHANGED <<mounted, call, file, image, kick, kept, torn, crashes>>

(* Power is lost: what had not reached the card is gone, and all of memory.*)
PowerLoss ==
  /\ crashes < MaxCrashes /\ crashes' = crashes + 1 /\ faults = 0
  /\ io' = Blank /\ mounted' = FALSE /\ call' = NoCall
  /\ file' = [h \in Names |-> NoFile] /\ image' = <<>> /\ kick' = "none"
  /\ torn' = IF call.fn = "delete" THEN torn \cup {call.name} ELSE torn
  /\ UNCHANGED <<card, kept, faults>>

Internal ==
  \/ ScanSector \/ ScanCluster \/ CreateAllocates \/ ReleaseStep \/ DeleteUnlinks \/ Return
  \/ LoadSector \/ Land

Calls ==
  \E h \in Names :
     \/ FileClose(h) \/ FileDelete(h) \/ FileWriteSector(h) \/ FileReadSector(h)
     \/ \E append \in BOOLEAN : FileNextSector(h, append)
     \/ \E n \in Names : FileOpen(h, n) \/ FileCreate(h, n) \/ SetFilename(h, n)

Next == Mount \/ Internal \/ Calls \/ (\E n \in Names : LoadROM(n)) \/ PowerLoss

Spec == Init /\ [][Next]_vars
FairSpec == Spec /\ WF_vars(Internal)

-----------------------------------------------------------------------------
(* Properties.  What a fault can spoil is told in the README.              *)

FatLink(c) == card[FatSector(c)].v[FatIndex(c)]
Slot == {s \in Lba : card[s].kind = "dir"} \X (0..(DPS - 1))
EntryAt(p) == card[p[1]].v[p[2]]
Live(p) == /\ EntryAt(p).name \notin Free /\ EntryAt(p).attr \notin {"lfn", "volume"}
           /\ EntryAt(p).name \notin torn
           /\ ~(call.fn = "delete" /\ call.name = EntryAt(p).name)
LiveEntries == {p \in Slot : Live(p)}
Linking == {c \in Clusters : IsLink(FatLink(c))}
Owners == {p \in LiveEntries : EntryAt(p).first # 0}
Quiet == call.fn = "none" /\ io.todo = <<>> /\ crashes = 0

(* Every cluster that a directory entry or a link names is allocated and   *)
(* named once, at every sector written: power may be lost anywhere and no  *)
(* chain runs into a free cluster or into another file.  When no call is   *)
(* running no cluster is lost and the copies of the FAT agree.             *)
FatSound ==
  /\ MinFatTypeOK
  /\ faults = 0 /\ mounted =>
    LET named == {FatLink(c) : c \in Linking} \cup {EntryAt(p).first : p \in Owners}
    IN  /\ \A x \in named : x \in Clusters \ {root_directory_cluster} /\ FatLink(x) # 0
        /\ Cardinality(named) = Cardinality(Linking) + Cardinality(Owners)
        /\ Quiet => \A c \in Clusters \ (named \cup {root_directory_cluster}) : FatLink(c) = 0
        /\ Quiet => \A s \in FatSectors, i \in 0..(fat_number - 1) :
                      card[s + i * fat_size] = card[s]

(* The cluster that holds sector k of the file that starts at first.       *)
ClusterOf(first, k) ==
  LET at[j \in 0..k] == IF j = 0 THEN first
                        ELSE IF at[j - 1] \in Clusters THEN FatLink(at[j - 1]) ELSE 0
  IN  at[k \div cluster_size]

Holds(p, k) == OnCard(ClusterLba(ClusterOf(EntryAt(p).first, k)) + (k % cluster_size))
                 = Token(EntryAt(p).name, k)

(* A file that has been closed stays, with at least the sectors it had,    *)
(* whatever is called and whenever the power is lost; and an entry counts  *)
(* no sector that has not been written.  (Where FileSize reaches behind    *)
(* those counted, rest says so.)                                           *)
FilesKept ==
  faults = 0 =>
    /\ \A p \in LiveEntries : \A k \in 0..(EntryAt(p).size - 1) : Holds(p, k)
    /\ \A n \in Names \ torn :
         LET named == {p \in LiveEntries : EntryAt(p).name = n} IN
         /\ Cardinality(named) <= 1
         /\ kept[n] # -1 => \E p \in named : EntryAt(p).size >= kept[n]

(* The card once the sectors on their way have been written.               *)
Pending(s) == {i \in DOMAIN io.todo : io.todo[i].lba = s}
Landed(s) == IF Pending(s) = {} THEN OnCard(s)
             ELSE io.todo[CHOOSE i \in Pending(s) : \A j \in Pending(s) : j <= i].b

(* sector_buffer is shared by FAT, directories and files: when NextCluster *)
(* and SetCluster skip the read, it does hold that sector of the FAT.      *)
(* Nobody looks after LoadFileAbs has read its last sector.                *)
LastRead == call.step = "read" /\ Len(image) >= Reach(file[call.h])
CacheTrue ==
  faults = 0 /\ kick = "none" /\ ~LastRead /\ io.cached \in FatSectors =>
    io.buf.kind = "fat" /\ io.buf = Landed(io.cached)

(* boot.c starts the soft kick with the whole file in memory, in order,    *)
(* and falls back on the stock ROM only when the card does not have it.    *)
(* Nothing is said of a sector that only FileSize claims.                  *)
Claimed(n) == \E p \in LiveEntries : EntryAt(p).name = n /\ EntryAt(p).rest = "past"
RomTrue ==
  LET n == call.name IN
  faults = 0 /\ call.fn = "none" /\ n \in Names \ torn =>
    /\ kick = "softkick" =>
         /\ Len(image) >= kept[n]
         /\ \A k \in 1..Len(image) :
              \/ image[k] = Token(n, k - 1)
              \/ k = Len(image) /\ k > kept[n] /\ Claimed(n)
    /\ kick = "stock" => kept[n] = -1

(* Every call returns: no chain that the library built, and no directory,  *)
(* is walked for ever, unless a step has gone wrong.                       *)
CallsEnd == (call.fn # "none") ~> (call.fn = "none" \/ faults > 0)
=============================================================================
