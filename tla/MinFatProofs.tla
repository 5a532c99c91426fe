---------------------------- MODULE MinFatProofs ----------------------------
(***************************************************************************)
(* Until a read or a write fails or a program goes on behind the end of    *)
(* its file, and wherever the power is lost: the chains of the FAT stay    *)
(* sound and files that were closed stay, the shared buffer is what it     *)
(* claims to be, and LoadROM starts the whole image or none, but for a     *)
(* last sector that only FileSize claims - for any number of names and     *)
(* clusters, any geometry of the volume, FAT16 or FAT32, from every volume *)
(* that is sound to begin with.                                            *)
(*                                                                         *)
(* A step changes several sectors, and the power may go after any of them. *)
(* The invariant therefore speaks of a sequence of volumes, Trace: the     *)
(* card, what it will be once the next sector on its way has landed, and   *)
(* so on.  Every one of them is sound (Good); the last is what open files, *)
(* the running call and the buffer agree with (AtEnd).                     *)
(*                                                                         *)
(* That a chain ends and meets no other is no matter of one link.  Rather  *)
(* than follow chains, the invariant has a certificate, the same for the   *)
(* whole trace: D, the clusters of the directory; own, the slot of the     *)
(* directory whose file a cluster belongs to; pos, the cluster's place in  *)
(* its chain.  A cluster and its successor agree on own and differ by one  *)
(* in pos; so FAT and directory can be compared link by link.              *)
(***************************************************************************)
EXTENDS MinFat, FiniteSetTheorems, WellFoundedInduction, TLAPS

(* What every record holds, also after a step has gone wrong.              *)
Foreign == {[kind |-> "none"]} \cup
  UNION {{v[s] : s \in {t \in Lba : v[t].kind \notin {"fat", "dir"}}} : v \in Volumes}
Content == FatContent \cup DirContent \cup Foreign
             \cup [kind : {"data"}, v : Names \X (0..(MaxSectors - 1))]
IoType == [cached : Int, buf : Content, todo : Seq([lba : Int, b : Content, left : Nat])]
CallType ==
  [fn : {"none", "open", "create", "delete", "close", "load"},
   step : {"none", "scan", "alloc", "slot", "release", "unlink", "return", "read"},
   h : Names \cup {NoName}, name : Names \cup {NoName}, cluster : Link, index : Nat,
   sector : Int, chain : Link, longname : Names \cup {NoName, "deleted"}]
FileType ==
  [open : BOOLEAN, name : Names \cup {NoName}, first : Link, cluster : Link, sector : Nat,
   size : 0..MaxSectors, rest : Rests, dirsector : Int, dirindex : Nat, dirty : BOOLEAN,
   eof : BOOLEAN]
CardTyped == DOMAIN card = Lba /\ \A s \in Lba : card[s] \in Content
CallTyped ==
  call \in CallType /\ (call.fn # "none" => call.h \in Names /\ call.name \in Names)
FileTyped ==
  file \in [Names -> FileType] /\ \A h \in Names : file[h].open => file[h].name \in Names
RestTyped ==
  /\ mounted \in BOOLEAN /\ image \in Seq(Content) /\ kick \in {"none", "softkick", "stock"}
  /\ kept \in [Names -> -1..MaxSectors] /\ torn \subseteq Names
  /\ faults \in Nat /\ crashes \in Nat
TypeInv == CardTyped /\ io \in IoType /\ CallTyped /\ FileTyped /\ RestTyped

(* The volume that is left when the power goes after any number of the     *)
(* sectors on their way: vs, from what is on the card to what will be.     *)
Trace(v, ws, vs) ==
  /\ DOMAIN vs = 1..(Len(ws) + 1) /\ vs[1] = v
  /\ \A i \in 1..Len(ws) :
       ws[i].lba \in Lba /\ vs[i + 1] = [vs[i] EXCEPT ![ws[i].lba] = ws[i].b]
End(ws, vs) == vs[Len(ws) + 1]

SlotOf(f) == <<f.dirsector, f.dirindex % DPS>>
VictimOf(k, F) == IF k.fn = "delete" THEN SlotOf(F[k.h]) ELSE Nobody
Victim == VictimOf(call, file)

(* Every one of them is sound: S are the files that count.                 *)
Counting(R, x, gone) == {p \in FileSlots(R) : p # x /\ Ent(R, p).name \notin gone}
FilesOK(L, R, D, own, pos, S) ==
  \A p \in S :
    FileOK(L, R, D, own, pos, p, Ent(R, p).first, Ent(R, p).size, Ent(R, p).name)
NamesOK(R, S) ==
  \A p, q \in S : Ent(R, p).name = Ent(R, q).name /\ Ent(R, p).name \in Names => p = q
KeptOK(R, S, gone, relied) ==
  \A n \in Names \ gone :
    relied[n] # -1 => \E p \in S : Ent(R, p).name = n /\ Ent(R, p).size >= relied[n]
Layout(L, R, D, own, pos) ==
  DirectoryOK(L, R, D, pos) /\ LongNamesOK(L, R, D) /\ ChainsOK(L, D, own, pos)
Sound(L, R, D, own, pos, S, gone, relied) ==
  /\ Layout(L, R, D, own, pos) /\ FilesOK(L, R, D, own, pos, S)
  /\ NamesOK(R, S) /\ KeptOK(R, S, gone, relied)
Good(v, D, own, pos, x, gone, relied) ==
  /\ Formatted(v)
  /\ Sound(LinksOf(v), PlainOf(v), D, own, pos, Counting(PlainOf(v), x, gone), gone, relied)
Alike(v, k, F) ==
  k.fn = "delete" => Ent(PlainOf(v), VictimOf(k, F)).name \in {k.name, "deleted"}

(* An open file: its slot, its chain, and where in it the program is.      *)
HandleOK(L, R, D, own, pos, f) ==
  LET p == SlotOf(f)  e == Ent(R, SlotOf(f)) IN
  /\ p \in DirSlots(R) /\ e.name = f.name /\ e.first = f.first /\ e.attr \in {"normal", "archive"}
  /\ e.size <= f.size /\ (~f.dirty => e.size = f.size /\ e.rest = f.rest)
  /\ f.dirty /\ f.size = 0 =>
       \A q \in DirSlots(R) : Follows(L, D, q, p) => Ent(R, q).attr # "lfn"
  /\ FileOK(L, R, D, own, pos, p, f.first, f.size, f.name)
  /\ f.sector <= f.size
  /\ f.eof => f.cluster = 0
  /\ ~f.eof /\ f.cluster # 0 =>
       /\ f.first # 0 /\ f.cluster \in Clusters \ D /\ own[f.cluster] = p
       /\ f.cluster = f.first \/ Linked(L, D, f.cluster)
       /\ pos[f.cluster] = f.sector \div cluster_size
Handles(L, R, D, own, pos, k, F) ==
  /\ \A g, h \in Names : F[g].open /\ F[h].open /\ F[g].name = F[h].name => g = h
  /\ \A h \in Names : F[h].open /\ ~(k.fn = "delete" /\ k.h = h) => HandleOK(L, R, D, own, pos, F[h])

(* The search of call k: the long name collected belongs to the next slot, *)
(* and the entry looked for is not among those passed.                     *)
Upcoming(L, D, k, q) ==
  /\ q[2] = 0
  /\ \/ k.index < dir_entries /\ q[1] = k.sector
     \/ k.index = dir_entries /\ L[k.chain] \in D /\ q[1] = DirBase(L[k.chain])
Ahead(R, D, pos, k) ==
  \A p \in FileSlots(R) : Ent(R, p).name = k.name =>
    \E c \in D, j \in 0..(DIR_SECTORS - 1) :
      /\ p[1] = DirBase(c) + j
      /\ pos[c] > pos[k.chain] \/ (c = k.chain /\ k.index <= DPS * j)
Searching(L, R, D, pos, k) ==
  k.fn # "none" /\ k.step \in {"scan", "slot"} =>
    /\ k.chain \in D
    /\ \E j \in 0..DIR_SECTORS : k.index = DPS * j /\ k.sector = DirBase(k.chain) + j
    /\ \A q \in DirSlots(R) : Upcoming(L, D, k, q) =>
         IF k.longname # NoName THEN Named(Ent(R, q), k.longname)
         ELSE \A p \in DirSlots(R) : Follows(L, D, p, q) => Ent(R, p).attr # "lfn"
    /\ k.step = "scan" => Ahead(R, D, pos, k)

(* What call k knows while it is running.                                  *)
Holding(k) == \/ k.fn = "create" /\ k.step \in {"slot", "release"}
              \/ k.fn = "delete" /\ k.step = "release"
Steps(fn) == CASE fn = "open" -> {"scan"} [] fn = "create" -> {"scan", "alloc", "slot", "release"}
               [] fn = "delete" -> {"release", "unlink", "return"} [] fn = "close" -> {"return"}
               [] fn = "load" -> {"scan", "read"} [] OTHER -> {"none"}
Looking(k, F, gone) ==
  k.fn \in {"open", "create", "load"} /\ k.step # "read" =>
    /\ ~F[k.h].open /\ \A g \in Names : ~(F[g].open /\ F[g].name = k.name)
    /\ k.fn # "create" => k.name \notin gone
Held(L, D, own, k, F) ==
  Holding(k) => /\ k.cluster \in Clusters \ D /\ L[k.cluster] # 0
                /\ ~Linked(L, D, k.cluster) /\ own[k.cluster] = VictimOf(k, F)
                /\ k.fn = "create" => L[k.cluster] = EOC
Deleting(R, k, F, relied) ==
  k.fn = "delete" =>
    /\ relied[k.name] = -1 /\ VictimOf(k, F) \in DirSlots(R)
    /\ Ent(R, VictimOf(k, F)).attr \in {"normal", "archive"}
    /\ Ent(R, VictimOf(k, F)).name = IF k.step = "return" THEN "deleted" ELSE k.name
Calling(L, R, D, own, k, F, gone, relied) ==
  /\ k.step \in Steps(k.fn) /\ Looking(k, F, gone) /\ Held(L, D, own, k, F)
  /\ k.fn = "create" /\ k.step # "scan" => \A p \in FileSlots(R) : Ent(R, p).name # k.name
  /\ k.fn \in {"delete", "close"} => F[k.h].open /\ F[k.h].name = k.name
  /\ Deleting(R, k, F, relied)

(* LoadROM's file is in memory up to the sector that comes next.           *)
Loading ==
  /\ call.fn # "load" /\ kick = "none" => image = <<>>
  /\ call.fn = "load" => \A h \in Names : file[h].open => h = call.h
  /\ call.fn = "load" /\ call.step = "scan" => image = <<>>
  /\ call.fn = "load" /\ call.step = "read" =>
       LET f == file[call.h] IN
       /\ f.open /\ f.name = call.name /\ ~f.dirty /\ call.name \notin torn
       /\ Len(image) <= Reach(f)
       /\ \A k \in 1..Len(image) : k <= f.size => image[k] = Token(call.name, k - 1)
       /\ Len(image) < f.size => f.sector = Len(image) /\ ~f.eof /\ f.cluster # 0
Kicked == kick # "none" => call.fn = "none" /\ io.todo = <<>> /\ RomTrue
Unmounted ==
  ~mounted => call = NoCall /\ io.todo = <<>> /\ io.cached = None /\ \A h \in Names : ~file[h].open

(* Before the first loss of power nothing is lost on the card either.      *)
NoneLost(v, L, R, D, k, F) ==
  /\ Mirrored(v)
  /\ \A c \in Clusters \ D :
       \/ L[c] = 0 \/ Linked(L, D, c) \/ (Holding(k) /\ c = k.cluster)
       \/ \E p \in FileSlots(R) : p # VictimOf(k, F) /\ Ent(R, p).first = c

(* sector_buffer against the card as it will be, while somebody may look.  *)
Buffered(m, v) == m.cached \in FatSectors => m.buf = v[m.cached]
Watching == kick = "none" /\ ~LastRead

AtEnd(v, D, own, pos) ==
  LET L == LinksOf(v)  R == PlainOf(v) IN
  /\ Handles(L, R, D, own, pos, call, file) /\ Searching(L, R, D, pos, call)
  /\ Calling(L, R, D, own, call, file, torn, kept) /\ (Watching => Buffered(io, v))
  /\ crashes = 0 => torn = {} /\ NoneLost(v, L, R, D, call, file)

Certified(D, own, pos, vs) ==
  /\ Trace(card, io.todo, vs)
  /\ \A i \in DOMAIN vs : Good(vs[i], D, own, pos, Victim, torn, kept) /\ Alike(vs[i], call, file)
  /\ AtEnd(End(io.todo, vs), D, own, pos)
  /\ Loading /\ Kicked /\ Unmounted
-----------------------------------------------------------------------------
(* Where things are on the card.                                           *)

LEMMA ConstantTypes ==
  /\ EPS \in Nat /\ EPS > 0 /\ DPS \in Nat /\ DPS > 0 /\ RESERVED \in Nat /\ RESERVED > 0
  /\ fat_number \in Nat /\ fat_number > 0 /\ fat_size \in Nat /\ fat_size > 0
  /\ cluster_size \in Nat /\ cluster_size > 0
  /\ PART \in Nat /\ ROOT_SECTORS \in Nat /\ ROOT_CLUSTER \in Nat /\ CLUSTERS \in Nat
  /\ EOC \in Nat /\ EOC > fat_size * EPS + 8 /\ fat_size * EPS >= CLUSTERS + 2
  /\ FAT32 \in BOOLEAN /\ (FAT32 => ROOT_CLUSTER \in 2..(CLUSTERS + 1))
  /\ DIR_SECTORS \in Nat
BY VolumeAssumption DEF VolumeAssumption, DIR_SECTORS

LEMMA Products ==
  /\ fat_number * fat_size \in Nat /\ fat_number * fat_size >= fat_size
  /\ cluster_size * CLUSTERS \in Nat /\ fat_size * EPS \in Nat /\ DPS * DIR_SECTORS \in Nat
<1>1. \A a, b \in Nat : a > 0 => a * b \in Nat /\ a * b >= b
  BY Z3
<1> QED BY <1>1, ConstantTypes

LEMMA Areas ==
  /\ fat_start \in Nat /\ data_start \in Nat /\ root_directory_cluster \in Nat
  /\ fat_start > 0 /\ data_start >= fat_start + fat_number * fat_size
  /\ FatSectors \subseteq FatArea /\ FatArea \subseteq Lba
  /\ Lba \subseteq Nat /\ FatSectors \subseteq Nat /\ FatArea \subseteq Nat
  /\ ~FAT32 => /\ root_directory_start = fat_start + fat_number * fat_size
               /\ data_start = root_directory_start + ROOT_SECTORS
BY ConstantTypes, Products
DEF fat_start, data_start, FatSectors, FatArea, Lba, root_directory_cluster, root_directory_start

(* The sectors of a cluster are its own, behind the FAT.                   *)
LEMMA ClusterPlace ==
  ASSUME NEW c \in Clusters, NEW i \in 0..(cluster_size - 1)
  PROVE  /\ ClusterLba(c) + i \in Lba \ FatArea /\ ClusterLba(c) + i \in Nat
         /\ ClusterLba(c) \in Nat /\ ClusterLba(c) + i >= data_start
<1>1. c - 2 \in Nat /\ c - 2 + 1 <= CLUSTERS
  BY ConstantTypes DEF Clusters
<1>2. \A s, x, y \in Nat : x + 1 <= y => s * x \in Nat /\ s * x + s <= s * y
  BY Z3
<1>3. cluster_size * (c - 2) \in Nat /\ cluster_size * (c - 2) + cluster_size <= cluster_size * CLUSTERS
  BY <1>1, <1>2, ConstantTypes
<1> QED BY <1>3, ConstantTypes, Products, Areas DEF ClusterLba, Lba, FatArea

LEMMA ClustersApart ==
  ASSUME NEW c \in Clusters, NEW d \in Clusters,
         NEW i \in 0..(cluster_size - 1), NEW j \in 0..(cluster_size - 1),
         ClusterLba(c) + i = ClusterLba(d) + j
  PROVE  c = d /\ i = j
<1>1. c - 2 \in Nat /\ d - 2 \in Nat /\ c \in Int /\ d \in Int
  BY ConstantTypes DEF Clusters
<1>2. \A s, x, y \in Nat : x < y => s * x \in Nat /\ s * x + s <= s * y
  BY Z3
<1>3. \A s, x \in Nat : s * x \in Nat
  BY Z3
<1>4. ~(c < d)
  BY <1>1, <1>2, <1>3, ConstantTypes, Areas DEF ClusterLba
<1>5. ~(d < c)
  BY <1>1, <1>2, <1>3, ConstantTypes, Areas DEF ClusterLba
<1>6. c = d
  BY <1>1, <1>4, <1>5
<1> QED BY <1>1, <1>3, <1>6, ConstantTypes, Areas DEF ClusterLba

(* The link of a cluster has a place of its own in the FAT.                *)
LEMMA LinkPlace ==
  ASSUME NEW c \in Links
  PROVE  FatSector(c) \in FatSectors /\ FatIndex(c) \in 0..(EPS - 1)
<1>1. c \in Nat /\ c < fat_size * EPS
  BY ConstantTypes, Products DEF Links
<1>2. \A e, f, x \in Nat : e > 0 /\ x < f * e => x \div e \in Nat /\ x \div e < f /\ x % e \in 0..(e - 1)
  BY Z3
<1>3. c \div EPS \in Nat /\ c \div EPS < fat_size /\ c % EPS \in 0..(EPS - 1)
  BY <1>1, <1>2, ConstantTypes
<1> QED BY <1>3, ConstantTypes, Areas DEF FatSector, FatSectors, FatIndex

LEMMA LinksApart ==
  ASSUME NEW c \in Links, NEW d \in Links, FatSector(c) = FatSector(d), FatIndex(c) = FatIndex(d)
  PROVE  c = d
<1>1. c \in Nat /\ d \in Nat
  BY ConstantTypes, Products DEF Links
<1>2. \A e, x \in Nat : e > 0 => x \div e \in Nat /\ x = (e * (x \div e)) + (x % e)
  BY Z3
<1>3. c \div EPS = d \div EPS /\ c % EPS = d % EPS
  BY <1>1, <1>2, ConstantTypes, Areas DEF FatSector, FatIndex
<1> QED BY <1>1, <1>2, <1>3, ConstantTypes

-----------------------------------------------------------------------------
(* Types, also after a read has failed.                                    *)

LEMMA Least ==
  ASSUME NEW S, S \subseteq Nat, S # {}
  PROVE  FirstOf(S) \in S /\ \A y \in S : FirstOf(S) <= y
<1>1. \E x \in S : \A y \in S : ~(<<y, x>> \in OpToRel(<, Nat))
  BY NatLessThanWellFounded, WFMin
<1>2. PICK x \in S : \A y \in S : ~(<<y, x>> \in OpToRel(<, Nat))
  BY <1>1
<1>3. \A y \in S : <<y, x>> \in Nat \X Nat
  OBVIOUS
<1>4. \A y \in S : ~(y < x)
  BY <1>2, <1>3 DEF OpToRel
<1>5. \E z \in S : \A y \in S : z <= y
  BY <1>4
<1> QED BY <1>5 DEF FirstOf

LEMMA AsTyped ==
  ASSUME NEW b \in Content
  PROVE  AsFat(b) \in [0..(EPS - 1) -> Link] /\ AsDir(b) \in [0..(DPS - 1) -> Entry]
<1>1. b.kind = "fat" => b \in FatContent
  BY DEF Content, FatContent, DirContent, Foreign
<1>2. b.kind = "dir" => b \in DirContent
  BY DEF Content, FatContent, DirContent, Foreign
<1> QED
  BY <1>1, <1>2, VolumeAssumption, VolumesAssumption
  DEF AsFat, AsDir, FatContent, DirContent, VolumeAssumption, VolumesAssumption, Link

LEMMA MadeTyped ==
  /\ \A v \in [0..(EPS - 1) -> Link] : [kind |-> "fat", v |-> v] \in Content
  /\ \A v \in [0..(DPS - 1) -> Entry] : [kind |-> "dir", v |-> v] \in Content
  /\ \A n \in Names, k \in 0..(MaxSectors - 1) : Token(n, k) \in Content
  /\ [kind |-> "none"] \in Content
BY DEF Content, FatContent, DirContent, Foreign, Token

LEMMA OnCardTyped ==
  ASSUME CardTyped, NEW s
  PROVE  OnCard(s) \in Content
BY MadeTyped DEF CardTyped, OnCard

LEMMA ReadTyped ==
  ASSUME CardTyped, NEW m \in IoType, NEW s \in Int, NEW ok \in BOOLEAN
  PROVE  /\ ReadSector(m, s, ok) \in IoType
         /\ ReadSector(m, s, ok).todo = m.todo /\ ReadSector(m, s, ok).cached = s
         /\ ReadSector(m, s, ok).buf = IF ok THEN OnCard(s) ELSE m.buf
BY OnCardTyped DEF ReadSector, IoType

LEMMA FatSectorInt ==
  ASSUME NEW c \in Int
  PROVE  FatSector(c) \in Int /\ FatIndex(c) \in 0..(EPS - 1)
<1>1. \A x \in Int, e \in Nat : e > 0 => x \div e \in Int /\ x % e \in 0..(e - 1)
  BY Z3
<1> QED BY <1>1, ConstantTypes, Areas DEF FatSector, FatIndex

LEMMA FetchTyped ==
  ASSUME CardTyped, NEW m \in IoType, NEW c \in Int, NEW ok \in BOOLEAN
  PROVE  /\ FetchFat(m, c, ok) \in IoType /\ FetchFat(m, c, ok).todo = m.todo
         /\ NextCluster(m, c, ok) \in Link
<1>1. FetchFat(m, c, ok) \in IoType /\ FetchFat(m, c, ok).todo = m.todo
  BY ReadTyped, FatSectorInt DEF FetchFat
<1>2. FetchFat(m, c, ok).buf \in Content
  BY <1>1 DEF IoType
<1>3. AsFat(FetchFat(m, c, ok).buf)[FatIndex(c)] \in Link
  BY <1>2, AsTyped, FatSectorInt
<1>4. NextCluster(m, c, ok) \in Link
  BY <1>3, ConstantTypes DEF NextCluster, Link
<1> QED BY <1>1, <1>4

LEMMA WriteTyped ==
  ASSUME NEW m \in IoType, NEW s \in Int, NEW b \in Content
  PROVE  Write(m, s, b) \in IoType
<1>1. Append(m.todo, [lba |-> s, b |-> b, left |-> 0]) \in Seq([lba : Int, b : Content, left : Nat])
  BY DEF IoType
<1> QED BY <1>1 DEF Write, IoType

LEMMA CopiesTyped ==
  ASSUME NEW s \in Int, NEW b \in Content
  PROVE  [i \in 1..fat_number |->
            [lba |-> s + (i - 1) * fat_size, b |-> b, left |-> fat_number - i]]
           \in Seq([lba : Int, b : Content, left : Nat])
<1>1. \A i \in 1..fat_number : (i - 1) * fat_size \in Int
  BY ConstantTypes
<1>2. \A i \in 1..fat_number : s + (i - 1) * fat_size \in Int
  BY <1>1
<1> QED BY <1>2, ConstantTypes

LEMMA SetTyped ==
  ASSUME CardTyped, NEW m \in IoType, NEW c \in Int, NEW t \in Link, NEW ok \in BOOLEAN
  PROVE  SetCluster(m, c, t, ok) \in IoType
<1> DEFINE f == FetchFat(m, c, ok)
           b == [kind |-> "fat", v |-> [AsFat(f.buf) EXCEPT ![FatIndex(c)] = t]]
           copies == [i \in 1..fat_number |->
                        [lba |-> FatSector(c) + (i - 1) * fat_size, b |-> b,
                         left |-> fat_number - i]]
<1>1. f \in IoType
  BY FetchTyped
<1>2. f.buf \in Content
  BY <1>1 DEF IoType
<1>3. AsFat(f.buf) \in [0..(EPS - 1) -> Link]
  BY <1>2, AsTyped
<1>4. b \in Content
  BY <1>3, MadeTyped
<1>5. copies \in Seq([lba : Int, b : Content, left : Nat])
  BY <1>4, CopiesTyped, FatSectorInt
<1>6. SetCluster(m, c, t, ok) =
        IF FetchFails(m, c, ok) THEN f ELSE [f EXCEPT !.buf = b, !.todo = @ \o copies]
  BY DEF SetCluster
<1>7. f.todo \o copies \in Seq([lba : Int, b : Content, left : Nat])
  BY <1>1, <1>5 DEF IoType
<1> HIDE DEF f, b, copies
<1> QED BY <1>1, <1>4, <1>6, <1>7 DEF IoType

LEMMA FreeClustersNat ==
  FreeClusters \subseteq Links /\ FreeClusters \subseteq Nat /\ \A c \in FreeClusters : c >= 2
BY ConstantTypes, Products DEF FreeClusters, Links

LEMMA FirstFree ==
  FreeClusters # {} =>
    /\ FirstOf(FreeClusters) \in FreeClusters /\ FirstOf(FreeClusters) \in Nat
    /\ FirstOf(FreeClusters) \in Int
<1>1. FreeClusters # {} => FirstOf(FreeClusters) \in FreeClusters
  BY Least, FreeClustersNat
<1>2. \A c \in FreeClusters : c \in Nat /\ c \in Int
  BY FreeClustersNat
<1> QED BY <1>1, <1>2

LEMMA AllocatedTyped ==
  ASSUME NEW bad
  PROVE  Allocated(bad) \in Link /\ (Allocated(bad) # 0 => Allocated(bad) \in FreeClusters)
<1>1. FreeClusters # {} => FirstOf(FreeClusters) \in FreeClusters
  BY FirstFree
<1>2. \A c \in Links : c \in Link
  BY ConstantTypes, Products DEF Link, Links
<1>3. 0 \in Link
  BY ConstantTypes DEF Link
<1> QED BY <1>1, <1>2, <1>3, FreeClustersNat DEF Allocated

LEMMA SearchTyped ==
  ASSUME CardTyped, NEW m \in IoType, NEW bad \in {None} \cup FatSectors
  PROVE  Searched(m, bad) \in IoType
<1>1. SearchEnd \in Int
  <2>1. FreeClusters # {} => FirstOf(FreeClusters) \in Int
    BY FirstFree
  <2>2. FreeClusters # {} => FatSector(FirstOf(FreeClusters)) \in Int
    BY <2>1, FatSectorInt
  <2>3. fat_start + fat_size - 1 \in Int
    BY ConstantTypes, Areas
  <2> QED BY <2>2, <2>3 DEF SearchEnd
<1>2. bad \in Int /\ bad - 1 \in Int
  BY Areas DEF None
<1>3. ReadSector(m, SearchEnd, TRUE) \in IoType
  BY <1>1, ReadTyped
<1>4. ReadSector(m, bad - 1, TRUE) \in IoType /\ ReadSector(m, bad, FALSE) \in IoType
  BY <1>2, ReadTyped
<1>5. ReadSector(ReadSector(m, bad - 1, TRUE), bad, FALSE) \in IoType
  BY <1>2, <1>4, ReadTyped
<1> QED BY <1>3, <1>4, <1>5 DEF Searched

LEMMA AllocateTyped ==
  ASSUME CardTyped, NEW m \in IoType, NEW parent \in Link, NEW bad \in {None} \cup FatSectors
  PROVE  AllocateCluster(m, parent, bad) \in IoType
<1> DEFINE c == Allocated(bad)
           s == Searched(m, bad)
           marked == SetCluster(s, c, EOC, TRUE)
<1>1. c \in Link /\ c \in Int /\ parent \in Int /\ EOC \in Link
  BY AllocatedTyped, ConstantTypes DEF Link
<1>2. s \in IoType
  BY SearchTyped
<1>3. marked \in IoType
  BY <1>1, <1>2, SetTyped
<1>4. SetCluster(marked, parent, c, bad # FatSector(parent)) \in IoType
  BY <1>1, <1>3, SetTyped
<1> HIDE DEF c, s, marked
<1>5. AllocateCluster(m, parent, bad) =
        IF c = 0 THEN s ELSE IF parent = 0 THEN marked
        ELSE SetCluster(marked, parent, c, bad # FatSector(parent))
  BY DEF AllocateCluster, c, s, marked
<1> QED BY <1>2, <1>3, <1>4, <1>5
LEMMA CountTyped ==
  ASSUME faults \in Nat, NEW failed, Count(failed)
  PROVE  faults' \in Nat /\ faults' >= faults /\ (faults' = 0 => faults = 0 /\ ~failed)
BY DEF Count

LEMMA CallsTyped ==
  ASSUME CallTyped
  PROVE  /\ NoCall \in CallType /\ NoFile \in FileType /\ NoCall.fn = "none"
         /\ Blank \in IoType
         /\ root_directory_start \in Int /\ root_directory_cluster \in Link
<1>1. root_directory_start \in Int
  <2>1. ClusterLba(ROOT_CLUSTER) \in Int
    BY ConstantTypes, Areas DEF ClusterLba
  <2> QED BY <2>1, ConstantTypes, Products, Areas DEF root_directory_start
<1>2. root_directory_cluster \in Link
  BY ConstantTypes, Products DEF root_directory_cluster, Link
<1>3. 0 \in Link /\ MaxSectors \in Nat
  BY ConstantTypes, VolumesAssumption DEF Link, VolumesAssumption
<1>4. Blank \in IoType
  BY MadeTyped DEF Blank, IoType, None
<1> QED BY <1>1, <1>2, <1>3, <1>4 DEF NoCall, NoFile, CallType, FileType, NoName, Rests

LEMMA RewoundTyped ==
  ASSUME CallTyped, NEW c \in CallType
  PROVE  /\ Rewound(c) \in CallType
         /\ Rewound(c).fn = c.fn /\ Rewound(c).step = c.step /\ Rewound(c).h = c.h
         /\ Rewound(c).name = c.name /\ Rewound(c).cluster = c.cluster
         /\ Rewound(c).index = 0 /\ Rewound(c).sector = root_directory_start
         /\ Rewound(c).chain = root_directory_cluster /\ Rewound(c).longname = NoName
BY CallsTyped DEF Rewound, CallType

LEMMA BeginTyped ==
  ASSUME CallTyped, NEW h \in Names, NEW n \in Names,
         NEW fn \in {"open", "create", "close", "load"}, NEW step \in {"scan", "return"},
         Begin(fn, step, h, n)
  PROVE  /\ CallTyped' /\ call'.fn = fn /\ call'.step = step /\ call'.h = h /\ call'.name = n
         /\ call'.index = 0 /\ call'.sector = root_directory_start
         /\ call'.chain = root_directory_cluster /\ call'.longname = NoName
<1> DEFINE c == [NoCall EXCEPT !.fn = fn, !.step = step, !.h = h, !.name = n]
<1>1. NoCall \in CallType
  BY CallsTyped
<1>2. c \in CallType /\ c.fn = fn /\ c.step = step /\ c.h = h /\ c.name = n
  BY <1>1 DEF CallType
<1>3. call' = Rewound(c)
  BY DEF Begin
<1> HIDE DEF c
<1> QED BY <1>2, <1>3, RewoundTyped DEF CallTyped

LEMMA EntryTyped ==
  ASSUME TypeInv, NEW h \in Names, NEW ok \in BOOLEAN
  PROVE  /\ EntryRead(file[h], ok) \in Entry
         /\ \A e \in Entry : EntryChanged(file[h], ok, e) \in IoType
<1> DEFINE f == file[h]
           m == ReadSector(io, f.dirsector, ok)
<1>1. f.dirsector \in Int /\ f.dirindex \in Nat
  BY DEF TypeInv, FileTyped, FileType
<1>2. \A x \in Nat : x % DPS \in 0..(DPS - 1)
  BY ConstantTypes
<1>3. m \in IoType /\ m.buf \in Content
  <2>1. m \in IoType
    BY <1>1, ReadTyped DEF TypeInv
  <2> QED BY <2>1 DEF IoType
<1>4. AsDir(m.buf) \in [0..(DPS - 1) -> Entry] /\ f.dirindex % DPS \in 0..(DPS - 1)
  BY <1>1, <1>2, <1>3, AsTyped
<1>5. EntryRead(f, ok) \in Entry
  BY <1>4 DEF EntryRead
<1>6. ASSUME NEW e \in Entry
      PROVE  EntryChanged(f, ok, e) \in IoType
  <2> DEFINE b == [kind |-> "dir", v |-> [AsDir(m.buf) EXCEPT ![f.dirindex % DPS] = e]]
  <2>1. b \in Content
    BY <1>4, MadeTyped
  <2>2. Write(m, f.dirsector, b) \in IoType
    BY <1>1, <1>3, <2>1, WriteTyped
  <2>3. EntryChanged(f, ok, e) = IF ok THEN Write(m, f.dirsector, b) ELSE m
    BY DEF EntryChanged
  <2> QED BY <1>3, <2>2, <2>3
<1> QED BY <1>5, <1>6

LEMMA NextTyped ==
  ASSUME TypeInv, NEW m \in IoType, NEW h \in Names, NEW append \in BOOLEAN,
         NEW ok \in BOOLEAN, NEW bad \in {None} \cup FatSectors
  PROVE  /\ NextIo(m, file[h], append, ok, bad) \in IoType
         /\ Stepped(m, file[h], append, ok, bad) \in FileType
         /\ Stepped(m, file[h], append, ok, bad).name = file[h].name
         /\ Stepped(m, file[h], append, ok, bad).open = file[h].open
<1> DEFINE f == file[h]
<1>1. f \in FileType /\ f.cluster \in Link /\ f.cluster \in Int /\ f.sector \in Nat
  BY ConstantTypes DEF TypeInv, FileTyped, FileType, Link
<1>2. CardTyped
  BY DEF TypeInv
<1>3. /\ FetchFat(m, f.cluster, ok) \in IoType
      /\ NextCluster(m, f.cluster, ok) \in Link
  BY <1>1, <1>2, FetchTyped
<1>4. AllocateCluster(FetchFat(m, f.cluster, ok), f.cluster, bad) \in IoType
  BY <1>1, <1>2, <1>3, AllocateTyped
<1>5. Allocated(bad) \in Link /\ 0 \in Link
  BY AllocatedTyped, ConstantTypes DEF Link
<1>6. NextIo(m, f, append, ok, bad) \in IoType
  BY <1>3, <1>4 DEF NextIo
<1> DEFINE next == NextCluster(m, f.cluster, ok)
           c == IF next # EOC THEN next ELSE IF append THEN Allocated(bad) ELSE 0
<1>7. c \in Link
  BY <1>3, <1>5
<1>8. Stepped(m, f, append, ok, bad) =
        IF ~Crosses(f) THEN [f EXCEPT !.sector = @ + 1]
        ELSE [f EXCEPT !.sector = @ + 1, !.cluster = c, !.eof = @ \/ (next = EOC /\ c = 0)]
  BY DEF Stepped
<1> HIDE DEF c, next
<1>9. f.sector + 1 \in Nat /\ (f.eof \/ (next = EOC /\ c = 0)) \in BOOLEAN
  BY <1>1
<1>10. [f EXCEPT !.sector = @ + 1] \in FileType
  BY <1>1, <1>9 DEF FileType
<1>11. [f EXCEPT !.sector = @ + 1, !.cluster = c, !.eof = @ \/ (next = EOC /\ c = 0)] \in FileType
  BY <1>1, <1>7, <1>9 DEF FileType
<1> QED BY <1>1, <1>6, <1>8, <1>10, <1>11 DEF FileType

LEMMA SectorTyped ==
  ASSUME NEW f \in FileType
  PROVE  SectorLba(f) \in Int
<1>1. f.cluster \in Int /\ f.sector \in Nat
  BY ConstantTypes DEF FileType, Link
<1>2. f.sector % cluster_size \in Int
  BY <1>1, ConstantTypes
<1>3. \A x, y \in Int : x * y \in Int
  OBVIOUS
<1> QED BY <1>1, <1>2, <1>3, ConstantTypes, Areas DEF SectorLba, ClusterLba

LEMMA FilePut ==
  ASSUME FileTyped, NEW h \in Names, NEW x \in FileType, x.open => x.name \in Names,
         file' = [file EXCEPT ![h] = x]
  PROVE  FileTyped'
BY DEF FileTyped

LEMMA KeptPut ==
  ASSUME kept \in [Names -> -1..MaxSectors], NEW n, NEW x \in -1..MaxSectors,
         kept' = [kept EXCEPT ![n] = x]
  PROVE  kept' \in [Names -> -1..MaxSectors]
OBVIOUS
LEMMA ScanTyped ==
  ASSUME TypeInv, ScanSector
  PROVE  TypeInv'
<1>1. PICK ok \in BOOLEAN :
        LET m == ReadSector(io, call.sector, ok)
            e == AsDir(m.buf)
            hits == IF call.step = "scan" THEN Matches(e) ELSE Slots(e)
            last == e[DPS - 1]
        IN  /\ Count(~ok)
            /\ \/ /\ hits = {} /\ io' = m /\ UNCHANGED file
                  /\ call' = [call EXCEPT !.index = @ + DPS, !.sector = @ + 1, !.longname =
                                IF last.attr = "lfn" THEN last.name ELSE NoName]
               \/ /\ hits # {} /\ call.step = "scan"
                  /\ io' = m /\ FoundName(e, FirstOf(hits))
               \/ /\ hits # {} /\ call.step = "slot"
                  /\ FoundSlot(m, e, FirstOf(hits))
  BY DEF ScanSector, Oks
<1> DEFINE m == ReadSector(io, call.sector, ok)
           e == AsDir(m.buf)
           hits == IF call.step = "scan" THEN Matches(e) ELSE Slots(e)
           i == FirstOf(hits)
           last == e[DPS - 1]
<1>2. /\ CardTyped /\ io \in IoType /\ CallTyped /\ FileTyped /\ RestTyped
      /\ call \in CallType /\ call.fn # "none" /\ call.h \in Names /\ call.name \in Names
  BY DEF TypeInv, ScanSector, Running, CallTyped
<1>3. m \in IoType /\ m.buf \in Content
  <2>1. call.sector \in Int
    BY <1>2 DEF CallType
  <2>2. m \in IoType
    BY <1>2, <2>1, ReadTyped
  <2> QED BY <2>2 DEF IoType
<1>4. e \in [0..(DPS - 1) -> Entry] /\ last \in Entry
  BY <1>3, AsTyped, ConstantTypes
<1>5. hits \subseteq 0..(DPS - 1) /\ hits \subseteq Nat
  BY ConstantTypes DEF Matches, Slots
<1>6. hits # {} => i \in 0..(DPS - 1) /\ e[i] \in Entry
  BY <1>4, <1>5, Least
<1> HIDE DEF m, e, hits, i, last
<1>7. faults' \in Nat
  BY <1>1, <1>2, CountTyped DEF RestTyped
<1>8. RestTyped' /\ CardTyped'
  BY <1>2, <1>7 DEF ScanSector, UnchangedRest, RestTyped, CardTyped
<1>9. CASE hits = {} /\ io' = m /\ UNCHANGED file
           /\ call' = [call EXCEPT !.index = @ + DPS, !.sector = @ + 1, !.longname =
                         IF last.attr = "lfn" THEN last.name ELSE NoName]
  <2>1. (IF last.attr = "lfn" THEN last.name ELSE NoName) \in Names \cup {NoName, "deleted"}
    BY <1>4 DEF Entry
  <2>2. call.index + DPS \in Nat /\ call.sector + 1 \in Int
    BY <1>2, ConstantTypes DEF CallType
  <2>3. CallTyped'
    BY <1>2, <1>9, <2>1, <2>2 DEF CallTyped, CallType
  <2> QED BY <1>2, <1>3, <1>8, <1>9, <2>3 DEF TypeInv, FileTyped
<1>10. ASSUME NEW x, x[i] \in Entry, hits # {}, NEW dirty \in BOOLEAN
       PROVE  Opened(call.name, x, i, dirty) \in FileType
              /\ Opened(call.name, x, i, dirty).name = call.name
  <2>1. x[i].first \in Link /\ x[i].size \in 0..MaxSectors /\ x[i].rest \in Rests
    BY <1>10 DEF Entry
  <2>2. call.index + i \in Nat /\ call.sector \in Int
    BY <1>2, <1>6, <1>10 DEF CallType
  <2>3. NoFile \in FileType
    BY <1>2, CallsTyped
  <2> QED BY <1>2, <2>1, <2>2, <2>3 DEF Opened, FileType
<1>11. CASE hits # {} /\ io' = m /\ FoundName(e, i)
  <2>1. CallTyped'
    <3> DEFINE d == [call EXCEPT !.step = "read"]
    <3>1. call' = NoCall \/ call' = d
      BY <1>11 DEF FoundName
    <3>2. d \in CallType /\ d.h = call.h /\ d.name = call.name
      BY <1>2 DEF CallType
    <3> HIDE DEF d
    <3> QED BY <1>2, <3>1, <3>2, CallsTyped DEF CallTyped
  <2>2. FileTyped'
    <3>1. file' = file \/ file' = [file EXCEPT ![call.h] = Opened(call.name, e, i, FALSE)]
      BY <1>11 DEF FoundName
    <3>2. CASE file' = file
      BY <1>2, <3>2 DEF FileTyped
    <3>3. CASE file' = [file EXCEPT ![call.h] = Opened(call.name, e, i, FALSE)]
      BY <1>2, <1>6, <1>10, <1>11, <3>3, FilePut
    <3> QED BY <3>1, <3>2, <3>3
  <2> QED BY <1>3, <1>8, <1>11, <2>1, <2>2 DEF TypeInv
<1>12. CASE hits # {} /\ FoundSlot(m, e, i)
  <2>1. NewEntry \in Entry
    BY <1>2, VolumesAssumption DEF NewEntry, Entry, CallType, Attributes, Rests, VolumesAssumption
  <2>2. [kind |-> "dir", v |-> [e EXCEPT ![i] = NewEntry]] \in Content
    BY <1>4, <1>6, <1>12, <2>1, MadeTyped
  <2>3. io' \in IoType
    BY <1>2, <1>3, <1>12, <2>2, WriteTyped DEF FoundSlot, CallType
  <2>4. CallTyped'
    BY <1>2, <1>12, CallsTyped DEF FoundSlot, CallTyped
  <2>5. FileTyped'
    <3>1. [j \in {i} |-> NewEntry][i] \in Entry
      BY <2>1
    <3> QED BY <1>2, <1>10, <1>12, <3>1, FilePut DEF FoundSlot
  <2> QED BY <1>8, <2>3, <2>4, <2>5 DEF TypeInv
<1> QED BY <1>1, <1>9, <1>11, <1>12 DEF m, e, hits, i, last

LEMMA ClusterTyped ==
  ASSUME TypeInv, ScanCluster
  PROVE  TypeInv'
<1>1. PICK ok \in BOOLEAN :
        LET next == NextCluster(io, call.chain, ok)
        IN  /\ io' = FetchFat(io, call.chain, ok)
            /\ Count(FetchFails(io, call.chain, ok))
            /\ \/ EndOfDirectory(next) /\ NotFound
               \/ /\ ~EndOfDirectory(next) /\ UNCHANGED kick
                  /\ call' = [call EXCEPT !.chain = next, !.index = 0,
                                          !.sector = ClusterLba(next)]
  BY DEF ScanCluster, Oks
<1> DEFINE next == NextCluster(io, call.chain, ok)
<1>2. /\ CardTyped /\ io \in IoType /\ CallTyped /\ FileTyped /\ RestTyped
      /\ call \in CallType /\ call.fn # "none" /\ call.h \in Names /\ call.name \in Names
  BY DEF TypeInv, ScanCluster, Running, CallTyped
<1>3. call.chain \in Int
  BY <1>2, ConstantTypes DEF CallType, Link
<1>4. io' \in IoType /\ next \in Link
  BY <1>1, <1>2, <1>3, FetchTyped
<1>5. ClusterLba(next) \in Int
  BY <1>4, ConstantTypes, Areas DEF ClusterLba, Link
<1>6. faults' \in Nat
  BY <1>1, <1>2, CountTyped DEF RestTyped
<1> HIDE DEF next
<1>7. CASE EndOfDirectory(next) /\ NotFound
  <2>1. CallTyped'
    BY <1>2, <1>7, CallsTyped DEF NotFound, CallTyped, CallType
  <2>2. kick' \in {"none", "softkick", "stock"}
    BY <1>2, <1>7 DEF NotFound, RestTyped
  <2> QED BY <1>2, <1>4, <1>6, <2>1, <2>2
          DEF ScanCluster, UnchangedRest, TypeInv, RestTyped, CardTyped, FileTyped
<1>8. CASE UNCHANGED kick
           /\ call' = [call EXCEPT !.chain = next, !.index = 0, !.sector = ClusterLba(next)]
  <2>1. CallTyped'
    BY <1>2, <1>4, <1>5, <1>8 DEF CallTyped, CallType
  <2> QED BY <1>2, <1>4, <1>6, <1>8, <2>1
          DEF ScanCluster, UnchangedRest, TypeInv, RestTyped, CardTyped, FileTyped
<1> QED BY <1>1, <1>7, <1>8 DEF next
LEMMA OpenTyped ==
  ASSUME TypeInv, NEW h \in Names, NEW n \in Names,
         FileOpen(h, n) \/ FileCreate(h, n)
  PROVE  TypeInv'
<1>1. CallTyped'
  BY BeginTyped DEF FileOpen, FileCreate, TypeInv
<1> QED BY <1>1
        DEF FileOpen, FileCreate, UnchangedRest, TypeInv, CardTyped, FileTyped, RestTyped

LEMMA AllocatesTyped ==
  ASSUME TypeInv, CreateAllocates
  PROVE  TypeInv'
<1>1. PICK bad \in Bads :
        LET c == Allocated(bad)
        IN  /\ Count(SearchFails(bad))
            /\ io' = AllocateCluster(io, 0, bad)
            /\ call' = IF c = 0 THEN NoCall
                       ELSE Rewound([call EXCEPT !.step = "slot", !.cluster = c])
  BY DEF CreateAllocates
<1>2. CardTyped /\ io \in IoType /\ CallTyped /\ faults \in Nat /\ 0 \in Link
  BY ConstantTypes DEF TypeInv, RestTyped, Link
<1>3. bad \in {None} \cup FatSectors
  BY DEF Bads
<1>4. io' \in IoType
  BY <1>1, <1>2, <1>3, AllocateTyped
<1> DEFINE c == [call EXCEPT !.step = "slot", !.cluster = Allocated(bad)]
<1>5. c \in CallType /\ c.fn = call.fn /\ c.h = call.h /\ c.name = call.name
  BY <1>2, AllocatedTyped DEF CallTyped, CallType
<1>6. call' = NoCall \/ call' = Rewound(c)
  BY <1>1
<1> HIDE DEF c
<1>7. CallTyped'
  BY <1>2, <1>5, <1>6, RewoundTyped, CallsTyped DEF CallTyped
<1> QED BY <1>1, <1>2, <1>4, <1>7, CountTyped
        DEF CreateAllocates, UnchangedRest, TypeInv, CardTyped, FileTyped, RestTyped

LEMMA ReleaseTyped ==
  ASSUME TypeInv, ReleaseStep
  PROVE  TypeInv'
<1>1. PICK ok \in BOOLEAN :
        LET c == call.cluster
            next == NextCluster(io, c, ok)
            rest == IF next = EOC THEN 0 ELSE next
        IN  /\ Count(FetchFails(io, c, ok))
            /\ io' = SetCluster(FetchFat(io, c, ok), c, 0, TRUE)
            /\ call' = IF rest # 0 THEN [call EXCEPT !.cluster = rest]
                       ELSE IF call.fn = "delete" THEN [call EXCEPT !.step = "unlink"]
                       ELSE NoCall
  BY DEF ReleaseStep, Oks
<1>2. CardTyped /\ io \in IoType /\ CallTyped /\ faults \in Nat /\ 0 \in Link /\ call \in CallType
  BY ConstantTypes DEF TypeInv, RestTyped, Link, CallTyped
<1>3. call.cluster \in Int
  BY <1>2, ConstantTypes DEF CallType, Link
<1>4. FetchFat(io, call.cluster, ok) \in IoType /\ NextCluster(io, call.cluster, ok) \in Link
  BY <1>2, <1>3, FetchTyped
<1>5. io' \in IoType
  BY <1>1, <1>2, <1>3, <1>4, SetTyped
<1> DEFINE rest == IF NextCluster(io, call.cluster, ok) = EOC THEN 0
                   ELSE NextCluster(io, call.cluster, ok)
<1>6. rest \in Link
  BY <1>2, <1>4
<1>7. \/ call' = [call EXCEPT !.cluster = rest] \/ call' = [call EXCEPT !.step = "unlink"]
      \/ call' = NoCall
  BY <1>1
<1> HIDE DEF rest
<1>8. call' \in CallType /\
          (call'.fn # "none" => call'.h = call.h /\ call'.name = call.name /\ call'.fn = call.fn)
  BY <1>2, <1>6, <1>7, CallsTyped DEF CallType
<1> QED BY <1>1, <1>2, <1>5, <1>8, CountTyped
        DEF ReleaseStep, UnchangedRest, TypeInv, CallTyped, CardTyped, FileTyped, RestTyped

LEMMA DeleteTyped ==
  ASSUME TypeInv, NEW h \in Names, FileDelete(h)
  PROVE  TypeInv'
<1> DEFINE f == file[h]
           c == [NoCall EXCEPT !.fn = "delete", !.h = h, !.name = f.name, !.cluster = f.first,
                   !.step = IF f.first = 0 THEN "unlink" ELSE "release"]
<1>1. NoCall \in CallType /\ f.name \in Names /\ f.first \in Link /\ f.size \in 0..MaxSectors
  BY CallsTyped DEF TypeInv, FileTyped, FileType, FileDelete
<1>2. c \in CallType /\ c.h = h /\ c.name = f.name
  BY <1>1 DEF CallType
<1>3. call' = c
  BY DEF FileDelete
<1> HIDE DEF c
<1>4. CallTyped'
  BY <1>1, <1>2, <1>3 DEF CallTyped
<1>5. kept' \in [Names -> -1..MaxSectors]
  <2>1. -1 \in -1..MaxSectors
    BY VolumesAssumption DEF VolumesAssumption
  <2> QED BY <2>1, KeptPut DEF FileDelete, TypeInv, RestTyped
<1> QED BY <1>4, <1>5
        DEF FileDelete, UnchangedRest, TypeInv, CardTyped, FileTyped, RestTyped

LEMMA UnlinksTyped ==
  ASSUME TypeInv, DeleteUnlinks
  PROVE  TypeInv'
<1>1. PICK ok \in BOOLEAN :
        /\ Count(~ok)
        /\ io' = EntryChanged(file[call.h], ok, Deleted(EntryRead(file[call.h], ok)))
  BY DEF DeleteUnlinks, Oks
<1>2. call \in CallType /\ call.h \in Names /\ call.name \in Names /\ faults \in Nat
  BY DEF TypeInv, CallTyped, RestTyped, DeleteUnlinks, Running
<1>3. EntryRead(file[call.h], ok) \in Entry
  BY <1>2, EntryTyped
<1>4. \A e \in Entry : Deleted(e) \in Entry
  <2>1. 0 \in Link /\ 0 \in 0..MaxSectors /\ "deleted" \in Free
    BY ConstantTypes, VolumesAssumption DEF Link, Free, VolumesAssumption
  <2> QED BY <2>1 DEF Deleted, Entry, Rests
<1>5. io' \in IoType
  BY <1>1, <1>2, <1>3, <1>4, EntryTyped
<1>6. CallTyped'
  BY <1>2 DEF DeleteUnlinks, CallTyped, CallType
<1> QED BY <1>1, <1>2, <1>5, <1>6, CountTyped
        DEF DeleteUnlinks, UnchangedRest, TypeInv, CardTyped, FileTyped, RestTyped

LEMMA CloseTyped ==
  ASSUME TypeInv, NEW h \in Names, FileClose(h)
  PROVE  TypeInv'
<1> DEFINE f == file[h]
<1>1. f \in FileType /\ f.name \in Names /\ faults \in Nat
  BY DEF TypeInv, FileTyped, FileClose, RestTyped
<1>2. CallTyped'
  BY <1>1, BeginTyped DEF FileClose, TypeInv
<1>3. CASE UNCHANGED <<io, file, faults>>
  BY <1>2, <1>3 DEF FileClose, UnchangedRest, TypeInv, CardTyped, FileTyped, RestTyped
<1>4. CASE \E ok \in BOOLEAN :
             /\ Count(~ok)
             /\ io' = EntryChanged(f, ok, [EntryRead(f, ok) EXCEPT !.size = f.size, !.rest = f.rest])
             /\ file' = [file EXCEPT ![h] = [f EXCEPT !.dirty = ~ok]]
  <2>1. PICK ok \in BOOLEAN :
          /\ Count(~ok)
          /\ io' = EntryChanged(f, ok, [EntryRead(f, ok) EXCEPT !.size = f.size, !.rest = f.rest])
          /\ file' = [file EXCEPT ![h] = [f EXCEPT !.dirty = ~ok]]
    BY <1>4
  <2>2. EntryRead(f, ok) \in Entry /\ f.size \in 0..MaxSectors /\ f.rest \in Rests
    BY <1>1, EntryTyped DEF FileType
  <2>3. \A e \in Entry, k \in 0..MaxSectors, r \in Rests :
          [e EXCEPT !.size = k, !.rest = r] \in Entry
    BY DEF Entry
  <2>4. io' \in IoType
    BY <2>1, <2>2, <2>3, EntryTyped
  <2>5. FileTyped'
    <3> DEFINE x == [f EXCEPT !.dirty = ~ok]
    <3>1. (~ok) \in BOOLEAN
      OBVIOUS
    <3>3. x \in FileType /\ x.name = f.name
      BY <1>1, <3>1 DEF FileType
    <3>2. file' = [file EXCEPT ![h] = x]
      BY <2>1 DEF TypeInv, FileTyped
    <3> HIDE DEF x
    <3> QED BY <1>1, <3>2, <3>3, FilePut DEF TypeInv
  <2> QED BY <1>1, <1>2, <2>1, <2>4, <2>5, CountTyped
          DEF FileClose, UnchangedRest, TypeInv, CardTyped, RestTyped
<1> QED BY <1>3, <1>4 DEF FileClose, Oks
LEMMA ReturnTyped ==
  ASSUME TypeInv, Return
  PROVE  TypeInv'
<1>1. call \in CallType /\ call.h \in Names /\ call.name \in Names /\ file[call.h] \in FileType
  BY DEF TypeInv, CallTyped, FileTyped, Return, Running
<1>2. NoFile.open = FALSE /\ NoFile \in FileType /\ NoCall \in CallType /\ NoCall.fn = "none"
  BY CallsTyped DEF NoFile, TypeInv
<1>3. FileTyped'
  BY <1>1, <1>2, FilePut DEF Return, TypeInv
<1>4. CallTyped'
  BY <1>2 DEF Return, CallTyped
<1>5. file[call.h].size \in -1..MaxSectors
  BY <1>1, VolumesAssumption DEF FileType, VolumesAssumption
<1>6. kept' \in [Names -> -1..MaxSectors]
  <2>1. kept' = kept \/ kept' = [kept EXCEPT ![call.name] = file[call.h].size]
    BY DEF Return
  <2> QED BY <1>5, <2>1, KeptPut DEF TypeInv, RestTyped
<1> QED BY <1>3, <1>4, <1>6 DEF Return, UnchangedRest, TypeInv, CardTyped, RestTyped

LEMMA WriteSectorTyped ==
  ASSUME TypeInv, NEW h \in Names, FileWriteSector(h)
  PROVE  TypeInv'
<1> DEFINE f == file[h]
           w == [lba |-> SectorLba(f), b |-> Token(f.name, f.sector), left |-> 0]
<1>1. f \in FileType /\ f.name \in Names
  BY DEF TypeInv, FileTyped, FileWriteSector
<1>2. f.sector \in 0..(MaxSectors - 1) /\ SectorLba(f) \in Int
  BY <1>1, SectorTyped, VolumesAssumption DEF FileType, FileWriteSector, VolumesAssumption
<1>3. w \in [lba : Int, b : Content, left : Nat]
  BY <1>1, <1>2, MadeTyped
<1>4. io' = [io EXCEPT !.cached = SectorLba(f), !.todo = <<w>>]
  BY DEF FileWriteSector
<1> HIDE DEF w
<1>5. <<w>> \in Seq([lba : Int, b : Content, left : Nat])
  BY <1>3
<1>6. io' \in IoType
  BY <1>2, <1>4, <1>5 DEF TypeInv, IoType
<1> DEFINE x == Lengthened(f)
<1>7. x \in FileType /\ x.name = f.name
  <2>1. CASE f.sector < f.size
    <3>1. x = [f EXCEPT !.rest = "past", !.dirty = TRUE] /\ "past" \in Rests
      BY <2>1 DEF Lengthened, Rests
    <3> QED BY <1>1, <3>1 DEF FileType
  <2>2. CASE ~(f.sector < f.size)
    <3>1. f.size + 1 \in 0..MaxSectors
      BY <1>1, <1>2, <2>2, VolumesAssumption DEF FileType, VolumesAssumption
    <3>2. x = [f EXCEPT !.size = f.size + 1, !.dirty = TRUE]
      BY <1>1, <2>2 DEF Lengthened, FileType
    <3> QED BY <1>1, <3>1, <3>2 DEF FileType
  <2> QED BY <2>1, <2>2
<1>8. file' = IF f.sector + 1 > Whole(f) THEN [file EXCEPT ![h] = x] ELSE file
  BY DEF FileWriteSector
<1>10. faults' \in Nat
  BY CountTyped DEF FileWriteSector, TypeInv, RestTyped
<1> HIDE DEF x
<1>9. FileTyped'
  BY <1>1, <1>7, <1>8, FilePut DEF TypeInv, FileTyped
<1> QED BY <1>6, <1>9, <1>10
        DEF FileWriteSector, UnchangedRest, TypeInv, CardTyped, CallTyped, RestTyped

LEMMA NextSectorTyped ==
  ASSUME TypeInv, NEW h \in Names, NEW append \in BOOLEAN, FileNextSector(h, append)
  PROVE  TypeInv'
<1>1. PICK ok \in BOOLEAN, bad \in {None} \cup FatSectors :
        /\ StepFaults(file[h], ok, bad)
        /\ io' = NextIo(io, file[h], append, ok, bad)
        /\ file' = [file EXCEPT ![h] = Stepped(io, file[h], append, ok, bad)]
  BY DEF FileNextSector, Oks, Bads
<1>2. io \in IoType /\ FileTyped /\ file[h].name \in Names
  BY DEF TypeInv, FileNextSector, FileTyped
<1>3. io' \in IoType
  BY <1>1, <1>2, NextTyped
<1>5. Stepped(io, file[h], append, ok, bad) \in FileType
      /\ Stepped(io, file[h], append, ok, bad).name = file[h].name
  BY <1>2, NextTyped
<1>6. FileTyped'
  BY <1>1, <1>2, <1>5, FilePut
<1>4. faults' \in Nat
  BY <1>1, CountTyped DEF StepFaults, TypeInv, RestTyped
<1> QED BY <1>3, <1>4, <1>6
        DEF FileNextSector, UnchangedRest, TypeInv, CardTyped, CallTyped, RestTyped

LEMMA ReadSectorTyped ==
  ASSUME TypeInv, NEW h \in Names, FileReadSector(h)
  PROVE  TypeInv'
<1>1. PICK ok \in BOOLEAN : Count(~ok) /\ io' = ReadSector(io, SectorLba(file[h]), ok)
  BY DEF FileReadSector, Oks
<1>2. SectorLba(file[h]) \in Int
  BY SectorTyped DEF TypeInv, FileTyped
<1>3. io' \in IoType
  BY <1>1, <1>2, ReadTyped DEF TypeInv
<1>4. faults' \in Nat
  BY <1>1, CountTyped DEF TypeInv, RestTyped
<1> QED BY <1>3, <1>4
        DEF FileReadSector, UnchangedRest, TypeInv, CardTyped, CallTyped, FileTyped, RestTyped

LEMMA LoadTyped ==
  ASSUME TypeInv, NEW n \in Names, LoadROM(n)
  PROVE  TypeInv'
<1>1. CallTyped'
  BY BeginTyped DEF LoadROM, TypeInv, CallTyped
<1>2. kick' \in {"none", "softkick", "stock"}
  BY DEF LoadROM, TypeInv, RestTyped
<1> QED BY <1>1, <1>2
        DEF LoadROM, UnchangedRest, TypeInv, CardTyped, FileTyped, RestTyped

LEMMA LoadSectorTyped ==
  ASSUME TypeInv, LoadSector
  PROVE  TypeInv'
<1> DEFINE f == file[call.h]
           m == [io EXCEPT !.cached = SectorLba(f)]
           more == Len(image) + 1 < Reach(f)
<1>1. /\ CardTyped /\ io \in IoType /\ FileTyped /\ CallTyped /\ RestTyped
      /\ call.h \in Names /\ f \in FileType /\ call \in CallType
  BY DEF TypeInv, CallTyped, FileTyped, LoadSector, Running
<1>2. m \in IoType
  BY <1>1, SectorTyped DEF IoType
<1>3. UNCHANGED <<card, mounted, torn, crashes, kept>>
  BY DEF LoadSector, UnchangedRest
<1>4. NoFile.open = FALSE /\ NoFile \in FileType
  BY <1>1, CallsTyped DEF NoFile
<1>5. ASSUME NEW result, Loaded(result)
      PROVE  kick' \in {"none", "softkick", "stock"} /\ CallTyped' /\ FileTyped'
  <2>1. FileTyped'
    BY <1>1, <1>4, <1>5, FilePut DEF Loaded
  <2> QED BY <1>1, <1>5, <2>1, CallsTyped DEF Loaded, CallTyped, CallType
<1> HIDE DEF m
<1>6. CASE Loaded(TRUE) /\ UNCHANGED <<io, image, faults>>
  BY <1>1, <1>3, <1>5, <1>6 DEF TypeInv, CardTyped, RestTyped
<1>7. CASE Count(TRUE) /\ io' = m /\ Loaded(FALSE) /\ UNCHANGED image
  BY <1>1, <1>2, <1>3, <1>5, <1>7, CountTyped DEF TypeInv, CardTyped, RestTyped
<1>8. ASSUME NEW ok \in BOOLEAN,
             image' = Append(image, OnCard(SectorLba(f))), Count(~ok),
             io' = IF more THEN NextIo(m, f, FALSE, ok, None) ELSE m,
             file' = IF more THEN [file EXCEPT ![call.h] = Stepped(m, f, FALSE, ok, None)]
                        ELSE file,
             UNCHANGED <<call, kick>>
      PROVE  TypeInv'
  <2>1. OnCard(SectorLba(f)) \in Content
    BY <1>1, OnCardTyped
  <2>2. image' \in Seq(Content)
    BY <1>1, <1>8, <2>1 DEF RestTyped
  <2>3. faults' \in Nat
    BY <1>1, <1>8, CountTyped DEF RestTyped
  <2>4. io' \in IoType
    BY <1>1, <1>2, <1>8, NextTyped
  <2>5. FileTyped'
    <3>1. /\ Stepped(m, f, FALSE, ok, None) \in FileType
          /\ Stepped(m, f, FALSE, ok, None).name = f.name
          /\ Stepped(m, f, FALSE, ok, None).open = f.open
      <4>1. None \in {None} \cup FatSectors
        OBVIOUS
      <4>2. Stepped(m, f, FALSE, ok, None) \in FileType
        BY <1>1, <1>2, <4>1, NextTyped
      <4>3. Stepped(m, f, FALSE, ok, None).name = f.name
        BY <1>1, <1>2, <4>1, NextTyped
      <4>4. Stepped(m, f, FALSE, ok, None).open = f.open
        BY <1>1, <1>2, <4>1, NextTyped
      <4> QED BY <4>2, <4>3, <4>4
    <3>2. Stepped(m, f, FALSE, ok, None).open => Stepped(m, f, FALSE, ok, None).name \in Names
      BY <1>1, <3>1 DEF FileTyped
    <3> QED BY <1>1, <1>8, <3>1, <3>2, FilePut DEF FileTyped
  <2> QED BY <1>1, <1>3, <1>8, <2>2, <2>3, <2>4, <2>5
          DEF TypeInv, CardTyped, CallTyped, RestTyped
<1>9. \/ Loaded(TRUE) /\ UNCHANGED <<io, image, faults>>
      \/ Count(TRUE) /\ io' = m /\ Loaded(FALSE) /\ UNCHANGED image
      \/ \E ok \in BOOLEAN :
             /\ image' = Append(image, OnCard(SectorLba(f))) /\ Count(~ok)
             /\ io' = IF more THEN NextIo(m, f, FALSE, ok, None) ELSE m
             /\ file' = IF more THEN [file EXCEPT ![call.h] = Stepped(m, f, FALSE, ok, None)]
                        ELSE file
             /\ UNCHANGED <<call, kick>>
  BY DEF LoadSector, Oks, m
<1> QED BY <1>6, <1>7, <1>8, <1>9

LEMMA HeadTail ==
  ASSUME NEW S, NEW s \in Seq(S), s # <<>>
  PROVE  /\ Head(s) \in S /\ Tail(s) \in Seq(S) /\ Len(Tail(s)) = Len(s) - 1 /\ Len(s) >= 1
         /\ Head(s) = s[1] /\ \A i \in 1..Len(Tail(s)) : Tail(s)[i] = s[i + 1]
OBVIOUS

LEMMA Remaining ==
  ASSUME NEW S, NEW s \in Seq(S), NEW n \in Nat \ {0}
  PROVE  SubSeq(s, n, Len(s)) \in Seq(S)
OBVIOUS

LEMMA LandTyped ==
  ASSUME TypeInv, Land
  PROVE  TypeInv'
<1> DEFINE w == Head(io.todo)
<1>1. io.todo \in Seq([lba : Int, b : Content, left : Nat]) /\ io.todo # <<>>
  BY DEF TypeInv, IoType, Land
<1>2. w \in [lba : Int, b : Content, left : Nat] /\ Tail(io.todo) \in Seq([lba : Int, b : Content, left : Nat])
  BY <1>1, HeadTail
<1>3. io' \in IoType
  <2>1. io.todo \in Seq([lba : Int, b : Content, left : Nat]) /\ w.left + 2 \in Nat \ {0}
    BY <1>1, <1>2
  <2>2. SubSeq(io.todo, w.left + 2, Len(io.todo)) \in Seq([lba : Int, b : Content, left : Nat])
    BY <2>1, Remaining
  <2> HIDE DEF w
  <2>3. io' = [io EXCEPT !.todo = Tail(io.todo)]
          \/ io' = [io EXCEPT !.todo = SubSeq(io.todo, w.left + 2, Len(io.todo))]
    BY DEF Land, w
  <2> QED BY <1>2, <2>2, <2>3 DEF TypeInv, IoType
<1>5. faults' \in Nat
  BY CountTyped DEF Land, TypeInv, RestTyped
<1>4. CardTyped'
  <2>1. w.b \in Content
    BY <1>2
  <2>2. card' = card \/ card' = [card EXCEPT ![w.lba] = w.b]
    BY DEF Land
  <2> HIDE DEF w
  <2> QED BY <2>1, <2>2 DEF TypeInv, CardTyped
<1> QED BY <1>3, <1>4, <1>5 DEF Land, TypeInv, CallTyped, FileTyped, RestTyped

LEMMA PowerTyped ==
  ASSUME TypeInv, PowerLoss
  PROVE  TypeInv'
<1>1. /\ NoCall \in CallType /\ NoCall.fn = "none" /\ NoFile \in FileType /\ Blank \in IoType
      /\ NoFile.open = FALSE
  BY CallsTyped DEF NoFile, TypeInv
<1>2. torn' \subseteq Names
  BY DEF PowerLoss, TypeInv, CallTyped, RestTyped
<1>3. CallTyped' /\ io' \in IoType /\ CardTyped'
  BY <1>1 DEF PowerLoss, TypeInv, CardTyped, CallTyped
<1>4. FileTyped'
  BY <1>1 DEF PowerLoss, FileTyped
<1>5. RestTyped'
  <2>1. <<>> \in Seq(Content) /\ crashes + 1 \in Nat
    BY DEF TypeInv, RestTyped
  <2> QED BY <1>2, <2>1 DEF PowerLoss, TypeInv, RestTyped
<1> QED BY <1>3, <1>4, <1>5 DEF TypeInv

LEMMA MountTyped ==
  ASSUME TypeInv, Mount
  PROVE  TypeInv'
<1>1. PICK ok1 \in Oks, ok2 \in Oks :
        LET m == ReadSector(io, 0, ok1)
            b == ReadSector(m, PART, ok2)
            alone == m.buf.kind = "boot" /\ m.buf.fs
            partition == m.buf.kind = "boot" /\ ~m.buf.fs /\ m.buf.sig
            boot == IF alone THEN m.buf ELSE b.buf
            found == /\ ok1 /\ (alone \/ (partition /\ ok2))
                     /\ boot.kind = "boot" /\ boot.fs /\ boot.sig /\ boot.ok
        IN  /\ io' = [io EXCEPT !.buf = IF partition THEN b.buf ELSE m.buf]
            /\ mounted' = found
            /\ faults' = faults + (IF ok1 THEN 0 ELSE 1)
                           + (IF ok1 /\ partition /\ ~ok2 THEN 1 ELSE 0)
            /\ faults' <= MaxFaults
  BY DEF Mount
<1>7. ok1 \in BOOLEAN /\ ok2 \in BOOLEAN
  BY DEF Oks
<1> DEFINE m == ReadSector(io, 0, ok1)
           b == ReadSector(m, PART, ok2)
           partition == m.buf.kind = "boot" /\ ~m.buf.fs /\ m.buf.sig
<1>2. m \in IoType /\ m.buf \in Content /\ b.buf \in Content
  <2>1. m \in IoType
    BY <1>7, ReadTyped DEF TypeInv
  <2>2. b \in IoType
    BY <1>7, <2>1, ReadTyped, ConstantTypes DEF TypeInv
  <2> QED BY <2>1, <2>2 DEF IoType
<1>6. mounted' \in BOOLEAN
  BY <1>1
<1> HIDE DEF m, b
<1>3. io' = [io EXCEPT !.buf = IF partition THEN b.buf ELSE m.buf]
  BY <1>1 DEF m, b
<1>4. io' \in IoType
  BY <1>2, <1>3 DEF TypeInv, IoType
<1>5. faults' \in Nat
  BY <1>1 DEF TypeInv, RestTyped
<1> QED BY <1>3, <1>4, <1>5, <1>6 DEF Mount, TypeInv, CardTyped, CallTyped, FileTyped, RestTyped
LEMMA RenameTyped ==
  ASSUME TypeInv, NEW h \in Names, NEW n \in Names, SetFilename(h, n)
  PROVE  TypeInv'
<1>1. PICK ok \in BOOLEAN :
        /\ Count(~ok)
        /\ io' = EntryChanged(file[h], ok, [EntryRead(file[h], ok) EXCEPT !.name = n])
        /\ file' = IF ok THEN [file EXCEPT ![h] = [file[h] EXCEPT !.name = n]] ELSE file
  BY DEF SetFilename, Oks
<1>2. file[h] \in FileType /\ FileTyped
  BY DEF TypeInv, FileTyped
<1>3. EntryRead(file[h], ok) \in Entry
  BY EntryTyped
<1>4. \A e \in Entry : [e EXCEPT !.name = n] \in Entry
  BY DEF Entry
<1>5. io' \in IoType
  BY <1>1, <1>3, <1>4, EntryTyped
<1>6. faults' \in Nat
  BY <1>1, CountTyped DEF TypeInv, RestTyped
<1> DEFINE x == [file[h] EXCEPT !.name = n]
<1>7. x \in FileType /\ x.name = n
  BY <1>2 DEF FileType
<1>8. file' = file \/ file' = [file EXCEPT ![h] = x]
  BY <1>1
<1> HIDE DEF x
<1>9. FileTyped'
  <2>1. CASE file' = file
    BY <1>2, <2>1 DEF FileTyped
  <2>2. CASE file' = [file EXCEPT ![h] = x]
    BY <1>2, <1>7, <2>2, FilePut
  <2> QED BY <1>8, <2>1, <2>2
<1> QED BY <1>5, <1>6, <1>9
        DEF SetFilename, UnchangedRest, TypeInv, CardTyped, CallTyped, RestTyped

LEMMA FormattedTyped ==
  ASSUME NEW v \in Volumes
  PROVE  Formatted(v) /\ \A s \in Lba : v[s] \in Content
<1>1. Formatted(v)
  BY VolumesAssumption DEF VolumesAssumption, SoundVolume
<1>2. ASSUME NEW s \in Lba
      PROVE  v[s] \in Content
  <2>1. v[s].kind \notin {"fat", "dir"} => v[s] \in Foreign
    BY DEF Foreign
  <2> QED BY <1>1, <2>1 DEF Formatted, Content
<1> QED BY <1>1, <1>2

LEMMA InitTyped ==
  ASSUME Init
  PROVE  TypeInv
<1>1. Formatted(card) /\ CardTyped
  BY FormattedTyped DEF Init, CardTyped, Formatted
<1>2. CallTyped
  <2>1. 0 \in Link
    BY ConstantTypes DEF Link
  <2> QED BY <2>1 DEF Init, CallTyped, NoCall, CallType
<1>3. /\ NoFile \in FileType /\ NoFile.open = FALSE /\ Blank \in IoType
  BY <1>2, CallsTyped DEF NoFile
<1>4. FileTyped
  BY <1>3 DEF Init, FileTyped
<1>5. ASSUME NEW n \in Names
      PROVE  kept[n] \in -1..MaxSectors
  <2> DEFINE entries == {e \in UNION {{card[s].v[i] : i \in 0..(DPS - 1)} :
                                 s \in {t \in Lba : card[t].kind = "dir"}} :
                           e.name = n /\ e.attr \notin {"lfn", "volume"}}
  <2>1. \A e \in entries : e \in Entry
    <3>1. ASSUME NEW e \in entries
          PROVE  e \in Entry
      <4>1. PICK s \in Lba, i \in 0..(DPS - 1) : card[s].kind = "dir" /\ e = card[s].v[i]
        OBVIOUS
      <4>2. card[s] \in DirContent
        BY <1>1, <4>1 DEF Formatted
      <4> QED BY <4>1, <4>2 DEF DirContent
    <3> QED BY <3>1
  <2>2. \A e \in entries : e.size \in 0..MaxSectors
    BY <2>1 DEF Entry
  <2>3. kept[n] = IF entries = {} THEN -1 ELSE (CHOOSE e \in entries : TRUE).size
    BY DEF Init
  <2> HIDE DEF entries
  <2>4. entries # {} => (CHOOSE e \in entries : TRUE) \in entries
    OBVIOUS
  <2>5. MaxSectors \in Nat
    BY VolumesAssumption DEF VolumesAssumption
  <2>6. CASE entries = {}
    BY <2>3, <2>5, <2>6
  <2>7. CASE entries # {}
    BY <2>2, <2>3, <2>4, <2>5, <2>7
  <2> QED BY <2>6, <2>7
<1>6. kept \in [Names -> -1..MaxSectors]
  BY <1>5 DEF Init
<1>7. <<>> \in Seq(Content)
  OBVIOUS
<1> QED BY <1>1, <1>2, <1>3, <1>4, <1>6, <1>7 DEF Init, TypeInv, RestTyped

LEMMA TypeKept ==
  ASSUME TypeInv, [Next]_vars
  PROVE  TypeInv'
<1>1. CASE UNCHANGED vars
  BY <1>1 DEF vars, TypeInv, CardTyped, CallTyped, FileTyped, RestTyped
<1>2. CASE Internal
  BY <1>2, ScanTyped, ClusterTyped, AllocatesTyped, ReleaseTyped, UnlinksTyped, ReturnTyped,
     LoadSectorTyped, LandTyped DEF Internal
<1>3. CASE Calls
  BY <1>3, CloseTyped, DeleteTyped, WriteSectorTyped, ReadSectorTyped, NextSectorTyped,
     OpenTyped, RenameTyped DEF Calls
<1> QED BY <1>1, <1>2, <1>3, MountTyped, LoadTyped, PowerTyped DEF Next
-----------------------------------------------------------------------------
(* Volumes: what a sector written does to them.                            *)

LEMMA FatTyped ==
  ASSUME NEW v, Formatted(v), NEW s \in FatArea
  PROVE  v[s] \in FatContent /\ v[s].v \in [0..(EPS - 1) -> Link] /\ v[s].kind = "fat"
         /\ AsFat(v[s]) = v[s].v
<1>1. v[s] \in FatContent /\ v[s].kind = "fat"
  BY Areas DEF Formatted
<1> QED BY <1>1 DEF FatContent, AsFat

LEMMA LinkOf ==
  ASSUME NEW v, Formatted(v), NEW c \in Links
  PROVE  LinksOf(v)[c] = v[FatSector(c)].v[FatIndex(c)] /\ LinksOf(v)[c] \in Link
BY FatTyped, LinkPlace, Areas DEF LinksOf

LEMMA VolumeTypes ==
  ASSUME NEW v, Formatted(v)
  PROVE  LinksOf(v) \in [Links -> Link] /\ PlainOf(v) = [s \in Lba \ FatArea |-> v[s]]
         /\ DOMAIN v = Lba /\ PlainOf(v) = [s \in Lba \ FatArea |-> PlainOf(v)[s]]
<1>1. LinksOf(v) = [c \in Links |-> LinksOf(v)[c]]
  BY DEF LinksOf
<1>2. DOMAIN v = Lba
  BY DEF Formatted
<1> QED BY <1>1, <1>2, LinkOf DEF PlainOf

(* The first k copies of the FAT have b in place of sector s.              *)
Copied(v, s, b, k) ==
  [t \in Lba |-> IF \E j \in 0..(k - 1) : t = s + j * fat_size THEN b ELSE v[t]]

LEMMA CopyPlace ==
  ASSUME NEW s \in FatSectors, NEW j \in 0..(fat_number - 1)
  PROVE  s + j * fat_size \in FatArea /\ (s + j * fat_size \in FatSectors => j = 0)
         /\ j * fat_size \in Nat
<1>1. \A n, f, k \in Nat : k + 1 <= n => k * f \in Nat /\ k * f + f <= n * f /\ (k > 0 => k * f >= f)
  BY Z3
<1>2. j \in Nat /\ j + 1 <= fat_number
  BY ConstantTypes
<1>3. j * fat_size \in Nat /\ j * fat_size + fat_size <= fat_number * fat_size
      /\ (j > 0 => j * fat_size >= fat_size)
  BY <1>1, <1>2, ConstantTypes
<1> QED BY <1>2, <1>3, ConstantTypes, Products, Areas DEF FatSectors, FatArea

LEMMA CopiesApart ==
  ASSUME NEW s \in FatSectors, NEW t \in FatSectors,
         NEW i \in 0..(fat_number - 1), NEW j \in 0..(fat_number - 1),
         s + i * fat_size = t + j * fat_size
  PROVE  s = t /\ i = j
<1>1. \A f, x, y \in Nat : x < y => x * f \in Nat /\ y * f \in Nat /\ x * f + f <= y * f
  BY Z3
<1>2. i \in Nat /\ j \in Nat /\ i * fat_size \in Nat /\ j * fat_size \in Nat
  BY ConstantTypes, CopyPlace
<1>3. s \in Nat /\ t \in Nat /\ s < t + fat_size /\ t < s + fat_size
  BY ConstantTypes, Areas DEF FatSectors
<1>4. ~(i < j)
  BY <1>1, <1>2, <1>3, ConstantTypes
<1>5. ~(j < i)
  BY <1>1, <1>2, <1>3, ConstantTypes
<1>6. i = j
  BY <1>2, <1>4, <1>5
<1> QED BY <1>2, <1>3, <1>6

LEMMA CopiedFirst ==
  ASSUME NEW v, Formatted(v), NEW s, NEW b
  PROVE  Copied(v, s, b, 0) = v
BY DEF Copied, Formatted

LEMMA CopiedNext ==
  ASSUME NEW v, NEW s \in FatSectors, NEW b, NEW k \in 0..(fat_number - 1)
  PROVE  Copied(v, s, b, k + 1) = [Copied(v, s, b, k) EXCEPT ![s + k * fat_size] = b]
<1> DEFINE A == Copied(v, s, b, k + 1)
           B == Copied(v, s, b, k)
<1>1. k \in Nat
  BY ConstantTypes
<1>2. \A j : j \in 0..(k + 1 - 1) <=> j \in 0..(k - 1) \/ j = k
  BY <1>1
<1>3. A = [t \in Lba |-> IF t = s + k * fat_size THEN b ELSE B[t]]
  BY <1>2 DEF Copied
<1>4. B = [t \in Lba |-> B[t]]
  BY DEF Copied
<1> HIDE DEF A, B
<1> QED BY <1>3, <1>4 DEF A, B

LEMMA CopiedAt ==
  ASSUME NEW v, Formatted(v), NEW c \in Links, NEW t \in Link, NEW b,
         b = [kind |-> "fat", v |-> [v[FatSector(c)].v EXCEPT ![FatIndex(c)] = t]],
         NEW k \in 1..fat_number
  PROVE  LET w == Copied(v, FatSector(c), b, k) IN
         /\ Formatted(w) /\ LinksOf(w) = [LinksOf(v) EXCEPT ![c] = t] /\ PlainOf(w) = PlainOf(v)
         /\ w[FatSector(c)] = b /\ \A s \in FatSectors : s # FatSector(c) => w[s] = v[s]
<1> DEFINE f == FatSector(c)
           w == Copied(v, f, b, k)
<1>1. f \in FatSectors /\ FatIndex(c) \in 0..(EPS - 1) /\ FatSectors \subseteq FatArea
  BY LinkPlace, Areas
<1>2. k \in Nat /\ k >= 1 /\ k <= fat_number
  BY ConstantTypes
<1>3. b \in FatContent /\ b.kind = "fat"
  BY <1>1, FatTyped DEF FatContent
<1>4. \A j \in 0..(k - 1) : j \in 0..(fat_number - 1)
  BY <1>2, ConstantTypes
<1>5. ASSUME NEW s \in Lba
      PROVE  /\ w[s] = v[s] \/ (w[s] = b /\ s \in FatArea)
             /\ s \notin FatArea => w[s] = v[s]
             /\ s \in FatSectors => w[s] = IF s = f THEN b ELSE v[s]
  <2>1. w[s] = IF \E j \in 0..(k - 1) : s = f + j * fat_size THEN b ELSE v[s]
    BY DEF Copied
  <2>2. (\E j \in 0..(k - 1) : s = f + j * fat_size) => s \in FatArea
    BY <1>1, <1>4, CopyPlace
  <2>3. s \in FatSectors => ((\E j \in 0..(k - 1) : s = f + j * fat_size) <=> s = f)
    <3>1. 0 \in 0..(k - 1) /\ f + 0 * fat_size = f
      <4>1. \A e \in FatSectors : e + 0 * fat_size = e
        BY ConstantTypes, Areas
      <4> QED BY <1>1, <1>2, <4>1
    <3>2. ASSUME s \in FatSectors, NEW j \in 0..(k - 1), s = f + j * fat_size
          PROVE  s = f
      BY <1>1, <1>4, <3>1, <3>2, CopyPlace
    <3> QED BY <3>1, <3>2
  <2> QED BY <2>1, <2>2, <2>3
<1>6. w = [s \in Lba |-> w[s]]
  BY DEF Copied
<1> HIDE DEF w
<1>7. Formatted(w)
  <2>1. ASSUME NEW s \in Lba
        PROVE  /\ w[s].kind = "fat" => w[s] \in FatContent
               /\ w[s].kind = "dir" =>
                    /\ w[s] \in DirContent
                    /\ \A i \in 0..(DPS - 1) :
                         w[s].v[i].attr = "directory" => w[s].v[i].name \notin Names
    <3>1. CASE w[s] = b
      BY <1>3, <3>1
    <3>2. CASE w[s] = v[s]
      BY <3>2 DEF Formatted
    <3> QED BY <1>5, <3>1, <3>2
  <2>2. ASSUME NEW s \in FatArea
        PROVE  w[s].kind = "fat"
    <3>1. w[s] = v[s] \/ w[s] = b
      BY <1>5, Areas
    <3>2. v[s].kind = "fat"
      BY FatTyped
    <3> QED BY <1>3, <3>1, <3>2
  <2> QED BY <1>6, <2>1, <2>2 DEF Formatted
<1>8. \A d \in Links : LinksOf(w)[d] = IF d = c THEN t ELSE LinksOf(v)[d]
  <2> SUFFICES ASSUME NEW d \in Links PROVE LinksOf(w)[d] = IF d = c THEN t ELSE LinksOf(v)[d]
    OBVIOUS
  <2>1. FatSector(d) \in FatSectors /\ FatIndex(d) \in 0..(EPS - 1)
    BY LinkPlace
  <2>2. LinksOf(w)[d] = w[FatSector(d)].v[FatIndex(d)] /\ LinksOf(v)[d] = v[FatSector(d)].v[FatIndex(d)]
    BY DEF LinksOf
  <2>3. v[f].v \in [0..(EPS - 1) -> Link]
    BY <1>1, FatTyped
  <2>4. w[FatSector(d)] = IF FatSector(d) = f THEN b ELSE v[FatSector(d)]
    BY <1>5, <2>1, Areas
  <2>5. CASE FatSector(d) # f
    BY <2>2, <2>4, <2>5
  <2>6. CASE FatSector(d) = f
    <3>1. LinksOf(w)[d] = IF FatIndex(d) = FatIndex(c) THEN t ELSE v[f].v[FatIndex(d)]
      <4>1. b.v = [v[f].v EXCEPT ![FatIndex(c)] = t]
        OBVIOUS
      <4> HIDE DEF f
      <4> QED BY <2>1, <2>2, <2>3, <2>4, <2>6, <4>1
    <3>2. FatIndex(d) = FatIndex(c) <=> d = c
      BY <2>6, LinksApart
    <3> QED BY <2>2, <2>6, <3>1, <3>2
  <2> QED BY <2>5, <2>6
<1>9. LinksOf(w) = [LinksOf(v) EXCEPT ![c] = t]
  <2>1. LinksOf(w) = [d \in Links |-> LinksOf(w)[d]] /\ LinksOf(v) = [d \in Links |-> LinksOf(v)[d]]
    BY DEF LinksOf
  <2> HIDE DEF f
  <2> QED BY <1>8, <2>1
<1>10. PlainOf(w) = PlainOf(v)
  BY <1>5 DEF PlainOf
<1>11. w[f] = b /\ \A s \in FatSectors : s # f => w[s] = v[s]
  BY <1>1, <1>5, Areas
<1> QED BY <1>7, <1>9, <1>10, <1>11 DEF w

LEMMA CopiedMirrors ==
  ASSUME NEW v, Formatted(v), Mirrored(v), NEW f \in FatSectors, NEW b
  PROVE  Mirrored(Copied(v, f, b, fat_number))
<1> DEFINE w == Copied(v, f, b, fat_number)
<1>1. ASSUME NEW s \in FatSectors, NEW i \in 0..(fat_number - 1)
      PROVE  w[s + i * fat_size] = IF s = f THEN b ELSE v[s + i * fat_size]
  <2>1. s + i * fat_size \in Lba
    BY CopyPlace, Areas
  <2>2. w[s + i * fat_size] =
          IF \E j \in 0..(fat_number - 1) : s + i * fat_size = f + j * fat_size THEN b
          ELSE v[s + i * fat_size]
    BY <2>1 DEF Copied
  <2>3. (\E j \in 0..(fat_number - 1) : s + i * fat_size = f + j * fat_size) <=> s = f
    BY CopiesApart
  <2> QED BY <2>2, <2>3
<1>2. 0 \in 0..(fat_number - 1) /\ \A s \in FatSectors : s + 0 * fat_size = s
  BY ConstantTypes, Areas
<1> HIDE DEF w
<1>3. \A s \in FatSectors, i \in 0..(fat_number - 1) : w[s + i * fat_size] = w[s]
  BY <1>1, <1>2 DEF Mirrored
<1> QED BY <1>3 DEF Mirrored, w
Writes == Seq([lba : Int, b : Content, left : Nat])

(* Sectors on their way, one after the other.                              *)
LEMMA TraceNil ==
  ASSUME NEW v
  PROVE  Trace(v, <<>>, [i \in 1..1 |-> v])
BY DEF Trace

Splice(ws1, ws2, vs1, vs2) ==
  [i \in 1..(Len(ws1) + Len(ws2) + 1) |->
     IF i <= Len(ws1) + 1 THEN vs1[i] ELSE vs2[i - Len(ws1)]]

LEMMA TraceConcat ==
  ASSUME NEW v, NEW ws1 \in Writes, NEW ws2 \in Writes,
         NEW vs1, NEW vs2, Trace(v, ws1, vs1), Trace(End(ws1, vs1), ws2, vs2)
  PROVE  /\ Trace(v, ws1 \o ws2, Splice(ws1, ws2, vs1, vs2))
         /\ Len(ws1 \o ws2) = Len(ws1) + Len(ws2)
         /\ End(ws1 \o ws2, Splice(ws1, ws2, vs1, vs2)) = End(ws2, vs2)
<1> DEFINE vs == Splice(ws1, ws2, vs1, vs2)
<1>a. /\ DOMAIN vs = 1..(Len(ws1) + Len(ws2) + 1)
      /\ \A i \in DOMAIN vs : vs[i] = IF i <= Len(ws1) + 1 THEN vs1[i] ELSE vs2[i - Len(ws1)]
  BY DEF Splice
<1> HIDE DEF vs
<1> DEFINE n == Len(ws1)
           k == Len(ws2)
           ws == ws1 \o ws2
<1>1. n \in Nat /\ k \in Nat /\ Len(ws) = n + k
  BY DEF Writes
<1>2. \A i \in 1..n : ws[i] = ws1[i]
  BY DEF Writes
<1>3. \A i \in 1..k : ws[n + i] = ws2[i]
  BY DEF Writes
<1>4. vs2[1] = vs1[n + 1] /\ vs1[1] = v
  BY DEF Trace, End
<1>5. \A i \in 1..(n + k + 1) : vs[i] = IF i <= n + 1 THEN vs1[i] ELSE vs2[i - n]
  BY <1>a
<1>6. \A i \in 1..(k + 1) : vs[n + i] = vs2[i]
  <2> SUFFICES ASSUME NEW i \in 1..(k + 1) PROVE vs[n + i] = vs2[i]
    OBVIOUS
  <2>1. n + i \in 1..(n + k + 1) /\ (n + i) - n = i /\ (n + i <= n + 1 => i = 1)
    BY <1>1
  <2> HIDE DEF n, k
  <2> QED BY <1>4, <1>5, <2>1
<1> HIDE DEF n, k, ws
<1>7. ASSUME NEW i \in 1..(n + k)
      PROVE  ws[i].lba \in Lba /\ vs[i + 1] = [vs[i] EXCEPT ![ws[i].lba] = ws[i].b]
  <2>1. CASE i \in 1..n
    <3>1. vs[i] = vs1[i] /\ vs[i + 1] = vs1[i + 1]
      BY <1>1, <1>5, <2>1
    <3> QED BY <1>2, <2>1, <3>1 DEF Trace, n
  <2>2. CASE i \notin 1..n
    <3> DEFINE j == i - n
    <3>1. j \in 1..k /\ i = n + j /\ i + 1 = n + (j + 1) /\ j + 1 \in 1..(k + 1) /\ j \in 1..(k + 1)
      BY <1>1, <2>2
    <3> HIDE DEF j
    <3>2. vs[i] = vs2[j] /\ vs[i + 1] = vs2[j + 1] /\ ws[i] = ws2[j]
      BY <1>3, <1>6, <3>1
    <3>3. ws2[j].lba \in Lba /\ vs2[j + 1] = [vs2[j] EXCEPT ![ws2[j].lba] = ws2[j].b]
      BY <3>1 DEF Trace, k
    <3> QED BY <3>2, <3>3
  <2> QED BY <2>1, <2>2
<1>8. vs[1] = v
  BY <1>1, <1>4, <1>5
<1>9. DOMAIN vs = 1..(n + k + 1)
  BY <1>a DEF n, k
<1>10. vs[n + k + 1] = vs2[k + 1]
  <2>1. k + 1 \in 1..(k + 1) /\ n + (k + 1) = n + k + 1
    BY <1>1
  <2> QED BY <1>6, <2>1
<1>11. Trace(v, ws, vs)
  BY <1>1, <1>7, <1>8, <1>9 DEF Trace
<1> QED BY <1>1, <1>10, <1>11 DEF n, k, ws, vs, End

LEMMA CopiesTrace ==
  ASSUME NEW v, Formatted(v), NEW f \in FatSectors, NEW b
  PROVE  Trace(v, [i \in 1..fat_number |-> [lba |-> f + (i - 1) * fat_size, b |-> b,
                                            left |-> fat_number - i]],
               [i \in 1..(fat_number + 1) |-> Copied(v, f, b, i - 1)])
<1> DEFINE ws == [i \in 1..fat_number |-> [lba |-> f + (i - 1) * fat_size, b |-> b,
                                           left |-> fat_number - i]]
           vs == [i \in 1..(fat_number + 1) |-> Copied(v, f, b, i - 1)]
<1>1. Len(ws) = fat_number /\ fat_number \in Nat
  BY ConstantTypes
<1>2. vs[1] = v
  BY <1>1, CopiedFirst
<1>3. ASSUME NEW i \in 1..fat_number
      PROVE  ws[i].lba \in Lba /\ vs[i + 1] = [vs[i] EXCEPT ![ws[i].lba] = ws[i].b]
  <2> DEFINE j == i - 1
  <2>1. j \in 0..(fat_number - 1) /\ i \in 1..(fat_number + 1) /\ i + 1 \in 1..(fat_number + 1)
        /\ (i + 1) - 1 = j + 1
    BY <1>1
  <2>2. vs[i] = Copied(v, f, b, j) /\ vs[i + 1] = Copied(v, f, b, j + 1)
    BY <2>1
  <2>3. ws[i].lba = f + j * fat_size /\ ws[i].b = b
    OBVIOUS
  <2> HIDE DEF j, vs, ws
  <2>4. f + j * fat_size \in Lba
    BY <2>1, CopyPlace, Areas
  <2> QED BY <2>1, <2>2, <2>3, <2>4, CopiedNext
<1>4. DOMAIN vs = 1..(fat_number + 1)
  OBVIOUS
<1> HIDE DEF vs, ws
<1> QED BY <1>1, <1>2, <1>3, <1>4 DEF Trace, vs, ws

FatStep(u, w, c, t) ==
  Formatted(w) /\ LinksOf(w) = [LinksOf(u) EXCEPT ![c] = t] /\ PlainOf(w) = PlainOf(u)

SetDone(n, v, vs, u, c, t) ==
  /\ n \in IoType /\ n.cached = FatSector(c)
  /\ \E vs2 :
       /\ Trace(v, n.todo, vs2)
       /\ \A i \in DOMAIN vs2 :
            (i \in DOMAIN vs /\ vs2[i] = vs[i]) \/ FatStep(u, vs2[i], c, t)
       /\ LET w == End(n.todo, vs2) IN
          /\ FatStep(u, w, c, t) /\ n.buf = w[FatSector(c)]
          /\ \A s \in FatSectors : s # FatSector(c) => w[s] = u[s]
          /\ Mirrored(u) => Mirrored(w)

LEMMA SetTrace ==
  ASSUME NEW m \in IoType, NEW v, NEW vs, Trace(v, m.todo, vs), NEW u, u = End(m.todo, vs),
         Formatted(u), NEW c \in Links, NEW t \in Link, NEW ok \in BOOLEAN,
         ~FetchFails(m, c, ok), FetchFat(m, c, ok).buf = u[FatSector(c)], CardTyped
  PROVE  SetDone(SetCluster(m, c, t, ok), v, vs, u, c, t)
<1> DEFINE f == FetchFat(m, c, ok)
           b == [kind |-> "fat", v |-> [AsFat(f.buf) EXCEPT ![FatIndex(c)] = t]]
           copies == [i \in 1..fat_number |-> [lba |-> FatSector(c) + (i - 1) * fat_size, b |-> b,
                                                left |-> fat_number - i]]
           n == SetCluster(m, c, t, ok)
           vc == [i \in 1..(fat_number + 1) |-> Copied(u, FatSector(c), b, i - 1)]
           N == Len(m.todo)
           vs2 == Splice(m.todo, copies, vs, vc)
<1>1. c \in Int /\ FatSector(c) \in FatSectors /\ FatSector(c) \in FatArea /\ FatSector(c) \in Int
      /\ fat_number \in Nat /\ fat_number >= 1
  <2>1. c \in Int
    BY ConstantTypes, Products DEF Links
  <2>2. FatSector(c) \in FatSectors
    BY LinkPlace
  <2>3. \A s \in FatSectors : s \in FatArea /\ s \in Nat
    BY Areas
  <2>4. fat_number \in Nat /\ fat_number >= 1
    BY ConstantTypes
  <2> QED BY <2>1, <2>2, <2>3, <2>4
<1>2. f \in IoType /\ f.todo = m.todo
  BY <1>1, FetchTyped
<1>3. f.cached = FatSector(c)
  <2>1. ReadSector(m, FatSector(c), ok).cached = FatSector(c)
    BY <1>1, ReadTyped
  <2> QED BY <2>1 DEF FetchFat
<1>4. AsFat(f.buf) = u[FatSector(c)].v
  BY <1>1, FatTyped
<1>5. b = [kind |-> "fat", v |-> [u[FatSector(c)].v EXCEPT ![FatIndex(c)] = t]]
  BY <1>4
<1>6. n = [f EXCEPT !.buf = b, !.todo = @ \o copies]
  BY DEF SetCluster
<1>7. n \in IoType
  BY <1>1, SetTyped
<1>8. b \in Content /\ copies \in Seq([lba : Int, b : Content, left : Nat]) /\ Len(copies) = fat_number
  <2>1. u[FatSector(c)].v \in [0..(EPS - 1) -> Link]
    BY <1>1, FatTyped
  <2>2. b \in Content
    BY <1>5, <2>1, MadeTyped
  <2> HIDE DEF b
  <2> QED BY <1>1, <2>2, CopiesTyped
<1>9. n.cached = FatSector(c) /\ n.buf = b /\ n.todo = m.todo \o copies
  <2> HIDE DEF f, b, copies, n
  <2> QED BY <1>2, <1>3, <1>6 DEF IoType
<1>10. Trace(u, copies, vc)
  <2> HIDE DEF b
  <2> QED BY <1>1, CopiesTrace
<1>11. m.todo \in Seq([lba : Int, b : Content, left : Nat]) /\ N \in Nat
  BY DEF IoType
<1>12. /\ Trace(v, n.todo, vs2) /\ Len(n.todo) = N + fat_number
       /\ End(n.todo, vs2) = vc[fat_number + 1]
  <2>1. Trace(End(m.todo, vs), copies, vc)
    BY <1>10
  <2> HIDE DEF f, b, copies, n, vc, vs2
  <2>b. m.todo \in Writes /\ copies \in Writes
    BY <1>8, <1>11 DEF Writes
  <2>2. /\ Trace(v, m.todo \o copies, vs2) /\ Len(m.todo \o copies) = N + Len(copies)
        /\ End(m.todo \o copies, vs2) = End(copies, vc)
    BY <2>b, <2>1, TraceConcat DEF vs2
  <2> QED BY <1>8, <1>9, <2>2 DEF End
<1>13. \A k \in 1..fat_number : FatStep(u, vc[k + 1], c, t)
  <2> SUFFICES ASSUME NEW k \in 1..fat_number PROVE FatStep(u, vc[k + 1], c, t)
    OBVIOUS
  <2>1. vc[k + 1] = Copied(u, FatSector(c), b, k)
    <3>1. k + 1 \in 1..(fat_number + 1) /\ (k + 1) - 1 = k
      BY <1>1
    <3> HIDE DEF b
    <3> QED BY <3>1
  <2> HIDE DEF vc, b
  <2> QED BY <1>5, <2>1, CopiedAt DEF FatStep
<1>14. vc[fat_number + 1] = Copied(u, FatSector(c), b, fat_number)
  <2>1. fat_number + 1 \in 1..(fat_number + 1) /\ (fat_number + 1) - 1 = fat_number
    BY <1>1
  <2> HIDE DEF b
  <2> QED BY <2>1
<1>15. DOMAIN vs2 = 1..(N + fat_number + 1) /\ DOMAIN vs = 1..(N + 1)
       /\ \A i \in DOMAIN vs2 : vs2[i] = IF i <= N + 1 THEN vs[i] ELSE vc[i - N]
  <2> HIDE DEF f, b, copies, n, vc
  <2> QED BY <1>8 DEF Trace, Splice
<1>16. ASSUME NEW i \in DOMAIN vs2
       PROVE  (i \in DOMAIN vs /\ vs2[i] = vs[i]) \/ FatStep(u, vs2[i], c, t)
  <2>1. vs2[i] = IF i <= N + 1 THEN vs[i] ELSE vc[i - N]
    BY <1>15
  <2> HIDE DEF vs2, vc, N
  <2>2. CASE i <= N + 1
    BY <1>11, <1>15, <2>1, <2>2
  <2>3. CASE ~(i <= N + 1)
    <3>1. i - N - 1 \in 1..fat_number /\ (i - N - 1) + 1 = i - N
      BY <1>1, <1>11, <1>15, <2>3
    <3> QED BY <1>13, <2>1, <2>3, <3>1
  <2> QED BY <2>2, <2>3
<1>17. LET w == End(n.todo, vs2) IN
         /\ FatStep(u, w, c, t) /\ n.buf = w[FatSector(c)]
         /\ \A s \in FatSectors : s # FatSector(c) => w[s] = u[s]
         /\ Mirrored(u) => Mirrored(w)
  <2>1. fat_number \in 1..fat_number
    BY <1>1
  <2> HIDE DEF vs2, vc, b, n
  <2>2. FatStep(u, vc[fat_number + 1], c, t)
    BY <1>13, <2>1
  <2> DEFINE w == Copied(u, FatSector(c), b, fat_number)
  <2>3. End(n.todo, vs2) = w
    BY <1>12, <1>14
  <2>4. w[FatSector(c)] = b /\ \A s \in FatSectors : s # FatSector(c) => w[s] = u[s]
    BY <1>5, <2>1, CopiedAt
  <2>5. Mirrored(u) => Mirrored(w)
    BY <1>1, CopiedMirrors
  <2> HIDE DEF w
  <2> QED BY <1>9, <1>12, <2>2, <2>3, <2>4, <2>5
<1> HIDE DEF vs2, n, f, b, copies, vc
<1> QED BY <1>7, <1>9, <1>12, <1>16, <1>17 DEF n, SetDone
-----------------------------------------------------------------------------
(* The directory and the chains, as functions: L the links, R the rest.    *)

Put(v, s, b) == [v EXCEPT ![s] = b]
DataStep(R, R2, s, m, k) == \A t \in Lba \ FatArea : R2[t] = IF t = s THEN Token(m, k) ELSE R[t]
SameDir(D, L, L2, pos, pos2) == \A c \in D : L2[c] = L[c] /\ pos2[c] = pos[c]
SameOrder(L, L2, D) == \A p, q : Follows(L2, D, p, q) <=> Follows(L, D, p, q)
SameLinks(L, L2, D) == \A x \in Clusters : Linked(L2, D, x) <=> Linked(L, D, x)
FilesStay(L, L2, D, own, pos, own2, pos2) ==
  \A X, p, f, size, n :
    FileOK(L, X, D, own, pos, p, f, size, n) => FileOK(L2, X, D, own2, pos2, p, f, size, n)

(* Cluster c may get another owner and place.                              *)
Reowned(D, c, own, pos, own2, pos2) ==
  /\ pos2[c] \in Nat
  /\ \A d \in Clusters \ D : d # c => own2[d] = own[d] /\ pos2[d] = pos[d]
  /\ \A d \in D : pos2[d] = pos[d]

LEMMA LinkFacts ==
  /\ ~IsLink(0) /\ ~IsLink(EOC) /\ EndMark(EOC) /\ ~EndMark(0)
  /\ 0 \in Link /\ EOC \in Link /\ EOC # 0 /\ 0 \notin Clusters /\ EOC \notin Clusters
  /\ \A c \in Clusters : /\ c \in Links /\ c \in Nat /\ c >= 2 /\ c \in Link /\ c # 0 /\ c # EOC
                         /\ ~EndMark(c) /\ IsLink(c)
<1>1. EOC \in Nat /\ CLUSTERS \in Nat /\ fat_size * EPS \in Nat /\ EOC > fat_size * EPS + 8
      /\ fat_size * EPS >= CLUSTERS + 2
  BY ConstantTypes, Products
<1>2. \A c \in Clusters : c \in Nat /\ c >= 2 /\ c <= CLUSTERS + 1
  BY <1>1 DEF Clusters
<1>3. 0 \notin Clusters /\ EOC \notin Clusters
  BY <1>1, <1>2
<1>4. \A c \in Clusters : c \in Links /\ c \in Link /\ ~EndMark(c)
  BY <1>1, <1>2 DEF Links, Link, EndMark
<1>5. ~EndMark(0) /\ EndMark(EOC)
  BY <1>1 DEF EndMark
<1>6. 0 \in Link /\ EOC \in Link /\ EOC # 0
  BY <1>1 DEF Link
<1> QED BY <1>2, <1>3, <1>4, <1>5, <1>6 DEF IsLink

LEMMA DirTypes ==
  ASSUME NEW L, NEW R, NEW D, NEW pos, DirectoryOK(L, R, D, pos)
  PROVE  /\ root_directory_cluster \in D
         /\ \A c \in D : c \in Links /\ DirBase(c) \in Nat /\ ~EndMark(c) /\ L[c] # 0
                         /\ (EndMark(L[c]) <=> L[c] \notin D) /\ pos[c] \in Nat
<1>1. root_directory_cluster \in D
  BY DEF DirectoryOK
<1>2. ASSUME FAT32, NEW c \in D
      PROVE  c \in Clusters /\ DirBase(c) \in Nat
  <2>1. c \in Clusters
    BY <1>2 DEF DirectoryOK
  <2>2. 0 \in 0..(cluster_size - 1)
    BY ConstantTypes
  <2> QED BY <1>2, <2>1, <2>2, ClusterPlace DEF DirBase
<1>3. ASSUME ~FAT32, NEW c \in D
      PROVE  c = 0 /\ c \in Links /\ DirBase(c) \in Nat /\ root_directory_cluster = 0
  <2>1. c = root_directory_cluster /\ root_directory_cluster = 0
    BY <1>3 DEF DirectoryOK, root_directory_cluster
  <2>2. 0 \in Links
    BY ConstantTypes, Products DEF Links
  <2>3. root_directory_start \in Nat
    BY <1>3, Areas, ConstantTypes, Products
  <2> QED BY <1>3, <2>1, <2>2, <2>3 DEF DirBase
<1>4. ASSUME NEW c \in D
      PROVE  c \in Links /\ DirBase(c) \in Nat /\ ~EndMark(c) /\ pos[c] \in Nat
  BY <1>2, <1>3, LinkFacts DEF DirectoryOK
<1>5. ASSUME NEW c \in D
      PROVE  L[c] # 0 /\ (EndMark(L[c]) <=> L[c] \notin D)
  <2>1. \/ L[c] \in D \ {root_directory_cluster}
        \/ EndMark(L[c])
    BY DEF DirectoryOK
  <2>2. L[c] \in D \ {root_directory_cluster} => L[c] # 0
    BY <1>2, <1>3, LinkFacts
  <2> QED BY <1>4, <2>1, <2>2, LinkFacts
<1> QED BY <1>1, <1>4, <1>5

LEMMA DirUnique ==
  ASSUME NEW L, NEW R, NEW D, NEW pos, DirectoryOK(L, R, D, pos),
         NEW c \in D, NEW d \in D, NEW i \in 0..(DIR_SECTORS - 1), NEW j \in 0..(DIR_SECTORS - 1),
         DirBase(c) + i = DirBase(d) + j
  PROVE  c = d /\ i = j
<1>1. CASE FAT32
  <2>1. c \in Clusters /\ d \in Clusters /\ DIR_SECTORS = cluster_size
    BY <1>1 DEF DirectoryOK, DIR_SECTORS
  <2> QED BY <1>1, <2>1, ClustersApart DEF DirBase
<1>2. CASE ~FAT32
  <2>1. c = d /\ DirBase(c) \in Nat
    BY <1>2, DirTypes DEF DirectoryOK
  <2> QED BY <2>1, ConstantTypes
<1> QED BY <1>1, <1>2, ConstantTypes

LEMMA DirPlace ==
  ASSUME NEW L, NEW R, NEW D, NEW pos, DirectoryOK(L, R, D, pos), NEW s \in DirSectors(R)
  PROVE  \E c \in D, j \in 0..(DIR_SECTORS - 1) : s = DirBase(c) + j
BY DEF DirectoryOK

LEMMA DirNotFile ==
  ASSUME NEW L, NEW R, NEW D, NEW pos, DirectoryOK(L, R, D, pos),
         NEW c \in Clusters \ D, NEW i \in 0..(cluster_size - 1)
  PROVE  ClusterLba(c) + i \notin DirSectors(R)
<1> SUFFICES ASSUME NEW d \in D, NEW j \in 0..(DIR_SECTORS - 1), ClusterLba(c) + i = DirBase(d) + j
             PROVE  FALSE
  BY DirPlace
<1>1. CASE FAT32
  <2>1. d \in Clusters /\ j \in 0..(cluster_size - 1) /\ DirBase(d) = ClusterLba(d)
    BY <1>1 DEF DirectoryOK, DIR_SECTORS, DirBase
  <2> QED BY <2>1, ClustersApart
<1>2. CASE ~FAT32
  <2>1. DirBase(d) = root_directory_start /\ DIR_SECTORS = ROOT_SECTORS
    BY <1>2 DEF DirBase, DIR_SECTORS
  <2>2. root_directory_start \in Nat /\ ROOT_SECTORS \in Nat
       /\ data_start = root_directory_start + ROOT_SECTORS
    BY <1>2, ConstantTypes, Areas, Products
  <2>3. root_directory_start + j < data_start
    BY <2>1, <2>2
  <2>4. ClusterLba(c) + i >= data_start /\ ClusterLba(c) + i \in Nat /\ data_start \in Nat
    BY ClusterPlace, Areas
  <2> QED BY <2>1, <2>2, <2>3, <2>4
<1> QED BY <1>1, <1>2, ConstantTypes

LEMMA SlotTypes ==
  ASSUME NEW R, NEW p \in DirSlots(R)
  PROVE  /\ p = <<p[1], p[2]>> /\ p[1] \in DirSectors(R) /\ p[2] \in 0..(DPS - 1)
         /\ p[1] \in Lba \ FatArea /\ p[1] \in Nat /\ p[2] \in Nat /\ p # Nobody
<1>1. p = <<p[1], p[2]>> /\ p[1] \in DirSectors(R) /\ p[2] \in 0..(DPS - 1)
  BY DEF DirSlots
<1>2. p[1] \in Lba \ FatArea /\ p[1] \in Nat
  BY <1>1, Areas DEF DirSectors
<1>3. -1 \notin Nat
  OBVIOUS
<1> QED BY <1>1, <1>2, <1>3, ConstantTypes DEF Nobody

(* Only the links of the directory's clusters matter to the directory.     *)
LEMMA DirFrame ==
  ASSUME NEW L, NEW L2, NEW R, NEW D, NEW pos, NEW pos2, DirectoryOK(L, R, D, pos), LongNamesOK(L, R, D),
         \A c \in D : L2[c] = L[c] /\ pos2[c] = pos[c]
  PROVE  DirectoryOK(L2, R, D, pos2) /\ LongNamesOK(L2, R, D)
         /\ \A p, q : Follows(L2, D, p, q) <=> Follows(L, D, p, q)
<1>1. root_directory_cluster \in D
  BY DirTypes
<1>2. \A p, q : Follows(L2, D, p, q) <=> Follows(L, D, p, q)
  BY DEF Follows
<1>3. LongNamesOK(L2, R, D)
  BY <1>2 DEF LongNamesOK
<1>4. ASSUME NEW c \in D
      PROVE  \/ L2[c] \in D \ {root_directory_cluster} /\ pos2[L2[c]] = pos2[c] + 1
             \/ EndMark(L2[c]) /\ \A d \in D : pos2[d] <= pos2[c]
  BY DEF DirectoryOK
<1>5. DirectoryOK(L2, R, D, pos2)
  BY <1>1, <1>4 DEF DirectoryOK
<1> QED BY <1>2, <1>3, <1>5
-----------------------------------------------------------------------------
(* What an access to the FAT does to the chains.                           *)

(* What FileOK says of one cluster of the file.                            *)
LEMMA FileCluster ==
  ASSUME NEW L, NEW R, NEW D, NEW own, NEW pos, NEW p, NEW f, NEW size, NEW n,
         FileOK(L, R, D, own, pos, p, f, size, n),
         NEW c \in Clusters \ D, own[c] = p
  PROVE  /\ IsLink(L[c]) => c = f \/ Linked(L, D, c)
         /\ c = f \/ Linked(L, D, c) =>
              /\ cluster_size * (pos[c] + 1) < size => IsLink(L[c])
              /\ \A i \in 0..(cluster_size - 1) : cluster_size * pos[c] + i < size =>
                   R[ClusterLba(c) + i] = Token(n, cluster_size * pos[c] + i)
              /\ \A d \in Clusters \ D :
                   own[d] = p /\ (d = f \/ Linked(L, D, d)) /\ pos[d] = pos[c] => d = c
BY DEF FileOK

LEMMA FileFirst ==
  ASSUME NEW L, NEW R, NEW D, NEW own, NEW pos, NEW p, NEW f, NEW size, NEW n,
         FileOK(L, R, D, own, pos, p, f, size, n)
  PROVE  /\ f = 0 => size = 0
         /\ f # 0 => f \in Clusters \ D /\ L[f] # 0 /\ own[f] = p /\ pos[f] = 0
BY DEF FileOK

LEMMA ChainAt ==
  ASSUME NEW L, NEW D, NEW own, NEW pos, ChainsOK(L, D, own, pos), NEW c \in Clusters \ D
  PROVE  /\ pos[c] \in Nat /\ (EndMark(L[c]) => L[c] = EOC)
         /\ IsLink(L[c]) => /\ L[c] \in Clusters \ D /\ L[L[c]] # 0
                            /\ own[L[c]] = own[c] /\ pos[L[c]] = pos[c] + 1
         /\ \A d \in Clusters \ D : IsLink(L[c]) /\ L[d] = L[c] => d = c
BY DEF ChainsOK

LEMMA Mark ==
  ASSUME NEW L \in [Links -> Link], NEW D, NEW own, NEW pos, ChainsOK(L, D, own, pos),
         NEW c \in Clusters \ D, L[c] = 0, NEW t \in {0, EOC}, NEW L2, L2 = Put(L, c, t),
         NEW own2, NEW pos2, Reowned(D, c, own, pos, own2, pos2)
  PROVE  /\ ChainsOK(L2, D, own2, pos2) /\ ~Linked(L, D, c) /\ SameLinks(L, L2, D)
         /\ SameDir(D, L, L2, pos, pos2) /\ FilesStay(L, L2, D, own, pos, own2, pos2)
<1>0. /\ pos2[c] \in Nat
      /\ \A d \in Clusters \ D : d # c => own2[d] = own[d] /\ pos2[d] = pos[d]
  BY DEF Reowned
<1>1. \A d \in Links : L2[d] = IF d = c THEN t ELSE L[d]
  BY LinkFacts DEF Put
<1>2. ~IsLink(t) /\ t \notin Clusters /\ (EndMark(t) => t = EOC) /\ Clusters \subseteq Links
  BY LinkFacts
<1>3. ~Linked(L, D, c)
  BY ChainAt, LinkFacts DEF Linked
<1>4. \A x \in Clusters : Linked(L2, D, x) <=> Linked(L, D, x)
  BY <1>1, <1>2, LinkFacts DEF Linked
<1>5. ChainsOK(L2, D, own2, pos2)
  <2>1. ASSUME NEW d \in Clusters \ D
        PROVE  /\ pos2[d] \in Nat /\ (EndMark(L2[d]) => L2[d] = EOC)
               /\ IsLink(L2[d]) => /\ L2[d] \in Clusters \ D /\ L2[L2[d]] # 0
                                   /\ own2[L2[d]] = own2[d] /\ pos2[L2[d]] = pos2[d] + 1
               /\ \A e \in Clusters \ D : IsLink(L2[d]) /\ L2[e] = L2[d] => e = d
    <3>1. CASE d = c
      BY <1>0, <1>1, <1>2, <3>1
    <3>2. CASE d # c
      <4>1. L2[d] = L[d] /\ own2[d] = own[d] /\ pos2[d] = pos[d]
        BY <1>0, <1>1, <1>2, <3>2
      <4>2. IsLink(L[d]) => L[d] \in Clusters \ D /\ L[L[d]] # 0 /\ L[d] # c
        BY ChainAt
      <4>3. IsLink(L[d]) => L2[L[d]] # 0 /\ own2[L[d]] = own[L[d]] /\ pos2[L[d]] = pos[L[d]]
        BY <1>0, <1>1, <1>2, <4>2
      <4>4. \A e \in Clusters \ D : IsLink(L[d]) /\ L2[e] = L[d] => e = d
        BY <1>1, <1>2, ChainAt
      <4> QED BY <4>1, <4>2, <4>3, <4>4, ChainAt
    <3> QED BY <3>1, <3>2
  <2>2. \A d \in Links \ Clusters : d >= 2 => L2[d] # 0
    BY <1>1 DEF ChainsOK
  <2> QED BY <2>1, <2>2 DEF ChainsOK
<1>6. ASSUME NEW R, NEW p, NEW f, NEW size, NEW n, FileOK(L, R, D, own, pos, p, f, size, n)
      PROVE  FileOK(L2, R, D, own2, pos2, p, f, size, n)
  <2>1. f # c
    BY <1>6, FileFirst, LinkFacts
  <2>2. /\ f = 0 => size = 0
        /\ f # 0 => f \in Clusters \ D /\ L2[f] # 0 /\ own2[f] = p /\ pos2[f] = 0
    BY <1>0, <1>1, <1>2, <1>6, <2>1, FileFirst
  <2>3. ASSUME NEW d \in Clusters \ D, own2[d] = p
        PROVE  /\ d = f \/ Linked(L2, D, d) \/ ~IsLink(L2[d])
               /\ d = f \/ Linked(L2, D, d) =>
                    /\ cluster_size * (pos2[d] + 1) < size => IsLink(L2[d])
                    /\ \A i \in 0..(cluster_size - 1) : cluster_size * pos2[d] + i < size =>
                         R[ClusterLba(d) + i] = Token(n, cluster_size * pos2[d] + i)
                    /\ \A e \in Clusters \ D :
                         own2[e] = p /\ (e = f \/ Linked(L2, D, e)) /\ pos2[e] = pos2[d] => e = d
    <3>1. CASE d = c
      BY <1>1, <1>2, <1>3, <1>4, <2>1, <3>1
    <3>2. CASE d # c
      <4>1. L2[d] = L[d] /\ own[d] = p /\ pos2[d] = pos[d] /\ (Linked(L2, D, d) <=> Linked(L, D, d))
        BY <1>0, <1>1, <1>2, <1>4, <2>3, <3>2
      <4>2. ASSUME NEW e \in Clusters \ D, own2[e] = p, e = f \/ Linked(L2, D, e)
            PROVE  own[e] = p /\ (e = f \/ Linked(L, D, e)) /\ pos2[e] = pos[e]
        <5>1. e # c
          BY <1>3, <1>4, <2>1, <4>2
        <5> QED BY <1>0, <1>4, <4>2, <5>1
      <4>3. d = f \/ Linked(L2, D, d) \/ ~IsLink(L2[d])
        BY <1>6, <4>1, FileCluster
      <4>4. d = f \/ Linked(L2, D, d) =>
              /\ cluster_size * (pos2[d] + 1) < size => IsLink(L2[d])
              /\ \A i \in 0..(cluster_size - 1) : cluster_size * pos2[d] + i < size =>
                   R[ClusterLba(d) + i] = Token(n, cluster_size * pos2[d] + i)
        BY <1>6, <4>1, FileCluster
      <4>5. d = f \/ Linked(L2, D, d) =>
              \A e \in Clusters \ D :
                own2[e] = p /\ (e = f \/ Linked(L2, D, e)) /\ pos2[e] = pos2[d] => e = d
        <5> SUFFICES ASSUME d = f \/ Linked(L2, D, d), NEW e \in Clusters \ D, own2[e] = p,
                            e = f \/ Linked(L2, D, e), pos2[e] = pos2[d]
                     PROVE  e = d
          OBVIOUS
        <5>1. own[e] = p /\ (e = f \/ Linked(L, D, e)) /\ pos[e] = pos[d]
          BY <4>1, <4>2
        <5> QED BY <1>6, <4>1, <5>1, FileCluster
      <4> QED BY <4>3, <4>4, <4>5
    <3> QED BY <3>1, <3>2
  <2> QED BY <2>2, <2>3 DEF FileOK
<1>7. FilesStay(L, L2, D, own, pos, own2, pos2)
  BY <1>6 DEF FilesStay
<1>8. SameLinks(L, L2, D)
  BY <1>4 DEF SameLinks
<1>9. ASSUME NEW d \in D PROVE L2[d] = L[d] /\ pos2[d] = pos[d]
  <2>1. L2[d] = L[d] BY DEF Put
  <2> QED BY <2>1 DEF Reowned
<1> QED BY <1>3, <1>5, <1>7, <1>8, <1>9 DEF SameDir

Unlinked(L, L2, D, c) ==
  \A x \in Clusters : Linked(L2, D, x) <=> Linked(L, D, x) /\ x # L[c]
OthersStay(L, L2, D, own, pos, c) ==
  \A X, p, f, size, n :
    own[c] # p /\ FileOK(L, X, D, own, pos, p, f, size, n) =>
      FileOK(L2, X, D, own, pos, p, f, size, n)

LEMMA Unlink ==
  ASSUME NEW L \in [Links -> Link], NEW D, NEW own, NEW pos, ChainsOK(L, D, own, pos),
         NEW c \in Clusters \ D, ~Linked(L, D, c), NEW L2, L2 = Put(L, c, 0)
  PROVE  /\ ChainsOK(L2, D, own, pos) /\ Unlinked(L, L2, D, c)
         /\ OthersStay(L, L2, D, own, pos, c)
<1>1. \A d \in Links : L2[d] = IF d = c THEN 0 ELSE L[d]
  BY LinkFacts DEF Put
<1>2. Clusters \subseteq Links /\ ~IsLink(0) /\ ~EndMark(0) /\ 0 \notin Clusters
  BY LinkFacts
<1>3. ASSUME NEW x \in Clusters
      PROVE  Linked(L2, D, x) <=> Linked(L, D, x) /\ x # L[c]
  <2>1. ASSUME Linked(L2, D, x) PROVE Linked(L, D, x) /\ x # L[c]
    <3>1. PICK d \in Clusters \ D : L2[d] = x
      BY <2>1 DEF Linked
    <3>2. d # c /\ L[d] = x
      BY <1>1, <1>2, <3>1
    <3>3. x # L[c]
      BY <3>1, <3>2, ChainAt, LinkFacts
    <3> QED BY <3>2, <3>3 DEF Linked
  <2>2. ASSUME Linked(L, D, x), x # L[c] PROVE Linked(L2, D, x)
    BY <1>1, <1>2, <2>2 DEF Linked
  <2> QED BY <2>1, <2>2
<1>4. ChainsOK(L2, D, own, pos)
  <2>1. ASSUME NEW d \in Clusters \ D
        PROVE  /\ pos[d] \in Nat /\ (EndMark(L2[d]) => L2[d] = EOC)
               /\ IsLink(L2[d]) => /\ L2[d] \in Clusters \ D /\ L2[L2[d]] # 0
                                   /\ own[L2[d]] = own[d] /\ pos[L2[d]] = pos[d] + 1
               /\ \A e \in Clusters \ D : IsLink(L2[d]) /\ L2[e] = L2[d] => e = d
    <3>1. CASE d = c
      BY <1>1, <1>2, <3>1, ChainAt
    <3>2. CASE d # c
      <4>1. L2[d] = L[d]
        BY <1>1, <1>2, <3>2
      <4>2. L[d] # c
        BY DEF Linked
      <4>3. IsLink(L[d]) => L2[L[d]] # 0
        BY <1>1, <1>2, <4>2, ChainAt
      <4>4. \A e \in Clusters \ D : IsLink(L[d]) /\ L2[e] = L[d] => e = d
        BY <1>1, <1>2, ChainAt
      <4> QED BY <4>1, <4>3, <4>4, ChainAt
    <3> QED BY <3>1, <3>2
  <2>2. \A d \in Links \ Clusters : d >= 2 => L2[d] # 0
    BY <1>1 DEF ChainsOK
  <2> QED BY <2>1, <2>2 DEF ChainsOK
<1>5. ASSUME NEW R, NEW p, NEW f, NEW size, NEW n, own[c] # p, FileOK(L, R, D, own, pos, p, f, size, n)
      PROVE  FileOK(L2, R, D, own, pos, p, f, size, n)
  <2>1. /\ f = 0 => size = 0
        /\ f # 0 => f \in Clusters \ D /\ L2[f] # 0 /\ own[f] = p /\ pos[f] = 0
    BY <1>1, <1>2, <1>5, FileFirst
  <2>2. \A d \in Clusters \ D : own[d] = p =>
          L2[d] = L[d] /\ (Linked(L2, D, d) <=> Linked(L, D, d))
    <3> SUFFICES ASSUME NEW d \in Clusters \ D, own[d] = p
                 PROVE  L2[d] = L[d] /\ (Linked(L2, D, d) <=> Linked(L, D, d))
      OBVIOUS
    <3>1. d # c /\ L2[d] = L[d]
      BY <1>1, <1>2, <1>5
    <3>2. d # L[c]
      BY <1>5, ChainAt, LinkFacts
    <3> QED BY <1>3, <3>1, <3>2
  <2> QED BY <1>5, <2>1, <2>2 DEF FileOK
<1> QED BY <1>3, <1>4, <1>5 DEF Unlinked, OthersStay

Joined(L, L2, D, c) == \A x \in Clusters : Linked(L2, D, x) <=> Linked(L, D, x) \/ x = c
FilesGrow(L, L2, D, own, pos, par) ==
  \A X, p, f, size, n :
    (own[par] = p => par = f \/ Linked(L, D, par)) /\ size \in Nat
      /\ FileOK(L, X, D, own, pos, p, f, size, n) =>
      FileOK(L2, X, D, own, pos, p, f, size, n)

LEMMA Chain ==
  ASSUME NEW L \in [Links -> Link], NEW D, NEW own, NEW pos, ChainsOK(L, D, own, pos),
         NEW par \in Clusters \ D, NEW c \in Clusters \ D, L[par] = EOC, L[c] = EOC, ~Linked(L, D, c),
         own[c] = own[par], pos[c] = pos[par] + 1, NEW L2, L2 = Put(L, par, c)
  PROVE  ChainsOK(L2, D, own, pos) /\ Joined(L, L2, D, c) /\ FilesGrow(L, L2, D, own, pos, par)
<1>1. \A d \in Links : L2[d] = IF d = par THEN c ELSE L[d]
  BY LinkFacts DEF Put
<1>2. Clusters \subseteq Links /\ ~IsLink(EOC) /\ EOC \notin Clusters /\ EOC # 0
  BY LinkFacts
<1>3. pos[par] \in Nat /\ pos[c] \in Nat /\ c # par
  BY ChainAt
<1>4. \A x \in Clusters : Linked(L2, D, x) <=> Linked(L, D, x) \/ x = c
  BY <1>1, <1>2 DEF Linked
<1>5. ChainsOK(L2, D, own, pos)
  <2>1. ASSUME NEW d \in Clusters \ D
        PROVE  /\ pos[d] \in Nat /\ (EndMark(L2[d]) => L2[d] = EOC)
               /\ IsLink(L2[d]) => /\ L2[d] \in Clusters \ D /\ L2[L2[d]] # 0
                                   /\ own[L2[d]] = own[d] /\ pos[L2[d]] = pos[d] + 1
               /\ \A e \in Clusters \ D : IsLink(L2[d]) /\ L2[e] = L2[d] => e = d
    <3>1. CASE d = par
      <4>1. L2[d] = c /\ L2[c] = EOC /\ ~EndMark(c)
        BY <1>1, <1>2, <1>3, <3>1, LinkFacts
      <4>2. \A e \in Clusters \ D : L2[e] = c => e = d
        BY <1>1, <1>2, <3>1 DEF Linked
      <4> QED BY <1>2, <1>3, <3>1, <4>1, <4>2
    <3>2. CASE d # par
      <4>1. L2[d] = L[d]
        BY <1>1, <1>2, <3>2
      <4>2. L[d] # c
        BY DEF Linked
      <4>3. IsLink(L[d]) => L2[L[d]] # 0
        BY <1>1, <1>2, ChainAt, LinkFacts
      <4>4. \A e \in Clusters \ D : IsLink(L[d]) /\ L2[e] = L[d] => e = d
        BY <1>1, <1>2, <4>2, ChainAt
      <4> QED BY <4>1, <4>3, <4>4, ChainAt
    <3> QED BY <3>1, <3>2
  <2>2. \A d \in Links \ Clusters : d >= 2 => L2[d] # 0
    BY <1>1, LinkFacts DEF ChainsOK
  <2> QED BY <2>1, <2>2 DEF ChainsOK
<1>6. ASSUME NEW R, NEW p, NEW f, NEW size \in Nat, NEW n, own[par] = p => par = f \/ Linked(L, D, par),
             FileOK(L, R, D, own, pos, p, f, size, n)
      PROVE  FileOK(L2, R, D, own, pos, p, f, size, n)
  <2>1. f # c
    BY <1>3, <1>6, FileFirst, LinkFacts
  <2>2. /\ f = 0 => size = 0
        /\ f # 0 => f \in Clusters \ D /\ L2[f] # 0 /\ own[f] = p /\ pos[f] = 0
    BY <1>1, <1>2, <1>6, FileFirst, LinkFacts
  (* Where the chain ended no other cluster of the file comes next.        *)
  <2>3. ASSUME own[par] = p, NEW d \in Clusters \ D, own[d] = p, d = f \/ Linked(L, D, d)
        PROVE  pos[d] # pos[c]
    <3> SUFFICES ASSUME pos[d] = pos[par] + 1 PROVE FALSE
      OBVIOUS
    <3>1. d # f
      BY <1>3, <2>2, <2>3, LinkFacts
    <3>2. PICK e \in Clusters \ D : L[e] = d
      BY <2>3, <3>1 DEF Linked
    <3>3. IsLink(L[e]) /\ own[e] = p /\ pos[d] = pos[e] + 1 /\ pos[e] \in Nat
      BY <2>3, <3>2, ChainAt, LinkFacts
    <3>4. e = f \/ Linked(L, D, e)
      BY <1>6, <3>3, FileCluster
    <3>5. pos[e] = pos[par]
      BY <1>3, <3>3
    <3>6. e = par
      BY <1>6, <2>3, <3>3, <3>4, <3>5, FileCluster
    <3> QED BY <1>2, <3>3, <3>6
  <2>4. ASSUME own[par] = p
        PROVE  size <= cluster_size * pos[c] /\ cluster_size * pos[c] \in Nat
    <3>1. ~(cluster_size * (pos[par] + 1) < size)
      BY <1>2, <1>6, <2>4, FileCluster
    <3>2. \A x \in Nat : cluster_size * x \in Nat
      BY ConstantTypes
    <3> QED BY <1>3, <3>1, <3>2
  <2>5. ASSUME NEW d \in Clusters \ D, own[d] = p
        PROVE  /\ d = f \/ Linked(L2, D, d) \/ ~IsLink(L2[d])
               /\ d = f \/ Linked(L2, D, d) =>
                    /\ cluster_size * (pos[d] + 1) < size => IsLink(L2[d])
                    /\ \A i \in 0..(cluster_size - 1) : cluster_size * pos[d] + i < size =>
                         R[ClusterLba(d) + i] = Token(n, cluster_size * pos[d] + i)
                    /\ \A e \in Clusters \ D :
                         own[e] = p /\ (e = f \/ Linked(L2, D, e)) /\ pos[e] = pos[d] => e = d
    <3>1. CASE d = c
      <4>1. own[par] = p
        BY <2>5, <3>1
      <4>2. ~(cluster_size * (pos[d] + 1) < size)
        <5>1. \A x \in Nat : cluster_size * (x + 1) >= cluster_size * x /\ cluster_size * (x + 1) \in Nat
          BY ConstantTypes, Z3
        <5> QED BY <1>3, <2>4, <3>1, <4>1, <5>1
      <4>3. \A i \in 0..(cluster_size - 1) : ~(cluster_size * pos[d] + i < size)
        BY <2>4, <3>1, <4>1, ConstantTypes
      <4>4. \A e \in Clusters \ D :
              own[e] = p /\ (e = f \/ Linked(L2, D, e)) /\ pos[e] = pos[d] => e = d
        BY <1>4, <2>3, <3>1, <4>1
      <4> QED BY <1>4, <3>1, <4>2, <4>3, <4>4
    <3>2. CASE d # c
      <4>1. Linked(L2, D, d) <=> Linked(L, D, d)
        BY <1>4, <3>2
      <4>2. IsLink(L[d]) => L2[d] = L[d]
        BY <1>1, <1>2
      <4>3. d = f \/ Linked(L2, D, d) \/ ~IsLink(L2[d])
        <5>1. CASE d = par
          BY <1>6, <2>5, <4>1, <5>1
        <5>2. CASE d # par
          BY <1>1, <1>2, <1>6, <2>5, <4>1, <5>2, FileCluster
        <5> QED BY <5>1, <5>2
      <4>4. ASSUME d = f \/ Linked(L, D, d), NEW e \in Clusters \ D,
                   own[e] = p, e = f \/ Linked(L2, D, e), pos[e] = pos[d]
            PROVE  e = d
        <5>1. CASE e = c
          BY <2>3, <2>5, <4>4, <5>1
        <5>2. CASE e # c
          BY <1>4, <1>6, <2>5, <4>4, <5>2, FileCluster
        <5> QED BY <5>1, <5>2
      <4>5. d = f \/ Linked(L, D, d) =>
              /\ cluster_size * (pos[d] + 1) < size => IsLink(L2[d])
              /\ \A i \in 0..(cluster_size - 1) : cluster_size * pos[d] + i < size =>
                   R[ClusterLba(d) + i] = Token(n, cluster_size * pos[d] + i)
        BY <1>6, <2>5, <4>2, FileCluster
      <4> QED BY <4>1, <4>3, <4>4, <4>5
    <3> QED BY <3>1, <3>2
  <2> QED BY <2>2, <2>5 DEF FileOK
<1> QED BY <1>4, <1>5, <1>6 DEF Joined, FilesGrow
(* A cluster that nobody links becomes the first one of slot p's file.     *)
LEMMA Adopt ==
  ASSUME NEW L, NEW D, NEW own, NEW pos, ChainsOK(L, D, own, pos),
         NEW c \in Clusters \ D, L[c] = EOC, ~Linked(L, D, c), own[c] = Nobody, NEW p, p # Nobody,
         NEW own2, NEW pos2,
         \A d \in Clusters \ D :
           /\ own2[d] = IF d = c THEN p ELSE IF own[d] = p THEN Nobody ELSE own[d]
           /\ pos2[d] = IF d = c THEN 0 ELSE pos[d]
  PROVE  /\ ChainsOK(L, D, own2, pos2)
         /\ \A R, q, f, size, n :
              q # p /\ q # Nobody /\ FileOK(L, R, D, own, pos, q, f, size, n) =>
                FileOK(L, R, D, own2, pos2, q, f, size, n)
         /\ \A R, n : FileOK(L, R, D, own2, pos2, p, c, 0, n)
<1>1. ~IsLink(L[c]) /\ L[c] # 0 /\ c # 0
  BY LinkFacts
<1>2. ChainsOK(L, D, own2, pos2)
  <2>1. ASSUME NEW d \in Clusters \ D
        PROVE  /\ pos2[d] \in Nat /\ (EndMark(L[d]) => L[d] = EOC)
               /\ IsLink(L[d]) => /\ L[d] \in Clusters \ D /\ L[L[d]] # 0
                                  /\ own2[L[d]] = own2[d] /\ pos2[L[d]] = pos2[d] + 1
               /\ \A e \in Clusters \ D : IsLink(L[d]) /\ L[e] = L[d] => e = d
    <3>1. CASE d = c
      BY <1>1, <3>1, ChainAt
    <3>2. CASE d # c
      <4>1. IsLink(L[d]) => L[d] \in Clusters \ D /\ L[d] # c
        BY ChainAt DEF Linked
      <4> QED BY <3>2, <4>1, ChainAt
    <3> QED BY <3>1, <3>2
  <2>2. \A d \in Links \ Clusters : d >= 2 => L[d] # 0
    BY DEF ChainsOK
  <2> QED BY <2>1, <2>2 DEF ChainsOK
<1>3. ASSUME NEW R, NEW q, NEW f, NEW size, NEW n, q # p, q # Nobody,
             FileOK(L, R, D, own, pos, q, f, size, n)
      PROVE  FileOK(L, R, D, own2, pos2, q, f, size, n)
  <2>1. \A d \in Clusters \ D : own2[d] = q <=> own[d] = q
    BY <1>3
  <2>2. \A d \in Clusters \ D : own[d] = q => pos2[d] = pos[d]
    BY <1>3
  <2>3. /\ f = 0 => size = 0
        /\ f # 0 => f \in Clusters \ D /\ L[f] # 0 /\ own2[f] = q /\ pos2[f] = 0
    BY <1>3, <2>1, <2>2, FileFirst
  <2> QED BY <1>3, <2>1, <2>2, <2>3 DEF FileOK
<1>4. ASSUME NEW R, NEW n
      PROVE  FileOK(L, R, D, own2, pos2, p, c, 0, n)
  <2>1. \A d \in Clusters \ D : own2[d] = p => d = c
    OBVIOUS
  <2>2. pos2[c] = 0 /\ own2[c] = p
    OBVIOUS
  <2>3. ~(cluster_size * (pos2[c] + 1) < 0)
       /\ \A i \in 0..(cluster_size - 1) : ~(cluster_size * pos2[c] + i < 0)
    BY <2>2, ConstantTypes
  <2> QED BY <1>1, <2>1, <2>2, <2>3 DEF FileOK
<1> QED BY <1>2, <1>3, <1>4

-----------------------------------------------------------------------------
(* What a sector of data does.                                             *)

LEMMA Division ==
  ASSUME NEW s \in Nat
  PROVE  /\ s \div cluster_size \in Nat /\ s % cluster_size \in 0..(cluster_size - 1)
         /\ s = cluster_size * (s \div cluster_size) + (s % cluster_size)
<1>1. \A x, n \in Nat : n > 0 => x \div n \in Nat /\ x % n \in 0..(n - 1) /\ x = n * (x \div n) + (x % n)
  BY Z3
<1> QED BY <1>1, ConstantTypes

LEMMA Euclid ==
  ASSUME NEW a \in Nat, NEW b \in Nat, NEW i \in 0..(cluster_size - 1), NEW j \in 0..(cluster_size - 1)
  PROVE  /\ cluster_size * a \in Nat /\ cluster_size * (a + 1) = cluster_size * a + cluster_size
         /\ cluster_size * a + i = cluster_size * b + j => a = b /\ i = j
<1>1. \A n, x, y \in Nat : n * x \in Nat /\ n * (x + 1) = n * x + n /\ (x < y => n * x + n <= n * y)
  BY Z3
<1>2. i \in Nat /\ j \in Nat /\ i < cluster_size /\ j < cluster_size
  BY ConstantTypes
<1>3. cluster_size * a \in Nat /\ cluster_size * b \in Nat
  BY <1>1, ConstantTypes
<1>4. ASSUME cluster_size * a + i = cluster_size * b + j
      PROVE  a = b /\ i = j
  <2>1. ~(a < b)
    BY <1>1, <1>2, <1>3, <1>4, ConstantTypes
  <2>2. ~(b < a)
    BY <1>1, <1>2, <1>3, <1>4, ConstantTypes
  <2>3. a = b
    BY <2>1, <2>2
  <2> QED BY <1>2, <1>3, <1>4, <2>3
<1> QED BY <1>1, <1>4, ConstantTypes

(* Sector k of the file, in cluster c.                                     *)
FilesData(L, R, R2, D, own, pos, p, m) ==
  \A q, f, size, n :
    (q = p => n = m) /\ FileOK(L, R, D, own, pos, q, f, size, n) => FileOK(L, R2, D, own, pos, q, f, size, n)

LEMMA DataPut ==
  ASSUME NEW L, NEW R, NEW D, NEW own, NEW pos, NEW p, NEW c \in Clusters \ D, own[c] = p,
         NEW i \in 0..(cluster_size - 1), NEW m, NEW k, k = cluster_size * pos[c] + i, NEW R2,
         DataStep(R, R2, ClusterLba(c) + i, m, k)
  PROVE  FilesData(L, R, R2, D, own, pos, p, m)
<1> SUFFICES ASSUME NEW q, NEW f, NEW size, NEW n, q = p => n = m,
                    FileOK(L, R, D, own, pos, q, f, size, n)
             PROVE  FileOK(L, R2, D, own, pos, q, f, size, n)
  BY DEF FilesData
<1>1. ASSUME NEW d \in Clusters \ D, own[d] = q, NEW j \in 0..(cluster_size - 1),
             R[ClusterLba(d) + j] = Token(n, cluster_size * pos[d] + j)
      PROVE  R2[ClusterLba(d) + j] = Token(n, cluster_size * pos[d] + j)
  <2>1. ClusterLba(d) + j \in Lba \ FatArea
    BY ClusterPlace
  <2>2. CASE ClusterLba(d) + j = ClusterLba(c) + i
    <3>1. d = c /\ j = i
      BY <2>2, ClustersApart
    <3> QED BY <1>1, <2>1, <3>1 DEF DataStep
  <2>3. CASE ClusterLba(d) + j # ClusterLba(c) + i
    BY <1>1, <2>1, <2>3 DEF DataStep
  <2> QED BY <2>2, <2>3
<1> QED BY <1>1 DEF FileOK

(* The file grows by the sector behind its end.                            *)
LEMMA DataGrown ==
  ASSUME NEW L \in [Links -> Link], NEW R, NEW D, NEW own, NEW pos, ChainsOK(L, D, own, pos),
         NEW p, NEW c \in Clusters \ D, own[c] = p,
         NEW i \in 0..(cluster_size - 1), NEW n, NEW size \in Nat, size = cluster_size * pos[c] + i,
         R[ClusterLba(c) + i] = Token(n, size), NEW f, f # 0, c = f \/ Linked(L, D, c),
         FileOK(L, R, D, own, pos, p, f, size, n)
  PROVE  FileOK(L, R, D, own, pos, p, f, size + 1, n)
<1>1. pos[c] \in Nat
  BY ChainAt
<1>2. ASSUME NEW d \in Clusters \ D, own[d] = p, d = f \/ Linked(L, D, d),
             cluster_size * (pos[d] + 1) < size + 1
      PROVE  IsLink(L[d])
  <2>1. CASE cluster_size * (pos[d] + 1) < size
    BY <1>2, <2>1, FileCluster
  <2>2. CASE ~(cluster_size * (pos[d] + 1) < size)
    <3>1. pos[d] \in Nat /\ pos[d] + 1 \in Nat
      BY ChainAt
    <3>2. cluster_size * (pos[d] + 1) \in Nat
      BY <3>1, Euclid, ConstantTypes
    <3>3. cluster_size * (pos[d] + 1) + 0 = cluster_size * pos[c] + i
      BY <1>2, <2>2, <3>2
    <3>4. 0 \in 0..(cluster_size - 1)
      BY ConstantTypes
    <3>5. pos[c] = pos[d] + 1
      BY <1>1, <3>1, <3>3, <3>4, Euclid
    <3>6. c # f
      BY <3>1, <3>5, FileFirst
    <3>7. PICK e \in Clusters \ D : L[e] = c
      BY <3>6 DEF Linked
    <3>8. IsLink(L[e]) /\ own[e] = p /\ pos[c] = pos[e] + 1 /\ pos[e] \in Nat
      BY <3>7, ChainAt, LinkFacts
    <3>9. e = f \/ Linked(L, D, e)
      BY <3>8, FileCluster
    <3>10. pos[e] = pos[d]
      BY <3>1, <3>5, <3>8
    <3>11. e = d
      BY <1>2, <3>8, <3>9, <3>10, FileCluster
    <3> QED BY <3>8, <3>11
  <2> QED BY <2>1, <2>2
<1>3. ASSUME NEW d \in Clusters \ D, own[d] = p, d = f \/ Linked(L, D, d),
             NEW j \in 0..(cluster_size - 1), cluster_size * pos[d] + j < size + 1
      PROVE  R[ClusterLba(d) + j] = Token(n, cluster_size * pos[d] + j)
  <2>1. CASE cluster_size * pos[d] + j < size
    BY <1>3, <2>1, FileCluster
  <2>2. CASE ~(cluster_size * pos[d] + j < size)
    <3>1. pos[d] \in Nat
      BY ChainAt
    <3>2. cluster_size * pos[d] \in Nat /\ j \in Nat
      BY <3>1, Euclid, ConstantTypes
    <3>3. cluster_size * pos[d] + j = cluster_size * pos[c] + i
      BY <1>3, <2>2, <3>2
    <3>4. pos[d] = pos[c] /\ i = j
      <4>1. \A a, b \in Nat : cluster_size * a + j = cluster_size * b + i => a = b /\ j = i
        BY Euclid
      <4> QED BY <1>1, <3>1, <3>3, <4>1
    <3>5. d = c
      BY <1>3, <3>4, FileCluster
    <3> QED BY <3>4, <3>5
  <2> QED BY <2>1, <2>2
<1>4. f # 0 => f \in Clusters \ D /\ L[f] # 0 /\ own[f] = p /\ pos[f] = 0
  BY FileFirst
<1>5. ASSUME NEW d \in Clusters \ D, own[d] = p
      PROVE  /\ d = f \/ Linked(L, D, d) \/ ~IsLink(L[d])
             /\ d = f \/ Linked(L, D, d) =>
                  /\ cluster_size * (pos[d] + 1) < size + 1 => IsLink(L[d])
                  /\ \A j \in 0..(cluster_size - 1) : cluster_size * pos[d] + j < size + 1 =>
                       R[ClusterLba(d) + j] = Token(n, cluster_size * pos[d] + j)
                  /\ \A e \in Clusters \ D :
                       own[e] = p /\ (e = f \/ Linked(L, D, e)) /\ pos[e] = pos[d] => e = d
  BY <1>2, <1>3, <1>5, FileCluster
<1> QED BY <1>4, <1>5 DEF FileOK

-----------------------------------------------------------------------------
(* What a sector of the directory does.                                    *)

LEMMA EntryPut ==
  ASSUME NEW R, NEW p \in DirSlots(R), NEW e, NEW b, b.kind = "dir",
         \A i \in 0..(DPS - 1) : b.v[i] = IF i = p[2] THEN e ELSE R[p[1]].v[i], NEW R2,
         \A t \in Lba \ FatArea : R2[t] = IF t = p[1] THEN b ELSE R[t]
  PROVE  /\ DirSectors(R2) = DirSectors(R) /\ DirSlots(R2) = DirSlots(R)
         /\ \A q \in DirSlots(R) : Ent(R2, q) = IF q = p THEN e ELSE Ent(R, q)
<1>1. p = <<p[1], p[2]>> /\ p[1] \in DirSectors(R) /\ p[2] \in 0..(DPS - 1) /\ p[1] \in Lba \ FatArea
  BY SlotTypes
<1>2. DirSectors(R2) = DirSectors(R)
  BY <1>1 DEF DirSectors
<1>3. ASSUME NEW q \in DirSlots(R)
      PROVE  Ent(R2, q) = IF q = p THEN e ELSE Ent(R, q)
  <2>1. q = <<q[1], q[2]>> /\ q[2] \in 0..(DPS - 1) /\ q[1] \in Lba \ FatArea
    BY SlotTypes
  <2>2. CASE q[1] = p[1]
    <3>1. R2[p[1]] = b
      BY <1>1
    <3>2. q = p <=> q[2] = p[2]
      BY <1>1, <2>1, <2>2
    <3>3. R2[p[1]].v[q[2]] = IF q[2] = p[2] THEN e ELSE R[p[1]].v[q[2]]
      BY <1>1, <2>1, <3>1
    <3> QED BY <2>2, <3>2, <3>3 DEF Ent
  <2>3. CASE q[1] # p[1]
    BY <2>1, <2>3 DEF Ent
  <2> QED BY <2>2, <2>3
<1> QED BY <1>2, <1>3 DEF DirSlots

LEMMA EntryFrame ==
  ASSUME NEW L, NEW R, NEW R2, NEW D, NEW own, NEW pos, DirectoryOK(L, R, D, pos),
         \A t \in Lba \ FatArea : t \notin DirSectors(R) => R2[t] = R[t],
         NEW p, NEW f, NEW size, NEW n
  PROVE  FileOK(L, R, D, own, pos, p, f, size, n) => FileOK(L, R2, D, own, pos, p, f, size, n)
<1>1. \A c \in Clusters \ D, i \in 0..(cluster_size - 1) : R2[ClusterLba(c) + i] = R[ClusterLba(c) + i]
  BY ClusterPlace, DirNotFile
<1> QED BY <1>1 DEF FileOK

LEMMA LongNamesPut ==
  ASSUME NEW L, NEW R, NEW R2, NEW D, NEW p, NEW e, LongNamesOK(L, R, D),
         DirSlots(R2) = DirSlots(R), e.attr # "lfn",
         \A q \in DirSlots(R) : Ent(R2, q) = IF q = p THEN e ELSE Ent(R, q),
         \A q \in DirSlots(R) :
           Follows(L, D, q, p) /\ Ent(R, q).attr = "lfn" => Named(e, Ent(R, q).name)
  PROVE  LongNamesOK(L, R2, D)
BY DEF LongNamesOK

LEMMA DataFrame ==
  ASSUME NEW R, NEW R2, NEW s, NEW b, s \notin DirSectors(R), b.kind # "dir",
         \A t \in Lba \ FatArea : R2[t] = IF t = s THEN b ELSE R[t]
  PROVE  /\ DirSectors(R2) = DirSectors(R) /\ DirSlots(R2) = DirSlots(R)
         /\ FileSlots(R2) = FileSlots(R)
         /\ \A q \in DirSlots(R) : Ent(R2, q) = Ent(R, q)
<1>1. DirSectors(R2) = DirSectors(R)
  BY DEF DirSectors
<1>2. ASSUME NEW q \in DirSlots(R)
      PROVE  Ent(R2, q) = Ent(R, q)
  BY SlotTypes DEF Ent
<1>3. DirSlots(R2) = DirSlots(R)
  BY <1>1 DEF DirSlots
<1>4. FileSlots(R2) = FileSlots(R)
  BY <1>2, <1>3 DEF FileSlots
<1> QED BY <1>1, <1>2, <1>3, <1>4

LEMMA SlotsFrame ==
  ASSUME NEW L, NEW R, NEW R2, NEW D, NEW pos, DirSectors(R2) = DirSectors(R), DirectoryOK(L, R, D, pos)
  PROVE  DirectoryOK(L, R2, D, pos)
BY DEF DirectoryOK

LEMMA NamesFrame ==
  ASSUME NEW L, NEW R, NEW R2, NEW D, DirSlots(R2) = DirSlots(R), LongNamesOK(L, R, D),
         \A q \in DirSlots(R) : Ent(R2, q) = Ent(R, q)
  PROVE  LongNamesOK(L, R2, D)
BY DEF LongNamesOK
-----------------------------------------------------------------------------
(* The FAT while nothing is on its way.                                    *)

Fresh(m, v, c) == m.cached # FatSector(c) => card[FatSector(c)] = v[FatSector(c)]

LEMMA Fetched ==
  ASSUME CardTyped, NEW m \in IoType, NEW v, Formatted(v), NEW c \in Links, NEW ok \in BOOLEAN,
         ~FetchFails(m, c, ok), Buffered(m, v), Fresh(m, v, c)
  PROVE  LET r == FetchFat(m, c, ok) IN
         /\ r \in IoType /\ r.todo = m.todo /\ r.cached = FatSector(c)
         /\ r.buf = v[FatSector(c)] /\ Buffered(r, v)
         /\ NextCluster(m, c, ok) = LinksOf(v)[c]
<1> DEFINE r == FetchFat(m, c, ok)
<1>1. c \in Int /\ FatSector(c) \in FatSectors /\ FatSector(c) \in FatArea /\ FatSector(c) \in Int
      /\ FatSector(c) \in Lba
  <2>1. c \in Int
    BY ConstantTypes, Products DEF Links
  <2>2. FatSector(c) \in FatSectors
    BY LinkPlace
  <2>3. \A s \in FatSectors : s \in FatArea /\ s \in Nat /\ s \in Lba
    BY Areas
  <2> QED BY <2>1, <2>2, <2>3
<1>2. r \in IoType /\ r.todo = m.todo
  BY <1>1, FetchTyped
<1>3. r.cached = FatSector(c) /\ r.buf = v[FatSector(c)]
  <2>1. CASE m.cached = FatSector(c)
    BY <1>1, <2>1 DEF FetchFat, Buffered
  <2>2. CASE m.cached # FatSector(c)
    <3>1. ok = TRUE
      BY <2>2 DEF FetchFails
    <3>2. r = ReadSector(m, FatSector(c), ok)
      BY <2>2 DEF FetchFat
    <3>3. OnCard(FatSector(c)) = v[FatSector(c)]
      BY <1>1, <2>2 DEF OnCard, Fresh
    <3> HIDE DEF r
    <3> QED BY <1>1, <3>1, <3>2, <3>3, ReadTyped
  <2> QED BY <2>1, <2>2
<1>4. AsFat(v[FatSector(c)]) = v[FatSector(c)].v
  BY <1>1, FatTyped
<1>5. NextCluster(m, c, ok) = LinksOf(v)[c]
  <2>1. NextCluster(m, c, ok) = AsFat(r.buf)[FatIndex(c)]
    BY DEF NextCluster
  <2> HIDE DEF r
  <2> QED BY <1>3, <1>4, <2>1, LinkOf
<1> QED BY <1>2, <1>3, <1>5 DEF Buffered

(* One FAT access: what is on the card before, and what is there after.    *)
LEMMA SetQuiet ==
  ASSUME CardTyped, Formatted(card), NEW m \in IoType, m.todo = <<>>, Buffered(m, card),
         NEW c \in Links, NEW t \in Link, NEW ok \in BOOLEAN, ~FetchFails(m, c, ok)
  PROVE  LET n == SetCluster(m, c, t, ok) IN
         /\ n \in IoType
         /\ \E vs2 :
              /\ Trace(card, n.todo, vs2)
              /\ \A i \in DOMAIN vs2 : vs2[i] = card \/ FatStep(card, vs2[i], c, t)
              /\ LET w == End(n.todo, vs2) IN
                 /\ FatStep(card, w, c, t) /\ Buffered(n, w) /\ n.cached = FatSector(c)
                 /\ \A s \in FatSectors : s # FatSector(c) => w[s] = card[s]
                 /\ Mirrored(card) => Mirrored(w)
<1> DEFINE vs == [i \in 1..1 |-> card]
           n == SetCluster(m, c, t, ok)
<1>1. Trace(card, m.todo, vs) /\ card = End(m.todo, vs) /\ \A i \in DOMAIN vs : vs[i] = card
  <2>1. Len(<<>>) + 1 = 1 /\ 1 \in 1..1
    OBVIOUS
  <2>2. End(m.todo, vs) = vs[1]
    BY <2>1 DEF End
  <2> QED BY <2>1, <2>2, TraceNil
<1>2. FetchFat(m, c, ok).buf = card[FatSector(c)]
  BY Fetched DEF Fresh
<1> HIDE DEF vs, n
<1>3. SetDone(n, card, vs, card, c, t)
  BY <1>1, <1>2, SetTrace DEF n
<1> QED BY <1>1, <1>3 DEF n, Buffered, SetDone

LEMMA FreeAre ==
  ASSUME Formatted(card)
  PROVE  FreeClusters = {c \in 2..(fat_size * EPS - 1) : LinksOf(card)[c] = 0}
<1>1. ASSUME NEW c \in 2..(fat_size * EPS - 1)
      PROVE  AsFat(card[FatSector(c)])[FatIndex(c)] = LinksOf(card)[c]
  <2>1. c \in Links
    BY ConstantTypes, Products DEF Links
  <2>2. FatSector(c) \in FatArea
    BY <2>1, LinkPlace, Areas
  <2> QED BY <2>1, <2>2, LinkOf, FatTyped
<1> QED BY <1>1 DEF FreeClusters

LEMMA SearchQuiet ==
  ASSUME CardTyped, Formatted(card), NEW m \in IoType
  PROVE  LET s == Searched(m, None) IN
         /\ s \in IoType /\ s.todo = m.todo /\ Buffered(s, card) /\ s.cached \in FatSectors
         /\ ~SearchFails(None)
<1>1. None \notin fat_start..SearchEnd
  BY Areas DEF None
<1>2. SearchEnd \in FatSectors
  <2>1. FreeClusters # {} => FirstOf(FreeClusters) \in Links
    BY FirstFree, FreeClustersNat
  <2>2. FreeClusters # {} => FatSector(FirstOf(FreeClusters)) \in FatSectors
    BY <2>1, LinkPlace
  <2>3. fat_start + fat_size - 1 \in FatSectors
    BY ConstantTypes, Areas DEF FatSectors
  <2> QED BY <2>2, <2>3 DEF SearchEnd
<1>3. Searched(m, None) = ReadSector(m, SearchEnd, TRUE)
  BY <1>1 DEF Searched, SearchFails
<1>4. SearchEnd \in Int /\ SearchEnd \in Lba
  BY <1>2, Areas
<1>5. OnCard(SearchEnd) = card[SearchEnd]
  BY <1>4 DEF OnCard
<1>6. LET s == ReadSector(m, SearchEnd, TRUE) IN
        s \in IoType /\ s.todo = m.todo /\ s.cached = SearchEnd /\ s.buf = card[SearchEnd]
  BY <1>4, <1>5, ReadTyped
<1> QED BY <1>1, <1>2, <1>3, <1>6 DEF Buffered, SearchFails

(* A cluster is taken, and with a parent chained: the volumes on the way.  *)
Marked(L, c) == [L EXCEPT ![c] = EOC]
Chained(L, c, par) == [Marked(L, c) EXCEPT ![par] = c]
Grown(L, c, par) == IF par = 0 THEN Marked(L, c) ELSE Chained(L, c, par)

LEMMA AllocateQuiet ==
  ASSUME CardTyped, Formatted(card), NEW m \in IoType, m.todo = <<>>,
         NEW c, c = Allocated(None), NEW par \in Links, NEW n, n = AllocateCluster(m, par, None)
  PROVE  /\ n \in IoType
         /\ c = 0 => n.todo = <<>> /\ Buffered(n, card)
         /\ c # 0 =>
              \E vs2 :
                /\ Trace(card, n.todo, vs2)
                /\ \A i \in DOMAIN vs2 :
                     /\ Formatted(vs2[i]) /\ PlainOf(vs2[i]) = PlainOf(card)
                     /\ LinksOf(vs2[i]) \in {LinksOf(card), Marked(LinksOf(card), c),
                                             Grown(LinksOf(card), c, par)}
                /\ LET w == End(n.todo, vs2) IN
                   /\ Formatted(w) /\ PlainOf(w) = PlainOf(card) /\ Buffered(n, w)
                   /\ LinksOf(w) = Grown(LinksOf(card), c, par)
                   /\ Mirrored(card) => Mirrored(w)
<1> DEFINE s == Searched(m, None)
           marked == SetCluster(s, c, EOC, TRUE)
           L == LinksOf(card)
<1>1. s \in IoType /\ s.todo = <<>> /\ Buffered(s, card)
  BY SearchQuiet
<1>2. c \in Link /\ (c # 0 => c \in Links)
  BY AllocatedTyped, FreeClustersNat
<1>3. AllocateCluster(m, par, None) =
        IF c = 0 THEN s ELSE IF par = 0 THEN marked
        ELSE SetCluster(marked, par, c, None # FatSector(par))
  BY DEF AllocateCluster
<1>4. None # FatSector(par)
  <2>1. FatSector(par) \in Nat
    BY LinkPlace, Areas
  <2> QED BY <2>1 DEF None
<1> HIDE DEF s
<1>5. CASE c = 0
  BY <1>1, <1>3, <1>5
<1>6. CASE c # 0
  <2>1. EOC \in Link /\ c \in Links
    BY <1>2, <1>6, LinkFacts
  <2>2. ~FetchFails(s, c, TRUE)
    BY DEF FetchFails
  <2>3. /\ marked \in IoType
        /\ \E vs2 :
             /\ Trace(card, marked.todo, vs2)
             /\ \A i \in DOMAIN vs2 : vs2[i] = card \/ FatStep(card, vs2[i], c, EOC)
             /\ LET w == End(marked.todo, vs2) IN
                /\ FatStep(card, w, c, EOC) /\ Buffered(marked, w) /\ marked.cached = FatSector(c)
                /\ \A t \in FatSectors : t # FatSector(c) => w[t] = card[t]
                /\ Mirrored(card) => Mirrored(w)
    BY <1>1, <2>1, <2>2, SetQuiet
  <2> HIDE DEF marked
  <2>4. PICK vs1 :
             /\ Trace(card, marked.todo, vs1)
             /\ \A i \in DOMAIN vs1 : vs1[i] = card \/ FatStep(card, vs1[i], c, EOC)
             /\ LET w == End(marked.todo, vs1) IN
                /\ FatStep(card, w, c, EOC) /\ Buffered(marked, w) /\ marked.cached = FatSector(c)
                /\ \A t \in FatSectors : t # FatSector(c) => w[t] = card[t]
                /\ Mirrored(card) => Mirrored(w)
    BY <2>3
  <2> DEFINE u == End(marked.todo, vs1)
  <2>5. Formatted(u) /\ LinksOf(u) = Marked(L, c) /\ PlainOf(u) = PlainOf(card) /\ Buffered(marked, u)
        /\ (Mirrored(card) => Mirrored(u)) /\ \A t \in FatSectors : t # FatSector(c) => u[t] = card[t]
    BY <2>4 DEF FatStep, Marked
  <2>6. \A i \in DOMAIN vs1 : /\ Formatted(vs1[i]) /\ PlainOf(vs1[i]) = PlainOf(card)
                              /\ LinksOf(vs1[i]) \in {L, Marked(L, c)}
    BY <2>4 DEF FatStep, Marked
  <2>7. CASE par = 0
    <3>1. n = marked /\ Grown(L, c, par) = Marked(L, c)
      BY <1>3, <1>6, <2>7 DEF Grown
    <3> HIDE DEF u, L
    <3>2. /\ Trace(card, n.todo, vs1)
          /\ \A i \in DOMAIN vs1 :
               /\ Formatted(vs1[i]) /\ PlainOf(vs1[i]) = PlainOf(card)
               /\ LinksOf(vs1[i]) \in {L, Marked(L, c), Grown(L, c, par)}
      BY <2>4, <2>6, <3>1
    <3>3. LET w == End(n.todo, vs1) IN
                   /\ Formatted(w) /\ PlainOf(w) = PlainOf(card) /\ Buffered(n, w)
                   /\ LinksOf(w) = Grown(L, c, par)
                   /\ Mirrored(card) => Mirrored(w)
      BY <2>5, <3>1 DEF u
    <3> QED BY <1>6, <2>3, <3>1, <3>2, <3>3 DEF L
  <2>8. CASE par # 0
    <3>1. n = SetCluster(marked, par, c, TRUE) /\ Grown(L, c, par) = Chained(L, c, par)
      BY <1>3, <1>4, <1>6, <2>8 DEF Grown
    <3>2. ~FetchFails(marked, par, TRUE)
      BY DEF FetchFails
    <3>3. Fresh(marked, u, par)
      <4>1. marked.cached = FatSector(c) /\ FatSector(par) \in FatSectors
        BY <2>4, LinkPlace
      <4> QED BY <2>5, <4>1 DEF Fresh
    <3> HIDE DEF u, L
    <3>4. FetchFat(marked, par, TRUE).buf = u[FatSector(par)]
      <4>1. ASSUME NEW ok \in BOOLEAN, ok
            PROVE  FetchFat(marked, par, ok).buf = u[FatSector(par)]
        <5>1. ~FetchFails(marked, par, ok)
          BY <4>1 DEF FetchFails
        <5> QED BY <2>3, <2>5, <3>3, <5>1, Fetched
      <4> QED BY <4>1
    <3>5. Trace(card, marked.todo, vs1) /\ u = End(marked.todo, vs1)
      BY <2>4 DEF u
    <3>6. SetDone(n, card, vs1, u, par, c)
      BY <1>2, <2>3, <2>5, <3>1, <3>2, <3>4, <3>5, SetTrace
    <3>7. PICK vs2 :
               /\ Trace(card, n.todo, vs2)
               /\ \A i \in DOMAIN vs2 :
                    (i \in DOMAIN vs1 /\ vs2[i] = vs1[i]) \/ FatStep(u, vs2[i], par, c)
               /\ LET w == End(n.todo, vs2) IN
                  /\ FatStep(u, w, par, c) /\ n.buf = w[FatSector(par)]
                  /\ \A t \in FatSectors : t # FatSector(par) => w[t] = u[t]
                  /\ Mirrored(u) => Mirrored(w)
      BY <3>6 DEF SetDone
    <3>8. \A w : FatStep(u, w, par, c) =>
            Formatted(w) /\ PlainOf(w) = PlainOf(card) /\ LinksOf(w) = Grown(L, c, par)
      BY <2>5, <3>1 DEF FatStep, Chained
    <3>9. \A i \in DOMAIN vs2 :
               /\ Formatted(vs2[i]) /\ PlainOf(vs2[i]) = PlainOf(card)
               /\ LinksOf(vs2[i]) \in {L, Marked(L, c), Grown(L, c, par)}
      BY <2>6, <3>7, <3>8
    <3>10. LET w == End(n.todo, vs2) IN
                   /\ Formatted(w) /\ PlainOf(w) = PlainOf(card) /\ Buffered(n, w)
                   /\ LinksOf(w) = Grown(L, c, par)
                   /\ Mirrored(card) => Mirrored(w)
      BY <2>5, <3>6, <3>7, <3>8 DEF Buffered, SetDone
    <3> QED BY <1>6, <3>6, <3>7, <3>9, <3>10 DEF L, SetDone
  <2> QED BY <2>7, <2>8
<1> QED BY <1>5, <1>6
-----------------------------------------------------------------------------
(* Between two steps of a call, and after one.                             *)

Plain(b) ==
  /\ b.kind # "fat"
  /\ b.kind = "dir" =>
       /\ b \in DirContent
       /\ \A i \in 0..(DPS - 1) : b.v[i].attr = "directory" => b.v[i].name \notin Names

PlainStep(v, w, s, b) ==
  /\ Formatted(w) /\ LinksOf(w) = LinksOf(v)
  /\ \A t \in Lba \ FatArea : PlainOf(w)[t] = IF t = s THEN b ELSE PlainOf(v)[t]
  /\ Mirrored(v) => Mirrored(w)
  /\ \A m : Buffered(m, v) => Buffered(m, w)

LEMMA PlainPut ==
  ASSUME NEW v, Formatted(v), NEW s \in Lba \ FatArea, NEW b, Plain(b),
         NEW w, w = Put(v, s, b)
  PROVE  PlainStep(v, w, s, b)
<1>1. v = [t \in Lba |-> v[t]]
  BY DEF Formatted
<1>2. w = [t \in Lba |-> w[t]] /\ \A t \in Lba : w[t] = IF t = s THEN b ELSE v[t]
  BY <1>1 DEF Put
<1>3. \A t \in FatArea : w[t] = v[t]
  BY <1>2, Areas
<1>4. Formatted(w)
  <2>1. ASSUME NEW t \in Lba
        PROVE  /\ w[t].kind = "fat" => w[t] \in FatContent
               /\ w[t].kind = "dir" =>
                    /\ w[t] \in DirContent
                    /\ \A i \in 0..(DPS - 1) :
                         w[t].v[i].attr = "directory" => w[t].v[i].name \notin Names
    <3>1. CASE t = s
      BY <1>2, <3>1 DEF Plain
    <3>2. CASE t # s
      <4>1. w[t] = v[t]
        BY <1>2, <3>2
      <4> QED BY <4>1 DEF Formatted
    <3> QED BY <3>1, <3>2
  <2>2. \A t \in FatArea : w[t].kind = "fat"
    BY <1>3, FatTyped
  <2> QED BY <1>2, <2>1, <2>2 DEF Formatted
<1>5. LinksOf(w) = LinksOf(v)
  <2>1. \A c \in Links : w[FatSector(c)].v[FatIndex(c)] = v[FatSector(c)].v[FatIndex(c)]
    BY <1>3, LinkPlace, Areas
  <2> QED BY <2>1 DEF LinksOf
<1>6. \A t \in Lba \ FatArea : PlainOf(w)[t] = IF t = s THEN b ELSE PlainOf(v)[t]
  BY <1>2 DEF PlainOf
<1>7. PlainOf(w) = [PlainOf(v) EXCEPT ![s] = b]
  BY <1>6 DEF PlainOf
<1>8. Mirrored(v) => Mirrored(w)
  BY <1>3, CopyPlace, Areas DEF Mirrored
<1>9. \A m : Buffered(m, v) => Buffered(m, w)
  BY <1>3, Areas DEF Buffered
<1> QED BY <1>4, <1>5, <1>6, <1>7, <1>8, <1>9 DEF PlainStep

LEMMA WriteTrace ==
  ASSUME NEW v, NEW s \in Lba, NEW b, NEW ws, ws = <<[lba |-> s, b |-> b, left |-> 0]>>,
         NEW w, w = [v EXCEPT ![s] = b]
  PROVE  \E vs2 : Trace(v, ws, vs2) /\ End(ws, vs2) = w /\ \A i \in DOMAIN vs2 : vs2[i] \in {v, w}
<1> DEFINE vs2 == [i \in 1..2 |-> IF i = 1 THEN v ELSE w]
<1>1. Len(ws) = 1 /\ ws[1].lba = s /\ ws[1].b = b
  OBVIOUS
<1>2. DOMAIN vs2 = 1..2 /\ vs2[1] = v /\ vs2[2] = w
  OBVIOUS
<1>3. \A i \in DOMAIN vs2 : vs2[i] \in {v, w}
  OBVIOUS
<1> HIDE DEF vs2
<1>4. \A i \in 1..1 : i = 1
  OBVIOUS
<1>5. Trace(v, ws, vs2)
  <2>1. \A i \in 1..Len(ws) : ws[i].lba \in Lba /\ vs2[i + 1] = [vs2[i] EXCEPT ![ws[i].lba] = ws[i].b]
    BY <1>1, <1>2, <1>4
  <2>2. DOMAIN vs2 = 1..(Len(ws) + 1)
    BY <1>1, <1>2
  <2> QED BY <1>2, <2>1, <2>2 DEF Trace
<1>6. End(ws, vs2) = w
  BY <1>1, <1>2 DEF End
<1> QED BY <1>3, <1>5, <1>6

(* What holds while nothing is on its way: vs is the card alone.           *)
QuietAt(D, own, pos) ==
  /\ Good(card, D, own, pos, Victim, torn, kept) /\ Alike(card, call, file)
  /\ AtEnd(card, D, own, pos) /\ Loading /\ Kicked /\ Unmounted

LEMMA Rested ==
  ASSUME NEW D, NEW own, NEW pos, NEW vs, Certified(D, own, pos, vs), io.todo = <<>>
  PROVE  QuietAt(D, own, pos)
<1>1. Len(<<>>) = 0 /\ 1 \in 1..1
  OBVIOUS
<1>2. End(io.todo, vs) = vs[1] /\ vs[1] = card /\ 1 \in DOMAIN vs
  BY <1>1 DEF Certified, Trace, End
<1>3. Good(card, D, own, pos, Victim, torn, kept) /\ Alike(card, call, file)
  BY <1>2 DEF Certified
<1>4. AtEnd(card, D, own, pos)
  BY <1>2 DEF Certified
<1> QED BY <1>3, <1>4 DEF Certified, QuietAt

LEMMA Settled ==
  ASSUME NEW D, NEW own, NEW pos, NEW vs, Trace(card', io'.todo, vs),
         \A i \in DOMAIN vs :
           Good(vs[i], D, own, pos, Victim', torn', kept') /\ Alike(vs[i], call', file'),
         NEW w, w = End(io'.todo, vs), AtEnd(w, D, own, pos)', Loading', Kicked', Unmounted'
  PROVE  Certified(D, own, pos, vs)'
<1>1. AtEnd(End(io.todo, vs), D, own, pos)'
  BY DEF AtEnd
<1> QED BY <1>1 DEF Certified

LEMMA Still ==
  ASSUME NEW D, NEW own, NEW pos, QuietAt(D, own, pos)', io'.todo = <<>>
  PROVE  \E vs : Certified(D, own, pos, vs)'
<1>1. PICK w : w = card'
  OBVIOUS
<1>2. AtEnd(w, D, own, pos)'
  BY <1>1 DEF QuietAt, AtEnd
<1>3. Good(w, D, own, pos, Victim', torn', kept') /\ Alike(w, call', file')
  BY <1>1 DEF QuietAt
<1>4. PICK vs : vs = [i \in 1..1 |-> w]
  OBVIOUS
<1>5. Trace(card', io'.todo, vs)
  BY <1>1, <1>4, TraceNil
<1>6. Len(<<>>) = 0
  OBVIOUS
<1>7. w = End(io'.todo, vs) /\ \A i \in DOMAIN vs : vs[i] = w
  BY <1>4, <1>6 DEF End
<1>8. \A i \in DOMAIN vs :
        Good(vs[i], D, own, pos, Victim', torn', kept') /\ Alike(vs[i], call', file')
  BY <1>3, <1>7
<1>9. Loading' /\ Kicked' /\ Unmounted'
  BY DEF QuietAt
<1>10. Certified(D, own, pos, vs)'
  BY <1>2, <1>5, <1>7, <1>8, <1>9, Settled
<1> QED BY <1>10

LEMMA SoundFat ==
  ASSUME NEW L, NEW L2, NEW R, NEW D, NEW own, NEW pos, NEW own2, NEW pos2, NEW S, NEW gone, NEW relied,
         Sound(L, R, D, own, pos, S, gone, relied),
         SameDir(D, L, L2, pos, pos2), ChainsOK(L2, D, own2, pos2),
         FilesOK(L2, R, D, own2, pos2, S)
  PROVE  Sound(L2, R, D, own2, pos2, S, gone, relied) /\ SameOrder(L, L2, D)
<1>1. DirectoryOK(L, R, D, pos) /\ LongNamesOK(L, R, D)
  BY DEF Sound, Layout
<1>2. \A c \in D : L2[c] = L[c] /\ pos2[c] = pos[c]
  BY DEF SameDir
<1>3. /\ DirectoryOK(L2, R, D, pos2) /\ LongNamesOK(L2, R, D)
      /\ \A p, q : Follows(L2, D, p, q) <=> Follows(L, D, p, q)
  BY <1>1, <1>2, DirFrame
<1> QED BY <1>3 DEF Sound, Layout, SameOrder

(* A file that is open, when links change but not its slot.                *)
LEMMA HandleFat ==
  ASSUME NEW L, NEW L2, NEW R, NEW D, NEW own, NEW pos, NEW own2, NEW pos2, NEW f,
         HandleOK(L, R, D, own, pos, f), SameOrder(L, L2, D),
         FileOK(L2, R, D, own2, pos2, SlotOf(f), f.first, f.size, f.name),
         ~f.eof /\ f.cluster # 0 =>
           /\ own2[f.cluster] = own[f.cluster] /\ pos2[f.cluster] = pos[f.cluster]
           /\ f.cluster # f.first => Linked(L2, D, f.cluster)
  PROVE  HandleOK(L2, R, D, own2, pos2, f)
BY DEF HandleOK, SameOrder

LEMMA SearchFat ==
  ASSUME NEW L, NEW L2, NEW R, NEW D, NEW pos, NEW pos2, NEW k, Searching(L, R, D, pos, k),
         SameDir(D, L, L2, pos, pos2), SameOrder(L, L2, D)
  PROVE  Searching(L2, R, D, pos2, k)
BY DEF Searching, Upcoming, Ahead, SameDir, SameOrder
-----------------------------------------------------------------------------
(* What the steps of a call start from, and what they have to show.        *)

LEMMA Parts ==
  ASSUME NEW D, NEW own, NEW pos, QuietAt(D, own, pos),
         NEW L, L = LinksOf(card), NEW R, R = PlainOf(card)
  PROVE  /\ Formatted(card) /\ L \in [Links -> Link]
         /\ Sound(L, R, D, own, pos, Counting(R, Victim, torn), torn, kept)
         /\ DirectoryOK(L, R, D, pos) /\ LongNamesOK(L, R, D) /\ ChainsOK(L, D, own, pos)
         /\ FilesOK(L, R, D, own, pos, Counting(R, Victim, torn))
         /\ NamesOK(R, Counting(R, Victim, torn))
         /\ KeptOK(R, Counting(R, Victim, torn), torn, kept)
         /\ Alike(card, call, file)
         /\ Handles(L, R, D, own, pos, call, file) /\ Searching(L, R, D, pos, call)
         /\ Calling(L, R, D, own, call, file, torn, kept) /\ (Watching => Buffered(io, card))
         /\ crashes = 0 => torn = {} /\ NoneLost(card, L, R, D, call, file)
         /\ Loading /\ Kicked /\ Unmounted
<1>1. Formatted(card) /\ Sound(L, R, D, own, pos, Counting(R, Victim, torn), torn, kept)
  BY DEF QuietAt, Good
<1>2. L \in [Links -> Link]
  BY <1>1, VolumeTypes
<1>3. AtEnd(card, D, own, pos)
  BY DEF QuietAt
<1>4. /\ Handles(L, R, D, own, pos, call, file) /\ Searching(L, R, D, pos, call)
      /\ Calling(L, R, D, own, call, file, torn, kept) /\ (Watching => Buffered(io, card))
      /\ crashes = 0 => torn = {} /\ NoneLost(card, L, R, D, call, file)
  BY <1>3 DEF AtEnd
<1> QED BY <1>1, <1>2, <1>4 DEF QuietAt, Sound, Layout

(* Somebody may look while nothing runs, or a call that has not read its   *)
(* last sector.                                                            *)
LEMMA Watched ==
  ASSUME NEW D, NEW own, NEW pos, QuietAt(D, own, pos),
         Idle \/ (call.fn # "none" /\ ~LastRead)
  PROVE  Buffered(io, card)
<1>1. Kicked /\ (Watching => Buffered(io, card)) /\ call.step \in Steps(call.fn)
  BY DEF QuietAt, AtEnd, Calling
<1>2. CASE Idle
  <2>1. call.step = "none" /\ kick = "none"
    BY <1>1, <1>2 DEF Idle, Steps
  <2> QED BY <1>1, <2>1 DEF Watching, LastRead
<1>3. CASE call.fn # "none" /\ ~LastRead
  BY <1>1, <1>3 DEF Kicked, Watching
<1> QED BY <1>2, <1>3

LEMMA AtEndThen ==
  ASSUME NEW D, NEW own, NEW pos, NEW w, NEW L, L = LinksOf(w), NEW R, R = PlainOf(w),
         Handles(L, R, D, own, pos, call', file'), Searching(L, R, D, pos, call'),
         Calling(L, R, D, own, call', file', torn', kept'), Watching' => Buffered(io', w),
         crashes' = 0 => torn' = {} /\ NoneLost(w, L, R, D, call', file')
  PROVE  AtEnd(w, D, own, pos)'
BY DEF AtEnd

(* A step that writes nothing.                                             *)
LEMMA StillThen ==
  ASSUME NEW D, NEW own, NEW pos, NEW L, L = LinksOf(card), NEW R, R = PlainOf(card),
         card' = card, torn' = torn, crashes' = crashes, io'.todo = <<>>,
         Formatted(card), Sound(L, R, D, own, pos, Counting(R, Victim', torn), torn, kept'),
         Alike(card, call', file'),
         Handles(L, R, D, own, pos, call', file'), Searching(L, R, D, pos, call'),
         Calling(L, R, D, own, call', file', torn, kept'), Watching' => Buffered(io', card),
         crashes = 0 => torn = {} /\ NoneLost(card, L, R, D, call', file'),
         Loading', Kicked', Unmounted'
  PROVE  \E own2, pos2, vs : Certified(D, own2, pos2, vs)'
<1>1. PICK w : w = card
  OBVIOUS
<1>2. AtEnd(w, D, own, pos)'
  BY <1>1, AtEndThen
<1>3. AtEnd(card, D, own, pos)'
  BY <1>1, <1>2 DEF AtEnd
<1>4. Good(w, D, own, pos, Victim', torn', kept') /\ Alike(w, call', file')
  BY <1>1 DEF Good
<1>5. Good(card, D, own, pos, Victim, torn, kept)' /\ Alike(card, call, file)'
  BY <1>1, <1>4
<1>6. QuietAt(D, own, pos)'
  BY <1>3, <1>5 DEF QuietAt
<1> QED BY <1>6, Still

(* A step that writes: every volume on the way is sound.                   *)
LEMMA WritingThen ==
  ASSUME NEW D, NEW own, NEW pos, NEW vs, Trace(card, io'.todo, vs), card' = card,
         \A i \in DOMAIN vs :
           Good(vs[i], D, own, pos, Victim', torn', kept') /\ Alike(vs[i], call', file'),
         NEW w, w = End(io'.todo, vs), NEW L, L = LinksOf(w), NEW R, R = PlainOf(w),
         Handles(L, R, D, own, pos, call', file'), Searching(L, R, D, pos, call'),
         Calling(L, R, D, own, call', file', torn', kept'), Buffered(io', w),
         crashes' = 0 => torn' = {} /\ NoneLost(w, L, R, D, call', file'),
         Loading', Kicked', Unmounted'
  PROVE  \E own2, pos2, vs2 : Certified(D, own2, pos2, vs2)'
<1>1. AtEnd(w, D, own, pos)'
  BY AtEndThen
<1>2. Certified(D, own, pos, vs)'
  BY <1>1, Settled
<1> QED BY <1>2

LEMMA CallOver ==
  ASSUME NEW k, k.fn = "none", k.step = "none", NEW L, NEW R, NEW D, NEW own, NEW pos,
         NEW F, NEW gone, NEW relied, NEW v
  PROVE  /\ Searching(L, R, D, pos, k) /\ Calling(L, R, D, own, k, F, gone, relied)
         /\ ~Holding(k) /\ VictimOf(k, F) = Nobody /\ Alike(v, k, F)
BY DEF Searching, Calling, Steps, Looking, Held, Holding, Deleting, VictimOf, Alike

LEMMA SearchBegins ==
  ASSUME NEW L, NEW R, NEW D, NEW pos, DirectoryOK(L, R, D, pos), NEW k,
         k.index = 0, k.sector = root_directory_start, k.chain = root_directory_cluster,
         k.longname = NoName
  PROVE  Searching(L, R, D, pos, k)
<1>1. /\ root_directory_cluster \in D /\ DirBase(root_directory_cluster) = root_directory_start
      /\ pos[root_directory_cluster] = 0 /\ DirBase(root_directory_cluster) \in Nat
      /\ DPS \in Nat /\ DPS > 0 /\ DIR_SECTORS \in Nat /\ DPS * 0 = 0
  <2>1. DirBase(root_directory_cluster) = root_directory_start
    BY DEF DirBase, root_directory_cluster, root_directory_start
  <2>2. root_directory_cluster \in D /\ pos[root_directory_cluster] = 0
    BY DirTypes DEF DirectoryOK
  <2>3. DirBase(root_directory_cluster) \in Nat
    BY <2>2, DirTypes
  <2>4. DPS \in Nat /\ DPS > 0 /\ DIR_SECTORS \in Nat
    BY ConstantTypes
  <2>5. \A n \in Nat : n * 0 = 0
    OBVIOUS
  <2> QED BY <2>1, <2>2, <2>3, <2>4, <2>5
<1>2. k.index = DPS * 0 /\ k.sector = DirBase(k.chain) + 0 /\ 0 \in 0..DIR_SECTORS
  BY <1>1
<1>3. ASSUME NEW q \in DirSlots(R), Upcoming(L, D, k, q), NEW p \in DirSlots(R), Follows(L, D, p, q)
      PROVE  FALSE
  <2>1. /\ q[1] \in DirSectors(R) /\ p[2] \in Nat /\ p[1] \in Nat /\ q[2] = 0
    BY <1>3, SlotTypes DEF Upcoming
  <2>2. PICK c \in D, j \in 0..(DIR_SECTORS - 1) : q[1] = DirBase(c) + j
    BY <2>1, DirPlace
  <2>3. DIR_SECTORS > 0 /\ 0 \in 0..(DIR_SECTORS - 1)
    BY <1>1, <2>2
  <2>4. DPS * DIR_SECTORS # 0
    BY <1>1, <2>3, Z3
  <2>5. q[1] = DirBase(root_directory_cluster) + 0
    BY <1>1, <1>3, <2>4 DEF Upcoming, dir_entries
  <2>6. CASE \E d \in D, i \in 0..(DIR_SECTORS - 2) : p[1] = DirBase(d) + i /\ q[1] = p[1] + 1
    <3>1. PICK d \in D, i \in 0..(DIR_SECTORS - 2) : p[1] = DirBase(d) + i /\ q[1] = p[1] + 1
      BY <2>6
    <3>2. i + 1 \in 0..(DIR_SECTORS - 1) /\ i + 1 # 0 /\ q[1] = DirBase(d) + (i + 1)
      BY <1>1, <3>1, DirTypes
    <3> QED BY <1>1, <2>3, <2>5, <3>2, DirUnique
  <2>7. CASE \E d \in D : L[d] \in D /\ q[1] = DirBase(L[d])
    <3>1. PICK d \in D : L[d] \in D /\ q[1] = DirBase(L[d])
      BY <2>7
    <3>2. q[1] = DirBase(L[d]) + 0
      BY <3>1, DirTypes
    <3>3. L[d] = root_directory_cluster
      BY <1>1, <2>3, <2>5, <3>1, <3>2, DirUnique
    <3> QED BY <3>1, <3>3, DirTypes DEF DirectoryOK
  <2> QED BY <1>3, <2>1, <2>6, <2>7 DEF Follows
<1>4. Ahead(R, D, pos, k)
  <2>1. ASSUME NEW p \in FileSlots(R)
        PROVE  \E c \in D, j \in 0..(DIR_SECTORS - 1) :
                 /\ p[1] = DirBase(c) + j
                 /\ pos[c] > pos[k.chain] \/ (c = k.chain /\ k.index <= DPS * j)
    <3>1. p[1] \in DirSectors(R)
      BY SlotTypes DEF FileSlots
    <3>2. PICK c \in D, j \in 0..(DIR_SECTORS - 1) : p[1] = DirBase(c) + j
      BY <3>1, DirPlace
    <3>3. pos[c] \in Nat /\ (pos[c] = 0 => c = root_directory_cluster)
      BY <1>1, DirTypes DEF DirectoryOK
    <3>4. DPS * j \in Nat
      BY <1>1, Z3
    <3>5. pos[c] > 0 \/ (c = root_directory_cluster /\ 0 <= DPS * j)
      BY <3>3, <3>4
    <3> QED BY <1>1, <3>2, <3>5
  <2> QED BY <2>1 DEF Ahead
<1> QED BY <1>1, <1>2, <1>3, <1>4 DEF Searching
-----------------------------------------------------------------------------
(* The steps that write nothing.                                           *)

LEMMA Calm ==
  ASSUME TypeInv, NEW D, NEW own, NEW pos, QuietAt(D, own, pos), Idle
  PROVE  /\ call.fn = "none" /\ Victim = Nobody /\ ~Holding(call) /\ image = <<>> /\ kick = "none"
         /\ call.step = "none" /\ io.todo = <<>> /\ \A v : Alike(v, call, file)
<1>1. call.fn = "none" /\ io.todo = <<>> /\ kick = "none"
  BY DEF Idle
<1>2. image = <<>>
  BY <1>1 DEF QuietAt, Loading
<1>3. call.step = "none"
  BY <1>1 DEF QuietAt, AtEnd, Calling, Steps
<1> QED BY <1>1, <1>2, <1>3 DEF Victim, VictimOf, Holding, Alike

(* A call begins, or has come to its end.                                  *)
LEMMA HandlesKept ==
  ASSUME NEW L, NEW R, NEW D, NEW own, NEW pos, NEW k, NEW k2, NEW F,
         Handles(L, R, D, own, pos, k, F), k.fn # "delete"
  PROVE  Handles(L, R, D, own, pos, k2, F)
BY DEF Handles

LEMMA NoneLostKept ==
  ASSUME NEW v, NEW L, NEW R, NEW D, NEW k, NEW k2, NEW F, NEW F2, NoneLost(v, L, R, D, k, F),
         ~Holding(k), VictimOf(k, F) = VictimOf(k2, F2)
  PROVE  NoneLost(v, L, R, D, k2, F2)
BY DEF NoneLost

LEMMA MountStill ==
  ASSUME TypeInv, NEW D, NEW own, NEW pos, QuietAt(D, own, pos), Mount
  PROVE  \E own2, pos2, vs : Certified(D, own2, pos2, vs)'
<1> DEFINE L == LinksOf(card)  R == PlainOf(card)
<1>1. Formatted(card) /\ Sound(L, R, D, own, pos, Counting(R, Victim, torn), torn, kept)
  BY Parts
<1>2. /\ Alike(card, call, file) /\ Handles(L, R, D, own, pos, call, file)
      /\ Searching(L, R, D, pos, call) /\ Calling(L, R, D, own, call, file, torn, kept)
      /\ crashes = 0 => torn = {} /\ NoneLost(card, L, R, D, call, file)
      /\ Loading /\ Kicked /\ Unmounted
  BY Parts
<1> HIDE DEF L, R
<1>3. /\ card' = card /\ call' = call /\ file' = file /\ image' = image /\ kick' = kick
      /\ kept' = kept /\ torn' = torn /\ crashes' = crashes
      /\ ~mounted /\ io.todo = <<>> /\ call.fn = "none"
  BY DEF Mount
<1>4. io'.todo = io.todo /\ io'.cached = io.cached
  BY DEF Mount, TypeInv, IoType
<1>5. io.cached = None
  BY <1>2, <1>3 DEF Unmounted
<1>6. Buffered(io', card)
  BY <1>4, <1>5, Areas DEF Buffered, None
<1>7. Victim' = Victim
  BY <1>3 DEF Victim, VictimOf
<1>8. Loading'
  BY <1>2, <1>3 DEF Loading
<1>9. Kicked'
  <2>1. call.name \notin Names
    <3>1. call = NoCall
      BY <1>2, <1>3 DEF Unmounted
    <3> QED BY <3>1, ConstantTypes, VolumesAssumption DEF NoCall, NoName
  <2> QED BY <1>3, <1>4, <2>1 DEF Kicked, RomTrue
<1>10. Unmounted'
  BY <1>2, <1>3, <1>4 DEF Unmounted
<1>11. L = LinksOf(card) /\ R = PlainOf(card)
  BY DEF L, R
<1>12. io'.todo = <<>>
  BY <1>3, <1>4
<1>13. Sound(L, R, D, own, pos, Counting(R, Victim', torn), torn, kept')
  BY <1>1, <1>3, <1>7
<1> QED
  BY <1>1, <1>2, <1>3, <1>6, <1>8, <1>9, <1>10, <1>11, <1>12, <1>13, StillThen

(* FileOpen, FileCreate and LoadROM begin a search.                        *)
LEMMA BeginStill ==
  ASSUME TypeInv, NEW D, NEW own, NEW pos, QuietAt(D, own, pos), Idle, mounted,
         NEW h \in Names, NEW n \in Names, NEW fn \in {"open", "create", "load"},
         Begin(fn, "scan", h, n), ~file[h].open, \A g \in Names : ~(file[g].open /\ file[g].name = n),
         fn # "create" => n \notin torn, fn = "load" => \A g \in Names : ~file[g].open,
         UnchangedRest, UNCHANGED <<kick, io, file, image, kept, faults>>
  PROVE  \E own2, pos2, vs : Certified(D, own2, pos2, vs)'
<1> DEFINE L == LinksOf(card)  R == PlainOf(card)
<1>1. /\ Formatted(card) /\ Sound(L, R, D, own, pos, Counting(R, Victim, torn), torn, kept)
      /\ DirectoryOK(L, R, D, pos) /\ Handles(L, R, D, own, pos, call, file) /\ Buffered(io, card)
      /\ crashes = 0 => torn = {} /\ NoneLost(card, L, R, D, call, file)
      /\ Loading /\ Kicked /\ Unmounted
  BY Parts, Watched
<1>0. L = LinksOf(card) /\ R = PlainOf(card)
  OBVIOUS
<1> HIDE DEF L, R
<1>2. /\ call.fn = "none" /\ Victim = Nobody /\ ~Holding(call) /\ image = <<>> /\ kick = "none"
      /\ io.todo = <<>>
  BY Calm
<1>3. /\ card' = card /\ io' = io /\ file' = file /\ image' = image /\ kick' = kick
      /\ kept' = kept /\ torn' = torn /\ crashes' = crashes /\ mounted' = mounted
  BY DEF UnchangedRest
<1>4. /\ call'.fn = fn /\ call'.step = "scan" /\ call'.h = h /\ call'.name = n
      /\ call'.index = 0 /\ call'.sector = root_directory_start
      /\ call'.chain = root_directory_cluster /\ call'.longname = NoName
  BY BeginTyped DEF TypeInv
<1>5. Searching(L, R, D, pos, call')
  BY <1>1, <1>4, SearchBegins
<1>6. VictimOf(call', file') = Nobody /\ ~Holding(call') /\ VictimOf(call, file) = Nobody
      /\ Alike(card, call', file')
  BY <1>2, <1>4 DEF VictimOf, Holding, Alike, Victim
<1>7. Calling(L, R, D, own, call', file', torn, kept')
  <2>1. call'.step \in Steps(call'.fn) /\ Held(L, D, own, call', file') /\ Deleting(R, call', file', kept')
    BY <1>4, <1>6 DEF Steps, Held, Deleting
  <2>2. Looking(call', file', torn)
    BY <1>3, <1>4 DEF Looking
  <2> QED BY <1>4, <2>1, <2>2 DEF Calling
<1>8. Handles(L, R, D, own, pos, call', file')
  BY <1>1, <1>2, <1>3, HandlesKept
<1>9. crashes = 0 => torn = {} /\ NoneLost(card, L, R, D, call', file')
  BY <1>1, <1>2, <1>6, NoneLostKept
<1>10. Loading'
  BY <1>2, <1>3, <1>4 DEF Loading
<1>11. Kicked' /\ Unmounted'
  BY <1>2, <1>3 DEF Kicked, Unmounted
<1>12. Sound(L, R, D, own, pos, Counting(R, Victim', torn), torn, kept')
  BY <1>1, <1>2, <1>3, <1>6 DEF Victim
<1>13. io'.todo = <<>> /\ Buffered(io', card)
  BY <1>1, <1>2, <1>3
<1> QED
  BY <1>0, <1>1, <1>3, <1>5, <1>6, <1>7, <1>8, <1>9, <1>10, <1>11, <1>12, <1>13, StillThen

LEMMA OpenStill ==
  ASSUME TypeInv, NEW D, NEW own, NEW pos, QuietAt(D, own, pos), NEW h \in Names, NEW n \in Names,
         FileOpen(h, n) \/ FileCreate(h, n)
  PROVE  \E own2, pos2, vs : Certified(D, own2, pos2, vs)'
<1>1. CASE FileOpen(h, n)
  BY <1>1, BeginStill DEF FileOpen, Ready, Unused
<1>2. CASE FileCreate(h, n)
  BY <1>2, BeginStill DEF FileCreate, Ready, Unused
<1> QED BY <1>1, <1>2

LEMMA LoadStill ==
  ASSUME TypeInv, NEW D, NEW own, NEW pos, QuietAt(D, own, pos), NEW n \in Names, LoadROM(n)
  PROVE  \E own2, pos2, vs : Certified(D, own2, pos2, vs)'
<1>1. CASE mounted
  BY <1>1, BeginStill DEF LoadROM
<1>2. CASE ~mounted
  <2> DEFINE L == LinksOf(card)  R == PlainOf(card)
  <2>1. /\ Formatted(card) /\ Sound(L, R, D, own, pos, Counting(R, Victim, torn), torn, kept)
        /\ Alike(card, call, file) /\ Handles(L, R, D, own, pos, call, file)
        /\ Searching(L, R, D, pos, call) /\ Calling(L, R, D, own, call, file, torn, kept)
        /\ Buffered(io, card)
        /\ crashes = 0 => torn = {} /\ NoneLost(card, L, R, D, call, file)
        /\ Loading /\ Kicked /\ Unmounted
    BY Parts, Watched DEF LoadROM
  <2>0. L = LinksOf(card) /\ R = PlainOf(card)
    OBVIOUS
  <2> HIDE DEF L, R
  <2>2. /\ card' = card /\ io' = io /\ file' = file /\ image' = image /\ call' = call /\ kick' = "stock"
        /\ kept' = kept /\ torn' = torn /\ crashes' = crashes /\ mounted' = mounted
    BY <1>2 DEF LoadROM, UnchangedRest
  <2>3. call = NoCall /\ io.todo = <<>>
    BY <1>2, <2>1 DEF Unmounted
  <2>4. call.fn = "none" /\ call.name \notin Names
    BY <2>3, VolumesAssumption DEF NoCall, NoName
  <2>5. Loading'
    BY <2>1, <2>2, <2>4 DEF Loading
  <2>6. Kicked'
    BY <2>2, <2>3, <2>4 DEF Kicked, RomTrue
  <2>7. Unmounted'
    BY <2>1, <2>2 DEF Unmounted
  <2>8. Victim' = Victim
    BY <2>2 DEF Victim, VictimOf
  <2>9. Sound(L, R, D, own, pos, Counting(R, Victim', torn), torn, kept')
    BY <2>1, <2>2, <2>8
  <2>10. /\ io'.todo = <<>> /\ Buffered(io', card) /\ Alike(card, call', file')
         /\ Handles(L, R, D, own, pos, call', file') /\ Searching(L, R, D, pos, call')
         /\ Calling(L, R, D, own, call', file', torn, kept')
         /\ crashes = 0 => torn = {} /\ NoneLost(card, L, R, D, call', file')
    BY <2>1, <2>2, <2>3
  <2> QED BY <2>0, <2>1, <2>2, <2>5, <2>6, <2>7, <2>9, <2>10, StillThen
<1> QED BY <1>1, <1>2
LEMMA SlotIs ==
  ASSUME NEW L, NEW R, NEW D, NEW own, NEW pos, NEW f, HandleOK(L, R, D, own, pos, f), f.name \in Names
  PROVE  /\ SlotOf(f) \in FileSlots(R) /\ SlotOf(f) # Nobody /\ Ent(R, SlotOf(f)).name = f.name
         /\ Ent(R, SlotOf(f)).first = f.first
BY SlotTypes, VolumesAssumption DEF HandleOK, FileSlots

LEMMA DeleteStill ==
  ASSUME TypeInv, NEW D, NEW own, NEW pos, QuietAt(D, own, pos), NEW h \in Names, FileDelete(h)
  PROVE  \E own2, pos2, vs : Certified(D, own2, pos2, vs)'
<1> DEFINE L == LinksOf(card)  R == PlainOf(card)
<1>1. /\ Formatted(card) /\ Sound(L, R, D, own, pos, Counting(R, Victim, torn), torn, kept)
      /\ ChainsOK(L, D, own, pos) /\ Handles(L, R, D, own, pos, call, file) /\ Buffered(io, card)
      /\ crashes = 0 => torn = {} /\ NoneLost(card, L, R, D, call, file)
      /\ Loading /\ Kicked /\ Unmounted
  BY Parts, Watched DEF FileDelete, Ready
<1>0. L = LinksOf(card) /\ R = PlainOf(card)
  OBVIOUS
<1> HIDE DEF L, R
<1>2. /\ call.fn = "none" /\ Victim = Nobody /\ ~Holding(call) /\ image = <<>> /\ kick = "none"
      /\ io.todo = <<>> /\ file[h].open /\ mounted
  BY Calm DEF FileDelete, Ready
<1>3. /\ card' = card /\ io' = io /\ file' = file /\ image' = image /\ kick' = kick
      /\ torn' = torn /\ crashes' = crashes /\ mounted' = mounted
      /\ kept' = [kept EXCEPT ![file[h].name] = -1]
  BY DEF FileDelete, UnchangedRest
<1>4. PICK f : f = file[h]
  OBVIOUS
<1>5. /\ call'.fn = "delete" /\ call'.h = h /\ call'.name = f.name /\ call'.cluster = f.first
      /\ call'.step = IF f.first = 0 THEN "unlink" ELSE "release"
  BY <1>4 DEF FileDelete, NoCall
<1>6. f.name \in Names /\ kept \in [Names -> -1..MaxSectors]
  BY <1>2, <1>4 DEF TypeInv, FileTyped, RestTyped
<1>7. HandleOK(L, R, D, own, pos, f)
  BY <1>1, <1>2, <1>4 DEF Handles
<1>8. PICK p : p = SlotOf(f)
  OBVIOUS
<1>9. /\ p \in FileSlots(R) /\ p # Nobody /\ Ent(R, p).name = f.name /\ Ent(R, p).first = f.first
      /\ p \in DirSlots(R) /\ Ent(R, p).attr \in {"normal", "archive"}
      /\ FileOK(L, R, D, own, pos, p, f.first, f.size, f.name)
  BY <1>6, <1>7, <1>8, SlotIs DEF HandleOK
<1>10. VictimOf(call', file') = p /\ Victim' = p /\ VictimOf(call, file) = Nobody
  BY <1>2, <1>3, <1>4, <1>5, <1>8 DEF VictimOf, Victim
<1>11. Sound(L, R, D, own, pos, Counting(R, p, torn), torn, kept')
  <2>1. /\ Counting(R, p, torn) \subseteq Counting(R, Nobody, torn)
        /\ \A q \in Counting(R, Nobody, torn) : q # p => q \in Counting(R, p, torn)
    BY SlotTypes DEF Counting, FileSlots
  <2>2. /\ Layout(L, R, D, own, pos) /\ FilesOK(L, R, D, own, pos, Counting(R, Nobody, torn))
        /\ NamesOK(R, Counting(R, Nobody, torn)) /\ KeptOK(R, Counting(R, Nobody, torn), torn, kept)
    BY <1>1, <1>2 DEF Sound
  <2>3. FilesOK(L, R, D, own, pos, Counting(R, p, torn)) /\ NamesOK(R, Counting(R, p, torn))
    BY <2>1, <2>2 DEF FilesOK, NamesOK
  <2>4. KeptOK(R, Counting(R, p, torn), torn, kept')
    <3>1. ASSUME NEW n \in Names \ torn, kept'[n] # -1
          PROVE  \E q \in Counting(R, p, torn) : Ent(R, q).name = n /\ Ent(R, q).size >= kept'[n]
      <4>1. n # f.name /\ kept'[n] = kept[n]
        BY <1>3, <1>4, <1>6, <3>1
      <4>2. PICK q \in Counting(R, Nobody, torn) : Ent(R, q).name = n /\ Ent(R, q).size >= kept[n]
        BY <2>2, <3>1, <4>1 DEF KeptOK
      <4> QED BY <1>9, <2>1, <4>1, <4>2
    <3> QED BY <3>1 DEF KeptOK
  <2> QED BY <2>2, <2>3, <2>4 DEF Sound
<1>12. Alike(card, call', file')
  BY <1>0, <1>5, <1>9, <1>10 DEF Alike
<1>13. Handles(L, R, D, own, pos, call', file')
  BY <1>1, <1>2, <1>3, HandlesKept
<1>14. Searching(L, R, D, pos, call')
  BY <1>5 DEF Searching
<1>15. f.first # 0 => /\ f.first \in Clusters \ D /\ L[f.first] # 0 /\ own[f.first] = p
                      /\ ~Linked(L, D, f.first)
  <2>1. ASSUME f.first # 0, NEW d \in Clusters \ D, L[d] = f.first PROVE FALSE
    <3>1. f.first \in Clusters \ D /\ pos[f.first] = 0 /\ IsLink(f.first)
      BY <1>9, <2>1, FileFirst, LinkFacts
    <3>2. pos[f.first] = pos[d] + 1 /\ pos[d] \in Nat
      BY <1>1, <2>1, <3>1, ChainAt
    <3> QED BY <3>1, <3>2
  <2> QED BY <1>9, <2>1, FileFirst DEF Linked
<1>16. Calling(L, R, D, own, call', file', torn, kept')
  <2>1. call'.step \in Steps(call'.fn) /\ Looking(call', file', torn)
    BY <1>5 DEF Steps, Looking
  <2>2. Held(L, D, own, call', file')
    BY <1>5, <1>10, <1>15 DEF Held, Holding
  <2>3. Deleting(R, call', file', kept')
    BY <1>3, <1>4, <1>5, <1>6, <1>9, <1>10 DEF Deleting
  <2> QED BY <1>2, <1>3, <1>4, <1>5, <2>1, <2>2, <2>3 DEF Calling
<1>17. crashes = 0 => torn = {} /\ NoneLost(card, L, R, D, call', file')
  <2>1. ASSUME crashes = 0, NEW c \in Clusters \ D,
               \E q \in FileSlots(R) : q # Nobody /\ Ent(R, q).first = c
        PROVE  (Holding(call') /\ c = call'.cluster) \/ \E q \in FileSlots(R) : q # p /\ Ent(R, q).first = c
    <3>1. c # 0
      BY LinkFacts
    <3> QED BY <1>5, <1>9, <2>1, <3>1 DEF Holding
  <2> QED BY <1>1, <1>2, <1>10, <2>1 DEF NoneLost
<1>18. Loading' /\ Kicked' /\ Unmounted'
  BY <1>2, <1>3, <1>5 DEF Loading, Kicked, Unmounted
<1>19. Sound(L, R, D, own, pos, Counting(R, Victim', torn), torn, kept')
  BY <1>10, <1>11
<1>20. io'.todo = <<>> /\ Buffered(io', card)
  BY <1>1, <1>2, <1>3
<1> QED
  BY <1>0, <1>1, <1>3, <1>12, <1>13, <1>14, <1>16, <1>17, <1>18, <1>19, <1>20, StillThen

LEMMA ReturnStill ==
  ASSUME TypeInv, NEW D, NEW own, NEW pos, QuietAt(D, own, pos), Return
  PROVE  \E own2, pos2, vs : Certified(D, own2, pos2, vs)'
<1> DEFINE L == LinksOf(card)  R == PlainOf(card)
<1>1. /\ Formatted(card) /\ Sound(L, R, D, own, pos, Counting(R, Victim, torn), torn, kept)
      /\ Handles(L, R, D, own, pos, call, file) /\ Buffered(io, card)
      /\ Calling(L, R, D, own, call, file, torn, kept)
      /\ crashes = 0 => torn = {} /\ NoneLost(card, L, R, D, call, file)
      /\ Loading /\ Kicked /\ Unmounted
  BY Parts, Watched DEF Return, Running, LastRead
<1>0. L = LinksOf(card) /\ R = PlainOf(card)
  OBVIOUS
<1> HIDE DEF L, R
<1>2. /\ call.fn # "none" /\ call.step = "return" /\ io.todo = <<>>
      /\ card' = card /\ io' = io /\ image' = image /\ kick' = kick
      /\ torn' = torn /\ crashes' = crashes /\ mounted' = mounted
      /\ kept' = IF call.fn = "close" /\ ~file[call.h].dirty
                 THEN [kept EXCEPT ![call.name] = file[call.h].size] ELSE kept
      /\ call' = NoCall /\ file' = [file EXCEPT ![call.h] = NoFile]
  BY DEF Return, Running, UnchangedRest
<1>3. /\ call.fn \in {"delete", "close"} /\ ~Holding(call) /\ call.h \in Names /\ call.name \in Names
      /\ file[call.h].open /\ file[call.h].name = call.name
      /\ file \in [Names -> FileType] /\ kept \in [Names -> -1..MaxSectors]
  BY <1>1, <1>2 DEF Calling, Steps, Holding, TypeInv, CallTyped, CallType, FileTyped, RestTyped
<1>4. kick = "none" /\ mounted /\ image = <<>>
  <2>1. mounted
    BY <1>1, <1>2 DEF Unmounted, NoCall
  <2> QED BY <1>1, <1>2, <1>3, <2>1 DEF Kicked, Loading
<1>5. call'.fn = "none" /\ call'.step = "none"
  BY <1>2 DEF NoCall
<1>6. /\ Searching(L, R, D, pos, call') /\ Calling(L, R, D, own, call', file', torn, kept')
      /\ ~Holding(call') /\ VictimOf(call', file') = Nobody /\ Alike(card, call', file')
      /\ Victim' = Nobody
  BY <1>5, CallOver DEF Victim
<1>7. file'[call.h] = NoFile /\ \A g \in Names : g # call.h => file'[g] = file[g]
  BY <1>2, <1>3
<1>8. ~NoFile.open
  BY DEF NoFile
<1>9. Handles(L, R, D, own, pos, call', file')
  <2>1. ASSUME NEW g \in Names, file'[g].open PROVE g # call.h /\ file'[g] = file[g]
    BY <1>7, <1>8, <2>1
  <2>2. \A g \in Names : file'[g].open => HandleOK(L, R, D, own, pos, file'[g])
    BY <1>1, <1>3, <2>1 DEF Handles
  <2>3. \A g, k \in Names : file'[g].open /\ file'[k].open /\ file'[g].name = file'[k].name => g = k
    BY <1>1, <2>1 DEF Handles
  <2> QED BY <2>2, <2>3 DEF Handles
<1>10. Counting(R, Victim, torn) = Counting(R, Nobody, torn)
  <2>1. CASE call.fn = "delete"
    <3>1. Ent(R, VictimOf(call, file)).name = "deleted"
      BY <1>1, <1>2, <2>1 DEF Calling, Deleting
    <3>2. Victim \notin FileSlots(R)
      BY <3>1 DEF FileSlots, Free, Victim
    <3> QED BY <3>2, SlotTypes DEF Counting, FileSlots
  <2>2. CASE call.fn = "close"
    BY <2>2 DEF Victim, VictimOf
  <2> QED BY <1>3, <2>1, <2>2
<1>11. Sound(L, R, D, own, pos, Counting(R, Victim', torn), torn, kept')
  <2>1. CASE call.fn = "close" /\ ~file[call.h].dirty
    <3>1. PICK f : f = file[call.h]
      OBVIOUS
    <3>2. HandleOK(L, R, D, own, pos, f) /\ f.name \in Names /\ ~f.dirty
      BY <1>1, <1>3, <2>1, <3>1 DEF Handles
    <3>3. PICK p : p = SlotOf(f)
      OBVIOUS
    <3>4. /\ p \in FileSlots(R) /\ p # Nobody /\ Ent(R, p).name = call.name /\ Ent(R, p).size = f.size
      <4>1. Ent(R, p).size = f.size
        BY <3>2, <3>3 DEF HandleOK
      <4>2. f.name = call.name
        BY <1>3, <3>1
      <4> QED BY <3>2, <3>3, <4>1, <4>2, SlotIs
    <3>6. f.size \in Int
      BY <1>3, <3>1 DEF FileType
    <3>5. KeptOK(R, Counting(R, Nobody, torn), torn, kept')
      <4>1. ASSUME NEW n \in Names \ torn, kept'[n] # -1
            PROVE  \E q \in Counting(R, Nobody, torn) : Ent(R, q).name = n /\ Ent(R, q).size >= kept'[n]
        <5>1. CASE n = call.name
          <6>1. p \in Counting(R, Nobody, torn)
            BY <3>4, <4>1, <5>1 DEF Counting
          <6>2. kept'[n] = f.size /\ f.size >= f.size
            BY <1>2, <1>3, <2>1, <3>1, <3>6, <5>1
          <6> QED BY <3>4, <5>1, <6>1, <6>2
        <5>2. CASE n # call.name
          <6>1. kept'[n] = kept[n]
            BY <1>2, <1>3, <2>1, <5>2
          <6> QED BY <1>1, <1>10, <4>1, <6>1 DEF Sound, KeptOK
        <5> QED BY <5>1, <5>2
      <4> QED BY <4>1 DEF KeptOK
    <3> QED BY <1>1, <1>6, <1>10, <3>5 DEF Sound
  <2>2. CASE ~(call.fn = "close" /\ ~file[call.h].dirty)
    BY <1>1, <1>2, <1>6, <1>10, <2>2
  <2> QED BY <2>1, <2>2
<1>12. crashes = 0 => torn = {} /\ NoneLost(card, L, R, D, call', file')
  <2>1. \A p \in FileSlots(R) : p # Nobody
    BY SlotTypes DEF FileSlots
  <2> QED BY <1>1, <1>3, <1>6, <2>1 DEF NoneLost
<1>13. Loading' /\ Kicked' /\ Unmounted'
  BY <1>2, <1>4, <1>5 DEF Loading, Kicked, Unmounted
<1>14. io'.todo = <<>> /\ Buffered(io', card)
  BY <1>1, <1>2
<1> QED
  BY <1>0, <1>1, <1>2, <1>6, <1>9, <1>11, <1>12, <1>13, <1>14, StillThen
(* Where the next sector of an open file is, and what FileNextSector makes *)
(* of the structure.                                                       *)
LEMMA SectorPlace ==
  ASSUME NEW L, NEW R, NEW D, NEW own, NEW pos, DirectoryOK(L, R, D, pos), ChainsOK(L, D, own, pos),
         NEW f \in FileType, HandleOK(L, R, D, own, pos, f), ~f.eof, f.cluster # 0,
         NEW c, c = f.cluster, NEW i, i = f.sector % cluster_size
  PROVE  /\ c \in Clusters \ D /\ own[c] = SlotOf(f) /\ (c = f.first \/ Linked(L, D, c)) /\ f.first # 0
         /\ i \in 0..(cluster_size - 1) /\ SectorLba(f) = ClusterLba(c) + i
         /\ SectorLba(f) \in Lba \ FatArea /\ SectorLba(f) \notin FatSectors
         /\ SectorLba(f) \notin DirSectors(R)
         /\ f.sector = cluster_size * pos[c] + i /\ L[c] # 0
<1>1. f.sector \in Nat
  BY DEF FileType
<1>2. i \in 0..(cluster_size - 1) /\ f.sector = cluster_size * (f.sector \div cluster_size) + i
  BY <1>1, Division
<1>3. /\ c \in Clusters \ D /\ own[c] = SlotOf(f) /\ (c = f.first \/ Linked(L, D, c)) /\ f.first # 0
      /\ pos[c] = f.sector \div cluster_size
  BY DEF HandleOK
<1>4. SectorLba(f) = ClusterLba(c) + i
  BY DEF SectorLba
<1>5. SectorLba(f) \in Lba \ FatArea /\ SectorLba(f) \notin FatSectors
  BY <1>2, <1>3, <1>4, ClusterPlace, Areas
<1>6. SectorLba(f) \notin DirSectors(R)
  BY <1>2, <1>3, <1>4, DirNotFile
<1>7. L[c] # 0
  <2>1. CASE c = f.first
    <3>1. FileOK(L, R, D, own, pos, SlotOf(f), f.first, f.size, f.name)
      BY DEF HandleOK
    <3> QED BY <1>3, <2>1, <3>1, FileFirst
  <2>2. CASE Linked(L, D, c)
    <3>1. PICK d \in Clusters \ D : L[d] = c
      BY <2>2 DEF Linked
    <3>2. IsLink(L[d])
      BY <1>3, <3>1, LinkFacts
    <3> QED BY <3>1, <3>2, ChainAt
  <2> QED BY <1>3, <2>1, <2>2
<1> QED BY <1>2, <1>3, <1>4, <1>5, <1>6, <1>7

LEMMA Step ==
  ASSUME NEW s \in Nat
  PROVE  (s + 1) \div cluster_size =
           (s \div cluster_size) + (IF (s + 1) % cluster_size = 0 THEN 1 ELSE 0)
<1> DEFINE a == s \div cluster_size  i == s % cluster_size
           b == (s + 1) \div cluster_size  j == (s + 1) % cluster_size
<1>1. /\ a \in Nat /\ i \in 0..(cluster_size - 1) /\ s = cluster_size * a + i
      /\ b \in Nat /\ j \in 0..(cluster_size - 1) /\ s + 1 = cluster_size * b + j
  BY Division
<1>2. cluster_size \in Nat /\ cluster_size > 0 /\ cluster_size * a \in Nat /\ cluster_size * b \in Nat
      /\ cluster_size * (a + 1) = cluster_size * a + cluster_size
  BY <1>1, Euclid, ConstantTypes
<1> HIDE DEF a, i, b, j
<1>3. CASE i + 1 < cluster_size
  <2>1. i + 1 \in 0..(cluster_size - 1) /\ cluster_size * a + (i + 1) = cluster_size * b + j
    BY <1>1, <1>2, <1>3
  <2>2. a = b /\ j = i + 1
    BY <1>1, <2>1, Euclid
  <2> QED BY <1>1, <2>2 DEF a, b, j
<1>4. CASE i + 1 = cluster_size
  <2>1. cluster_size * (a + 1) + 0 = cluster_size * b + j /\ a + 1 \in Nat /\ 0 \in 0..(cluster_size - 1)
    BY <1>1, <1>2, <1>4
  <2>2. a + 1 = b /\ j = 0
    BY <1>1, <2>1, Euclid
  <2> QED BY <2>2 DEF a, b, j
<1> QED BY <1>1, <1>2, <1>3, <1>4

LEMMA HandleStepped ==
  ASSUME NEW L, NEW R, NEW D, NEW own, NEW pos, DirectoryOK(L, R, D, pos), ChainsOK(L, D, own, pos),
         NEW f \in FileType, HandleOK(L, R, D, own, pos, f), ~f.eof, f.cluster # 0, f.sector < f.size,
         NEW g, g.name = f.name, g.first = f.first, g.size = f.size, g.rest = f.rest,
         g.dirty = f.dirty, SlotOf(g) = SlotOf(f), g.sector = f.sector + 1,
         g.eof => g.cluster = 0,
         ~g.eof /\ g.cluster # 0 =>
           IF Crosses(f) THEN L[f.cluster] # EOC /\ g.cluster = L[f.cluster]
           ELSE g.cluster = f.cluster
  PROVE  HandleOK(L, R, D, own, pos, g)
<1>1. f.sector \in Nat /\ f.size \in Nat
  BY VolumesAssumption DEF FileType
<1>2. g.sector <= g.size
  BY <1>1
<1>3. PICK c : c = f.cluster
  OBVIOUS
<1>4. /\ c \in Clusters \ D /\ own[c] = SlotOf(f) /\ (c = f.first \/ Linked(L, D, c)) /\ f.first # 0
      /\ L[c] # 0
  BY <1>3, SectorPlace
<1>5. pos[c] = f.sector \div cluster_size
  BY <1>3 DEF HandleOK
<1>6. g.sector \div cluster_size = pos[c] + (IF Crosses(f) THEN 1 ELSE 0)
  BY <1>1, <1>5, Step DEF Crosses
<1>7. ASSUME ~g.eof, g.cluster # 0
      PROVE  /\ g.first # 0 /\ g.cluster \in Clusters \ D /\ own[g.cluster] = SlotOf(g)
             /\ g.cluster = g.first \/ Linked(L, D, g.cluster)
             /\ pos[g.cluster] = g.sector \div cluster_size
  <2>1. CASE Crosses(f)
    <3>1. L[c] # EOC /\ g.cluster = L[c]
      BY <1>3, <1>7, <2>1
    <3>2. IsLink(L[c])
      BY <1>4, <3>1, ChainAt DEF IsLink
    <3>3. L[c] \in Clusters \ D /\ own[L[c]] = own[c] /\ pos[L[c]] = pos[c] + 1
      BY <1>4, <3>2, ChainAt
    <3>4. Linked(L, D, L[c])
      BY <1>4 DEF Linked
    <3> QED BY <1>4, <1>6, <2>1, <3>1, <3>3, <3>4
  <2>2. CASE ~Crosses(f)
    <3>1. g.cluster = c
      BY <1>3, <1>7, <2>2
    <3>2. pos[c] \in Nat
      BY <1>4, ChainAt
    <3> QED BY <1>4, <1>6, <2>2, <3>1, <3>2
  <2> QED BY <2>1, <2>2
<1> QED BY <1>2, <1>7 DEF HandleOK

LEMMA HandlesPut ==
  ASSUME NEW L, NEW R, NEW D, NEW own, NEW pos, NEW k, NEW F, NEW k2, NEW F2, NEW h \in Names, NEW g,
         Handles(L, R, D, own, pos, k, F), k.fn # "delete", k2.fn # "delete",
         \A x \in Names : F2[x] = IF x = h THEN g ELSE F[x],
         g.open => /\ HandleOK(L, R, D, own, pos, g)
                   /\ \A x \in Names : x # h /\ F[x].open => F[x].name # g.name
  PROVE  Handles(L, R, D, own, pos, k2, F2)
BY DEF Handles

LEMMA ReadQuiet ==
  ASSUME CardTyped, NEW m \in IoType, NEW s \in Int, NEW ok \in BOOLEAN, ok
  PROVE  /\ Buffered(ReadSector(m, s, ok), card) /\ ReadSector(m, s, ok).todo = m.todo
         /\ ReadSector(m, s, ok).buf = OnCard(s) /\ ReadSector(m, s, ok) \in IoType
<1>1. PICK r : r = ReadSector(m, s, ok)
  OBVIOUS
<1>2. r \in IoType /\ r.todo = m.todo /\ r.cached = s /\ r.buf = IF ok THEN OnCard(s) ELSE m.buf
  BY <1>1, ReadTyped
<1>3. r.buf = OnCard(s)
  BY <1>2
<1>4. Buffered(r, card)
  BY <1>2, <1>3, Areas DEF Buffered, OnCard
<1> QED BY <1>1, <1>2, <1>3, <1>4

(* A step between two calls that leaves the files and the card alone.      *)
LEMMA SameStill ==
  ASSUME TypeInv, NEW D, NEW own, NEW pos, QuietAt(D, own, pos), Idle, mounted,
         card' = card, torn' = torn, crashes' = crashes, kept' = kept, kick' = kick, image' = image,
         call' = call, mounted' = mounted, io'.todo = <<>>, Buffered(io', card),
         Handles(LinksOf(card), PlainOf(card), D, own, pos, call, file')
  PROVE  \E own2, pos2, vs : Certified(D, own2, pos2, vs)'
<1> DEFINE L == LinksOf(card)  R == PlainOf(card)
<1>1. /\ Formatted(card) /\ Sound(L, R, D, own, pos, Counting(R, Victim, torn), torn, kept)
      /\ crashes = 0 => torn = {} /\ NoneLost(card, L, R, D, call, file)
      /\ Unmounted
  BY Parts
<1>2. /\ call.fn = "none" /\ Victim = Nobody /\ ~Holding(call) /\ image = <<>> /\ kick = "none"
      /\ call.step = "none"
  BY Calm
<1>3. /\ Searching(L, R, D, pos, call') /\ Calling(L, R, D, own, call', file', torn, kept')
      /\ VictimOf(call', file') = Nobody /\ VictimOf(call, file) = Nobody
      /\ Alike(card, call', file') /\ Victim' = Nobody
  BY <1>2, CallOver DEF Victim
<1>4. crashes = 0 => torn = {} /\ NoneLost(card, L, R, D, call', file')
  BY <1>1, <1>2, <1>3, NoneLostKept
<1>5. Loading' /\ Kicked' /\ Unmounted'
  BY <1>2 DEF Loading, Kicked, Unmounted
<1>6. /\ Sound(L, R, D, own, pos, Counting(R, Victim', torn), torn, kept')
      /\ Handles(L, R, D, own, pos, call', file')
  BY <1>1, <1>2, <1>3
<1> HIDE DEF L, R
<1>7. L = LinksOf(card) /\ R = PlainOf(card)
  BY DEF L, R
<1> QED BY <1>1, <1>3, <1>4, <1>5, <1>6, <1>7, StillThen

LEMMA ReadSectorStill ==
  ASSUME TypeInv, NEW D, NEW own, NEW pos, QuietAt(D, own, pos), NEW h \in Names, FileReadSector(h),
         faults' = 0
  PROVE  \E own2, pos2, vs : Certified(D, own2, pos2, vs)'
<1>1. PICK ok \in Oks : Count(~ok) /\ io' = ReadSector(io, SectorLba(file[h]), ok)
  BY DEF FileReadSector
<1>2. ok \in BOOLEAN /\ ok
  BY <1>1, CountTyped DEF Oks, TypeInv, RestTyped
<1>3. SectorLba(file[h]) \in Int /\ CardTyped /\ io \in IoType
  BY SectorTyped DEF TypeInv, FileTyped
<1>4. io.todo = <<>> /\ mounted /\ Idle
  BY DEF FileReadSector, Ready, Idle
<1>5. io'.todo = <<>> /\ Buffered(io', card)
  BY <1>1, <1>2, <1>3, <1>4, ReadQuiet
<1>6. /\ card' = card /\ torn' = torn /\ crashes' = crashes /\ kept' = kept /\ kick' = kick
      /\ image' = image /\ call' = call /\ mounted' = mounted /\ file' = file
  BY DEF FileReadSector, UnchangedRest
<1>7. Handles(LinksOf(card), PlainOf(card), D, own, pos, call, file)
  BY Parts
<1> QED BY <1>4, <1>5, <1>6, <1>7, SameStill
LEMMA LiveStill ==
  ASSUME TypeInv, NEW D, NEW own, NEW pos, QuietAt(D, own, pos), Ready, NEW h \in Names, file[h].open,
         NEW L, L = LinksOf(card), NEW R, R = PlainOf(card), NEW f, f = file[h]
  PROVE  /\ f \in FileType /\ f.name \in Names /\ HandleOK(L, R, D, own, pos, f)
         /\ \A x \in Names : x # h /\ file[x].open => file[x].name # f.name
         /\ DirectoryOK(L, R, D, pos) /\ ChainsOK(L, D, own, pos)
         /\ Handles(L, R, D, own, pos, call, file) /\ call.fn = "none" /\ call.fn # "delete"
<1>1. /\ Handles(L, R, D, own, pos, call, file) /\ DirectoryOK(L, R, D, pos) /\ ChainsOK(L, D, own, pos)
      /\ call.fn = "none"
  BY Parts DEF Ready, Idle
<1>2. f \in FileType /\ f.name \in Names
  BY DEF TypeInv, FileTyped
<1> QED BY <1>1, <1>2 DEF Handles

(* FileNextSector, unless it allocates a cluster.                          *)
LEMMA SteppedIs ==
  ASSUME NEW f \in FileType, NEW m, NEW append \in BOOLEAN, NEW ok \in BOOLEAN, NEW bad,
         NEW next, next = NextCluster(m, f.cluster, ok), NEW g, g = Stepped(m, f, append, ok, bad)
  PROVE  /\ g.name = f.name /\ g.first = f.first /\ g.size = f.size /\ g.dirty = f.dirty /\ g.rest = f.rest
         /\ g.open = f.open /\ SlotOf(g) = SlotOf(f) /\ g.sector = f.sector + 1
         /\ ~Crosses(f) => g.cluster = f.cluster /\ g.eof = f.eof
         /\ Crosses(f) => g.cluster = IF next # EOC THEN next ELSE IF append THEN Allocated(bad) ELSE 0
         /\ g.eof => f.eof \/ g.cluster = 0
BY DEF Stepped, FileType, SlotOf

LEMMA NextIoIs ==
  ASSUME NEW f, NEW m, NEW append \in BOOLEAN, NEW ok \in BOOLEAN, NEW bad
  PROVE  /\ ~Crosses(f) => NextIo(m, f, append, ok, bad) = m
         /\ Crosses(f) /\ ~(append /\ NextCluster(m, f.cluster, ok) = EOC) =>
              NextIo(m, f, append, ok, bad) = FetchFat(m, f.cluster, ok)
         /\ Crosses(f) /\ append /\ NextCluster(m, f.cluster, ok) = EOC =>
              NextIo(m, f, append, ok, bad) = AllocateCluster(FetchFat(m, f.cluster, ok), f.cluster, bad)
BY DEF NextIo

LEMMA FetchQuiet ==
  ASSUME CardTyped, Formatted(card), NEW m \in IoType, Buffered(m, card), NEW c \in Links,
         NEW ok \in BOOLEAN, ~FetchFails(m, c, ok)
  PROVE  LET r == FetchFat(m, c, ok) IN
         /\ r \in IoType /\ r.todo = m.todo /\ Buffered(r, card)
         /\ NextCluster(m, c, ok) = LinksOf(card)[c]
<1>1. Fresh(m, card, c)
  BY DEF Fresh
<1> QED BY <1>1, Fetched

(* A program that stays within its file.                                   *)
LEMMA NextWithin ==
  ASSUME TypeInv, NEW h \in Names, NEW append \in BOOLEAN, FileNextSector(h, append),
         NEW ok \in BOOLEAN, NEW bad, StepFaults(file[h], ok, bad), faults' = 0
  PROVE  /\ file[h].open /\ ~Beyond(file[h]) /\ Ready /\ Idle /\ mounted /\ io.todo = <<>>
         /\ bad = None /\ ~(Crosses(file[h]) /\ FetchFails(io, file[h].cluster, ok))
<1>1. file[h].open /\ Ready /\ Idle /\ mounted /\ io.todo = <<>>
  BY DEF FileNextSector, Ready, Idle
<1>2. faults \in Nat
  BY DEF TypeInv, RestTyped
<1>3. ~(Beyond(file[h]) \/ (Crosses(file[h]) /\ FetchFails(io, file[h].cluster, ok)) \/ bad # None)
  BY <1>2, CountTyped DEF StepFaults
<1> QED BY <1>1, <1>3

LEMMA WithinIs ==
  ASSUME TypeInv, NEW h \in Names, NEW f, f = file[h], ~Beyond(f)
  PROVE  f.cluster # 0 /\ f.sector < f.size
<1>1. f \in FileType
  BY DEF TypeInv, FileTyped
<1>2. f.sector \in Nat /\ f.size \in Nat
  BY <1>1, VolumesAssumption DEF FileType
<1> QED BY <1>2 DEF Beyond

LEMMA NextStill ==
  ASSUME TypeInv, NEW D, NEW own, NEW pos, QuietAt(D, own, pos), NEW h \in Names,
         NEW append \in BOOLEAN, FileNextSector(h, append), NEW ok \in Oks, NEW bad \in Bads,
         StepFaults(file[h], ok, bad), io' = NextIo(io, file[h], append, ok, bad),
         file' = [file EXCEPT ![h] = Stepped(io, file[h], append, ok, bad)], faults' = 0,
         Crosses(file[h]) /\ append /\ NextCluster(io, file[h].cluster, ok) = EOC => Allocated(bad) = 0
  PROVE  \E own2, pos2, vs : Certified(D, own2, pos2, vs)'
<1>1. PICK L, R : L = LinksOf(card) /\ R = PlainOf(card)
  OBVIOUS
<1>2. PICK f : f = file[h]
  OBVIOUS
<1>3. PICK g : g = Stepped(io, f, append, ok, bad)
  OBVIOUS
<1>4. /\ f.open /\ f.cluster # 0 /\ f.sector < f.size /\ Ready /\ Idle /\ mounted
      /\ io.todo = <<>> /\ bad = None /\ (Crosses(f) => ~FetchFails(io, f.cluster, ok))
  <2>1. ok \in BOOLEAN
    BY DEF Oks
  <2>2. /\ file[h].open /\ ~Beyond(file[h]) /\ Ready /\ Idle /\ mounted /\ io.todo = <<>>
        /\ bad = None /\ ~(Crosses(file[h]) /\ FetchFails(io, file[h].cluster, ok))
    BY <2>1, NextWithin
  <2> QED BY <1>2, <2>2, WithinIs
<1>5. /\ f \in FileType /\ f.name \in Names /\ HandleOK(L, R, D, own, pos, f) /\ ~f.eof
      /\ \A x \in Names : x # h /\ file[x].open => file[x].name # f.name
      /\ DirectoryOK(L, R, D, pos) /\ ChainsOK(L, D, own, pos)
      /\ Handles(L, R, D, own, pos, call, file) /\ call.fn # "delete"
  BY <1>1, <1>2, <1>4, LiveStill DEF HandleOK
<1>6. ok \in BOOLEAN /\ (bad \in {None} \cup FatSectors) /\ io \in IoType /\ CardTyped
  BY DEF Oks, Bads, TypeInv
<1>7. Formatted(card) /\ Buffered(io, card)
  BY <1>4, Parts, Watched
<1>8. PICK c : c = f.cluster
  OBVIOUS
<1>9. c \in Clusters \ D /\ c \in Links
  BY <1>4, <1>5, <1>8, SectorPlace, LinkFacts
<1>10. Crosses(f) => ~FetchFails(io, c, ok)
  BY <1>4, <1>8
<1>11. /\ Crosses(f) => NextCluster(io, c, ok) = L[c]
       /\ io'.todo = <<>> /\ Buffered(io', card)
  <2>1. CASE ~Crosses(f)
    BY <1>2, <1>4, <1>6, <1>7, <2>1, NextIoIs
  <2>2. CASE Crosses(f)
    <3>1. PICK r : r = FetchFat(io, c, ok)
      OBVIOUS
    <3>2. r \in IoType /\ r.todo = <<>> /\ Buffered(r, card) /\ NextCluster(io, c, ok) = L[c]
      BY <1>1, <1>4, <1>6, <1>7, <1>9, <1>10, <2>2, <3>1, FetchQuiet
    <3>3. CASE append /\ NextCluster(io, c, ok) = EOC
      <4>1. bad = None
        BY <1>4
      <4>2. io' = AllocateCluster(r, c, None)
        <5>1. Crosses(f) /\ append /\ NextCluster(io, f.cluster, ok) = EOC
          BY <1>8, <2>2, <3>3
        <5>2. NextIo(io, f, append, ok, bad) = AllocateCluster(FetchFat(io, f.cluster, ok), f.cluster, bad)
          BY <5>1 DEF NextIo
        <5> QED BY <1>2, <1>8, <3>1, <4>1, <5>2
      <4>3. Allocated(None) = 0
        BY <1>2, <1>8, <2>2, <3>3, <4>1
      <4> QED BY <1>6, <1>7, <1>9, <3>2, <4>2, <4>3, AllocateQuiet
    <3>4. CASE ~(append /\ NextCluster(io, c, ok) = EOC)
      BY <1>2, <1>6, <1>8, <2>2, <3>1, <3>2, <3>4, NextIoIs
    <3> QED BY <3>2, <3>3, <3>4
  <2> QED BY <2>1, <2>2
<1>12. /\ g.name = f.name /\ g.first = f.first /\ g.size = f.size /\ g.dirty = f.dirty /\ g.rest = f.rest
       /\ g.open = f.open /\ SlotOf(g) = SlotOf(f) /\ g.sector = f.sector + 1
       /\ ~Crosses(f) => g.cluster = f.cluster /\ g.eof = f.eof
       /\ Crosses(f) => g.cluster = IF NextCluster(io, c, ok) # EOC THEN NextCluster(io, c, ok)
                                    ELSE IF append THEN Allocated(bad) ELSE 0
       /\ g.eof => g.cluster = 0
  BY <1>3, <1>5, <1>6, <1>8, SteppedIs
<1>13. g.cluster # 0 => IF Crosses(f) THEN L[c] # EOC /\ g.cluster = L[c] ELSE g.cluster = c
  BY <1>2, <1>8, <1>11, <1>12
<1>14. HandleOK(L, R, D, own, pos, g)
  BY <1>4, <1>5, <1>8, <1>12, <1>13, HandleStepped
<1>15. \A x \in Names : file'[x] = IF x = h THEN g ELSE file[x]
  BY <1>2, <1>3 DEF TypeInv, FileTyped
<1>16. Handles(L, R, D, own, pos, call, file')
  <2>1. g.open => /\ HandleOK(L, R, D, own, pos, g)
                  /\ \A x \in Names : x # h /\ file[x].open => file[x].name # g.name
    BY <1>5, <1>12, <1>14
  <2>2. PICK F2 : F2 = file'
    OBVIOUS
  <2>3. \A x \in Names : F2[x] = IF x = h THEN g ELSE file[x]
    BY <1>15, <2>2
  <2>4. Handles(L, R, D, own, pos, call, F2)
    BY <1>5, <2>1, <2>3, HandlesPut
  <2> QED BY <2>2, <2>4
<1>17. /\ card' = card /\ torn' = torn /\ crashes' = crashes /\ kept' = kept /\ kick' = kick
       /\ image' = image /\ call' = call /\ mounted' = mounted
  BY DEF FileNextSector, UnchangedRest
<1> QED BY <1>1, <1>4, <1>11, <1>16, <1>17, SameStill

LEMMA CloseStill ==
  ASSUME TypeInv, NEW D, NEW own, NEW pos, QuietAt(D, own, pos), NEW h \in Names, Ready, file[h].open,
         Begin("close", "return", h, file[h].name), io' = io, file' = file,
         UnchangedRest, UNCHANGED <<kick, image, kept>>
  PROVE  \E own2, pos2, vs : Certified(D, own2, pos2, vs)'
<1>1. PICK L, R : L = LinksOf(card) /\ R = PlainOf(card)
  OBVIOUS
<1>2. /\ Formatted(card) /\ Sound(L, R, D, own, pos, Counting(R, Victim, torn), torn, kept)
      /\ Handles(L, R, D, own, pos, call, file) /\ Buffered(io, card)
      /\ crashes = 0 => torn = {} /\ NoneLost(card, L, R, D, call, file)
      /\ Unmounted
  BY <1>1, Parts, Watched DEF Ready
<1>3. /\ call.fn = "none" /\ Victim = Nobody /\ ~Holding(call) /\ image = <<>> /\ kick = "none"
      /\ io.todo = <<>> /\ mounted
  BY Calm DEF Ready
<1>4. /\ card' = card /\ torn' = torn /\ crashes' = crashes /\ mounted' = mounted /\ kept' = kept
      /\ kick' = kick /\ image' = image
  BY DEF UnchangedRest
<1>5. call'.fn = "close" /\ call'.step = "return" /\ call'.h = h /\ call'.name = file[h].name
  BY BeginTyped DEF TypeInv, FileTyped
<1>6. VictimOf(call', file') = Nobody /\ ~Holding(call') /\ VictimOf(call, file) = Nobody
      /\ Alike(card, call', file') /\ Victim' = Nobody /\ Searching(L, R, D, pos, call')
  BY <1>3, <1>5 DEF VictimOf, Holding, Alike, Victim, Searching
<1>7. Calling(L, R, D, own, call', file', torn, kept')
  BY <1>5, <1>6 DEF Calling, Steps, Held, Deleting, Looking
<1>8. Handles(L, R, D, own, pos, call', file')
  BY <1>2, <1>3, HandlesKept
<1>9. crashes = 0 => torn = {} /\ NoneLost(card, L, R, D, call', file')
  BY <1>2, <1>3, <1>6, NoneLostKept
<1>10. Loading' /\ Kicked' /\ Unmounted'
  BY <1>3, <1>4, <1>5 DEF Loading, Kicked, Unmounted
<1>11. Sound(L, R, D, own, pos, Counting(R, Victim', torn), torn, kept')
  BY <1>2, <1>3, <1>4, <1>6
<1>12. io'.todo = <<>> /\ Buffered(io', card)
  BY <1>2, <1>3
<1> QED BY <1>1, <1>2, <1>4, <1>6, <1>7, <1>8, <1>9, <1>10, <1>11, <1>12, StillThen
-----------------------------------------------------------------------------
(* Looking through the directory.                                          *)

LEMMA Entries ==
  ASSUME NEW i \in Nat, NEW j \in Nat
  PROVE  /\ DPS * i \in Nat /\ DPS * (i + 1) = DPS * i + DPS /\ DPS * 0 = 0
         /\ (DPS * i < DPS * j <=> i < j) /\ (DPS * i <= DPS * j <=> i <= j)
         /\ \A k \in 0..(DPS - 1) : (DPS * i + k) % DPS = k
<1>1. DPS \in Nat /\ DPS > 0
  BY ConstantTypes
<1>2. DPS * i \in Nat /\ DPS * j \in Nat /\ DPS * (i + 1) = DPS * i + DPS /\ DPS * 0 = 0
  BY <1>1, Z3
<1>3. i < j => DPS * i < DPS * j
  BY <1>1, Z3
<1>4. j < i => DPS * j < DPS * i
  BY <1>1, Z3
<1>5. (DPS * i < DPS * j <=> i < j) /\ (DPS * i <= DPS * j <=> i <= j)
  <2>1. CASE i < j
    BY <1>2, <1>3, <2>1
  <2>2. CASE j < i
    BY <1>2, <1>4, <2>2
  <2>3. CASE i = j
    BY <1>2, <2>3
  <2> QED BY <2>1, <2>2, <2>3
<1>6. \A k \in 0..(DPS - 1) : (DPS * i + k) % DPS = k
  BY <1>1, <1>2, Z3
<1> QED BY <1>2, <1>5, <1>6

LEMMA FollowsOnce ==
  ASSUME NEW L, NEW R, NEW D, NEW pos, DirectoryOK(L, R, D, pos),
         NEW p \in DirSlots(R), NEW x \in DirSlots(R), NEW q,
         Follows(L, D, p, q), Follows(L, D, x, q)
  PROVE  p = x
<1>1. /\ p = <<p[1], p[2]>> /\ x = <<x[1], x[2]>> /\ p[2] \in Nat /\ x[2] \in Nat
      /\ p[1] \in Nat /\ x[1] \in Nat /\ DIR_SECTORS \in Nat /\ DPS \in Nat
  BY SlotTypes, ConstantTypes
<1>2. CASE q[2] # 0
  BY <1>1, <1>2 DEF Follows
<1>3. CASE q[2] = 0
  <2>1. /\ p[2] = DPS - 1 /\ x[2] = DPS - 1
    BY <1>1, <1>3 DEF Follows
  <2>2. ASSUME NEW y \in {p, x}
        PROVE  \E c \in D :
                 \/ \E j \in 0..(DIR_SECTORS - 2) : y[1] = DirBase(c) + j /\ q[1] = y[1] + 1
                 \/ y[1] = DirBase(c) + DIR_SECTORS - 1 /\ L[c] \in D /\ q[1] = DirBase(L[c])
    BY <1>1, <1>3, <2>2 DEF Follows
  <2>3. PICK c \in D :
          \/ \E j \in 0..(DIR_SECTORS - 2) : p[1] = DirBase(c) + j /\ q[1] = p[1] + 1
          \/ p[1] = DirBase(c) + DIR_SECTORS - 1 /\ L[c] \in D /\ q[1] = DirBase(L[c])
    BY <2>2
  <2>4. PICK d \in D :
          \/ \E j \in 0..(DIR_SECTORS - 2) : x[1] = DirBase(d) + j /\ q[1] = x[1] + 1
          \/ x[1] = DirBase(d) + DIR_SECTORS - 1 /\ L[d] \in D /\ q[1] = DirBase(L[d])
    BY <2>2
  <2>5. /\ DirBase(c) \in Nat /\ DirBase(d) \in Nat
        /\ pos[c] \in Nat /\ pos[d] \in Nat
        /\ L[c] \in D => DirBase(L[c]) \in Nat
        /\ L[d] \in D => DirBase(L[d]) \in Nat
    BY DirTypes
  <2>6. DIR_SECTORS > 0
    <3>1. p[1] \in DirSectors(R)
      BY SlotTypes
    <3>2. PICK b \in D, j \in 0..(DIR_SECTORS - 1) : p[1] = DirBase(b) + j
      BY <3>1, DirPlace
    <3> QED BY <1>1, <3>2
  <2>7. 0 \in 0..(DIR_SECTORS - 1) /\ DIR_SECTORS - 1 \in 0..(DIR_SECTORS - 1)
    BY <1>1, <2>6
  <2>8. CASE \E j \in 0..(DIR_SECTORS - 2) : p[1] = DirBase(c) + j /\ q[1] = p[1] + 1
    <3>1. PICK j \in 0..(DIR_SECTORS - 2) : p[1] = DirBase(c) + j /\ q[1] = p[1] + 1
      BY <2>8
    <3>2. j + 1 \in 0..(DIR_SECTORS - 1) /\ q[1] = DirBase(c) + (j + 1) /\ j + 1 # 0
      BY <1>1, <2>5, <3>1
    <3>3. CASE \E i \in 0..(DIR_SECTORS - 2) : x[1] = DirBase(d) + i /\ q[1] = x[1] + 1
      BY <1>1, <2>1, <3>1, <3>3
    <3>4. CASE x[1] = DirBase(d) + DIR_SECTORS - 1 /\ L[d] \in D /\ q[1] = DirBase(L[d])
      <4>1. q[1] = DirBase(L[d]) + 0
        BY <2>5, <3>4
      <4>2. j + 1 = 0
        BY <2>7, <3>2, <3>4, <4>1, DirUnique
      <4> QED BY <3>2, <4>2
    <3> QED BY <2>4, <3>3, <3>4
  <2>9. CASE p[1] = DirBase(c) + DIR_SECTORS - 1 /\ L[c] \in D /\ q[1] = DirBase(L[c])
    <3>1. q[1] = DirBase(L[c]) + 0
      BY <2>5, <2>9
    <3>2. CASE \E i \in 0..(DIR_SECTORS - 2) : x[1] = DirBase(d) + i /\ q[1] = x[1] + 1
      <4>1. PICK i \in 0..(DIR_SECTORS - 2) : x[1] = DirBase(d) + i /\ q[1] = x[1] + 1
        BY <3>2
      <4>2. i + 1 \in 0..(DIR_SECTORS - 1) /\ q[1] = DirBase(d) + (i + 1) /\ i + 1 # 0
        BY <1>1, <2>5, <4>1
      <4>3. i + 1 = 0
        BY <2>7, <2>9, <3>1, <4>2, DirUnique
      <4> QED BY <4>2, <4>3
    <3>3. CASE x[1] = DirBase(d) + DIR_SECTORS - 1 /\ L[d] \in D /\ q[1] = DirBase(L[d])
      <4>1. q[1] = DirBase(L[d]) + 0
        BY <2>5, <3>3
      <4>2. L[c] = L[d]
        BY <2>7, <2>9, <3>1, <3>3, <4>1, DirUnique
      <4>3. pos[L[c]] = pos[c] + 1 /\ pos[L[d]] = pos[d] + 1
        BY <2>9, <3>3, DirTypes DEF DirectoryOK
      <4>4. pos[c] = pos[d]
        BY <2>5, <4>2, <4>3
      <4>5. c = d
        BY <4>4 DEF DirectoryOK
      <4> QED BY <1>1, <2>1, <2>9, <3>3, <4>5
    <3> QED BY <2>4, <3>2, <3>3
  <2> QED BY <2>3, <2>8, <2>9
<1> QED BY <1>2, <1>3

LEMMA ScanPlace ==
  ASSUME NEW L, NEW R, NEW D, NEW pos, DirectoryOK(L, R, D, pos), NEW k, Searching(L, R, D, pos, k),
         k.fn # "none", k.step \in {"scan", "slot"}
  PROVE  /\ k.chain \in D
         /\ k.index < dir_entries =>
              \E j \in 0..(DIR_SECTORS - 1) :
                /\ k.index = DPS * j /\ k.sector = DirBase(k.chain) + j
                /\ k.sector \in DirSectors(R) /\ k.sector \in Lba \ FatArea
         /\ k.index >= dir_entries =>
              k.index = dir_entries /\ k.index = DPS * DIR_SECTORS /\ k.sector = DirBase(k.chain) + DIR_SECTORS
<1>1. k.chain \in D
  BY DEF Searching
<1>2. PICK j \in 0..DIR_SECTORS : k.index = DPS * j /\ k.sector = DirBase(k.chain) + j
  BY DEF Searching
<1>3. j \in Nat /\ DIR_SECTORS \in Nat
  BY ConstantTypes
<1>4. (k.index < dir_entries <=> j < DIR_SECTORS) /\ DPS * j \in Nat /\ DPS * DIR_SECTORS \in Nat
  BY <1>2, <1>3, Entries DEF dir_entries
<1>5. j < DIR_SECTORS => k.sector \in DirSectors(R)
  <2>1. j < DIR_SECTORS => j \in 0..(DIR_SECTORS - 1)
    BY <1>3
  <2> QED BY <1>1, <1>2, <2>1 DEF DirectoryOK
<1>6. DirSectors(R) \subseteq Lba \ FatArea
  BY DEF DirSectors
<1> QED BY <1>1, <1>2, <1>3, <1>4, <1>5, <1>6 DEF dir_entries

(* The long name that NextDirEntry has for an entry is that of the entry.  *)
LEMMA LongNameIs ==
  ASSUME NEW L, NEW R, NEW D, NEW pos, DirectoryOK(L, R, D, pos), LongNamesOK(L, R, D),
         Searching(L, R, D, pos, call), call.fn # "none", call.step \in {"scan", "slot"},
         call.index < dir_entries, NEW e, e = R[call.sector].v, NEW i \in 0..(DPS - 1),
         NEW q, q = <<call.sector, i>>
  PROVE  /\ q \in DirSlots(R) /\ Ent(R, q) = e[i]
         /\ LongName(e, i) # NoName => Named(e[i], LongName(e, i))
         /\ LongName(e, i) = NoName =>
              \A p \in DirSlots(R) : Follows(L, D, p, q) =>
                Ent(R, p).attr # "lfn" \/ Ent(R, p).name = NoName
<1>1. call.sector \in DirSectors(R) /\ DPS \in Nat
  BY ScanPlace, ConstantTypes
<1>2. q \in DirSlots(R) /\ Ent(R, q) = e[i] /\ q[1] = call.sector /\ q[2] = i
  BY <1>1 DEF DirSlots, Ent
<1>3. CASE i = 0
  <2>1. Upcoming(L, D, call, q)
    BY <1>2, <1>3 DEF Upcoming
  <2>2. LongName(e, i) = call.longname
    BY <1>3 DEF LongName
  <2> QED BY <1>2, <2>1, <2>2 DEF Searching
<1>4. CASE i # 0
  <2>1. PICK p : p = <<call.sector, i - 1>>
    OBVIOUS
  <2>2. /\ p \in DirSlots(R) /\ Ent(R, p) = e[i - 1] /\ Follows(L, D, p, q)
    BY <1>1, <1>2, <1>4, <2>1 DEF DirSlots, Ent, Follows
  <2>3. \A x \in DirSlots(R) : Follows(L, D, x, q) => x = p
    BY <2>2, FollowsOnce
  <2>4. CASE e[i - 1].attr = "lfn"
    <3>1. LongName(e, i) = Ent(R, p).name /\ Ent(R, p).attr = "lfn"
      BY <1>4, <2>2, <2>4 DEF LongName
    <3>2. Named(e[i], LongName(e, i))
      BY <1>2, <2>2, <3>1 DEF LongNamesOK
    <3> QED BY <1>2, <2>3, <3>1, <3>2
  <2>5. CASE e[i - 1].attr # "lfn"
    <3>1. LongName(e, i) = NoName
      BY <1>4, <2>5 DEF LongName
    <3> QED BY <1>2, <2>2, <2>3, <2>5, <3>1
  <2> QED BY <2>4, <2>5
<1> QED BY <1>3, <1>4
LEMMA SlotEntry ==
  ASSUME NEW v, Formatted(v), NEW R, R = PlainOf(v), NEW p \in DirSlots(R)
  PROVE  /\ Ent(R, p) \in Entry /\ R[p[1]] = v[p[1]] /\ R[p[1]].kind = "dir"
         /\ R[p[1]].v \in [0..(DPS - 1) -> Entry]
         /\ Ent(R, p).attr = "lfn" => Ent(R, p).name # NoName
         /\ Ent(R, p).attr = "directory" => Ent(R, p).name \notin Names
<1>1. p[1] \in DirSectors(R) /\ p[2] \in 0..(DPS - 1) /\ p[1] \in Lba \ FatArea
  BY SlotTypes
<1>2. R[p[1]] = v[p[1]] /\ R[p[1]].kind = "dir"
  BY <1>1 DEF PlainOf, DirSectors
<1>3. v[p[1]] \in DirContent /\ \A i \in 0..(DPS - 1) :
        v[p[1]].v[i].attr = "directory" => v[p[1]].v[i].name \notin Names
  BY <1>1, <1>2 DEF Formatted
<1>4. R[p[1]].v \in [0..(DPS - 1) -> Entry]
  BY <1>2, <1>3 DEF DirContent
<1>5. Ent(R, p) \in Entry
  BY <1>1, <1>4 DEF Ent
<1>6. Ent(R, p).attr = "lfn" => Ent(R, p).name # NoName
  BY <1>5, VolumesAssumption DEF Entry, NoName
<1> QED BY <1>1, <1>2, <1>3, <1>4, <1>5, <1>6 DEF Ent

(* What is known of the entries of a directory.                            *)
Slotted(R) ==
  \A p \in DirSlots(R) :
    /\ Ent(R, p) \in Entry /\ (Ent(R, p).attr = "lfn" => Ent(R, p).name # NoName)
    /\ Ent(R, p).attr = "directory" => Ent(R, p).name \notin Names

LEMMA SlottedIs ==
  ASSUME NEW v, Formatted(v)
  PROVE  Slotted(PlainOf(v))
BY SlotEntry DEF Slotted

LEMMA DirRead ==
  ASSUME TypeInv, Formatted(card), NEW s \in DirSectors(PlainOf(card)),
         NEW ok \in BOOLEAN, ok, NEW m, m = ReadSector(io, s, ok)
  PROVE  /\ m \in IoType /\ m.todo = io.todo /\ m.cached = s /\ m.buf = card[s]
         /\ Buffered(m, card) /\ AsDir(m.buf) = PlainOf(card)[s].v
<1> DEFINE R == PlainOf(card)
<1>1. s \in Lba \ FatArea /\ s \in Int /\ R[s].kind = "dir" /\ R[s] = card[s]
  BY Areas DEF DirSectors, PlainOf
<1>2. CardTyped /\ io \in IoType
  BY DEF TypeInv
<1>3. m \in IoType /\ m.todo = io.todo /\ Buffered(m, card) /\ m.buf = OnCard(s) /\ m.cached = s
  <2>1. m \in IoType /\ m.todo = io.todo /\ Buffered(m, card) /\ m.buf = OnCard(s)
    BY <1>1, <1>2, ReadQuiet
  <2>2. m.cached = s
    BY <1>1, <1>2, ReadTyped
  <2> QED BY <2>1, <2>2
<1>4. m.buf = card[s] /\ AsDir(m.buf) = R[s].v
  BY <1>1, <1>3 DEF OnCard, AsDir
<1> QED BY <1>3, <1>4

(* What FindDirEntry finds is the entry of a file of that name.            *)
LEMMA MatchIs ==
  ASSUME NEW D, NEW pos, NEW L, NEW R, Slotted(R), DirectoryOK(L, R, D, pos), LongNamesOK(L, R, D),
         Searching(L, R, D, pos, call), call.fn # "none", call.step \in {"scan", "slot"},
         call.name \in Names,
         call.index < dir_entries, NEW e, e = R[call.sector].v, NEW i \in Matches(e),
         NEW p, p = <<call.sector, i>>
  PROVE  /\ p \in FileSlots(R) /\ Ent(R, p) = e[i] /\ e[i].name = call.name
         /\ e[i].attr \in {"normal", "archive"} /\ e[i] \in Entry
<1>1. /\ i \in 0..(DPS - 1) /\ e[i].attr \notin {"lfn", "volume"}
      /\ e[i].attr = "directory" \/ e[i].name \notin Free
      /\ call.name \in {LongName(e, i), e[i].name}
  BY DEF Matches
<1>2. p \in DirSlots(R) /\ Ent(R, p) = e[i] /\ (LongName(e, i) # NoName => Named(e[i], LongName(e, i)))
  BY <1>1, LongNameIs
<1>3. Ent(R, p) \in Entry /\ (Ent(R, p).attr = "directory" => Ent(R, p).name \notin Names)
  BY <1>2 DEF Slotted
<1>4. call.name # NoName /\ call.name \notin Free
  BY VolumesAssumption
<1>5. e[i].name = call.name
  BY <1>1, <1>2, <1>4 DEF Named
<1>6. e[i].attr \in {"normal", "archive"}
  BY <1>1, <1>2, <1>3, <1>5 DEF Entry, Attributes
<1>7. p \in FileSlots(R)
  BY <1>1, <1>2, <1>4, <1>5 DEF FileSlots
<1> QED BY <1>2, <1>3, <1>5, <1>6, <1>7

(* Where there is none, no file before the next sector has that name.      *)
LEMMA MissIs ==
  ASSUME NEW D, NEW pos, NEW L, NEW R, DirectoryOK(L, R, D, pos),
         NEW k, Searching(L, R, D, pos, k), k.fn # "none", k.step = "scan",
         k.index < dir_entries, NEW e, e = R[k.sector].v,
         \A i \in 0..(DPS - 1) : <<k.sector, i>> \in FileSlots(R) => e[i].name # k.name,
         NEW k2, k2.chain = k.chain, k2.index = k.index + DPS, k2.name = k.name
  PROVE  Ahead(R, D, pos, k2)
<1>1. k.chain \in D /\ Ahead(R, D, pos, k)
  BY DEF Searching
<1>2. PICK j \in 0..(DIR_SECTORS - 1) : k.index = DPS * j /\ k.sector = DirBase(k.chain) + j
  BY ScanPlace
<1>3. ASSUME NEW p \in FileSlots(R), Ent(R, p).name = k.name
      PROVE  \E c \in D, i \in 0..(DIR_SECTORS - 1) :
               /\ p[1] = DirBase(c) + i
               /\ pos[c] > pos[k2.chain] \/ (c = k2.chain /\ k2.index <= DPS * i)
  <2>1. PICK c \in D, i \in 0..(DIR_SECTORS - 1) :
          /\ p[1] = DirBase(c) + i
          /\ pos[c] > pos[k.chain] \/ (c = k.chain /\ k.index <= DPS * i)
    BY <1>1, <1>3 DEF Ahead
  <2>2. CASE pos[c] > pos[k.chain]
    BY <2>1, <2>2
  <2>3. CASE c = k.chain /\ k.index <= DPS * i
    <3>1. i # j
      <4>1. SUFFICES ASSUME i = j PROVE FALSE
        OBVIOUS
      <4>2. p \in DirSlots(R)
        BY DEF FileSlots
      <4>3. p[1] = k.sector /\ p = <<p[1], p[2]>> /\ p[2] \in 0..(DPS - 1)
        BY <1>2, <2>1, <2>3, <4>1, <4>2, SlotTypes
      <4>4. <<k.sector, p[2]>> \in FileSlots(R) /\ Ent(R, p) = e[p[2]]
        BY <4>3 DEF Ent
      <4> QED BY <1>3, <4>3, <4>4
    <3>2. i \in Nat /\ j \in Nat /\ j + 1 \in Nat
      BY ConstantTypes
    <3>3. j <= i
      BY <1>2, <2>3, <3>2, Entries
    <3>4. j + 1 <= i
      BY <3>1, <3>2, <3>3
    <3>5. DPS * (j + 1) <= DPS * i /\ DPS * (j + 1) = DPS * j + DPS
      BY <3>2, <3>4, Entries
    <3> QED BY <1>2, <2>1, <2>3, <3>5
  <2> QED BY <2>1, <2>2, <2>3
<1> QED BY <1>3 DEF Ahead

LEMMA MissPlace ==
  ASSUME NEW D, NEW pos, NEW L, NEW R, Slotted(R), DirectoryOK(L, R, D, pos), LongNamesOK(L, R, D),
         NEW k, Searching(L, R, D, pos, k), k.fn # "none", k.step \in {"scan", "slot"},
         k.index < dir_entries, NEW e, e = R[k.sector].v,
         NEW k2, k2.chain = k.chain, k2.index = k.index + DPS, k2.sector = k.sector + 1,
         k2.longname = IF e[DPS - 1].attr = "lfn" THEN e[DPS - 1].name ELSE NoName
  PROVE  /\ k2.chain \in D
         /\ \E j \in 0..DIR_SECTORS : k2.index = DPS * j /\ k2.sector = DirBase(k2.chain) + j
         /\ \A q \in DirSlots(R) : Upcoming(L, D, k2, q) =>
              IF k2.longname # NoName THEN Named(Ent(R, q), k2.longname)
              ELSE \A p \in DirSlots(R) : Follows(L, D, p, q) => Ent(R, p).attr # "lfn"
<1>1. k.chain \in D
  BY ScanPlace
<1>2. PICK j \in 0..(DIR_SECTORS - 1) :
        k.index = DPS * j /\ k.sector = DirBase(k.chain) + j /\ k.sector \in DirSectors(R)
  BY ScanPlace
<1>3. /\ j \in Nat /\ DIR_SECTORS \in Nat /\ DPS \in Nat /\ DPS > 0 /\ j + 1 \in 0..DIR_SECTORS
      /\ DirBase(k.chain) \in Nat
  BY <1>1, ConstantTypes, DirTypes
<1>4. DPS * (j + 1) = DPS * j + DPS /\ DPS * j \in Nat
      /\ (DPS * (j + 1) < dir_entries <=> j + 1 < DIR_SECTORS)
      /\ (DPS * (j + 1) <= dir_entries <=> j + 1 <= DIR_SECTORS)
  <2>1. j + 1 \in Nat
    BY <1>3
  <2> QED BY <1>3, <2>1, Entries DEF dir_entries
<1>5. k2.index = DPS * (j + 1) /\ k2.sector = DirBase(k2.chain) + (j + 1)
  BY <1>2, <1>3, <1>4
<1>6. PICK p : p = <<k.sector, DPS - 1>>
  OBVIOUS
<1>7. p \in DirSlots(R) /\ Ent(R, p) = e[DPS - 1] /\ p[1] = k.sector /\ p[2] = DPS - 1
  BY <1>2, <1>3, <1>6 DEF DirSlots, Ent
<1>8. ASSUME NEW q \in DirSlots(R), Upcoming(L, D, k2, q)
      PROVE  Follows(L, D, p, q)
  <2>1. q[2] = 0
    BY <1>8 DEF Upcoming
  <2>2. CASE k2.index < dir_entries /\ q[1] = k2.sector
    <3>1. j \in 0..(DIR_SECTORS - 2) /\ q[1] = p[1] + 1
      BY <1>2, <1>3, <1>4, <1>5, <1>7, <2>2
    <3> QED BY <1>1, <1>2, <1>7, <2>1, <3>1 DEF Follows
  <2>3. CASE k2.index = dir_entries /\ L[k2.chain] \in D /\ q[1] = DirBase(L[k2.chain])
    <3>1. j + 1 = DIR_SECTORS
      BY <1>3, <1>4, <1>5, <2>3
    <3>2. p[1] = DirBase(k.chain) + DIR_SECTORS - 1
      BY <1>2, <1>3, <1>7, <3>1
    <3> QED BY <1>1, <1>7, <2>1, <2>3, <3>2 DEF Follows
  <2> QED BY <1>8, <2>2, <2>3 DEF Upcoming
<1>9. ASSUME NEW q \in DirSlots(R), Upcoming(L, D, k2, q)
      PROVE  IF k2.longname # NoName THEN Named(Ent(R, q), k2.longname)
             ELSE \A x \in DirSlots(R) : Follows(L, D, x, q) => Ent(R, x).attr # "lfn"
  <2>1. CASE e[DPS - 1].attr = "lfn"
    <3>1. k2.longname = Ent(R, p).name /\ Ent(R, p).attr = "lfn"
      BY <1>7, <2>1
    <3>2. k2.longname # NoName
      <4>1. \A x \in DirSlots(R) : Ent(R, x).attr = "lfn" => Ent(R, x).name # NoName
        BY DEF Slotted
      <4> QED BY <1>7, <3>1, <4>1
    <3>3. Named(Ent(R, q), k2.longname)
      BY <1>7, <1>8, <1>9, <3>1 DEF LongNamesOK
    <3> QED BY <3>2, <3>3
  <2>2. CASE e[DPS - 1].attr # "lfn"
    <3>1. k2.longname = NoName
      BY <2>2
    <3>2. \A x \in DirSlots(R) : Follows(L, D, x, q) => x = p
      BY <1>7, <1>8, <1>9, FollowsOnce
    <3> QED BY <1>7, <2>2, <3>1, <3>2
  <2> QED BY <2>1, <2>2
<1> QED BY <1>1, <1>3, <1>5, <1>9
(* Where the directory is left at the end of a cluster.                    *)
LEMMA ChainEnd ==
  ASSUME NEW L, NEW R, NEW D, NEW pos, DirectoryOK(L, R, D, pos), NEW k, Searching(L, R, D, pos, k),
         k.fn # "none", k.step = "scan", k.index >= dir_entries, EndMark(L[k.chain])
  PROVE  \A p \in FileSlots(R) : Ent(R, p).name # k.name
<1>1. k.chain \in D /\ k.index = DPS * DIR_SECTORS /\ Ahead(R, D, pos, k)
  BY ScanPlace DEF Searching
<1>2. \A d \in D : pos[d] <= pos[k.chain]
  <2>1. PICK c : c = k.chain
    OBVIOUS
  <2>2. c \in D /\ L[c] \notin D
    BY <1>1, <2>1, DirTypes
  <2>3. EndMark(L[c]) /\ \A d \in D : pos[d] <= pos[c]
    BY <2>2 DEF DirectoryOK
  <2> QED BY <2>1, <2>3
<1>3. SUFFICES ASSUME NEW p \in FileSlots(R), Ent(R, p).name = k.name PROVE FALSE
  OBVIOUS
<1>4. PICK c \in D, j \in 0..(DIR_SECTORS - 1) :
        pos[c] > pos[k.chain] \/ (c = k.chain /\ k.index <= DPS * j)
  BY <1>1, <1>3 DEF Ahead
<1>5. pos[c] \in Nat /\ pos[k.chain] \in Nat /\ j \in Nat /\ DIR_SECTORS \in Nat
  BY <1>1, DirTypes, ConstantTypes
<1>6. DPS * DIR_SECTORS <= DPS * j
  BY <1>1, <1>2, <1>4, <1>5
<1>7. DIR_SECTORS <= j
  BY <1>5, <1>6, Entries
<1> QED BY <1>5, <1>7

LEMMA ChainNext ==
  ASSUME NEW L, NEW R, NEW D, NEW pos, DirectoryOK(L, R, D, pos), NEW k, Searching(L, R, D, pos, k),
         k.fn # "none", k.step \in {"scan", "slot"}, k.index >= dir_entries,
         ~EndMark(L[k.chain]), NEW k2, k2.chain = L[k.chain], k2.index = 0,
         k2.sector = ClusterLba(L[k.chain]), k2.longname = k.longname, k2.step = k.step, k2.name = k.name
  PROVE  Searching(L, R, D, pos, k2)
<1>1. k.chain \in D /\ k.index = dir_entries /\ k.index = DPS * DIR_SECTORS
  BY ScanPlace
<1>2. PICK c : c = L[k.chain]
  OBVIOUS
<1>3. c \in D /\ c # root_directory_cluster /\ pos[c] = pos[k.chain] + 1
  BY <1>1, <1>2, DirTypes DEF DirectoryOK
<1>4. DirBase(c) = ClusterLba(c) /\ DirBase(c) \in Nat
  <2>1. FAT32
    BY <1>3 DEF DirectoryOK
  <2>2. DirBase(c) = ClusterLba(c)
    BY <2>1 DEF DirBase
  <2>3. DirBase(c) \in Nat
    BY <1>3, DirTypes
  <2> QED BY <2>2, <2>3
<1>5. DPS * 0 = 0 /\ DIR_SECTORS \in Nat /\ 0 \in 0..DIR_SECTORS
  BY Entries, ConstantTypes
<1>6. k2.index = DPS * 0 /\ k2.sector = DirBase(k2.chain) + 0
  BY <1>2, <1>4, <1>5
<1>7. ASSUME NEW q \in DirSlots(R), Upcoming(L, D, k2, q)
      PROVE  Upcoming(L, D, k, q)
  <2>1. q[1] \in DirSectors(R)
    BY SlotTypes
  <2>2. PICK d \in D, j \in 0..(DIR_SECTORS - 1) : q[1] = DirBase(d) + j
    BY <2>1, DirPlace
  <2>3. 0 < DIR_SECTORS
    BY <1>5, <2>2
  <2>4. dir_entries # 0
    BY <1>5, <2>3, Entries DEF dir_entries
  <2> QED BY <1>1, <1>2, <1>3, <1>4, <1>7, <2>4 DEF Upcoming
<1>8. k.step = "scan" => Ahead(R, D, pos, k2)
  <2>1. SUFFICES ASSUME k.step = "scan", NEW p \in FileSlots(R), Ent(R, p).name = k.name
                 PROVE  \E d \in D, j \in 0..(DIR_SECTORS - 1) :
                          /\ p[1] = DirBase(d) + j
                          /\ pos[d] > pos[k2.chain] \/ (d = k2.chain /\ k2.index <= DPS * j)
    BY DEF Ahead
  <2>2. PICK d \in D, j \in 0..(DIR_SECTORS - 1) :
          /\ p[1] = DirBase(d) + j
          /\ pos[d] > pos[k.chain] \/ (d = k.chain /\ k.index <= DPS * j)
    BY <2>1 DEF Searching, Ahead
  <2>3. j \in Nat /\ pos[d] \in Nat /\ pos[k.chain] \in Nat
    BY <1>1, <1>5, DirTypes
  <2>4. DPS * j \in Nat
    BY <2>3, Entries
  <2>5. ~(k.index <= DPS * j)
    <3>1. k.index <= DPS * j => DIR_SECTORS <= j
      BY <1>1, <1>5, <2>3, Entries
    <3> QED BY <1>5, <3>1
  <2>6. pos[d] > pos[c] \/ pos[d] = pos[c]
    BY <1>3, <2>2, <2>3, <2>5
  <2>7. pos[d] = pos[c] => d = c
    BY <1>3 DEF DirectoryOK
  <2> QED BY <1>2, <2>2, <2>4, <2>6, <2>7
<1>9. \A q \in DirSlots(R) : Upcoming(L, D, k2, q) =>
        IF k2.longname # NoName THEN Named(Ent(R, q), k2.longname)
        ELSE \A p \in DirSlots(R) : Follows(L, D, p, q) => Ent(R, p).attr # "lfn"
  BY <1>7 DEF Searching
<1> QED BY <1>2, <1>3, <1>5, <1>6, <1>8, <1>9 DEF Searching

(* A call moves on in the directory, and knows what it knew.               *)
LEMMA CallMoved ==
  ASSUME NEW k, NEW k2, k2.fn = k.fn, k2.step = k.step, k2.h = k.h, k2.name = k.name,
         k2.cluster = k.cluster, NEW L, NEW R, NEW D, NEW own, NEW pos, NEW F, NEW gone, NEW relied, NEW v
  PROVE  /\ Calling(L, R, D, own, k, F, gone, relied) => Calling(L, R, D, own, k2, F, gone, relied)
         /\ NoneLost(v, L, R, D, k, F) => NoneLost(v, L, R, D, k2, F)
         /\ VictimOf(k2, F) = VictimOf(k, F) /\ (Alike(v, k, F) => Alike(v, k2, F))
         /\ Handles(L, R, D, own, pos, k, F) => Handles(L, R, D, own, pos, k2, F)
<1>1. VictimOf(k2, F) = VictimOf(k, F)
  BY DEF VictimOf
<1>2. Alike(v, k, F) => Alike(v, k2, F)
  BY <1>1 DEF Alike
<1>3. Holding(k2) <=> Holding(k)
  BY DEF Holding
<1>4. NoneLost(v, L, R, D, k, F) => NoneLost(v, L, R, D, k2, F)
  BY <1>1, <1>3 DEF NoneLost
<1>5. Calling(L, R, D, own, k, F, gone, relied) => Calling(L, R, D, own, k2, F, gone, relied)
  BY <1>1, <1>3 DEF Calling, Looking, Held, Deleting
<1>6. Handles(L, R, D, own, pos, k, F) => Handles(L, R, D, own, pos, k2, F)
  BY DEF Handles
<1> QED BY <1>1, <1>2, <1>4, <1>5, <1>6
LEMMA ClusterStill ==
  ASSUME TypeInv, NEW D, NEW own, NEW pos, QuietAt(D, own, pos), ScanCluster, faults' = 0
  PROVE  \E own2, pos2, vs : Certified(D, own2, pos2, vs)'
<1>1. PICK L, R : L = LinksOf(card) /\ R = PlainOf(card)
  OBVIOUS
<1>2. /\ Formatted(card) /\ L \in [Links -> Link]
      /\ Sound(L, R, D, own, pos, Counting(R, Victim, torn), torn, kept)
      /\ DirectoryOK(L, R, D, pos) /\ KeptOK(R, Counting(R, Victim, torn), torn, kept)
      /\ Alike(card, call, file) /\ Handles(L, R, D, own, pos, call, file)
      /\ Searching(L, R, D, pos, call) /\ Calling(L, R, D, own, call, file, torn, kept)
      /\ Buffered(io, card)
      /\ crashes = 0 => torn = {} /\ NoneLost(card, L, R, D, call, file)
      /\ Loading /\ Kicked /\ Unmounted
  BY <1>1, Parts, Watched DEF ScanCluster, Running, LastRead
<1>3. /\ call.fn # "none" /\ call.step \in {"scan", "slot"} /\ io.todo = <<>>
      /\ call.index >= dir_entries
      /\ card' = card /\ torn' = torn /\ crashes' = crashes /\ mounted' = mounted
      /\ file' = file /\ image' = image /\ kept' = kept
  BY DEF ScanCluster, Running, UnchangedRest
<1>4. PICK ok \in Oks :
        /\ io' = FetchFat(io, call.chain, ok)
        /\ Count(FetchFails(io, call.chain, ok))
        /\ \/ EndMark(NextCluster(io, call.chain, ok)) /\ NotFound
           \/ /\ ~EndMark(NextCluster(io, call.chain, ok)) /\ UNCHANGED kick
              /\ call' = [call EXCEPT !.chain = NextCluster(io, call.chain, ok), !.index = 0,
                                      !.sector = ClusterLba(NextCluster(io, call.chain, ok))]
  BY DEF ScanCluster, EndOfDirectory, EndMark
<1>5. PICK c : c = call.chain
  OBVIOUS
<1>6. c \in D /\ c \in Links
  BY <1>2, <1>3, <1>5, ScanPlace, DirTypes
<1>7. ok \in BOOLEAN /\ ~FetchFails(io, c, ok) /\ io \in IoType /\ CardTyped
  BY <1>4, <1>5, CountTyped DEF Oks, TypeInv, RestTyped
<1>8. io'.todo = <<>> /\ Buffered(io', card) /\ NextCluster(io, c, ok) = L[c]
  <2>1. PICK r : r = FetchFat(io, c, ok)
    OBVIOUS
  <2>2. r.todo = io.todo /\ Buffered(r, card) /\ NextCluster(io, c, ok) = L[c]
    BY <1>1, <1>2, <1>6, <1>7, <2>1, FetchQuiet
  <2> QED BY <1>3, <1>4, <1>5, <2>1, <2>2
<1>9. /\ call \in CallType /\ call.h \in Names /\ call.name \in Names
      /\ call.fn \in {"open", "create", "load"} /\ (call.fn # "create" => call.step = "scan")
      /\ kick = "none" /\ mounted
  <2>1. call \in CallType /\ call.h \in Names /\ call.name \in Names
    BY <1>3 DEF TypeInv, CallTyped
  <2>2. call.step \in Steps(call.fn)
    BY <1>2 DEF Calling
  <2>3. call.fn \in {"open", "create", "load"} /\ (call.fn # "create" => call.step = "scan")
    BY <1>3, <2>1, <2>2 DEF CallType, Steps
  <2>4. kick = "none" /\ mounted
    BY <1>2, <1>3 DEF Kicked, Unmounted, NoCall
  <2> QED BY <2>1, <2>3, <2>4
<1>10. VictimOf(call, file) = Nobody /\ Victim = Nobody
  BY <1>9 DEF VictimOf, Victim
<1>11. CASE ~EndMark(L[c])
  <2>1. /\ call' = [call EXCEPT !.chain = L[c], !.index = 0, !.sector = ClusterLba(L[c])]
        /\ kick' = kick
    BY <1>4, <1>5, <1>8, <1>11
  <2>2. PICK k : k = call'
    OBVIOUS
  <2>3. /\ k.fn = call.fn /\ k.step = call.step /\ k.h = call.h /\ k.name = call.name
        /\ k.cluster = call.cluster /\ k.longname = call.longname
        /\ k.chain = L[c] /\ k.index = 0 /\ k.sector = ClusterLba(L[c])
    BY <1>9, <2>1, <2>2 DEF CallType
  <2>4. Searching(L, R, D, pos, k)
    BY <1>2, <1>3, <1>5, <1>11, <2>3, ChainNext
  <2>5. /\ Calling(L, R, D, own, k, file, torn, kept) /\ VictimOf(k, file) = Nobody
        /\ Alike(card, k, file) /\ Handles(L, R, D, own, pos, k, file)
        /\ crashes = 0 => torn = {} /\ NoneLost(card, L, R, D, k, file)
    BY <1>2, <1>10, <2>3, CallMoved
  <2>6. Victim' = Nobody
    BY <1>3, <2>2, <2>5 DEF Victim
  <2>7. Loading' /\ Kicked' /\ Unmounted'
    BY <1>2, <1>3, <1>9, <2>1, <2>2, <2>3 DEF Loading, Kicked, Unmounted
  <2>8. Sound(L, R, D, own, pos, Counting(R, Victim', torn), torn, kept')
    BY <1>2, <1>3, <1>10, <2>6
  <2> QED BY <1>1, <1>2, <1>3, <1>8, <2>2, <2>4, <2>5, <2>7, <2>8, StillThen
<1>12. CASE EndMark(L[c])
  <2>0. NotFound
    BY <1>4, <1>5, <1>8, <1>12
  <2>1. call.step = "scan" => \A p \in FileSlots(R) : Ent(R, p).name # call.name
    BY <1>2, <1>3, <1>5, <1>12, ChainEnd
  <2>2. CASE call.fn = "create"
    <3>1. kick' = kick
      BY <2>0, <2>2 DEF NotFound
    <3>2. PICK k : k = call'
      OBVIOUS
    <3>3. /\ k.fn = "create" /\ k.h = call.h /\ k.name = call.name /\ k.cluster = call.cluster
          /\ k.step = IF call.step = "scan" THEN "alloc" ELSE "release"
      BY <1>3, <1>9, <2>0, <2>2, <3>2 DEF NotFound, CallType
    <3>4. VictimOf(k, file) = Nobody /\ Alike(card, k, file) /\ Searching(L, R, D, pos, k)
          /\ (Holding(k) <=> Holding(call))
      BY <1>3, <2>2, <3>3 DEF VictimOf, Alike, Searching, Holding
    <3>5. Calling(L, R, D, own, k, file, torn, kept)
      <4>1. k.step \in Steps(k.fn) /\ Deleting(R, k, file, kept)
        BY <3>3 DEF Steps, Deleting
      <4>2. Looking(k, file, torn)
        BY <1>2, <1>3, <2>2, <3>3 DEF Calling, Looking
      <4>3. Held(L, D, own, k, file)
        BY <1>2, <1>10, <2>2, <3>3, <3>4 DEF Calling, Held
      <4>4. \A p \in FileSlots(R) : Ent(R, p).name # k.name
        BY <1>2, <1>3, <2>1, <2>2, <3>3 DEF Calling
      <4> QED BY <3>3, <4>1, <4>2, <4>3, <4>4 DEF Calling
    <3>6. Handles(L, R, D, own, pos, k, file)
      BY <1>2, <1>9, HandlesKept
    <3>7. crashes = 0 => torn = {} /\ NoneLost(card, L, R, D, k, file)
      BY <1>2, <1>10, <3>3, <3>4 DEF NoneLost
    <3>8. Victim' = Nobody
      BY <1>3, <3>2, <3>4 DEF Victim
    <3>9. Loading' /\ Kicked' /\ Unmounted'
      BY <1>2, <1>3, <1>9, <2>2, <3>1, <3>2, <3>3 DEF Loading, Kicked, Unmounted
    <3>10. Sound(L, R, D, own, pos, Counting(R, Victim', torn), torn, kept')
      BY <1>2, <1>3, <1>10, <3>8
    <3> QED BY <1>1, <1>2, <1>3, <1>8, <3>2, <3>4, <3>5, <3>6, <3>7, <3>9, <3>10, StillThen
  <2>3. CASE call.fn # "create"
    <3>1. PICK k : k = call'
      OBVIOUS
    <3>2. /\ k.fn = "none" /\ k.step = "none" /\ k.name = call.name
          /\ kick' = IF call.fn = "load" THEN "stock" ELSE kick
      BY <2>0, <2>3, <3>1 DEF NotFound, NoCall
    <3>3. /\ Searching(L, R, D, pos, k) /\ Calling(L, R, D, own, k, file, torn, kept)
          /\ VictimOf(k, file) = Nobody /\ Alike(card, k, file)
      BY <3>2, CallOver
    <3>4. Handles(L, R, D, own, pos, k, file)
      BY <1>2, <1>9, HandlesKept
    <3>5. crashes = 0 => torn = {} /\ NoneLost(card, L, R, D, k, file)
      <4>1. ~Holding(call)
        BY <1>9, <2>3 DEF Holding
      <4> QED BY <1>2, <1>10, <3>3, <4>1, NoneLostKept
    <3>6. Victim' = Nobody
      BY <1>3, <3>1, <3>3 DEF Victim
    <3>7. Loading'
      BY <1>2, <1>3, <1>9, <2>3, <3>1, <3>2 DEF Loading
    <3>8. call.name \notin torn => kept[call.name] = -1
      BY <1>2, <1>9, <1>10, <2>1, <2>3 DEF KeptOK, Counting
    <3>9. Kicked'
      BY <1>3, <1>8, <1>9, <3>1, <3>2, <3>8 DEF Kicked, RomTrue
    <3>10. Unmounted'
      BY <1>3, <1>9 DEF Unmounted
    <3>11. Sound(L, R, D, own, pos, Counting(R, Victim', torn), torn, kept')
      BY <1>2, <1>3, <1>10, <3>6
    <3> QED BY <1>1, <1>2, <1>3, <1>8, <3>1, <3>3, <3>4, <3>5, <3>7, <3>9, <3>10, <3>11, StillThen
  <2> QED BY <2>2, <2>3
<1> QED BY <1>11, <1>12
LEMMA MissSearch ==
  ASSUME NEW L, NEW R, NEW D, NEW pos, Slotted(R), DirectoryOK(L, R, D, pos), LongNamesOK(L, R, D),
         Searching(L, R, D, pos, call), call.fn # "none", call.step \in {"scan", "slot"},
         call.index < dir_entries, NEW e, e = R[call.sector].v,
         call.step = "scan" => Matches(e) = {},
         NEW k, k.fn = call.fn, k.step = call.step, k.name = call.name, k.chain = call.chain,
         k.index = call.index + DPS, k.sector = call.sector + 1,
         k.longname = IF e[DPS - 1].attr = "lfn" THEN e[DPS - 1].name ELSE NoName
  PROVE  Searching(L, R, D, pos, k)
<1>1. /\ k.chain \in D
      /\ \E j \in 0..DIR_SECTORS : k.index = DPS * j /\ k.sector = DirBase(k.chain) + j
      /\ \A q \in DirSlots(R) : Upcoming(L, D, k, q) =>
            IF k.longname # NoName THEN Named(Ent(R, q), k.longname)
            ELSE \A p \in DirSlots(R) : Follows(L, D, p, q) => Ent(R, p).attr # "lfn"
  BY MissPlace
<1>2. ASSUME k.step = "scan" PROVE Ahead(R, D, pos, k)
  <2>1. ASSUME NEW i \in 0..(DPS - 1), <<call.sector, i>> \in FileSlots(R), e[i].name = call.name
        PROVE  FALSE
    <3>1. Ent(R, <<call.sector, i>>) = e[i]
      BY DEF Ent
    <3>2. i \in Matches(e)
      BY <2>1, <3>1 DEF Matches, FileSlots
    <3> QED BY <1>2, <3>2
  <2> QED BY <1>2, <2>1, MissIs
<1> QED BY <1>1, <1>2 DEF Searching

LEMMA MissStill ==
  ASSUME TypeInv, NEW D, NEW own, NEW pos, QuietAt(D, own, pos), ScanSector, file' = file,
         NEW L, L = LinksOf(card), NEW R, R = PlainOf(card), io'.todo = <<>>, Buffered(io', card),
         NEW k, k = call', k.fn = call.fn, k.step = call.step, k.h = call.h, k.name = call.name,
         k.cluster = call.cluster, Searching(L, R, D, pos, k)
  PROVE  \E own2, pos2, vs : Certified(D, own2, pos2, vs)'
<1>2. /\ Formatted(card)
      /\ Sound(L, R, D, own, pos, Counting(R, Victim, torn), torn, kept)
      /\ Alike(card, call, file) /\ Handles(L, R, D, own, pos, call, file)
      /\ Calling(L, R, D, own, call, file, torn, kept)
      /\ crashes = 0 => torn = {} /\ NoneLost(card, L, R, D, call, file)
      /\ Loading /\ Kicked /\ Unmounted
  BY Parts
<1>3. /\ call.fn # "none"
      /\ card' = card /\ torn' = torn /\ crashes' = crashes /\ mounted' = mounted
      /\ image' = image /\ kick' = kick /\ kept' = kept
  BY DEF ScanSector, Running, UnchangedRest
<1>4. kick = "none" /\ mounted
  BY <1>2, <1>3 DEF Kicked, Unmounted, NoCall
<1>5. /\ Calling(L, R, D, own, k, file, torn, kept) /\ VictimOf(k, file) = VictimOf(call, file)
      /\ Alike(card, k, file) /\ Handles(L, R, D, own, pos, k, file)
      /\ crashes = 0 => torn = {} /\ NoneLost(card, L, R, D, k, file)
  BY <1>2, CallMoved
<1>6. Victim' = Victim
  BY <1>5 DEF Victim
<1>7. Loading' /\ Kicked' /\ Unmounted'
  BY <1>2, <1>3, <1>4 DEF Loading, Kicked, Unmounted
<1>8. Sound(L, R, D, own, pos, Counting(R, Victim', torn), torn, kept')
  BY <1>2, <1>3, <1>6
<1> QED BY <1>2, <1>3, <1>5, <1>7, <1>8, StillThen

LEMMA FoundStill ==
  ASSUME TypeInv, NEW D, NEW own, NEW pos, QuietAt(D, own, pos), ScanSector, call.index < dir_entries,
         NEW L, L = LinksOf(card), NEW R, R = PlainOf(card), NEW e, e = R[call.sector].v,
         io'.todo = <<>>, Buffered(io', card),
         call.step = "scan", Matches(e) # {}, FoundName(e, FirstOf(Matches(e)))
  PROVE  \E own2, pos2, vs : Certified(D, own2, pos2, vs)'
<1>2. /\ Formatted(card)
      /\ Sound(L, R, D, own, pos, Counting(R, Victim, torn), torn, kept)
      /\ DirectoryOK(L, R, D, pos) /\ LongNamesOK(L, R, D)
      /\ FilesOK(L, R, D, own, pos, Counting(R, Victim, torn))
      /\ Alike(card, call, file) /\ Handles(L, R, D, own, pos, call, file)
      /\ Searching(L, R, D, pos, call) /\ Calling(L, R, D, own, call, file, torn, kept)
      /\ crashes = 0 => torn = {} /\ NoneLost(card, L, R, D, call, file)
      /\ Loading /\ Kicked /\ Unmounted
  BY Parts
<1>3. /\ call.fn # "none" /\ io.todo = <<>> /\ call.index < dir_entries
      /\ card' = card /\ torn' = torn /\ crashes' = crashes /\ mounted' = mounted
      /\ image' = image /\ kick' = kick /\ kept' = kept
  BY DEF ScanSector, Running, UnchangedRest
<1>4. /\ call \in CallType /\ call.name \in Names /\ call.h \in Names /\ kick = "none" /\ mounted
      /\ call.step \in Steps(call.fn)
  BY <1>2, <1>3 DEF TypeInv, CallTyped, Kicked, Unmounted, NoCall, Calling
<1>5. call.fn \in {"open", "create", "load"}
  BY <1>3, <1>4 DEF CallType, Steps
<1>8. /\ ~Holding(call) /\ VictimOf(call, file) = Nobody /\ Victim = Nobody
  BY <1>5 DEF Holding, VictimOf, Victim
<1>9. /\ ~file[call.h].open /\ \A g \in Names : ~(file[g].open /\ file[g].name = call.name)
      /\ call.fn # "create" => call.name \notin torn
  BY <1>2, <1>5 DEF Calling, Looking
<1>10. CASE call.fn = "create"
  <2>1. call' = NoCall /\ file' = file
    BY <1>10 DEF FoundName
  <2>2. PICK k : k = call'
    OBVIOUS
  <2>3. k.fn = "none" /\ k.step = "none"
    BY <2>1, <2>2 DEF NoCall
  <2>4. /\ Searching(L, R, D, pos, k) /\ Calling(L, R, D, own, k, file, torn, kept)
        /\ VictimOf(k, file) = Nobody /\ Alike(card, k, file)
    BY <2>3, CallOver
  <2>5. Handles(L, R, D, own, pos, k, file)
    BY <1>2, <1>5, HandlesKept
  <2>6. crashes = 0 => torn = {} /\ NoneLost(card, L, R, D, k, file)
    BY <1>2, <1>8, <2>4, NoneLostKept
  <2>7. Victim' = Nobody
    BY <2>1, <2>2, <2>4 DEF Victim
  <2>8. Loading' /\ Kicked' /\ Unmounted'
    BY <1>2, <1>3, <1>4, <1>10, <2>2, <2>3 DEF Loading, Kicked, Unmounted
  <2>9. Sound(L, R, D, own, pos, Counting(R, Victim', torn), torn, kept')
    BY <1>2, <1>3, <1>8, <2>7
  <2> QED BY <1>2, <1>3, <2>1, <2>2, <2>4, <2>5, <2>6, <2>8, <2>9, StillThen
<1>11. CASE call.fn # "create"
  <2>1. PICK i : i = FirstOf(Matches(e))
    OBVIOUS
  <2>2. i \in Matches(e) /\ i \in 0..(DPS - 1)
    <3>1. Matches(e) \subseteq Nat
      <4>1. \A x \in 0..(DPS - 1) : x \in Nat
        BY ConstantTypes
      <4> QED BY <4>1 DEF Matches
    <3>2. i \in Matches(e)
      BY <2>1, <3>1, Least
    <3> QED BY <3>2 DEF Matches
  <2>3. PICK f : f = Opened(call.name, e, i, FALSE)
    OBVIOUS
  <2>4. /\ file' = [file EXCEPT ![call.h] = f]
        /\ call' = IF call.fn = "load" THEN [call EXCEPT !.step = "read"] ELSE NoCall
    BY <1>11, <2>1, <2>3 DEF FoundName
  <2>5. PICK p : p = <<call.sector, i>>
    OBVIOUS
  <2>6. /\ p \in FileSlots(R) /\ Ent(R, p) = e[i] /\ e[i].name = call.name
        /\ e[i].attr \in {"normal", "archive"} /\ e[i] \in Entry
    <3>1. Slotted(R) /\ DirectoryOK(L, R, D, pos) /\ LongNamesOK(L, R, D) /\ Searching(L, R, D, pos, call)
      BY <1>2, SlottedIs
    <3>3. call.fn # "none" /\ call.index < dir_entries /\ call.name \in Names
      BY <1>3, <1>4
    <3> QED BY <2>2, <2>5, <3>1, <3>3, MatchIs
  <2>7. /\ f.open /\ f.name = call.name /\ f.first = e[i].first /\ f.cluster = e[i].first
        /\ f.size = e[i].size /\ f.rest = e[i].rest /\ f.sector = 0 /\ ~f.dirty /\ ~f.eof
        /\ f.dirsector = call.sector /\ f.dirindex = call.index + i
    BY <2>3 DEF Opened, NoFile
  <2>8. SlotOf(f) = p
    <3>1. PICK j \in 0..(DIR_SECTORS - 1) : call.index = DPS * j
      BY <1>2, <1>3, ScanPlace
    <3>2. (DPS * j + i) % DPS = i
      <4>1. j \in Nat
        BY ConstantTypes
      <4> QED BY <2>2, <4>1, Entries
    <3> QED BY <2>5, <2>7, <3>1, <3>2 DEF SlotOf
  <2>9. FileOK(L, R, D, own, pos, p, f.first, f.size, f.name)
    <3>1. p \in DirSlots(R)
      BY <2>6 DEF FileSlots
    <3>2. p \in Counting(R, Victim, torn)
      BY <1>8, <1>9, <1>11, <2>6, <3>1, SlotTypes DEF Counting
    <3> QED BY <1>2, <2>6, <2>7, <3>2 DEF FilesOK
  <2>22. f.size \in Nat
    <3>1. e[i].size \in 0..MaxSectors
      BY <2>6 DEF Entry
    <3>2. MaxSectors \in Nat
      BY VolumesAssumption
    <3> QED BY <2>7, <3>1, <3>2
  <2>10. HandleOK(L, R, D, own, pos, f)
    <3>1. p \in DirSlots(R) /\ f.size \in Nat
      BY <2>6, <2>22 DEF FileSlots
    <3>2. f.first # 0 => f.first \in Clusters \ D /\ own[f.first] = p /\ pos[f.first] = 0
      BY <2>9, FileFirst
    <3>3. 0 \div cluster_size = 0
      BY ConstantTypes, Z3
    <3>4. f.size <= f.size /\ 0 <= f.size
      BY <3>1
    <3>5. f.dirty = FALSE
      BY <2>3 DEF Opened, NoFile
    <3> QED BY <2>6, <2>7, <2>8, <2>9, <3>1, <3>2, <3>3, <3>4, <3>5 DEF HandleOK
  <2>11. PICK F : F = file'
    OBVIOUS
  <2>12. \A x \in Names : F[x] = IF x = call.h THEN f ELSE file[x]
    BY <1>4, <2>4, <2>11 DEF TypeInv, FileTyped
  <2>13. PICK k : k = call'
    OBVIOUS
  <2>14. /\ k.fn = IF call.fn = "load" THEN "load" ELSE "none"
         /\ k.step = IF call.fn = "load" THEN "read" ELSE "none"
         /\ k.fn = "load" => k.h = call.h /\ k.name = call.name
    BY <1>4, <2>4, <2>13 DEF CallType, NoCall
  <2>15. Handles(L, R, D, own, pos, k, F)
    <3>1. \A x \in Names : x # call.h /\ file[x].open => file[x].name # f.name
      BY <1>9, <2>7
    <3>2. k.fn # "delete" /\ call.fn # "delete"
      BY <1>5, <2>14
    <3> QED BY <1>2, <1>4, <2>10, <2>12, <3>1, <3>2, HandlesPut
  <2>16. /\ Searching(L, R, D, pos, k) /\ VictimOf(k, F) = Nobody /\ Alike(card, k, F)
         /\ Calling(L, R, D, own, k, F, torn, kept)
    <3>1. CASE call.fn = "load"
      BY <2>14, <3>1 DEF Searching, VictimOf, Alike, Calling, Steps, Looking, Held, Holding, Deleting
    <3>2. CASE call.fn # "load"
      BY <2>14, <3>2, CallOver
    <3> QED BY <3>1, <3>2
  <2>17. crashes = 0 => torn = {} /\ NoneLost(card, L, R, D, k, F)
    BY <1>2, <1>8, <2>16, NoneLostKept
  <2>18. Victim' = Nobody
    BY <2>11, <2>13, <2>16 DEF Victim
  <2>19. Loading'
    <3>1. image = <<>> /\ (call.fn = "load" => \A h \in Names : file[h].open => h = call.h)
      BY <1>2, <1>4 DEF Loading
    <3>2. ASSUME call'.fn = "load"
          PROVE  /\ \A h \in Names : file'[h].open => h = call'.h
                 /\ call'.step = "read"
                 /\ file'[call'.h] = f /\ call'.name = call.name
      <4>1. call.fn = "load" /\ call'.h = call.h /\ call'.name = call.name /\ call'.step = "read"
        BY <2>13, <2>14, <3>2
      <4>2. file'[call.h] = f /\ \A h \in Names : h # call.h => file'[h] = file[h]
        BY <1>4, <2>11, <2>12
      <4> QED BY <3>1, <4>1, <4>2
    <3>3. Len(<<>>) = 0 /\ image' = <<>>
      BY <1>3, <3>1
    <3>4. f.size \in Nat
      BY <2>22
    <3>5. 0 < f.size => f.cluster # 0
      <4>1. f.first = 0 => f.size = 0
        BY <2>9 DEF FileOK
      <4> QED BY <2>7, <3>4, <4>1
    <3>6. call.fn = "load" => call.name \notin torn
      BY <1>9
    <3>7. call'.fn = "load" => call.fn = "load"
      BY <2>13, <2>14
    <3>8. torn' = torn
      BY <1>3
    <3>9. f.dirty = FALSE /\ f.eof = FALSE /\ f.open = TRUE
      BY <2>3 DEF Opened, NoFile
    <3>10. \A z \in 1..Len(image') : image'[z] = Token(call'.name, z - 1)
      BY <3>3
    <3>11. Len(image') = 0
      BY <3>3
    <3>12. call'.fn = "load" =>
             LET y == file'[call'.h] IN
             /\ y.open /\ y.name = call'.name /\ ~y.dirty /\ call'.name \notin torn'
             /\ Len(image') <= Reach(y)
             /\ Len(image') < y.size => y.sector = Len(image') /\ ~y.eof /\ y.cluster # 0
      <4>1. SUFFICES ASSUME call'.fn = "load"
                     PROVE  LET y == file'[call'.h] IN
                            /\ y.open /\ y.name = call'.name /\ ~y.dirty /\ call'.name \notin torn'
                            /\ Len(image') <= Reach(y)
                            /\ Len(image') < y.size => y.sector = Len(image') /\ ~y.eof /\ y.cluster # 0
        OBVIOUS
      <4>2. file'[call'.h] = f /\ call'.name = call.name /\ call'.name \notin torn'
        BY <3>2, <3>6, <3>7, <3>8, <4>1
      <4>3. f.name = call.name /\ f.sector = 0
        BY <2>7
      <4>4. Len(image') <= Reach(f) /\ (Len(image') < f.size => f.sector = Len(image') /\ f.cluster # 0)
        BY <3>4, <3>5, <3>11, <4>3 DEF Reach
      <4> QED BY <3>9, <4>2, <4>3, <4>4
    <3>13. PICK y : y = file'[call'.h]
      OBVIOUS
    <3>14. Reach(file[call.h])' = Reach(y)
      BY <3>13 DEF Reach
    <3> QED BY <3>2, <3>3, <3>10, <3>12, <3>13, <3>14 DEF Loading
  <2>20. Kicked' /\ Unmounted'
    BY <1>3, <1>4 DEF Kicked, Unmounted
  <2>21. Sound(L, R, D, own, pos, Counting(R, Victim', torn), torn, kept')
    BY <1>2, <1>3, <1>8, <2>18
  <2> QED
    BY <1>2, <1>3, <2>11, <2>13, <2>15, <2>16, <2>17, <2>19, <2>20, <2>21, StillThen
<1> QED BY <1>10, <1>11
-----------------------------------------------------------------------------
(* A step that writes an entry: p is its slot, e the entry.                *)

Block(v, p, e, b) ==
  b.kind = "dir" /\ \A i \in 0..(DPS - 1) : b.v[i] = IF i = p[2] THEN e ELSE v[p[1]].v[i]
EntryStep(v, w, p, e) ==
  /\ Formatted(w) /\ LinksOf(w) = LinksOf(v)
  /\ Mirrored(v) => Mirrored(w)
  /\ \A m : m.cached = p[1] => Buffered(m, w)
  /\ DirSectors(PlainOf(w)) = DirSectors(PlainOf(v)) /\ DirSlots(PlainOf(w)) = DirSlots(PlainOf(v))
  /\ \A q \in DirSlots(PlainOf(v)) : Ent(PlainOf(w), q) = IF q = p THEN e ELSE Ent(PlainOf(v), q)
  /\ \A t \in Lba \ FatArea : t \notin DirSectors(PlainOf(v)) => PlainOf(w)[t] = PlainOf(v)[t]

LEMMA EntryBlock ==
  ASSUME NEW v, Formatted(v), NEW p \in DirSlots(PlainOf(v)), NEW e \in Entry,
         e.attr = "directory" => e.name \notin Names,
         NEW x, x = [v[p[1]].v EXCEPT ![p[2]] = e], NEW b, b = [kind |-> "dir", v |-> x]
  PROVE  Plain(b) /\ Block(v, p, e, b) /\ p[1] \in Lba \ FatArea /\ p[1] \in Lba
<1>1. p[2] \in 0..(DPS - 1) /\ p[1] \in Lba \ FatArea
  BY SlotTypes
<1>2. v[p[1]].v \in [0..(DPS - 1) -> Entry] /\ v[p[1]].kind = "dir"
  BY SlotEntry
<1>3. x \in [0..(DPS - 1) -> Entry]
      /\ \A i \in 0..(DPS - 1) : x[i] = IF i = p[2] THEN e ELSE v[p[1]].v[i]
  BY <1>1, <1>2
<1>4. \A i \in 0..(DPS - 1) : v[p[1]].v[i].attr = "directory" => v[p[1]].v[i].name \notin Names
  BY <1>1, <1>2 DEF Formatted
<1>5. b \in DirContent /\ b.kind = "dir"
  BY <1>3 DEF DirContent
<1>6. \A i \in 0..(DPS - 1) : b.v[i].attr = "directory" => b.v[i].name \notin Names
  BY <1>3, <1>4
<1> QED BY <1>1, <1>3, <1>5, <1>6 DEF Plain, Block

LEMMA EntryBlockPut ==
  ASSUME NEW v, NEW w, NEW p, NEW e, NEW b, Formatted(v), p \in DirSlots(PlainOf(v)), Block(v, p, e, b),
         PlainStep(v, w, p[1], b)
  PROVE  EntryStep(v, w, p, e)
<1>3. PICK R, R2 : R = PlainOf(v) /\ R2 = PlainOf(w)
  OBVIOUS
<1> p \in DirSlots(R)
  BY <1>3
<1>1. R[p[1]] = v[p[1]] /\ p[1] \in DirSectors(R) /\ p[1] \in Lba \ FatArea
  BY <1>3, SlotEntry, SlotTypes
<1>2. b.kind = "dir" /\ \A i \in 0..(DPS - 1) : b.v[i] = IF i = p[2] THEN e ELSE R[p[1]].v[i]
  BY <1>1 DEF Block
<1>4. \A t \in Lba \ FatArea : R2[t] = IF t = p[1] THEN b ELSE R[t]
  BY <1>3 DEF PlainStep
<1>5. DirSectors(R2) = DirSectors(R)
  BY <1>2, <1>4, EntryPut
<1>6. \A q \in DirSlots(R) : Ent(R2, q) = IF q = p THEN e ELSE Ent(R, q)
  <2>1. ASSUME NEW q \in DirSlots(R)
        PROVE  Ent(R2, q) = IF q = p THEN e ELSE Ent(R, q)
    BY <1>2, <1>4, <2>1, EntryPut
  <2> QED BY <2>1
<1>7. \A t \in Lba \ FatArea : t \notin DirSectors(R) => R2[t] = R[t]
  BY <1>1, <1>4
<1>8. DirSlots(R2) = DirSlots(R)
  BY <1>5 DEF DirSlots
<1>9. \A m : m.cached = p[1] => Buffered(m, w)
  BY <1>1, Areas DEF Buffered
<1>10. Formatted(w) /\ LinksOf(w) = LinksOf(v) /\ (Mirrored(v) => Mirrored(w))
  BY DEF PlainStep
<1> QED BY <1>3, <1>5, <1>6, <1>7, <1>8, <1>9, <1>10 DEF EntryStep

LEMMA EntryWritten ==
  ASSUME NEW v, Formatted(v), NEW p, p \in DirSlots(PlainOf(v)), NEW e, NEW b, Plain(b), Block(v, p, e, b),
         NEW w, w = Put(v, p[1], b)
  PROVE  EntryStep(v, w, p, e)
<1>1. p[1] \in Lba \ FatArea
  BY SlotTypes
<1>2. PlainStep(v, w, p[1], b)
  BY <1>1, PlainPut
<1> QED BY <1>2, EntryBlockPut

EntryAs(R, R2, p, e) ==
  /\ DirSlots(R2) = DirSlots(R) /\ e.attr # "lfn"
  /\ \A q \in DirSlots(R) : Ent(R2, q) = IF q = p THEN e ELSE Ent(R, q)

LEMMA HandleEntry ==
  ASSUME NEW L, NEW R, NEW D, NEW own, NEW pos, NEW f, HandleOK(L, R, D, own, pos, f),
         NEW p, NEW e, NEW R2, EntryAs(R, R2, p, e), SlotOf(f) # p,
         NEW own2, NEW pos2, FileOK(L, R2, D, own2, pos2, SlotOf(f), f.first, f.size, f.name),
         ~f.eof /\ f.cluster # 0 => own2[f.cluster] = own[f.cluster] /\ pos2[f.cluster] = pos[f.cluster]
  PROVE  HandleOK(L, R2, D, own2, pos2, f)
<1>1. /\ SlotOf(f) \in DirSlots(R2) /\ Ent(R2, SlotOf(f)) = Ent(R, SlotOf(f))
  BY DEF HandleOK, EntryAs
<1>2. ASSUME \A q \in DirSlots(R) : Follows(L, D, q, SlotOf(f)) => Ent(R, q).attr # "lfn"
      PROVE  \A q \in DirSlots(R2) : Follows(L, D, q, SlotOf(f)) => Ent(R2, q).attr # "lfn"
  BY <1>2 DEF EntryAs
<1> QED BY <1>1, <1>2 DEF HandleOK

(* A free slot that nobody reads takes a new file.                         *)
LEMMA NewSound ==
  ASSUME NEW L, NEW R, NEW D, NEW own, NEW pos, NEW gone, NEW relied,
         Sound(L, R, D, own, pos, Counting(R, Nobody, gone), gone, relied),
         NEW p \in DirSlots(R), p \notin FileSlots(R), NEW c \in Clusters \ D, L[c] = EOC,
         ~Linked(L, D, c), own[c] = Nobody, NEW own2, NEW pos2,
         \A d \in Clusters \ D : /\ own2[d] = IF d = c THEN p ELSE IF own[d] = p THEN Nobody ELSE own[d]
                                 /\ pos2[d] = IF d = c THEN 0 ELSE pos[d],
         \A d \in D : pos2[d] = pos[d],
         \A q \in DirSlots(R) : Follows(L, D, q, p) => Ent(R, q).attr # "lfn",
         NEW R2, DirSectors(R2) = DirSectors(R), DirSlots(R2) = DirSlots(R), NEW e,
         \A q \in DirSlots(R) : Ent(R2, q) = IF q = p THEN e ELSE Ent(R, q),
         \A t \in Lba \ FatArea : t \notin DirSectors(R) => R2[t] = R[t],
         e.attr = "normal", e.name \in Names, e.first = c, e.size = 0,
         \A q \in FileSlots(R) : Ent(R, q).name # e.name
  PROVE  /\ Sound(L, R, D, own2, pos2, Counting(R, Nobody, gone), gone, relied)
         /\ Sound(L, R2, D, own2, pos2, Counting(R2, Nobody, gone), gone, relied)
         /\ FileSlots(R2) = FileSlots(R) \cup {p}
         /\ \A q, f, size, n : q # p /\ q # Nobody /\ FileOK(L, R, D, own, pos, q, f, size, n) =>
              FileOK(L, R2, D, own2, pos2, q, f, size, n)
         /\ \A n : FileOK(L, R2, D, own2, pos2, p, c, 0, n)
<1>1. DirectoryOK(L, R, D, pos) /\ LongNamesOK(L, R, D) /\ ChainsOK(L, D, own, pos)
  BY DEF Sound, Layout
<1>2. p # Nobody /\ \A q \in DirSlots(R) : q # Nobody
  BY SlotTypes
<1>3. /\ ChainsOK(L, D, own2, pos2)
      /\ \A X, q, f, size, n : q # p /\ q # Nobody /\ FileOK(L, X, D, own, pos, q, f, size, n) =>
           FileOK(L, X, D, own2, pos2, q, f, size, n)
      /\ \A X, n : FileOK(L, X, D, own2, pos2, p, c, 0, n)
  BY <1>1, <1>2, Adopt
<1>4. DirectoryOK(L, R, D, pos2)
  <2>1. \A d \in D : L[d] = L[d] /\ pos2[d] = pos[d]
    OBVIOUS
  <2> QED BY <1>1, <2>1, DirFrame
<1>5. DirectoryOK(L, R2, D, pos2)
  BY <1>4, SlotsFrame
<1>6. LongNamesOK(L, R2, D)
  BY <1>1, LongNamesPut
<1>7. \A q, f, size, n : q # p /\ q # Nobody /\ FileOK(L, R, D, own, pos, q, f, size, n) =>
        FileOK(L, R2, D, own2, pos2, q, f, size, n)
  BY <1>3, <1>4, EntryFrame
<1>8. FileSlots(R2) = FileSlots(R) \cup {p}
  <2>1. e.name \notin Free
    BY VolumesAssumption
  <2> QED BY <2>1 DEF FileSlots
<1>9. \A q \in FileSlots(R) : q # p /\ q # Nobody /\ q \in DirSlots(R) /\ Ent(R2, q) = Ent(R, q)
  BY <1>2 DEF FileSlots
<1>10. /\ FilesOK(L, R, D, own, pos, Counting(R, Nobody, gone))
       /\ NamesOK(R, Counting(R, Nobody, gone)) /\ KeptOK(R, Counting(R, Nobody, gone), gone, relied)
  BY DEF Sound
<1>11. FilesOK(L, R, D, own2, pos2, Counting(R, Nobody, gone))
  BY <1>3, <1>9, <1>10 DEF FilesOK, Counting
<1>12. \A q \in Counting(R2, Nobody, gone) : q = p \/ q \in Counting(R, Nobody, gone)
  BY <1>8, <1>9 DEF Counting
<1>13. \A q \in Counting(R, Nobody, gone) :
         q \in Counting(R2, Nobody, gone) /\ q \in FileSlots(R) /\ q # p /\ Ent(R2, q) = Ent(R, q)
  BY <1>8, <1>9 DEF Counting
<1>14. FilesOK(L, R2, D, own2, pos2, Counting(R2, Nobody, gone))
  <2>1. ASSUME NEW q \in Counting(R2, Nobody, gone)
        PROVE  FileOK(L, R2, D, own2, pos2, q, Ent(R2, q).first, Ent(R2, q).size, Ent(R2, q).name)
    <3>1. CASE q = p
      BY <1>3, <3>1
    <3>2. CASE q \in Counting(R, Nobody, gone)
      <4>1. FileOK(L, R, D, own, pos, q, Ent(R, q).first, Ent(R, q).size, Ent(R, q).name)
        BY <1>10, <3>2 DEF FilesOK
      <4> QED BY <1>7, <1>9, <1>13, <3>2, <4>1
    <3> QED BY <1>12, <3>1, <3>2
  <2> QED BY <2>1 DEF FilesOK
<1>15. NamesOK(R2, Counting(R2, Nobody, gone))
  <2>1. Ent(R2, p) = e
    OBVIOUS
  <2>2. ASSUME NEW q \in Counting(R2, Nobody, gone), NEW x \in Counting(R2, Nobody, gone),
               Ent(R2, q).name = Ent(R2, x).name, Ent(R2, q).name \in Names
        PROVE  q = x
    BY <1>10, <1>12, <1>13, <2>1, <2>2 DEF NamesOK
  <2> QED BY <2>2 DEF NamesOK
<1>16. KeptOK(R2, Counting(R2, Nobody, gone), gone, relied)
  <2>1. ASSUME NEW n \in Names \ gone, relied[n] # -1
        PROVE  \E q \in Counting(R2, Nobody, gone) : Ent(R2, q).name = n /\ Ent(R2, q).size >= relied[n]
    <3>1. PICK q \in Counting(R, Nobody, gone) : Ent(R, q).name = n /\ Ent(R, q).size >= relied[n]
      BY <1>10, <2>1 DEF KeptOK
    <3> QED BY <1>13, <3>1
  <2> QED BY <2>1 DEF KeptOK
<1>17. Sound(L, R, D, own2, pos2, Counting(R, Nobody, gone), gone, relied)
  BY <1>1, <1>3, <1>4, <1>10, <1>11 DEF Sound, Layout
<1>18. Sound(L, R2, D, own2, pos2, Counting(R2, Nobody, gone), gone, relied)
  BY <1>3, <1>5, <1>6, <1>14, <1>15, <1>16 DEF Sound, Layout
<1> QED BY <1>3, <1>7, <1>8, <1>17, <1>18
EntryStore(m, p, e) == Write(m, p[1], [kind |-> "dir", v |-> [card[p[1]].v EXCEPT ![p[2]] = e]])

LEMMA EntryGoes ==
  ASSUME Formatted(card), NEW p, p \in DirSlots(PlainOf(card)), NEW e \in Entry,
         e.attr = "directory" => e.name \notin Names, NEW m \in IoType, m.todo = <<>>, m.cached = p[1],
         io' = EntryStore(m, p, e)
  PROVE  \E w, vs : /\ EntryStep(card, w, p, e)
                    /\ Trace(card, io'.todo, vs) /\ End(io'.todo, vs) = w
                    /\ \A i \in DOMAIN vs : vs[i] \in {card, w}
                    /\ Buffered(io', w)
<1>1. PICK v : v = card
  OBVIOUS
<1>2. PICK x, b : x = [v[p[1]].v EXCEPT ![p[2]] = e] /\ b = [kind |-> "dir", v |-> x]
  OBVIOUS
<1>3. Plain(b) /\ Block(v, p, e, b) /\ p[1] \in Lba
  BY <1>1, <1>2, EntryBlock
<1>4. PICK w : w = Put(v, p[1], b)
  OBVIOUS
<1>5. EntryStep(v, w, p, e)
  BY <1>1, <1>3, <1>4, EntryWritten
<1>6. PICK s, ws : s = p[1] /\ ws = <<[lba |-> s, b |-> b, left |-> 0]>>
  OBVIOUS
<1>7. io'.todo = ws /\ io'.cached = m.cached
  BY <1>1, <1>2, <1>6 DEF Write, IoType, EntryStore
<1>8. PICK vs : Trace(v, ws, vs) /\ End(ws, vs) = w /\ \A i \in DOMAIN vs : vs[i] \in {v, w}
  <2>1. w = [v EXCEPT ![s] = b] /\ s \in Lba
    BY <1>3, <1>4, <1>6 DEF Put
  <2> QED BY <1>6, <2>1, WriteTrace
<1>9. Buffered(io', w)
  BY <1>5, <1>7 DEF EntryStep
<1> QED BY <1>1, <1>5, <1>7, <1>8, <1>9
LEMMA SlotSpace ==
  ASSUME NEW D, NEW pos, NEW L, NEW R, Slotted(R), DirectoryOK(L, R, D, pos), LongNamesOK(L, R, D),
         Searching(L, R, D, pos, call), call.fn # "none", call.step \in {"scan", "slot"},
         call.index < dir_entries, NEW e, e = R[call.sector].v, NEW i \in Slots(e),
         NEW p, p = <<call.sector, i>>
  PROVE  /\ p \in DirSlots(R) /\ p \notin FileSlots(R) /\ Ent(R, p).name \in Free
         /\ \A q \in DirSlots(R) : Follows(L, D, q, p) => Ent(R, q).attr # "lfn"
<1>1. i \in 0..(DPS - 1) /\ LongName(e, i) = NoName /\ e[i].name \in Free
  BY DEF Slots
<1>2. /\ p \in DirSlots(R) /\ Ent(R, p) = e[i]
      /\ LongName(e, i) = NoName =>
           \A q \in DirSlots(R) : Follows(L, D, q, p) =>
             Ent(R, q).attr # "lfn" \/ Ent(R, q).name = NoName
  BY <1>1, LongNameIs
<1> QED BY <1>1, <1>2 DEF Slotted, FileSlots

(* Who owns a cluster, and where it is, once slot p has cluster c.         *)
OwnedBy(D, own, p, c) ==
  [d \in Clusters \ D |-> IF d = c THEN p ELSE IF own[d] = p THEN Nobody ELSE own[d]]
PlacedAt(D, pos, c) == [d \in Clusters \cup D |-> IF d = c THEN 0 ELSE pos[d]]

LEMMA OwnedIs ==
  ASSUME NEW D, NEW own, NEW pos, NEW p, NEW c \in Clusters \ D
  PROVE  /\ \A d \in Clusters \ D :
              /\ OwnedBy(D, own, p, c)[d] = IF d = c THEN p ELSE IF own[d] = p THEN Nobody ELSE own[d]
              /\ PlacedAt(D, pos, c)[d] = IF d = c THEN 0 ELSE pos[d]
         /\ \A d \in D : PlacedAt(D, pos, c)[d] = pos[d]
BY DEF OwnedBy, PlacedAt

LEMMA SlotStill ==
  ASSUME TypeInv, NEW D, NEW own, NEW pos, QuietAt(D, own, pos), ScanSector, call.index < dir_entries,
         NEW L, L = LinksOf(card), NEW R, R = PlainOf(card), NEW e, e = R[call.sector].v,
         NEW m \in IoType, m.todo = <<>>, m.cached = call.sector,
         call.step = "slot", Slots(e) # {}, FoundSlot(m, e, FirstOf(Slots(e)))
  PROVE  \E own2, pos2, vs : Certified(D, own2, pos2, vs)'
<1>1. /\ Formatted(card)
      /\ Sound(L, R, D, own, pos, Counting(R, Victim, torn), torn, kept)
      /\ DirectoryOK(L, R, D, pos) /\ LongNamesOK(L, R, D)
      /\ Handles(L, R, D, own, pos, call, file)
      /\ Searching(L, R, D, pos, call) /\ Calling(L, R, D, own, call, file, torn, kept)
      /\ crashes = 0 => torn = {} /\ NoneLost(card, L, R, D, call, file)
      /\ Loading /\ Kicked /\ Unmounted
  BY Parts
<1>2. /\ call.fn # "none" /\ io.todo = <<>>
      /\ card' = card /\ torn' = torn /\ crashes' = crashes /\ mounted' = mounted
      /\ image' = image /\ kick' = kick /\ kept' = kept
  BY DEF ScanSector, Running, UnchangedRest
<1>3. /\ call \in CallType /\ call.name \in Names /\ call.h \in Names /\ kick = "none" /\ mounted
      /\ call.step \in Steps(call.fn)
  BY <1>1, <1>2 DEF TypeInv, CallTyped, Kicked, Unmounted, NoCall, Calling
<1>4. call.fn = "create"
  BY <1>2, <1>3 DEF CallType, Steps
<1>5. VictimOf(call, file) = Nobody /\ Victim = Nobody
  BY <1>4 DEF VictimOf, Victim
<1>6. PICK c, n : c = call.cluster /\ n = call.name
  OBVIOUS
<1>7. /\ c \in Clusters \ D /\ L[c] = EOC /\ ~Linked(L, D, c) /\ own[c] = Nobody /\ c # 0
  BY <1>1, <1>4, <1>5, <1>6, LinkFacts DEF Calling, Held, Holding
<1>8. /\ ~file[call.h].open /\ \A g \in Names : ~(file[g].open /\ file[g].name = n)
      /\ \A q \in FileSlots(R) : Ent(R, q).name # n
  BY <1>1, <1>4, <1>6 DEF Calling, Looking
<1>9. PICK i : i = FirstOf(Slots(e))
  OBVIOUS
<1>10. i \in Slots(e) /\ i \in 0..(DPS - 1)
  <2>1. \A x \in 0..(DPS - 1) : x \in Nat
    BY ConstantTypes
  <2>2. Slots(e) \subseteq Nat
    BY <2>1 DEF Slots
  <2>3. i \in Slots(e)
    BY <1>9, <2>2, Least
  <2> QED BY <2>3 DEF Slots
<1>11. PICK p : p = <<call.sector, i>>
  OBVIOUS
<1>12. /\ p \in DirSlots(R) /\ p \notin FileSlots(R) /\ Ent(R, p).name \in Free
       /\ \A q \in DirSlots(R) : Follows(L, D, q, p) => Ent(R, q).attr # "lfn"
  <2>1. Slotted(R)
    BY <1>1, SlottedIs
  <2>2. call.fn # "none" /\ call.step \in {"scan", "slot"}
    BY <1>2
  <2> QED BY <1>1, <1>10, <1>11, <2>1, <2>2, SlotSpace
<1>13. PICK x, f : x = NewEntry /\ f = Opened(n, [j \in {i} |-> x], i, TRUE)
  OBVIOUS
<1>14. /\ x \in Entry /\ x.attr = "normal" /\ x.name = n /\ x.first = c /\ x.size = 0
  <2>1. c \in Link /\ n \in Names
    BY <1>3, <1>6 DEF CallType
  <2>2. 0 \in 0..MaxSectors
    BY VolumesAssumption
  <2> QED BY <1>6, <1>13, <2>1, <2>2 DEF NewEntry, Entry, Attributes, Rests
<1>15. /\ f.open /\ f.name = n /\ f.first = c /\ f.cluster = c /\ f.size = 0 /\ f.sector = 0 /\ f.dirty
       /\ ~f.eof /\ f.dirsector = call.sector /\ f.dirindex = call.index + i
  BY <1>13, <1>14 DEF Opened, NoFile
<1>16. /\ io' = EntryStore(m, p, x)
       /\ file' = [file EXCEPT ![call.h] = f] /\ call' = NoCall
  <2>1. R[call.sector] = card[call.sector]
    BY <1>1, <1>11, <1>12, SlotEntry
  <2> QED BY <1>6, <1>9, <1>11, <1>13, <2>1 DEF FoundSlot, EntryStore
<1>17. PICK w, vs : /\ EntryStep(card, w, p, x)
                    /\ Trace(card, io'.todo, vs) /\ End(io'.todo, vs) = w
                    /\ \A z \in DOMAIN vs : vs[z] \in {card, w}
                    /\ Buffered(io', w)
  <2>1. p \in DirSlots(PlainOf(card)) /\ (x.attr = "directory" => x.name \notin Names) /\ m.cached = p[1]
    BY <1>11, <1>12, <1>14
  <2> QED BY <1>1, <1>14, <1>16, <2>1, EntryGoes
<1>18. PICK R2 : R2 = PlainOf(w)
  OBVIOUS
<1>19. /\ Formatted(w) /\ LinksOf(w) = L /\ (Mirrored(card) => Mirrored(w))
       /\ DirSectors(R2) = DirSectors(R) /\ DirSlots(R2) = DirSlots(R)
       /\ \A q \in DirSlots(R) : Ent(R2, q) = IF q = p THEN x ELSE Ent(R, q)
       /\ \A t \in Lba \ FatArea : t \notin DirSectors(R) => R2[t] = R[t]
  BY <1>17, <1>18 DEF EntryStep
<1>20. PICK own2, pos2 : own2 = OwnedBy(D, own, p, c) /\ pos2 = PlacedAt(D, pos, c)
  OBVIOUS
<1>21. /\ \A d \in Clusters \ D : /\ own2[d] = IF d = c THEN p ELSE IF own[d] = p THEN Nobody ELSE own[d]
                                  /\ pos2[d] = IF d = c THEN 0 ELSE pos[d]
       /\ \A d \in D : pos2[d] = pos[d]
  BY <1>7, <1>20, OwnedIs
<1>22. /\ Sound(L, R, D, own2, pos2, Counting(R, Nobody, torn), torn, kept)
       /\ Sound(L, R2, D, own2, pos2, Counting(R2, Nobody, torn), torn, kept)
       /\ FileSlots(R2) = FileSlots(R) \cup {p}
       /\ \A q, g, size, z : q # p /\ q # Nobody /\ FileOK(L, R, D, own, pos, q, g, size, z) =>
            FileOK(L, R2, D, own2, pos2, q, g, size, z)
       /\ \A z : FileOK(L, R2, D, own2, pos2, p, c, 0, z)
  BY <1>1, <1>3, <1>5, <1>6, <1>7, <1>8, <1>12, <1>14, <1>19, <1>21, NewSound
<1>23. PICK k, F : k = call' /\ F = file'
  OBVIOUS
<1>24. /\ k.fn = "none" /\ k.step = "none" /\ \A z \in Names : F[z] = IF z = call.h THEN f ELSE file[z]
  BY <1>3, <1>16, <1>23 DEF TypeInv, FileTyped, NoCall
<1>25. /\ Searching(L, R2, D, pos2, k) /\ Calling(L, R2, D, own2, k, F, torn, kept)
       /\ ~Holding(k) /\ VictimOf(k, F) = Nobody /\ Alike(card, k, F) /\ Alike(w, k, F)
  BY <1>24, CallOver
<1>26. Victim' = Nobody
  BY <1>23, <1>25 DEF Victim
<1>27. SlotOf(f) = p
  <2>1. PICK j \in 0..(DIR_SECTORS - 1) : call.index = DPS * j
    BY <1>1, <1>2, ScanPlace
  <2>2. (DPS * j + i) % DPS = i
    <3>1. j \in Nat
      BY ConstantTypes
    <3> QED BY <1>10, <3>1, Entries
  <2> QED BY <1>11, <1>15, <2>1, <2>2 DEF SlotOf
<1>28. HandleOK(L, R2, D, own2, pos2, f)
  <2>1. p \in DirSlots(R2) /\ Ent(R2, p) = x
    BY <1>12, <1>19
  <2>2. \A q \in DirSlots(R2) : Follows(L, D, q, p) => Ent(R2, q).attr # "lfn"
    BY <1>12, <1>14, <1>19
  <2>3. FileOK(L, R2, D, own2, pos2, p, f.first, f.size, f.name)
    BY <1>15, <1>22
  <2>4. 0 \div cluster_size = 0
    BY ConstantTypes, Z3
  <2>5. c \in Clusters \ D /\ own2[c] = p /\ pos2[c] = 0 /\ c # 0
    BY <1>7, <1>21
  <2>6. f.dirty = TRUE
    BY <1>13 DEF Opened, NoFile
  <2> QED BY <1>14, <1>15, <1>27, <2>1, <2>2, <2>3, <2>4, <2>5, <2>6 DEF HandleOK
<1>29. ASSUME NEW g \in Names, file[g].open
       PROVE  HandleOK(L, R2, D, own2, pos2, file[g])
  <2>1. PICK y : y = file[g]
    OBVIOUS
  <2>2. HandleOK(L, R, D, own, pos, y) /\ y.name \in Names
    BY <1>1, <1>4, <1>29, <2>1 DEF Handles, TypeInv, FileTyped
  <2>3. SlotOf(y) # p /\ SlotOf(y) # Nobody
    BY <1>12, <2>2, SlotIs
  <2>4. FileOK(L, R2, D, own2, pos2, SlotOf(y), y.first, y.size, y.name)
    <3>1. FileOK(L, R, D, own, pos, SlotOf(y), y.first, y.size, y.name)
      BY <2>2 DEF HandleOK
    <3> QED BY <1>22, <2>3, <3>1
  <2>5. ~y.eof /\ y.cluster # 0 => own2[y.cluster] = own[y.cluster] /\ pos2[y.cluster] = pos[y.cluster]
    <3>1. ASSUME ~y.eof /\ y.cluster # 0
          PROVE  y.cluster \in Clusters \ D /\ own[y.cluster] = SlotOf(y)
      BY <2>2, <3>1 DEF HandleOK
    <3> QED BY <1>7, <1>21, <2>3, <3>1
  <2>6. EntryAs(R, R2, p, x)
    BY <1>14, <1>19 DEF EntryAs
  <2>7. HandleOK(L, R2, D, own2, pos2, y)
    BY <2>2, <2>3, <2>4, <2>5, <2>6, HandleEntry
  <2> QED BY <2>1, <2>7
<1>30. Handles(L, R2, D, own2, pos2, k, F)
  <2>1. \A g \in Names : F[g].open => HandleOK(L, R2, D, own2, pos2, F[g])
    BY <1>24, <1>28, <1>29
  <2>2. \A g, h \in Names : F[g].open /\ F[h].open /\ F[g].name = F[h].name => g = h
    BY <1>1, <1>8, <1>15, <1>24 DEF Handles
  <2> QED BY <2>1, <2>2 DEF Handles
<1>31. crashes = 0 => torn = {} /\ NoneLost(w, L, R2, D, k, F)
  <2>1. ASSUME crashes = 0, NEW d \in Clusters \ D
        PROVE  \/ L[d] = 0 \/ Linked(L, D, d) \/ (Holding(k) /\ d = k.cluster)
               \/ \E q \in FileSlots(R2) : q # VictimOf(k, F) /\ Ent(R2, q).first = d
    <3>1. \/ L[d] = 0 \/ Linked(L, D, d) \/ (Holding(call) /\ d = call.cluster)
          \/ \E q \in FileSlots(R) : q # VictimOf(call, file) /\ Ent(R, q).first = d
      BY <1>1, <2>1 DEF NoneLost
    <3>2. CASE d = c
      BY <1>12, <1>14, <1>19, <1>22, <1>25, <3>2, SlotTypes
    <3>3. ASSUME NEW q \in FileSlots(R), q # VictimOf(call, file), Ent(R, q).first = d
          PROVE  q \in FileSlots(R2) /\ q # VictimOf(k, F) /\ Ent(R2, q).first = d
      <4>1. q # p /\ q \in DirSlots(R) /\ q # Nobody
        BY <1>12, <3>3, SlotTypes DEF FileSlots
      <4> QED BY <1>19, <1>22, <1>25, <3>3, <4>1
    <3> QED BY <1>6, <3>1, <3>2, <3>3
  <2>2. crashes = 0 => torn = {} /\ Mirrored(w)
    BY <1>1, <1>19 DEF NoneLost
  <2> QED BY <2>1, <2>2 DEF NoneLost
<1>32. Loading' /\ Kicked' /\ Unmounted'
  BY <1>1, <1>2, <1>3, <1>4, <1>23, <1>24 DEF Loading, Kicked, Unmounted
<1>33. \A z \in DOMAIN vs : Good(vs[z], D, own2, pos2, Nobody, torn, kept) /\ Alike(vs[z], k, F)
  <2>1. Good(card, D, own2, pos2, Nobody, torn, kept)
    BY <1>1, <1>22 DEF Good
  <2>2. Good(w, D, own2, pos2, Nobody, torn, kept)
    BY <1>18, <1>19, <1>22 DEF Good
  <2> QED BY <1>17, <1>25, <2>1, <2>2
<1>34. \A z \in DOMAIN vs :
         Good(vs[z], D, own2, pos2, Victim', torn', kept') /\ Alike(vs[z], call', file')
  BY <1>2, <1>23, <1>26, <1>33
<1>35. /\ Handles(L, R2, D, own2, pos2, call', file') /\ Searching(L, R2, D, pos2, call')
       /\ Calling(L, R2, D, own2, call', file', torn', kept')
       /\ crashes' = 0 => torn' = {} /\ NoneLost(w, L, R2, D, call', file')
  BY <1>2, <1>23, <1>25, <1>30, <1>31
<1>36. L = LinksOf(w)
  BY <1>19
<1> QED BY <1>2, <1>17, <1>18, <1>32, <1>34, <1>35, <1>36, WritingThen
LEMMA ScanStill ==
  ASSUME TypeInv, NEW D, NEW own, NEW pos, QuietAt(D, own, pos), ScanSector, faults' = 0
  PROVE  \E own2, pos2, vs : Certified(D, own2, pos2, vs)'
<1>0. PICK L, R : L = LinksOf(card) /\ R = PlainOf(card)
  OBVIOUS
<1>1. /\ Formatted(card) /\ DirectoryOK(L, R, D, pos) /\ LongNamesOK(L, R, D)
      /\ Searching(L, R, D, pos, call) /\ Calling(L, R, D, own, call, file, torn, kept)
  BY <1>0, Parts
<1>2. /\ call.fn # "none" /\ call.step \in {"scan", "slot"} /\ io.todo = <<>> /\ call.index < dir_entries
  BY DEF ScanSector, Running
<1>3. PICK ok \in Oks :
        LET m == ReadSector(io, call.sector, ok)
            e == AsDir(m.buf)
            hits == IF call.step = "scan" THEN Matches(e) ELSE Slots(e)
            last == e[DPS - 1]
        IN  /\ Count(~ok)
            /\ \/ /\ hits = {} /\ io' = m /\ UNCHANGED file
                  /\ call' = [call EXCEPT !.index = @ + DPS, !.sector = @ + 1, !.longname =
                                IF last.attr = "lfn" THEN last.name ELSE NoName]
               \/ /\ hits # {} /\ call.step = "scan"
                  /\ io' = m /\ FoundName(e, FirstOf(hits))
               \/ /\ hits # {} /\ call.step = "slot"
                  /\ FoundSlot(m, e, FirstOf(hits))
  BY DEF ScanSector
<1>4. ok /\ ok \in BOOLEAN
  BY <1>3, CountTyped DEF TypeInv, RestTyped, Oks
<1>5. PICK m, e : m = ReadSector(io, call.sector, ok) /\ e = R[call.sector].v
  OBVIOUS
<1>6. call.sector \in DirSectors(PlainOf(card))
  BY <1>0, <1>1, <1>2, ScanPlace
<1>7. /\ m \in IoType /\ m.todo = <<>> /\ m.cached = call.sector /\ Buffered(m, card) /\ AsDir(m.buf) = e
  BY <1>0, <1>1, <1>2, <1>4, <1>5, <1>6, DirRead
<1>8. CASE /\ (IF call.step = "scan" THEN Matches(e) ELSE Slots(e)) = {} /\ io' = m /\ file' = file
           /\ call' = [call EXCEPT !.index = @ + DPS, !.sector = @ + 1, !.longname =
                         IF e[DPS - 1].attr = "lfn" THEN e[DPS - 1].name ELSE NoName]
  <2>1. PICK k : k = call'
    OBVIOUS
  <2>2. /\ k.fn = call.fn /\ k.step = call.step /\ k.h = call.h /\ k.name = call.name
        /\ k.cluster = call.cluster /\ k.chain = call.chain
        /\ k.index = call.index + DPS /\ k.sector = call.sector + 1
        /\ k.longname = IF e[DPS - 1].attr = "lfn" THEN e[DPS - 1].name ELSE NoName
    BY <1>8, <2>1 DEF TypeInv, CallTyped, CallType
  <2>3. call.step = "scan" => Matches(e) = {}
    BY <1>8
  <2>4. Slotted(R)
    BY <1>0, <1>1, SlottedIs
  <2>5. Searching(L, R, D, pos, k)
    BY <1>1, <1>2, <1>5, <2>2, <2>3, <2>4, MissSearch
  <2>6. io'.todo = <<>> /\ Buffered(io', card) /\ file' = file
    BY <1>7, <1>8
  <2> QED BY <1>0, <2>1, <2>2, <2>5, <2>6, MissStill
<1>9. CASE Matches(e) # {} /\ call.step = "scan" /\ io' = m /\ FoundName(e, FirstOf(Matches(e)))
  BY <1>0, <1>2, <1>5, <1>7, <1>9, FoundStill
<1>10. CASE Slots(e) # {} /\ call.step = "slot" /\ FoundSlot(m, e, FirstOf(Slots(e)))
  BY <1>0, <1>2, <1>5, <1>7, <1>10, SlotStill
<1>11. \/ /\ (IF call.step = "scan" THEN Matches(e) ELSE Slots(e)) = {} /\ io' = m /\ file' = file
          /\ call' = [call EXCEPT !.index = @ + DPS, !.sector = @ + 1, !.longname =
                        IF e[DPS - 1].attr = "lfn" THEN e[DPS - 1].name ELSE NoName]
       \/ Matches(e) # {} /\ call.step = "scan" /\ io' = m /\ FoundName(e, FirstOf(Matches(e)))
       \/ Slots(e) # {} /\ call.step = "slot" /\ FoundSlot(m, e, FirstOf(Slots(e)))
  BY <1>3, <1>5, <1>7
<1> QED BY <1>8, <1>9, <1>10, <1>11
(* An entry that is changed in its place.                                  *)
Rewrites(L, R, R2, D, p, e) ==
  /\ EntryAs(R, R2, p, e) /\ DirSectors(R2) = DirSectors(R)
  /\ \A t \in Lba \ FatArea : t \notin DirSectors(R) => R2[t] = R[t]
  /\ \A q \in DirSlots(R) : Follows(L, D, q, p) /\ Ent(R, q).attr = "lfn" => Named(e, Ent(R, q).name)

LEMMA EntrySound ==
  ASSUME NEW L, NEW R, NEW D, NEW own, NEW pos, NEW x, NEW gone, NEW relied,
         Sound(L, R, D, own, pos, Counting(R, x, gone), gone, relied),
         NEW p \in DirSlots(R), NEW R2, NEW e, Rewrites(L, R, R2, D, p, e),
         p \in Counting(R2, x, gone) =>
           /\ FileOK(L, R, D, own, pos, p, e.first, e.size, e.name)
           /\ \A q \in Counting(R, x, gone) : q # p => Ent(R, q).name # e.name \/ e.name \notin Names,
         \A n \in Names \ gone :
           relied[n] # -1 /\ p \in Counting(R, x, gone)
           /\ Ent(R, p).name = n /\ Ent(R, p).size >= relied[n] =>
             p \in Counting(R2, x, gone) /\ e.name = n /\ e.size >= relied[n]
  PROVE  /\ Sound(L, R2, D, own, pos, Counting(R2, x, gone), gone, relied)
         /\ \A q, f, size, n : FileOK(L, R, D, own, pos, q, f, size, n) =>
              FileOK(L, R2, D, own, pos, q, f, size, n)
<1>1. /\ DirectoryOK(L, R, D, pos) /\ LongNamesOK(L, R, D) /\ ChainsOK(L, D, own, pos)
      /\ FilesOK(L, R, D, own, pos, Counting(R, x, gone))
      /\ NamesOK(R, Counting(R, x, gone)) /\ KeptOK(R, Counting(R, x, gone), gone, relied)
  BY DEF Sound, Layout
<1>2. /\ DirSectors(R2) = DirSectors(R) /\ DirSlots(R2) = DirSlots(R) /\ e.attr # "lfn"
      /\ \A q \in DirSlots(R) : Ent(R2, q) = IF q = p THEN e ELSE Ent(R, q)
      /\ \A t \in Lba \ FatArea : t \notin DirSectors(R) => R2[t] = R[t]
      /\ \A q \in DirSlots(R) : Follows(L, D, q, p) /\ Ent(R, q).attr = "lfn" => Named(e, Ent(R, q).name)
  BY DEF Rewrites, EntryAs
<1>3. DirectoryOK(L, R2, D, pos)
  BY <1>1, <1>2, SlotsFrame
<1>4. LongNamesOK(L, R2, D)
  BY <1>1, <1>2, LongNamesPut
<1>5. \A q, f, size, n : FileOK(L, R, D, own, pos, q, f, size, n) => FileOK(L, R2, D, own, pos, q, f, size, n)
  BY <1>1, <1>2, EntryFrame
<1>6. \A q : q # p => (q \in Counting(R2, x, gone) <=> q \in Counting(R, x, gone))
  BY <1>2 DEF Counting, FileSlots
<1>7. \A q \in Counting(R, x, gone) : q # p => Ent(R2, q) = Ent(R, q)
  BY <1>2 DEF Counting, FileSlots
<1>8. Ent(R2, p) = e
  BY <1>2
<1>9. FilesOK(L, R2, D, own, pos, Counting(R2, x, gone))
  <2>1. ASSUME NEW q \in Counting(R2, x, gone)
        PROVE  FileOK(L, R, D, own, pos, q, Ent(R2, q).first, Ent(R2, q).size, Ent(R2, q).name)
    <3>1. CASE q = p
      BY <1>8, <3>1
    <3>2. CASE q # p
      BY <1>1, <1>6, <1>7, <3>2 DEF FilesOK
    <3> QED BY <3>1, <3>2
  <2> QED BY <1>5, <2>1 DEF FilesOK
<1>10. NamesOK(R2, Counting(R2, x, gone))
  <2>1. ASSUME NEW q \in Counting(R2, x, gone), NEW z \in Counting(R2, x, gone),
               Ent(R2, q).name = Ent(R2, z).name, Ent(R2, q).name \in Names
        PROVE  q = z
    <3>1. CASE q # p /\ z # p
      BY <1>1, <1>6, <1>7, <2>1, <3>1 DEF NamesOK
    <3>2. CASE q = p /\ z # p
      BY <1>6, <1>7, <1>8, <2>1, <3>2
    <3>3. CASE q # p /\ z = p
      BY <1>6, <1>7, <1>8, <2>1, <3>3
    <3> QED BY <3>1, <3>2, <3>3
  <2> QED BY <2>1 DEF NamesOK
<1>11. KeptOK(R2, Counting(R2, x, gone), gone, relied)
  <2>1. ASSUME NEW n \in Names \ gone, relied[n] # -1
        PROVE  \E q \in Counting(R2, x, gone) : Ent(R2, q).name = n /\ Ent(R2, q).size >= relied[n]
    <3>1. PICK q \in Counting(R, x, gone) : Ent(R, q).name = n /\ Ent(R, q).size >= relied[n]
      BY <1>1, <2>1 DEF KeptOK
    <3>2. CASE q = p
      BY <1>8, <2>1, <3>1, <3>2
    <3>3. CASE q # p
      BY <1>6, <1>7, <3>1, <3>3
    <3> QED BY <3>2, <3>3
  <2> QED BY <2>1 DEF KeptOK
<1> QED BY <1>1, <1>3, <1>4, <1>5, <1>9, <1>10, <1>11 DEF Sound, Layout

(* What GetDirEntry and WriteDirEntry do when the sector can be read.      *)
Storable(f, p, ok) ==
  \E m \in IoType :
    /\ m.todo = io.todo /\ m.cached = p[1]
    /\ \A e : EntryChanged(f, ok, e) = EntryStore(m, p, e)

LEMMA EntryIs ==
  ASSUME TypeInv, Formatted(card), NEW f, NEW p, p = SlotOf(f), p \in DirSlots(PlainOf(card)),
         NEW ok \in BOOLEAN, ok
  PROVE  /\ EntryRead(f, ok) = Ent(PlainOf(card), p) /\ EntryRead(f, ok) \in Entry
         /\ Storable(f, p, ok)
<1>1. p[1] = f.dirsector /\ p[2] = f.dirindex % DPS /\ p[1] \in DirSectors(PlainOf(card))
  BY SlotTypes DEF SlotOf
<1>2. PICK m : m = ReadSector(io, p[1], ok)
  OBVIOUS
<1>3. /\ m \in IoType /\ m.todo = io.todo /\ m.cached = p[1]
      /\ AsDir(m.buf) = PlainOf(card)[p[1]].v
  BY <1>1, <1>2, DirRead
<1>4. PlainOf(card)[p[1]] = card[p[1]] /\ Ent(PlainOf(card), p) \in Entry
  BY SlotEntry
<1>5. EntryRead(f, ok) = Ent(PlainOf(card), p)
  BY <1>1, <1>2, <1>3 DEF EntryRead, Ent
<1>6. \A e : EntryChanged(f, ok, e) = EntryStore(m, p, e)
  BY <1>1, <1>2, <1>3, <1>4 DEF EntryChanged, EntryStore
<1> QED BY <1>3, <1>4, <1>5, <1>6 DEF Storable
Rewritten(w, vs, L, R, R2, D, p, e) ==
  /\ R2 = PlainOf(w) /\ Formatted(w) /\ LinksOf(w) = L /\ (Mirrored(card) => Mirrored(w))
  /\ Rewrites(L, R, R2, D, p, e) /\ Trace(card, io'.todo, vs) /\ End(io'.todo, vs) = w
  /\ \A i \in DOMAIN vs : vs[i] \in {card, w}
  /\ Buffered(io', w)

LEMMA EntryStored ==
  ASSUME TypeInv, Formatted(card), io.todo = <<>>, NEW f, NEW p, p = SlotOf(f), NEW L, L = LinksOf(card),
         NEW R, R = PlainOf(card), p \in DirSlots(R), NEW ok \in BOOLEAN, ok,
         NEW e \in Entry, e.attr \in {"normal", "archive"}, NEW D,
         \A q \in DirSlots(R) : Follows(L, D, q, p) /\ Ent(R, q).attr = "lfn" => Named(e, Ent(R, q).name),
         io' = EntryChanged(f, ok, e)
  PROVE  \E w, vs, R2 : Rewritten(w, vs, L, R, R2, D, p, e)
<1>1. p \in DirSlots(PlainOf(card)) /\ ok \in BOOLEAN /\ ok
  OBVIOUS
<1>2. PICK m \in IoType :
        /\ m.todo = io.todo /\ m.cached = p[1]
        /\ \A x : EntryChanged(f, ok, x) = EntryStore(m, p, x)
  <2>1. Storable(f, p, ok)
    BY <1>1, EntryIs
  <2> QED BY <2>1 DEF Storable
<1>3. io' = EntryStore(m, p, e)
  BY <1>2
<1>4. m.todo = <<>> /\ (e.attr = "directory" => e.name \notin Names)
  BY <1>2
<1>5. PICK w, vs : /\ EntryStep(card, w, p, e)
                   /\ Trace(card, io'.todo, vs) /\ End(io'.todo, vs) = w
                   /\ \A i \in DOMAIN vs : vs[i] \in {card, w}
                   /\ Buffered(io', w)
  BY <1>1, <1>2, <1>3, <1>4, EntryGoes
<1>6. PICK R2 : R2 = PlainOf(w)
  OBVIOUS
<1>7. Rewrites(L, R, R2, D, p, e)
  BY <1>5, <1>6 DEF Rewrites, EntryAs, EntryStep
<1> QED BY <1>5, <1>6, <1>7 DEF Rewritten, EntryStep

LEMMA UnlinksStill ==
  ASSUME TypeInv, NEW D, NEW own, NEW pos, QuietAt(D, own, pos), DeleteUnlinks, faults' = 0
  PROVE  \E own2, pos2, vs : Certified(D, own2, pos2, vs)'
<1>0. PICK L, R : L = LinksOf(card) /\ R = PlainOf(card)
  OBVIOUS
<1>1. /\ Formatted(card) /\ Sound(L, R, D, own, pos, Counting(R, Victim, torn), torn, kept)
      /\ DirectoryOK(L, R, D, pos) /\ Alike(card, call, file)
      /\ Handles(L, R, D, own, pos, call, file) /\ Calling(L, R, D, own, call, file, torn, kept)
      /\ crashes = 0 => torn = {} /\ NoneLost(card, L, R, D, call, file)
      /\ Loading /\ Kicked /\ Unmounted
  BY <1>0, Parts
<1>2. /\ call.fn # "none" /\ call.step = "unlink" /\ io.todo = <<>>
      /\ card' = card /\ torn' = torn /\ crashes' = crashes /\ mounted' = mounted
      /\ image' = image /\ kick' = kick /\ kept' = kept /\ file' = file
      /\ call' = [call EXCEPT !.step = "return"]
  BY DEF DeleteUnlinks, Running, UnchangedRest
<1>3. /\ call \in CallType /\ call.name \in Names /\ call.h \in Names /\ kick = "none" /\ mounted
      /\ call.step \in Steps(call.fn)
  BY <1>1, <1>2 DEF TypeInv, CallTyped, Kicked, Unmounted, NoCall, Calling
<1>4. call.fn = "delete"
  BY <1>2, <1>3 DEF CallType, Steps
<1>5. PICK ok \in Oks :
        /\ Count(~ok) /\ io' = EntryChanged(file[call.h], ok, Deleted(EntryRead(file[call.h], ok)))
  BY DEF DeleteUnlinks
<1>6. ok /\ ok \in BOOLEAN
  BY <1>5, CountTyped DEF TypeInv, RestTyped, Oks
<1>7. PICK f, p, k : f = file[call.h] /\ p = SlotOf(f) /\ k = call'
  OBVIOUS
<1>8. VictimOf(call, file) = p /\ Victim = p
  BY <1>4, <1>7 DEF VictimOf, Victim
<1>9. /\ p \in DirSlots(R) /\ Ent(R, p).attr \in {"normal", "archive"} /\ Ent(R, p).name = call.name
      /\ kept[call.name] = -1
  BY <1>1, <1>2, <1>4, <1>8 DEF Calling, Deleting
<1>10. PICK e : e = Deleted(Ent(R, p))
  OBVIOUS
<1>11. EntryRead(f, ok) = Ent(R, p) /\ EntryRead(f, ok) \in Entry
  BY <1>0, <1>1, <1>6, <1>7, <1>9, EntryIs
<1>12. /\ e \in Entry /\ e.attr = Ent(R, p).attr /\ e.name = "deleted" /\ io' = EntryChanged(f, ok, e)
  <2>1. 0 \in Link /\ 0 \in 0..MaxSectors /\ "deleted" \in Free
    BY LinkFacts, VolumesAssumption DEF Free
  <2> QED BY <1>5, <1>7, <1>9, <1>10, <1>11, <2>1 DEF Deleted, Entry, Rests
<1>13. \A q \in DirSlots(R) : Follows(L, D, q, p) /\ Ent(R, q).attr = "lfn" => Named(e, Ent(R, q).name)
  BY <1>9, <1>12 DEF Named, Free
<1>14. PICK w, vs, R2 : Rewritten(w, vs, L, R, R2, D, p, e)
  BY <1>0, <1>1, <1>2, <1>6, <1>7, <1>9, <1>12, <1>13, EntryStored
<1>15. /\ R2 = PlainOf(w) /\ Formatted(w) /\ LinksOf(w) = L /\ (Mirrored(card) => Mirrored(w))
       /\ Rewrites(L, R, R2, D, p, e) /\ Trace(card, io'.todo, vs) /\ End(io'.todo, vs) = w
       /\ \A i \in DOMAIN vs : vs[i] \in {card, w}
       /\ Buffered(io', w)
       /\ DirSlots(R2) = DirSlots(R) /\ \A q \in DirSlots(R) : Ent(R2, q) = IF q = p THEN e ELSE Ent(R, q)
  BY <1>14 DEF Rewritten, Rewrites, EntryAs
<1>16. /\ Sound(L, R2, D, own, pos, Counting(R2, p, torn), torn, kept)
       /\ \A q, g, size, n : FileOK(L, R, D, own, pos, q, g, size, n) =>
            FileOK(L, R2, D, own, pos, q, g, size, n)
  <2>1. p \notin Counting(R2, p, torn) /\ p \notin Counting(R, p, torn)
    BY DEF Counting
  <2>2. Sound(L, R, D, own, pos, Counting(R, p, torn), torn, kept)
    BY <1>1, <1>8
  <2> QED BY <1>9, <1>15, <2>1, <2>2, EntrySound
<1>17. /\ k.fn = "delete" /\ k.step = "return" /\ k.h = call.h /\ k.name = call.name
  BY <1>2, <1>3, <1>4, <1>7 DEF CallType
<1>18. VictimOf(k, file) = p /\ Victim' = p
  BY <1>2, <1>7, <1>17 DEF VictimOf, Victim
<1>19. Alike(card, k, file) /\ Alike(w, k, file)
  BY <1>0, <1>9, <1>12, <1>15, <1>17, <1>18 DEF Alike
<1>20. ASSUME NEW g \in Names, file[g].open, g # call.h
       PROVE  HandleOK(L, R2, D, own, pos, file[g])
  <2>1. PICK y : y = file[g]
    OBVIOUS
  <2>2. HandleOK(L, R, D, own, pos, y) /\ y.name \in Names
    BY <1>1, <1>20, <2>1 DEF Handles, TypeInv, FileTyped
  <2>3. y.name # call.name
    <3>1. file[call.h].open /\ file[call.h].name = call.name
      BY <1>1, <1>4 DEF Calling
    <3> QED BY <1>1, <1>3, <1>20, <2>1, <3>1 DEF Handles
  <2>4. SlotOf(y) # p
    BY <1>9, <2>2, <2>3, SlotIs
  <2>5. FileOK(L, R2, D, own, pos, SlotOf(y), y.first, y.size, y.name)
    BY <1>16, <2>2 DEF HandleOK
  <2>6. EntryAs(R, R2, p, e)
    BY <1>15 DEF Rewrites
  <2>7. HandleOK(L, R2, D, own, pos, y)
    BY <2>2, <2>4, <2>5, <2>6, HandleEntry
  <2> QED BY <2>1, <2>7
<1>21. Handles(L, R2, D, own, pos, k, file)
  BY <1>1, <1>17, <1>20 DEF Handles
<1>22. Searching(L, R2, D, pos, k)
  BY <1>17 DEF Searching
<1>23. Calling(L, R2, D, own, k, file, torn, kept)
  <2>1. k.step \in Steps(k.fn) /\ Looking(k, file, torn) /\ Held(L, D, own, k, file)
    BY <1>17 DEF Steps, Looking, Held, Holding
  <2>2. Deleting(R2, k, file, kept)
    BY <1>9, <1>12, <1>15, <1>17, <1>18 DEF Deleting
  <2>3. file[k.h].open /\ file[k.h].name = k.name
    BY <1>1, <1>4, <1>17 DEF Calling
  <2> QED BY <1>17, <2>1, <2>2, <2>3 DEF Calling
<1>24. crashes = 0 => torn = {} /\ NoneLost(w, L, R2, D, k, file)
  <2>1. ASSUME crashes = 0, NEW d \in Clusters \ D
        PROVE  \/ L[d] = 0 \/ Linked(L, D, d) \/ (Holding(k) /\ d = k.cluster)
               \/ \E q \in FileSlots(R2) : q # VictimOf(k, file) /\ Ent(R2, q).first = d
    <3>1. \/ L[d] = 0 \/ Linked(L, D, d)
          \/ \E q \in FileSlots(R) : q # VictimOf(call, file) /\ Ent(R, q).first = d
      BY <1>1, <1>2, <2>1 DEF NoneLost, Holding
    <3>2. ASSUME NEW q \in FileSlots(R), q # p
          PROVE  q \in FileSlots(R2) /\ Ent(R2, q) = Ent(R, q)
      BY <1>15, <3>2 DEF FileSlots
    <3> QED BY <1>8, <1>18, <3>1, <3>2
  <2>2. crashes = 0 => torn = {} /\ Mirrored(w)
    BY <1>1, <1>15 DEF NoneLost
  <2> QED BY <2>1, <2>2 DEF NoneLost
<1>25. Loading' /\ Kicked' /\ Unmounted'
  BY <1>1, <1>2, <1>3, <1>4, <1>7, <1>17 DEF Loading, Kicked, Unmounted
<1>26. \A z \in DOMAIN vs : Good(vs[z], D, own, pos, p, torn, kept) /\ Alike(vs[z], k, file)
  <2>1. Good(card, D, own, pos, p, torn, kept)
    BY <1>0, <1>1, <1>8 DEF Good
  <2>2. Good(w, D, own, pos, p, torn, kept)
    BY <1>15, <1>16 DEF Good
  <2> QED BY <1>15, <1>19, <2>1, <2>2
<1>27. \A z \in DOMAIN vs :
         Good(vs[z], D, own, pos, Victim', torn', kept') /\ Alike(vs[z], call', file')
  BY <1>2, <1>7, <1>18, <1>26
<1>28. /\ Handles(L, R2, D, own, pos, call', file') /\ Searching(L, R2, D, pos, call')
       /\ Calling(L, R2, D, own, call', file', torn', kept')
       /\ crashes' = 0 => torn' = {} /\ NoneLost(w, L, R2, D, call', file')
  BY <1>2, <1>7, <1>21, <1>22, <1>23, <1>24
<1>29. L = LinksOf(w)
  BY <1>15
<1> QED BY <1>2, <1>15, <1>25, <1>27, <1>28, <1>29, WritingThen
(* FileClose of a file that has grown.                                     *)
LEMMA SizeStill ==
  ASSUME TypeInv, NEW D, NEW own, NEW pos, QuietAt(D, own, pos), NEW h \in Names, Ready, file[h].open,
         Begin("close", "return", h, file[h].name), NEW ok \in Oks, ok,
         io' = EntryChanged(file[h], ok, [EntryRead(file[h], ok) EXCEPT
                 !.size = file[h].size, !.rest = file[h].rest]),
         file' = [file EXCEPT ![h] = [file[h] EXCEPT !.dirty = ~ok]],
         UnchangedRest, UNCHANGED <<kick, image, kept>>
  PROVE  \E own2, pos2, vs : Certified(D, own2, pos2, vs)'
<1>0. PICK L, R, f, p : L = LinksOf(card) /\ R = PlainOf(card) /\ f = file[h] /\ p = SlotOf(f)
  OBVIOUS
<1>1. /\ Formatted(card) /\ Sound(L, R, D, own, pos, Counting(R, Victim, torn), torn, kept)
      /\ DirectoryOK(L, R, D, pos) /\ LongNamesOK(L, R, D)
      /\ Handles(L, R, D, own, pos, call, file)
      /\ crashes = 0 => torn = {} /\ NoneLost(card, L, R, D, call, file)
      /\ Loading /\ Kicked /\ Unmounted
  BY <1>0, Parts
<1>2. /\ card' = card /\ torn' = torn /\ crashes' = crashes /\ mounted' = mounted
      /\ image' = image /\ kick' = kick /\ kept' = kept
  BY DEF UnchangedRest
<1>3. /\ call.fn = "none" /\ Victim = Nobody /\ VictimOf(call, file) = Nobody /\ ~Holding(call)
      /\ image = <<>> /\ kick = "none" /\ io.todo = <<>> /\ mounted
  BY Calm DEF Ready, Victim
<1>4. /\ f \in FileType /\ f.name \in Names /\ HandleOK(L, R, D, own, pos, f)
      /\ \A x \in Names : x # h /\ file[x].open => file[x].name # f.name
  BY <1>0, LiveStill
<1>5. /\ p \in DirSlots(R) /\ p \in FileSlots(R) /\ p # Nobody /\ Ent(R, p).name = f.name
      /\ Ent(R, p).first = f.first
      /\ Ent(R, p).attr \in {"normal", "archive"} /\ Ent(R, p).size <= f.size
      /\ FileOK(L, R, D, own, pos, p, f.first, f.size, f.name)
  <2>1. /\ p \in FileSlots(R) /\ p # Nobody /\ Ent(R, p).name = f.name /\ Ent(R, p).first = f.first
    BY <1>0, <1>4, SlotIs
  <2>2. /\ p \in DirSlots(R) /\ Ent(R, p).attr \in {"normal", "archive"} /\ Ent(R, p).size <= f.size
        /\ FileOK(L, R, D, own, pos, p, f.first, f.size, f.name)
    BY <1>0, <1>4 DEF HandleOK
  <2> QED BY <2>1, <2>2
<1>6. ok \in BOOLEAN
  BY DEF Oks
<1>7. PICK e : e = [Ent(R, p) EXCEPT !.size = f.size, !.rest = f.rest]
  OBVIOUS
<1>8. EntryRead(f, ok) = Ent(R, p) /\ EntryRead(f, ok) \in Entry
  BY <1>0, <1>1, <1>5, <1>6, EntryIs
<1>9. /\ e \in Entry /\ e.attr = Ent(R, p).attr /\ e.name = f.name /\ e.first = f.first /\ e.size = f.size
      /\ e.rest = f.rest /\ io' = EntryChanged(f, ok, e)
  BY <1>0, <1>4, <1>5, <1>7, <1>8 DEF Entry, FileType
<1>10. \A q \in DirSlots(R) : Follows(L, D, q, p) /\ Ent(R, q).attr = "lfn" => Named(e, Ent(R, q).name)
  BY <1>1, <1>5, <1>9 DEF Named, LongNamesOK
<1>11. PICK w, vs, R2 : Rewritten(w, vs, L, R, R2, D, p, e)
  <2>1. e.attr \in {"normal", "archive"}
    BY <1>5, <1>9
  <2> QED BY <1>0, <1>1, <1>3, <1>5, <1>6, <1>9, <1>10, <2>1, EntryStored
<1>12. /\ R2 = PlainOf(w) /\ Formatted(w) /\ LinksOf(w) = L /\ (Mirrored(card) => Mirrored(w))
       /\ Rewrites(L, R, R2, D, p, e) /\ Trace(card, io'.todo, vs) /\ End(io'.todo, vs) = w
       /\ \A i \in DOMAIN vs : vs[i] \in {card, w}
       /\ Buffered(io', w)
       /\ DirSlots(R2) = DirSlots(R) /\ \A q \in DirSlots(R) : Ent(R2, q) = IF q = p THEN e ELSE Ent(R, q)
  BY <1>11 DEF Rewritten, Rewrites, EntryAs
<1>13. /\ Ent(R, p).size \in Int /\ f.size \in Int
       /\ \A n \in Names : kept[n] \in Int
  <2>1. MaxSectors \in Nat /\ Ent(R, p).size \in 0..MaxSectors
    BY <1>8, VolumesAssumption DEF Entry
  <2>2. f.size \in 0..MaxSectors
    BY <1>4 DEF FileType
  <2>3. \A n \in Names : kept[n] \in -1..MaxSectors
    BY DEF TypeInv, RestTyped
  <2> QED BY <2>1, <2>2, <2>3
<1>14. FileSlots(R2) = FileSlots(R)
  BY <1>5, <1>9, <1>12 DEF FileSlots
<1>15. /\ Sound(L, R2, D, own, pos, Counting(R2, Nobody, torn), torn, kept)
       /\ \A q, g, size, n : FileOK(L, R, D, own, pos, q, g, size, n) =>
            FileOK(L, R2, D, own, pos, q, g, size, n)
  <2>1. /\ FileOK(L, R, D, own, pos, p, e.first, e.size, e.name)
        /\ p \in Counting(R2, Nobody, torn) => p \in Counting(R, Nobody, torn)
        /\ p \in Counting(R, Nobody, torn) => p \in Counting(R2, Nobody, torn)
    BY <1>5, <1>9, <1>12, <1>14 DEF Counting
  <2>2. Sound(L, R, D, own, pos, Counting(R, Nobody, torn), torn, kept)
    BY <1>1, <1>3
  <2>3. p \in Counting(R2, Nobody, torn) =>
          \A q \in Counting(R, Nobody, torn) : q # p => Ent(R, q).name # e.name \/ e.name \notin Names
    BY <1>5, <1>9, <2>1, <2>2 DEF Sound, NamesOK
  <2>4. \A n \in Names \ torn :
          kept[n] # -1 /\ p \in Counting(R, Nobody, torn)
          /\ Ent(R, p).name = n /\ Ent(R, p).size >= kept[n] =>
            p \in Counting(R2, Nobody, torn) /\ e.name = n /\ e.size >= kept[n]
    BY <1>5, <1>9, <1>13, <2>1
  <2> QED BY <1>5, <1>12, <2>1, <2>2, <2>3, <2>4, EntrySound
<1>16. PICK k, F, g : k = call' /\ F = file' /\ g = [f EXCEPT !.dirty = ~ok]
  OBVIOUS
<1>17. /\ k.fn = "close" /\ k.step = "return" /\ k.h = h /\ k.name = f.name
       /\ \A z \in Names : F[z] = IF z = h THEN g ELSE file[z]
  <2>1. k.fn = "close" /\ k.step = "return" /\ k.h = h /\ k.name = f.name
    BY <1>0, <1>4, <1>16, BeginTyped DEF TypeInv
  <2> QED BY <1>0, <1>16, <2>1 DEF TypeInv, FileTyped
<1>18. /\ g.open = f.open /\ g.name = f.name /\ g.first = f.first /\ g.size = f.size /\ g.dirty = FALSE
       /\ g.rest = f.rest
       /\ g.eof = f.eof /\ g.cluster = f.cluster /\ g.sector = f.sector /\ SlotOf(g) = p /\ f.open
  BY <1>0, <1>4, <1>16 DEF FileType, SlotOf
<1>19. /\ VictimOf(k, F) = Nobody /\ Victim' = Nobody /\ Alike(card, k, F) /\ Alike(w, k, F)
       /\ Searching(L, R2, D, pos, k) /\ ~Holding(k)
  BY <1>16, <1>17 DEF VictimOf, Victim, Alike, Searching, Holding
<1>20. HandleOK(L, R2, D, own, pos, g)
  <2>1. p \in DirSlots(R2) /\ Ent(R2, p) = e /\ FileOK(L, R2, D, own, pos, p, g.first, g.size, g.name)
    BY <1>5, <1>12, <1>15, <1>18
  <2>2. g.size <= g.size
    BY <1>13, <1>18
  <2> QED BY <1>0, <1>4, <1>5, <1>9, <1>18, <2>1, <2>2 DEF HandleOK
<1>21. ASSUME NEW x \in Names, file[x].open, x # h
       PROVE  HandleOK(L, R2, D, own, pos, file[x])
  <2>1. PICK y : y = file[x]
    OBVIOUS
  <2>2. HandleOK(L, R, D, own, pos, y) /\ y.name \in Names /\ y.name # f.name
    BY <1>1, <1>3, <1>4, <1>21, <2>1 DEF Handles, TypeInv, FileTyped
  <2>3. SlotOf(y) # p
    BY <1>5, <2>2, SlotIs
  <2>4. FileOK(L, R2, D, own, pos, SlotOf(y), y.first, y.size, y.name)
    BY <1>15, <2>2 DEF HandleOK
  <2>5. EntryAs(R, R2, p, e)
    BY <1>12 DEF Rewrites
  <2>6. HandleOK(L, R2, D, own, pos, y)
    BY <2>2, <2>3, <2>4, <2>5, HandleEntry
  <2> QED BY <2>1, <2>6
<1>22. Handles(L, R2, D, own, pos, k, F)
  <2>1. \A x \in Names : F[x].open => HandleOK(L, R2, D, own, pos, F[x])
    BY <1>17, <1>20, <1>21
  <2>2. \A x, z \in Names : F[x].open /\ F[z].open /\ F[x].name = F[z].name => x = z
    BY <1>4, <1>17, <1>18, <1>1 DEF Handles
  <2> QED BY <2>1, <2>2 DEF Handles
<1>23. Calling(L, R2, D, own, k, F, torn, kept)
  BY <1>17, <1>18 DEF Calling, Steps, Looking, Held, Holding, Deleting
<1>24. crashes = 0 => torn = {} /\ NoneLost(w, L, R2, D, k, F)
  <2>1. ASSUME crashes = 0, NEW d \in Clusters \ D
        PROVE  \/ L[d] = 0 \/ Linked(L, D, d) \/ (Holding(k) /\ d = k.cluster)
               \/ \E q \in FileSlots(R2) : q # VictimOf(k, F) /\ Ent(R2, q).first = d
    <3>1. \/ L[d] = 0 \/ Linked(L, D, d)
          \/ \E q \in FileSlots(R) : q # Nobody /\ Ent(R, q).first = d
      BY <1>1, <1>3, <2>1 DEF NoneLost
    <3>2. ASSUME NEW q \in FileSlots(R)
          PROVE  q \in FileSlots(R2) /\ Ent(R2, q).first = Ent(R, q).first
      BY <1>5, <1>9, <1>12, <1>14 DEF FileSlots
    <3> QED BY <1>19, <3>1, <3>2
  <2>2. crashes = 0 => torn = {} /\ Mirrored(w)
    BY <1>1, <1>12 DEF NoneLost
  <2> QED BY <2>1, <2>2 DEF NoneLost
<1>25. Loading' /\ Kicked' /\ Unmounted'
  BY <1>2, <1>3, <1>16, <1>17 DEF Loading, Kicked, Unmounted
<1>26. \A z \in DOMAIN vs : Good(vs[z], D, own, pos, Nobody, torn, kept) /\ Alike(vs[z], k, F)
  <2>1. Good(card, D, own, pos, Nobody, torn, kept)
    BY <1>0, <1>1, <1>3 DEF Good
  <2>2. Good(w, D, own, pos, Nobody, torn, kept)
    BY <1>12, <1>15 DEF Good
  <2> QED BY <1>12, <1>19, <2>1, <2>2
<1>27. \A z \in DOMAIN vs :
         Good(vs[z], D, own, pos, Victim', torn', kept') /\ Alike(vs[z], call', file')
  BY <1>2, <1>16, <1>19, <1>26
<1>28. /\ Handles(L, R2, D, own, pos, call', file') /\ Searching(L, R2, D, pos, call')
       /\ Calling(L, R2, D, own, call', file', torn', kept')
       /\ crashes' = 0 => torn' = {} /\ NoneLost(w, L, R2, D, call', file')
  BY <1>2, <1>16, <1>19, <1>22, <1>23, <1>24
<1>29. L = LinksOf(w)
  BY <1>12
<1> QED BY <1>2, <1>12, <1>25, <1>27, <1>28, <1>29, WritingThen
LEMMA EmptyRenamed ==
  ASSUME NEW L, NEW R, NEW D, NEW own, NEW pos, ChainsOK(L, D, own, pos), NEW p, NEW f, NEW n, NEW m,
         FileOK(L, R, D, own, pos, p, f, 0, n)
  PROVE  FileOK(L, R, D, own, pos, p, f, 0, m)
<1>1. ASSUME NEW c \in Clusters \ D, NEW i \in 0..(cluster_size - 1)
      PROVE  ~(cluster_size * pos[c] + i < 0)
  <2>1. pos[c] \in Nat
    BY ChainAt
  <2>2. cluster_size * pos[c] \in Nat
    BY <2>1, Euclid
  <2> QED BY <2>2, ConstantTypes
<1> QED BY <1>1 DEF FileOK

LEMMA RenameStill ==
  ASSUME TypeInv, NEW D, NEW own, NEW pos, QuietAt(D, own, pos), NEW h \in Names, NEW n \in Names,
         SetFilename(h, n), faults' = 0
  PROVE  \E own2, pos2, vs : Certified(D, own2, pos2, vs)'
<1>0. PICK L, R, f, p : L = LinksOf(card) /\ R = PlainOf(card) /\ f = file[h] /\ p = SlotOf(f)
  OBVIOUS
<1>1. /\ Formatted(card) /\ Sound(L, R, D, own, pos, Counting(R, Victim, torn), torn, kept)
      /\ DirectoryOK(L, R, D, pos) /\ LongNamesOK(L, R, D) /\ ChainsOK(L, D, own, pos)
      /\ Handles(L, R, D, own, pos, call, file)
      /\ crashes = 0 => torn = {} /\ NoneLost(card, L, R, D, call, file)
      /\ Loading /\ Kicked /\ Unmounted
  BY <1>0, Parts
<1>2. /\ card' = card /\ torn' = torn /\ crashes' = crashes /\ mounted' = mounted
      /\ image' = image /\ kick' = kick /\ kept' = kept /\ call' = call
      /\ Ready /\ file[h].open /\ f.dirty /\ f.size = 0 /\ kept[f.name] = -1 /\ n \notin torn
      /\ \A g \in Names : ~(file[g].open /\ file[g].name = n)
      /\ \A s \in Lba : card[s].kind = "dir" => \A i \in 0..(DPS - 1) : card[s].v[i].name # n
  BY <1>0 DEF SetFilename, UnchangedRest
<1>3. /\ call.fn = "none" /\ Victim = Nobody /\ VictimOf(call, file) = Nobody /\ ~Holding(call)
      /\ image = <<>> /\ kick = "none" /\ io.todo = <<>> /\ mounted /\ call.step = "none"
  BY <1>2, Calm DEF Ready, Victim
<1>4. /\ f \in FileType /\ f.name \in Names /\ HandleOK(L, R, D, own, pos, f)
      /\ \A x \in Names : x # h /\ file[x].open => file[x].name # f.name
  BY <1>0, <1>2, LiveStill
<1>5. /\ p \in DirSlots(R) /\ p \in FileSlots(R) /\ p # Nobody /\ Ent(R, p).name = f.name
      /\ Ent(R, p).first = f.first
      /\ Ent(R, p).attr \in {"normal", "archive"} /\ Ent(R, p).size <= 0
      /\ FileOK(L, R, D, own, pos, p, f.first, 0, f.name)
      /\ \A q \in DirSlots(R) : Follows(L, D, q, p) => Ent(R, q).attr # "lfn"
  <2>1. /\ p \in FileSlots(R) /\ p # Nobody /\ Ent(R, p).name = f.name /\ Ent(R, p).first = f.first
    BY <1>0, <1>4, SlotIs
  <2>2. /\ p \in DirSlots(R) /\ Ent(R, p).attr \in {"normal", "archive"} /\ Ent(R, p).size <= f.size
        /\ FileOK(L, R, D, own, pos, p, f.first, f.size, f.name)
        /\ f.dirty /\ f.size = 0 =>
             \A q \in DirSlots(R) : Follows(L, D, q, p) => Ent(R, q).attr # "lfn"
    BY <1>0, <1>4 DEF HandleOK
  <2> QED BY <1>2, <2>1, <2>2
<1>6. PICK ok \in Oks :
        /\ Count(~ok)
        /\ io' = EntryChanged(file[h], ok, [EntryRead(file[h], ok) EXCEPT !.name = n])
        /\ file' = IF ok THEN [file EXCEPT ![h] = [file[h] EXCEPT !.name = n]] ELSE file
  BY DEF SetFilename
<1>7. ok /\ ok \in BOOLEAN
  BY <1>6, CountTyped DEF TypeInv, RestTyped, Oks
<1>8. PICK e : e = [Ent(R, p) EXCEPT !.name = n]
  OBVIOUS
<1>9. EntryRead(f, ok) = Ent(R, p) /\ EntryRead(f, ok) \in Entry
  BY <1>0, <1>1, <1>5, <1>7, EntryIs
<1>10. /\ e \in Entry /\ e.attr = Ent(R, p).attr /\ e.name = n /\ e.first = f.first /\ e.size = 0
       /\ io' = EntryChanged(f, ok, e)
  <2>1. MaxSectors \in Nat /\ Ent(R, p).size \in 0..MaxSectors
    BY <1>9, VolumesAssumption DEF Entry
  <2>2. Ent(R, p).size = 0
    BY <1>5, <2>1
  <2> QED BY <1>0, <1>5, <1>6, <1>8, <1>9, <2>2 DEF Entry
<1>11. \A q \in DirSlots(R) : Follows(L, D, q, p) /\ Ent(R, q).attr = "lfn" => Named(e, Ent(R, q).name)
  BY <1>5
<1>12. PICK w, vs, R2 : Rewritten(w, vs, L, R, R2, D, p, e)
  <2>1. e.attr \in {"normal", "archive"}
    BY <1>5, <1>10
  <2> QED BY <1>0, <1>1, <1>3, <1>5, <1>7, <1>10, <1>11, <2>1, EntryStored
<1>13. /\ R2 = PlainOf(w) /\ Formatted(w) /\ LinksOf(w) = L /\ (Mirrored(card) => Mirrored(w))
       /\ Rewrites(L, R, R2, D, p, e) /\ Trace(card, io'.todo, vs) /\ End(io'.todo, vs) = w
       /\ \A i \in DOMAIN vs : vs[i] \in {card, w}
       /\ Buffered(io', w)
       /\ DirSlots(R2) = DirSlots(R) /\ \A q \in DirSlots(R) : Ent(R2, q) = IF q = p THEN e ELSE Ent(R, q)
  BY <1>12 DEF Rewritten, Rewrites, EntryAs
<1>14. FileSlots(R2) = FileSlots(R)
  <2>1. n \notin Free
    BY VolumesAssumption
  <2> QED BY <1>5, <1>10, <1>13, <2>1 DEF FileSlots
<1>15. \A q \in DirSlots(R) : Ent(R, q).name # n
  <2>1. ASSUME NEW q \in DirSlots(PlainOf(card)) PROVE Ent(PlainOf(card), q).name # n
    <3>1. PlainOf(card)[q[1]] = card[q[1]] /\ PlainOf(card)[q[1]].kind = "dir"
      BY <1>1, SlotEntry
    <3>2. q[1] \in Lba /\ q[2] \in 0..(DPS - 1)
      BY SlotTypes
    <3> QED BY <1>2, <3>1, <3>2 DEF Ent
  <2> QED BY <1>0, <2>1
<1>16. FileOK(L, R, D, own, pos, p, e.first, e.size, e.name)
  BY <1>1, <1>5, <1>10, EmptyRenamed
<1>17. /\ Sound(L, R2, D, own, pos, Counting(R2, Nobody, torn), torn, kept)
       /\ \A q, g, size, z : FileOK(L, R, D, own, pos, q, g, size, z) =>
            FileOK(L, R2, D, own, pos, q, g, size, z)
  <2>1. Sound(L, R, D, own, pos, Counting(R, Nobody, torn), torn, kept)
    BY <1>1, <1>3
  <2>2. \A q \in Counting(R, Nobody, torn) : q # p => Ent(R, q).name # e.name \/ e.name \notin Names
    BY <1>10, <1>15 DEF Counting, FileSlots
  <2>3. \A z \in Names \ torn :
          kept[z] # -1 /\ p \in Counting(R, Nobody, torn)
          /\ Ent(R, p).name = z /\ Ent(R, p).size >= kept[z] =>
            p \in Counting(R2, Nobody, torn) /\ e.name = z /\ e.size >= kept[z]
    BY <1>2, <1>5
  <2> QED BY <1>5, <1>13, <1>16, <2>1, <2>2, <2>3, EntrySound
<1>18. PICK k, F, g : k = call' /\ F = file' /\ g = [f EXCEPT !.name = n]
  OBVIOUS
<1>19. k = call /\ \A z \in Names : F[z] = IF z = h THEN g ELSE file[z]
  BY <1>0, <1>2, <1>6, <1>7, <1>18 DEF TypeInv, FileTyped
<1>20. /\ g.open = f.open /\ g.name = n /\ g.first = f.first /\ g.size = f.size /\ g.dirty = f.dirty
       /\ g.eof = f.eof /\ g.cluster = f.cluster /\ g.sector = f.sector /\ SlotOf(g) = p /\ f.open
  BY <1>0, <1>2, <1>4, <1>18 DEF FileType, SlotOf
<1>21. /\ VictimOf(k, F) = Nobody /\ Victim' = Nobody /\ Alike(card, k, F) /\ Alike(w, k, F)
       /\ Searching(L, R2, D, pos, k) /\ ~Holding(k) /\ Calling(L, R2, D, own, k, F, torn, kept)
  BY <1>3, <1>18, <1>19, CallOver DEF Victim
<1>22. HandleOK(L, R2, D, own, pos, g)
  <2>1. p \in DirSlots(R2) /\ Ent(R2, p) = e
    BY <1>5, <1>13
  <2>2. FileOK(L, R2, D, own, pos, p, g.first, g.size, g.name)
    BY <1>2, <1>10, <1>16, <1>17, <1>20
  <2>3. \A q \in DirSlots(R2) : Follows(L, D, q, p) => Ent(R2, q).attr # "lfn"
    BY <1>5, <1>10, <1>13
  <2> QED BY <1>0, <1>2, <1>4, <1>5, <1>10, <1>20, <2>1, <2>2, <2>3 DEF HandleOK
<1>23. ASSUME NEW x \in Names, file[x].open, x # h
       PROVE  HandleOK(L, R2, D, own, pos, file[x])
  <2>1. PICK y : y = file[x]
    OBVIOUS
  <2>2. HandleOK(L, R, D, own, pos, y) /\ y.name \in Names /\ y.name # f.name
    BY <1>1, <1>3, <1>4, <1>23, <2>1 DEF Handles, TypeInv, FileTyped
  <2>3. SlotOf(y) # p
    BY <1>5, <2>2, SlotIs
  <2>4. FileOK(L, R2, D, own, pos, SlotOf(y), y.first, y.size, y.name)
    BY <1>17, <2>2 DEF HandleOK
  <2>5. EntryAs(R, R2, p, e)
    BY <1>13 DEF Rewrites
  <2>6. HandleOK(L, R2, D, own, pos, y)
    BY <2>2, <2>3, <2>4, <2>5, HandleEntry
  <2> QED BY <2>1, <2>6
<1>24. Handles(L, R2, D, own, pos, k, F)
  <2>1. \A x \in Names : F[x].open => HandleOK(L, R2, D, own, pos, F[x])
    BY <1>19, <1>22, <1>23
  <2>2. \A x, z \in Names : F[x].open /\ F[z].open /\ F[x].name = F[z].name => x = z
    BY <1>2, <1>19, <1>20, <1>1 DEF Handles
  <2> QED BY <2>1, <2>2 DEF Handles
<1>25. crashes = 0 => torn = {} /\ NoneLost(w, L, R2, D, k, F)
  <2>1. ASSUME crashes = 0, NEW d \in Clusters \ D
        PROVE  \/ L[d] = 0 \/ Linked(L, D, d) \/ (Holding(k) /\ d = k.cluster)
               \/ \E q \in FileSlots(R2) : q # VictimOf(k, F) /\ Ent(R2, q).first = d
    <3>1. \/ L[d] = 0 \/ Linked(L, D, d)
          \/ \E q \in FileSlots(R) : q # Nobody /\ Ent(R, q).first = d
      BY <1>1, <1>3, <2>1 DEF NoneLost
    <3>2. ASSUME NEW q \in FileSlots(R)
          PROVE  q \in FileSlots(R2) /\ Ent(R2, q).first = Ent(R, q).first
      BY <1>5, <1>10, <1>13, <1>14 DEF FileSlots
    <3> QED BY <1>21, <3>1, <3>2
  <2>2. crashes = 0 => torn = {} /\ Mirrored(w)
    BY <1>1, <1>13 DEF NoneLost
  <2> QED BY <2>1, <2>2 DEF NoneLost
<1>26. Loading' /\ Kicked' /\ Unmounted'
  BY <1>2, <1>3 DEF Loading, Kicked, Unmounted
<1>27. \A z \in DOMAIN vs : Good(vs[z], D, own, pos, Nobody, torn, kept) /\ Alike(vs[z], k, F)
  <2>1. Good(card, D, own, pos, Nobody, torn, kept)
    BY <1>0, <1>1, <1>3 DEF Good
  <2>2. Good(w, D, own, pos, Nobody, torn, kept)
    BY <1>13, <1>17 DEF Good
  <2> QED BY <1>13, <1>21, <2>1, <2>2
<1>28. \A z \in DOMAIN vs :
         Good(vs[z], D, own, pos, Victim', torn', kept') /\ Alike(vs[z], call', file')
  BY <1>2, <1>18, <1>21, <1>27
<1>29. /\ Handles(L, R2, D, own, pos, call', file') /\ Searching(L, R2, D, pos, call')
       /\ Calling(L, R2, D, own, call', file', torn', kept')
       /\ crashes' = 0 => torn' = {} /\ NoneLost(w, L, R2, D, call', file')
  BY <1>2, <1>18, <1>21, <1>24, <1>25
<1>30. L = LinksOf(w)
  BY <1>13
<1> QED BY <1>2, <1>13, <1>26, <1>28, <1>29, <1>30, WritingThen
LEMMA FreeIs ==
  ASSUME Formatted(card), NEW L, L = LinksOf(card), NEW R, NEW D, NEW own, NEW pos,
         DirectoryOK(L, R, D, pos), ChainsOK(L, D, own, pos), NEW c \in FreeClusters
  PROVE  c \in Clusters \ D /\ L[c] = 0 /\ c \in Links /\ c # 0
<1>1. c \in 2..(fat_size * EPS - 1) /\ L[c] = 0
  BY FreeAre
<1>2. c \in Links /\ c >= 2 /\ c # 0
  BY <1>1, FreeClustersNat
<1>3. c \in Clusters
  BY <1>1, <1>2 DEF ChainsOK
<1> QED BY <1>1, <1>2, <1>3, DirTypes

LEMMA BusyCluster ==
  ASSUME NEW L, NEW R, NEW D, NEW own, NEW pos, ChainsOK(L, D, own, pos), NEW f,
         HandleOK(L, R, D, own, pos, f), ~f.eof, f.cluster # 0
  PROVE  f.cluster \in Clusters \ D /\ L[f.cluster] # 0
<1>1. /\ f.first # 0 /\ f.cluster \in Clusters \ D
      /\ f.cluster = f.first \/ Linked(L, D, f.cluster)
      /\ FileOK(L, R, D, own, pos, SlotOf(f), f.first, f.size, f.name)
  BY DEF HandleOK
<1>2. CASE f.cluster = f.first
  BY <1>1, <1>2, FileFirst
<1>3. CASE Linked(L, D, f.cluster)
  <2>1. PICK d \in Clusters \ D : L[d] = f.cluster
    BY <1>3 DEF Linked
  <2>2. IsLink(L[d])
    BY <1>1, <2>1, LinkFacts
  <2> QED BY <1>1, <2>1, <2>2, ChainAt
<1> QED BY <1>1, <1>2, <1>3

(* Any free cluster can be marked as an end and given an owner.            *)
HandlesStay(L, L2, D, own, pos, own2, pos2) ==
  \A X, f : HandleOK(L, X, D, own, pos, f) => HandleOK(L2, X, D, own2, pos2, f)
SearchStays(L, L2, D, pos, pos2) ==
  \A X, k : Searching(L, X, D, pos, k) => Searching(L2, X, D, pos2, k)

LEMMA MarkSound ==
  ASSUME NEW L \in [Links -> Link], NEW R, NEW D, NEW own, NEW pos, NEW S, NEW gone, NEW relied,
         Sound(L, R, D, own, pos, S, gone, relied), NEW c \in Clusters \ D, L[c] = 0,
         NEW own2, NEW pos2, Reowned(D, c, own, pos, own2, pos2), NEW t \in {0, EOC},
         NEW L2, L2 = Put(L, c, t)
  PROVE  /\ Sound(L2, R, D, own2, pos2, S, gone, relied) /\ ~Linked(L, D, c)
         /\ SameLinks(L, L2, D)
         /\ HandlesStay(L, L2, D, own, pos, own2, pos2)
         /\ SearchStays(L, L2, D, pos, pos2)
<1>1. ChainsOK(L, D, own, pos) /\ FilesOK(L, R, D, own, pos, S)
  BY DEF Sound, Layout
<1>2. /\ ChainsOK(L2, D, own2, pos2) /\ ~Linked(L, D, c) /\ SameLinks(L, L2, D)
      /\ SameDir(D, L, L2, pos, pos2) /\ FilesStay(L, L2, D, own, pos, own2, pos2)
  BY <1>1, Mark
<1>3. FilesOK(L2, R, D, own2, pos2, S)
  BY <1>1, <1>2 DEF FilesOK, FilesStay
<1>4. Sound(L2, R, D, own2, pos2, S, gone, relied) /\ SameOrder(L, L2, D)
  BY <1>2, <1>3, SoundFat
<1>5. ASSUME NEW X, NEW f, HandleOK(L, X, D, own, pos, f)
      PROVE  HandleOK(L2, X, D, own2, pos2, f)
  <2>1. FileOK(L2, X, D, own2, pos2, SlotOf(f), f.first, f.size, f.name)
    BY <1>2, <1>5 DEF HandleOK, FilesStay
  <2>2. ASSUME ~f.eof /\ f.cluster # 0
        PROVE  /\ own2[f.cluster] = own[f.cluster] /\ pos2[f.cluster] = pos[f.cluster]
               /\ f.cluster # f.first => Linked(L2, D, f.cluster)
    <3>1. f.cluster \in Clusters \ D /\ f.cluster # c
      BY <1>1, <1>5, <2>2, BusyCluster
    <3>2. f.cluster # f.first => Linked(L, D, f.cluster)
      BY <1>5, <2>2 DEF HandleOK
    <3>3. f.cluster # f.first => Linked(L2, D, f.cluster)
      BY <1>2, <3>1, <3>2 DEF SameLinks
    <3> QED BY <3>1, <3>3 DEF Reowned
  <2> QED BY <1>4, <1>5, <2>1, <2>2, HandleFat
<1>6. HandlesStay(L, L2, D, own, pos, own2, pos2)
  BY <1>5 DEF HandlesStay
<1>7. SearchStays(L, L2, D, pos, pos2)
  <2> SUFFICES ASSUME NEW X, NEW k, Searching(L, X, D, pos, k)
               PROVE  Searching(L2, X, D, pos2, k)
    BY DEF SearchStays
  <2> QED BY <1>2, <1>4, SearchFat
<1> QED BY <1>2, <1>4, <1>6, <1>7
(* A cluster may be claimed, then marked: the volume is sound throughout.  *)
LEMMA ClaimSound ==
  ASSUME NEW L \in [Links -> Link], NEW R, NEW D, NEW own, NEW pos, NEW S, NEW gone, NEW relied,
         Sound(L, R, D, own, pos, S, gone, relied), NEW c \in Clusters \ D, L[c] = 0,
         NEW own2, NEW pos2, Reowned(D, c, own, pos, own2, pos2),
         NEW M, M = Marked(L, c)
  PROVE  /\ Sound(L, R, D, own2, pos2, S, gone, relied) /\ Sound(M, R, D, own2, pos2, S, gone, relied)
         /\ ~Linked(L, D, c) /\ SameLinks(L, M, D) /\ HandlesStay(L, M, D, own, pos, own2, pos2)
         /\ M \in [Links -> Link] /\ M[c] = EOC /\ \A d \in Links : d # c => M[d] = L[d]
<1>1. c \in Links /\ EOC \in Link
  BY LinkFacts
<1>2. L = Put(L, c, 0) /\ M = Put(L, c, EOC) /\ 0 \in {0, EOC} /\ EOC \in {0, EOC}
  BY <1>1 DEF Put, Marked
<1>3. Sound(L, R, D, own2, pos2, S, gone, relied)
  BY <1>2, MarkSound
<1>4. /\ Sound(M, R, D, own2, pos2, S, gone, relied)
      /\ ~Linked(L, D, c) /\ SameLinks(L, M, D) /\ HandlesStay(L, M, D, own, pos, own2, pos2)
  BY <1>2, MarkSound
<1>5. M \in [Links -> Link] /\ M[c] = EOC /\ \A d \in Links : d # c => M[d] = L[d]
  BY <1>1 DEF Marked
<1> QED BY <1>3, <1>4, <1>5

LEMMA NothingBad ==
  ASSUME CardTyped, Formatted(card), NEW m \in IoType, NEW bad, ~SearchFails(bad)
  PROVE  /\ Allocated(bad) = Allocated(None)
         /\ AllocateCluster(m, 0, bad) = AllocateCluster(m, 0, None)
<1>1. ~SearchFails(None)
  BY SearchQuiet
<1>2. Allocated(bad) = Allocated(None) /\ Searched(m, bad) = Searched(m, None)
  BY <1>1 DEF Allocated, Searched
<1> QED BY <1>2 DEF AllocateCluster

LEMMA AllocatesStill ==
  ASSUME TypeInv, NEW D, NEW own, NEW pos, QuietAt(D, own, pos), CreateAllocates, faults' = 0
  PROVE  \E own2, pos2, vs : Certified(D, own2, pos2, vs)'
<1>0. PICK L, R, c, k : L = LinksOf(card) /\ R = PlainOf(card) /\ c = Allocated(None) /\ k = call'
  OBVIOUS
<1>1. /\ Formatted(card) /\ L \in [Links -> Link]
      /\ Sound(L, R, D, own, pos, Counting(R, Victim, torn), torn, kept)
      /\ DirectoryOK(L, R, D, pos) /\ ChainsOK(L, D, own, pos)
      /\ Handles(L, R, D, own, pos, call, file) /\ Calling(L, R, D, own, call, file, torn, kept)
      /\ Loading /\ Kicked /\ Unmounted
      /\ crashes = 0 => torn = {} /\ NoneLost(card, L, R, D, call, file)
  BY <1>0, Parts
<1>2. /\ call.fn # "none" /\ call.step = "alloc" /\ io.todo = <<>> /\ UnchangedRest
      /\ image' = image /\ kick' = kick /\ kept' = kept /\ file' = file
      /\ card' = card /\ torn' = torn /\ crashes' = crashes /\ mounted' = mounted
      /\ io \in IoType /\ faults \in Nat /\ CardTyped /\ CallTyped
  BY DEF CreateAllocates, Running, UnchangedRest, TypeInv, RestTyped
<1>3. /\ call.fn = "create" /\ mounted /\ kick = "none"
  BY <1>1, <1>2 DEF Calling, Steps, Unmounted, NoCall, Kicked
<1>4. /\ io' = AllocateCluster(io, 0, None)
      /\ call' = IF c = 0 THEN NoCall ELSE Rewound([call EXCEPT !.step = "slot", !.cluster = c])
  <2>1. PICK bad \in Bads :
          /\ Count(SearchFails(bad)) /\ io' = AllocateCluster(io, 0, bad)
          /\ call' = IF Allocated(bad) = 0 THEN NoCall
                     ELSE Rewound([call EXCEPT !.step = "slot", !.cluster = Allocated(bad)])
    BY DEF CreateAllocates
  <2>2. ~SearchFails(bad)
    BY <1>2, <2>1, CountTyped
  <2>3. Allocated(bad) = Allocated(None) /\ AllocateCluster(io, 0, bad) = AllocateCluster(io, 0, None)
    BY <1>1, <1>2, <2>2, NothingBad
  <2> QED BY <1>0, <2>1, <2>3
<1>5. Victim = Nobody /\ ~Holding(call)
  BY <1>2, <1>3 DEF Victim, VictimOf, Holding
<1>6. /\ 0 \in Links /\ Grown(L, c, 0) = Marked(L, c)
  BY ConstantTypes, Products DEF Links, Grown
<1>7. CASE c = 0
  <2>1. io'.todo = <<>> /\ Buffered(io', card)
    BY <1>0, <1>1, <1>2, <1>4, <1>6, <1>7, AllocateQuiet
  <2>2. k = NoCall /\ k.fn = "none" /\ k.step = "none"
    BY <1>0, <1>4, <1>7 DEF NoCall
  <2>3. /\ Searching(L, R, D, pos, k) /\ Calling(L, R, D, own, k, file, torn, kept)
        /\ VictimOf(k, file) = Nobody /\ Alike(card, k, file)
    BY <2>2, CallOver
  <2>4. Handles(L, R, D, own, pos, k, file)
    BY <1>1, <1>3, HandlesKept
  <2>5. crashes = 0 => torn = {} /\ NoneLost(card, L, R, D, k, file)
    BY <1>1, <1>5, <2>3, NoneLostKept DEF Victim
  <2>6. Victim' = Nobody
    BY <1>0, <1>2, <2>3 DEF Victim
  <2>7. Loading' /\ Kicked' /\ Unmounted'
    BY <1>0, <1>1, <1>2, <1>3, <2>2 DEF Loading, Kicked, Unmounted
  <2>8. Sound(L, R, D, own, pos, Counting(R, Victim', torn), torn, kept')
    BY <1>1, <1>2, <1>5, <2>6
  <2> QED BY <1>0, <1>1, <1>2, <2>1, <2>3, <2>4, <2>5, <2>7, <2>8, StillThen
<1>8. CASE c # 0
  <2>1. c \in Clusters \ D /\ L[c] = 0 /\ c \in Links
    BY <1>0, <1>1, <1>8, AllocatedTyped, FreeIs
  <2>2. PICK own2, pos2 :
          /\ own2 = [d \in Clusters |-> IF d = c THEN Nobody ELSE own[d]]
          /\ pos2 = [d \in Clusters \cup D |-> IF d = c THEN 0 ELSE pos[d]]
    OBVIOUS
  <2>3. Reowned(D, c, own, pos, own2, pos2) /\ own2[c] = Nobody
    BY <2>1, <2>2 DEF Reowned
  <2>4. PICK M : M = Marked(L, c)
    OBVIOUS
  <2>5. /\ Sound(L, R, D, own2, pos2, Counting(R, Nobody, torn), torn, kept)
        /\ Sound(M, R, D, own2, pos2, Counting(R, Nobody, torn), torn, kept)
        /\ ~Linked(L, D, c) /\ SameLinks(L, M, D) /\ HandlesStay(L, M, D, own, pos, own2, pos2)
        /\ M[c] = EOC /\ \A d \in Links : d # c => M[d] = L[d]
    <3>1. Sound(L, R, D, own, pos, Counting(R, Nobody, torn), torn, kept)
      BY <1>1, <1>5
    <3> QED BY <1>1, <2>1, <2>3, <2>4, <3>1, ClaimSound
  <2>6. PICK vs : /\ Trace(card, io'.todo, vs)
                  /\ \A i \in DOMAIN vs :
                       /\ Formatted(vs[i]) /\ PlainOf(vs[i]) = PlainOf(card)
                       /\ LinksOf(vs[i]) \in {LinksOf(card), Marked(LinksOf(card), c),
                                              Grown(LinksOf(card), c, 0)}
                  /\ LET w == End(io'.todo, vs) IN
                     /\ Formatted(w) /\ PlainOf(w) = PlainOf(card) /\ Buffered(io', w)
                     /\ LinksOf(w) = Grown(LinksOf(card), c, 0)
                     /\ Mirrored(card) => Mirrored(w)
    BY <1>0, <1>1, <1>2, <1>4, <1>6, <1>8, AllocateQuiet
  <2>7. PICK w : w = End(io'.todo, vs)
    OBVIOUS
  <2>8. /\ Formatted(w) /\ PlainOf(w) = R /\ Buffered(io', w) /\ LinksOf(w) = M
        /\ (Mirrored(card) => Mirrored(w))
        /\ \A i \in DOMAIN vs : Formatted(vs[i]) /\ PlainOf(vs[i]) = R /\ LinksOf(vs[i]) \in {L, M}
    BY <1>0, <1>6, <2>4, <2>6, <2>7
  <2>9. /\ k.fn = "create" /\ k.step = "slot" /\ k.h = call.h /\ k.name = call.name /\ k.cluster = c
        /\ k.index = 0 /\ k.sector = root_directory_start /\ k.chain = root_directory_cluster
        /\ k.longname = NoName
    <3>1. PICK x : x = [call EXCEPT !.step = "slot", !.cluster = c]
      OBVIOUS
    <3>2. c \in Link
      BY <1>0, AllocatedTyped
    <3>3. /\ x \in CallType /\ x.fn = "create" /\ x.step = "slot" /\ x.h = call.h
          /\ x.name = call.name /\ x.cluster = c
      BY <1>2, <1>3, <3>1, <3>2 DEF CallTyped, CallType
    <3>4. k = Rewound(x)
      BY <1>0, <1>4, <1>8, <3>1
    <3> QED BY <1>2, <3>3, <3>4, RewoundTyped
  <2>10. VictimOf(k, file) = Nobody /\ Holding(k) /\ \A v : Alike(v, k, file)
    BY <2>9 DEF VictimOf, Holding, Alike
  <2>11. Searching(M, R, D, pos2, k)
    <3>1. DirectoryOK(M, R, D, pos2)
      BY <2>5 DEF Sound, Layout
    <3> QED BY <2>9, <3>1, SearchBegins
  <2>12. Handles(M, R, D, own2, pos2, k, file)
    BY <1>1, <1>3, <2>5 DEF Handles, HandlesStay
  <2>13. Held(M, D, own2, k, file)
    <3>1. ~Linked(M, D, c)
      BY <2>1, <2>5 DEF SameLinks
    <3>2. EOC # 0
      BY LinkFacts
    <3> QED BY <2>1, <2>3, <2>5, <2>9, <2>10, <3>1, <3>2 DEF Held
  <2>14. Calling(M, R, D, own2, k, file, torn, kept)
    <3>1. /\ k.step \in Steps(k.fn) /\ k.fn \notin {"delete", "close"}
          /\ Deleting(R, k, file, kept)
      BY <2>9 DEF Steps, Deleting
    <3>2. Looking(k, file, torn)
      BY <1>1, <1>2, <1>3, <2>9 DEF Calling, Looking
    <3>3. \A p \in FileSlots(R) : Ent(R, p).name # k.name
      BY <1>1, <1>2, <1>3, <2>9 DEF Calling
    <3> QED BY <2>13, <3>1, <3>2, <3>3 DEF Calling
  <2>15. ASSUME crashes = 0
         PROVE  torn = {} /\ NoneLost(w, M, R, D, k, file)
    <3>1. torn = {} /\ NoneLost(card, L, R, D, call, file)
      BY <1>1, <2>15
    <3>2. ASSUME NEW d \in Clusters \ D
          PROVE  \/ M[d] = 0 \/ Linked(M, D, d) \/ (Holding(k) /\ d = k.cluster)
                 \/ \E p \in FileSlots(R) : p # VictimOf(k, file) /\ Ent(R, p).first = d
      <4>1. \/ L[d] = 0 \/ Linked(L, D, d)
            \/ \E p \in FileSlots(R) : p # Nobody /\ Ent(R, p).first = d
        BY <1>5, <3>1 DEF NoneLost, Victim
      <4>2. Linked(L, D, d) => Linked(M, D, d)
        BY <2>5 DEF SameLinks
      <4>3. d # c => M[d] = L[d]
        BY <2>5, LinkFacts
      <4> QED BY <2>9, <2>10, <4>1, <4>2, <4>3
    <3>3. Mirrored(w)
      BY <2>8, <3>1 DEF NoneLost
    <3> QED BY <3>1, <3>2, <3>3 DEF NoneLost
  <2>16. \A i \in DOMAIN vs : Good(vs[i], D, own2, pos2, Victim', torn', kept') /\ Alike(vs[i], call', file')
    <3>1. \A i \in DOMAIN vs : Good(vs[i], D, own2, pos2, Nobody, torn, kept)
      BY <2>5, <2>8 DEF Good
    <3>2. Victim' = Nobody /\ \A i \in DOMAIN vs : Alike(vs[i], call', file')
      BY <1>0, <1>2, <2>10 DEF Victim
    <3> QED BY <1>2, <3>1, <3>2
  <2>17. /\ Handles(M, R, D, own2, pos2, call', file') /\ Searching(M, R, D, pos2, call')
         /\ Calling(M, R, D, own2, call', file', torn', kept')
         /\ crashes' = 0 => torn' = {} /\ NoneLost(w, M, R, D, call', file')
    BY <1>0, <1>2, <2>11, <2>12, <2>14, <2>15
  <2>18. Loading' /\ Kicked' /\ Unmounted'
    BY <1>0, <1>1, <1>2, <1>3, <2>9 DEF Loading, Kicked, Unmounted
  <2> QED BY <1>2, <2>6, <2>7, <2>8, <2>16, <2>17, <2>18, WritingThen
<1> QED BY <1>7, <1>8
LEMMA CloseAny ==
  ASSUME TypeInv, NEW D, NEW own, NEW pos, QuietAt(D, own, pos), NEW h \in Names, FileClose(h), faults' = 0
  PROVE  \E own2, pos2, vs : Certified(D, own2, pos2, vs)'
<1>1. /\ Ready /\ file[h].open /\ Begin("close", "return", h, file[h].name)
      /\ UnchangedRest /\ UNCHANGED <<kick, image, kept>> /\ faults \in Nat
  BY DEF FileClose, TypeInv, RestTyped
<1>2. CASE io' = io /\ file' = file
  BY <1>1, <1>2, CloseStill
<1>3. CASE \E ok \in Oks :
             /\ Count(~ok)
             /\ io' = EntryChanged(file[h], ok, [EntryRead(file[h], ok) EXCEPT
                 !.size = file[h].size, !.rest = file[h].rest])
             /\ file' = [file EXCEPT ![h] = [file[h] EXCEPT !.dirty = ~ok]]
  <2>1. PICK ok \in Oks :
             /\ Count(~ok)
             /\ io' = EntryChanged(file[h], ok, [EntryRead(file[h], ok) EXCEPT
                 !.size = file[h].size, !.rest = file[h].rest])
             /\ file' = [file EXCEPT ![h] = [file[h] EXCEPT !.dirty = ~ok]]
    BY <1>3
  <2>2. ok \in BOOLEAN /\ ~(~ok)
    BY <1>1, <2>1, CountTyped DEF Oks
  <2> QED BY <1>1, <2>1, <2>2, SizeStill
<1> QED BY <1>2, <1>3 DEF FileClose

-----------------------------------------------------------------------------
(* ReleaseCluster: a cluster of no file that counts becomes free.          *)

BusyStay(L, L2, D, own, pos, c) ==
  \A X, f : SlotOf(f) # own[c] /\ HandleOK(L, X, D, own, pos, f) => HandleOK(L2, X, D, own, pos, f)

LEMMA FreeSound ==
  ASSUME NEW L \in [Links -> Link], NEW R, NEW D, NEW own, NEW pos, NEW S, NEW gone, NEW relied,
         Sound(L, R, D, own, pos, S, gone, relied), NEW c \in Clusters \ D, ~Linked(L, D, c),
         own[c] \notin S, NEW L2, L2 = Put(L, c, 0)
  PROVE  /\ Sound(L2, R, D, own, pos, S, gone, relied) /\ Unlinked(L, L2, D, c)
         /\ BusyStay(L, L2, D, own, pos, c)
         /\ L2[c] = 0 /\ \A d \in Links : d # c => L2[d] = L[d]
<1>1. ChainsOK(L, D, own, pos) /\ FilesOK(L, R, D, own, pos, S)
  BY DEF Sound, Layout
<1>2. /\ ChainsOK(L2, D, own, pos) /\ Unlinked(L, L2, D, c)
      /\ OthersStay(L, L2, D, own, pos, c)
  BY <1>1, Unlink
<1>3. L2[c] = 0 /\ \A d \in Links : d # c => L2[d] = L[d]
  BY LinkFacts DEF Put
<1>4. SameDir(D, L, L2, pos, pos)
  BY DEF SameDir, Put
<1>5. FilesOK(L2, R, D, own, pos, S)
  BY <1>1, <1>2 DEF FilesOK, OthersStay
<1>6. Sound(L2, R, D, own, pos, S, gone, relied) /\ SameOrder(L, L2, D)
  BY <1>2, <1>4, <1>5, SoundFat
<1>7. ASSUME NEW X, NEW f, SlotOf(f) # own[c], HandleOK(L, X, D, own, pos, f)
      PROVE  HandleOK(L2, X, D, own, pos, f)
  <2>1. FileOK(L2, X, D, own, pos, SlotOf(f), f.first, f.size, f.name)
    BY <1>2, <1>7 DEF HandleOK, OthersStay
  <2>2. ASSUME ~f.eof /\ f.cluster # 0, f.cluster # f.first
        PROVE  Linked(L2, D, f.cluster)
    <3>1. f.cluster \in Clusters \ D /\ Linked(L, D, f.cluster) /\ own[f.cluster] = SlotOf(f)
      BY <1>7, <2>2 DEF HandleOK
    <3>2. f.cluster # L[c]
      BY <1>1, <1>7, <3>1, ChainAt, LinkFacts
    <3> QED BY <1>2, <3>1, <3>2 DEF Unlinked
  <2> QED BY <1>6, <1>7, <2>1, <2>2, HandleFat
<1> QED BY <1>2, <1>3, <1>6, <1>7 DEF BusyStay

(* Nobody else's slot is the victim's.                                     *)
LEMMA NotVictim ==
  ASSUME NEW L, NEW R, NEW D, NEW own, NEW pos, NEW k, NEW F, NEW gone, NEW relied,
         Handles(L, R, D, own, pos, k, F), Calling(L, R, D, own, k, F, gone, relied),
         k.h \in Names, k.step # "return", NEW x \in Names, F[x].open, ~(k.fn = "delete" /\ k.h = x)
  PROVE  HandleOK(L, R, D, own, pos, F[x]) /\ SlotOf(F[x]) # VictimOf(k, F)
<1>1. PICK f : f = F[x]
  OBVIOUS
<1>2. HandleOK(L, R, D, own, pos, f)
  BY <1>1 DEF Handles
<1>3. SlotOf(f) \in DirSlots(R) /\ Ent(R, SlotOf(f)).name = f.name
  BY <1>2 DEF HandleOK
<1>4. CASE k.fn = "delete"
  <2>1. Ent(R, VictimOf(k, F)).name = k.name /\ F[k.h].open /\ F[k.h].name = k.name
    BY <1>4 DEF Calling, Deleting
  <2>2. f.name # k.name
    BY <1>1, <1>4, <2>1 DEF Handles
  <2> QED BY <1>1, <1>2, <1>3, <2>1, <2>2
<1>5. CASE k.fn # "delete"
  BY <1>1, <1>2, <1>3, <1>5, SlotTypes DEF VictimOf
<1> QED BY <1>4, <1>5
LEMMA ReleaseReads ==
  ASSUME TypeInv, NEW D, NEW own, NEW pos, QuietAt(D, own, pos), ReleaseStep, faults' = 0,
         NEW L, L = LinksOf(card), NEW c, c = call.cluster, NEW L2, L2 = Put(L, c, 0)
  PROVE  /\ c \in Clusters \ D
         /\ call' = IF L[c] # EOC /\ L[c] # 0 THEN [call EXCEPT !.cluster = L[c]]
                    ELSE IF call.fn = "delete" THEN [call EXCEPT !.step = "unlink"] ELSE NoCall
         /\ \E w, vs :
              /\ Trace(card, io'.todo, vs) /\ w = End(io'.todo, vs)
              /\ \A i \in DOMAIN vs : /\ Formatted(vs[i]) /\ PlainOf(vs[i]) = PlainOf(card)
                                      /\ LinksOf(vs[i]) \in {L, L2}
              /\ Formatted(w) /\ PlainOf(w) = PlainOf(card) /\ LinksOf(w) = L2 /\ Buffered(io', w)
              /\ Mirrored(card) => Mirrored(w)
<1>1. PICK R : R = PlainOf(card)
  OBVIOUS
<1>2. /\ Formatted(card) /\ Calling(L, R, D, own, call, file, torn, kept) /\ Buffered(io, card)
  BY <1>1, Parts, Watched DEF ReleaseStep, Running, LastRead
<1>3. /\ call.fn # "none" /\ call.step = "release" /\ io.todo = <<>>
      /\ io \in IoType /\ faults \in Nat /\ CardTyped
  BY DEF ReleaseStep, Running, TypeInv, RestTyped
<1>4. call.fn \in {"create", "delete"} /\ Holding(call)
  BY <1>2, <1>3 DEF Calling, Steps, Holding
<1>5. c \in Clusters \ D /\ c \in Links
  BY <1>2, <1>4, LinkFacts DEF Calling, Held
<1>6. PICK ok \in Oks :
        LET next == NextCluster(io, c, ok)
            rest == IF next = EOC THEN 0 ELSE next
        IN  /\ Count(FetchFails(io, c, ok))
            /\ io' = SetCluster(FetchFat(io, c, ok), c, 0, TRUE)
            /\ call' = IF rest # 0 THEN [call EXCEPT !.cluster = rest]
                       ELSE IF call.fn = "delete" THEN [call EXCEPT !.step = "unlink"]
                       ELSE NoCall
  BY DEF ReleaseStep
<1>7. ok \in BOOLEAN /\ ~FetchFails(io, c, ok)
  BY <1>3, <1>6, CountTyped DEF Oks
<1>8. PICK r : r = FetchFat(io, c, ok)
  OBVIOUS
<1>9. /\ r \in IoType /\ r.todo = <<>> /\ Buffered(r, card) /\ NextCluster(io, c, ok) = L[c]
  BY <1>2, <1>3, <1>5, <1>7, <1>8, FetchQuiet
<1>10. call' = IF L[c] # EOC /\ L[c] # 0 THEN [call EXCEPT !.cluster = L[c]]
               ELSE IF call.fn = "delete" THEN [call EXCEPT !.step = "unlink"] ELSE NoCall
  BY <1>6, <1>9
<1>11. 0 \in Link /\ TRUE \in BOOLEAN /\ ~FetchFails(r, c, TRUE) /\ io' = SetCluster(r, c, 0, TRUE)
  BY <1>6, <1>8, LinkFacts DEF FetchFails
<1>12. PICK vs :
         /\ Trace(card, io'.todo, vs)
         /\ \A i \in DOMAIN vs : vs[i] = card \/ FatStep(card, vs[i], c, 0)
         /\ LET w == End(io'.todo, vs) IN
            FatStep(card, w, c, 0) /\ Buffered(io', w) /\ (Mirrored(card) => Mirrored(w))
  BY <1>2, <1>3, <1>5, <1>9, <1>11, SetQuiet
<1>13. \A i \in DOMAIN vs : /\ Formatted(vs[i]) /\ PlainOf(vs[i]) = PlainOf(card)
                            /\ LinksOf(vs[i]) \in {L, L2}
  BY <1>2, <1>12 DEF FatStep, Put
<1>14. PICK w : w = End(io'.todo, vs)
  OBVIOUS
<1>15. /\ Formatted(w) /\ PlainOf(w) = PlainOf(card) /\ LinksOf(w) = L2 /\ Buffered(io', w)
       /\ Mirrored(card) => Mirrored(w)
  BY <1>12, <1>14 DEF FatStep, Put
<1> QED BY <1>5, <1>10, <1>12, <1>13, <1>14, <1>15

LEMMA ReleaseStill ==
  ASSUME TypeInv, NEW D, NEW own, NEW pos, QuietAt(D, own, pos), ReleaseStep, faults' = 0
  PROVE  \E own2, pos2, vs : Certified(D, own2, pos2, vs)'
<1>0. PICK L, R, c, k, L2 : /\ L = LinksOf(card) /\ R = PlainOf(card) /\ c = call.cluster /\ k = call'
                            /\ L2 = Put(L, c, 0)
  OBVIOUS
<1>1. /\ Formatted(card) /\ L \in [Links -> Link]
      /\ Sound(L, R, D, own, pos, Counting(R, Victim, torn), torn, kept)
      /\ ChainsOK(L, D, own, pos) /\ Alike(card, call, file)
      /\ Handles(L, R, D, own, pos, call, file) /\ Calling(L, R, D, own, call, file, torn, kept)
      /\ Loading /\ Kicked /\ Unmounted
      /\ crashes = 0 => torn = {} /\ NoneLost(card, L, R, D, call, file)
  BY <1>0, Parts
<1>2. /\ call.fn # "none" /\ call.step = "release" /\ io.todo = <<>>
      /\ image' = image /\ kick' = kick /\ kept' = kept /\ file' = file
      /\ card' = card /\ torn' = torn /\ crashes' = crashes /\ mounted' = mounted
      /\ call \in CallType /\ call.h \in Names
  BY DEF ReleaseStep, Running, UnchangedRest, TypeInv, CallTyped
<1>3. /\ call.fn \in {"create", "delete"} /\ mounted /\ kick = "none" /\ Holding(call)
  BY <1>1, <1>2 DEF Calling, Steps, Unmounted, NoCall, Kicked, Holding
<1>4. /\ c \in Clusters \ D
      /\ call' = IF L[c] # EOC /\ L[c] # 0 THEN [call EXCEPT !.cluster = L[c]]
                 ELSE IF call.fn = "delete" THEN [call EXCEPT !.step = "unlink"] ELSE NoCall
  BY <1>0, ReleaseReads
<1>5. PICK w, vs :
        /\ Trace(card, io'.todo, vs) /\ w = End(io'.todo, vs)
        /\ \A i \in DOMAIN vs : /\ Formatted(vs[i]) /\ PlainOf(vs[i]) = PlainOf(card)
                                /\ LinksOf(vs[i]) \in {L, L2}
        /\ Formatted(w) /\ PlainOf(w) = PlainOf(card) /\ LinksOf(w) = L2 /\ Buffered(io', w)
        /\ Mirrored(card) => Mirrored(w)
  BY <1>0, ReleaseReads
<1>6. /\ L[c] # 0 /\ ~Linked(L, D, c) /\ own[c] = Victim /\ (call.fn = "create" => L[c] = EOC)
  BY <1>0, <1>1, <1>3 DEF Calling, Held, Victim
<1>7. own[c] \notin Counting(R, Victim, torn)
  BY <1>6 DEF Counting
<1>8. /\ Sound(L2, R, D, own, pos, Counting(R, Victim, torn), torn, kept)
      /\ Unlinked(L, L2, D, c) /\ BusyStay(L, L2, D, own, pos, c)
      /\ L2[c] = 0 /\ \A d \in Links : d # c => L2[d] = L[d]
  BY <1>0, <1>1, <1>4, <1>6, <1>7, FreeSound
<1>9. ASSUME NEW x \in Names, file[x].open, ~(call.fn = "delete" /\ call.h = x)
      PROVE  HandleOK(L2, R, D, own, pos, file[x])
  <2>1. HandleOK(L, R, D, own, pos, file[x]) /\ SlotOf(file[x]) # VictimOf(call, file)
    BY <1>1, <1>2, <1>9, NotVictim
  <2> QED BY <1>6, <1>8, <2>1 DEF BusyStay, Victim
<1>10. ASSUME (k.fn = call.fn /\ k.h = call.h) \/ (k.fn = "none" /\ call.fn = "create")
       PROVE  Handles(L2, R, D, own, pos, k, file)
  BY <1>1, <1>9, <1>10 DEF Handles
<1>11. ASSUME NEW d \in Clusters \ D, L[d] = 0 \/ Linked(L, D, d) \/ d = c
       PROVE  L2[d] = 0 \/ Linked(L2, D, d) \/ d = L[c]
  BY <1>8, <1>11, LinkFacts DEF Unlinked
<1>12. ASSUME VictimOf(k, file) = Victim,
              L[c] \in Clusters \ D => Holding(k) /\ k.cluster = L[c]
       PROVE  crashes = 0 => torn = {} /\ NoneLost(w, L2, R, D, k, file)
  <2>1. SUFFICES ASSUME crashes = 0 PROVE torn = {} /\ NoneLost(w, L2, R, D, k, file)
    OBVIOUS
  <2>2. torn = {} /\ NoneLost(card, L, R, D, call, file)
    BY <1>1, <2>1
  <2>3. ASSUME NEW d \in Clusters \ D
        PROVE  \/ L2[d] = 0 \/ Linked(L2, D, d) \/ (Holding(k) /\ d = k.cluster)
               \/ \E p \in FileSlots(R) : p # VictimOf(k, file) /\ Ent(R, p).first = d
    <3>1. \/ L[d] = 0 \/ Linked(L, D, d) \/ d = c
          \/ \E p \in FileSlots(R) : p # VictimOf(call, file) /\ Ent(R, p).first = d
      BY <1>0, <2>2 DEF NoneLost
    <3>2. CASE L[d] = 0 \/ Linked(L, D, d) \/ d = c
      BY <1>11, <1>12, <3>2
    <3>3. CASE \E p \in FileSlots(R) : p # VictimOf(call, file) /\ Ent(R, p).first = d
      BY <1>12, <3>3 DEF Victim
    <3> QED BY <3>1, <3>2, <3>3
  <2>4. Mirrored(w)
    BY <1>5, <2>2 DEF NoneLost
  <2> QED BY <2>2, <2>3, <2>4 DEF NoneLost
<1>13. ASSUME VictimOf(k, file) = Victim, \A v : Alike(v, call, file) => Alike(v, k, file),
              Handles(L2, R, D, own, pos, k, file), Searching(L2, R, D, pos, k),
              Calling(L2, R, D, own, k, file, torn, kept),
              crashes = 0 => torn = {} /\ NoneLost(w, L2, R, D, k, file),
              Loading', Kicked', Unmounted'
       PROVE  \E own2, pos2, vs2 : Certified(D, own2, pos2, vs2)'
  <2>1. ASSUME NEW i \in DOMAIN vs
        PROVE  Good(vs[i], D, own, pos, Victim', torn', kept') /\ Alike(vs[i], call', file')
    <3>1. Victim' = Victim
      BY <1>0, <1>2, <1>13 DEF Victim
    <3>2. Good(vs[i], D, own, pos, Victim, torn, kept)
      BY <1>0, <1>1, <1>5, <1>8 DEF Good
    <3>3. Alike(vs[i], call, file)
      BY <1>0, <1>1, <1>5 DEF Alike
    <3> QED BY <1>0, <1>2, <1>13, <3>1, <3>2, <3>3
  <2>2. /\ Handles(L2, R, D, own, pos, call', file') /\ Searching(L2, R, D, pos, call')
        /\ Calling(L2, R, D, own, call', file', torn', kept')
        /\ crashes' = 0 => torn' = {} /\ NoneLost(w, L2, R, D, call', file')
    BY <1>0, <1>2, <1>13
  <2>3. L2 = LinksOf(w) /\ R = PlainOf(w)
    BY <1>0, <1>5
  <2> QED BY <1>2, <1>5, <1>13, <2>1, <2>2, <2>3, WritingThen
<1>14. CASE L[c] # EOC
  <2>1. /\ L[c] \in Clusters \ D /\ L[L[c]] # 0 /\ own[L[c]] = own[c] /\ L[c] # c
    BY <1>1, <1>4, <1>6, <1>14, ChainAt DEF IsLink
  <2>2. /\ call.fn = "delete" /\ k.fn = "delete" /\ k.step = "release" /\ k.h = call.h
        /\ k.name = call.name /\ k.cluster = L[c]
    BY <1>0, <1>2, <1>3, <1>4, <1>6, <1>14 DEF CallType
  <2>3. /\ VictimOf(k, file) = Victim /\ Holding(k) /\ Searching(L2, R, D, pos, k)
        /\ \A v : Alike(v, call, file) => Alike(v, k, file)
    BY <2>2 DEF VictimOf, Victim, Holding, Searching, Alike
  <2>4. Held(L2, D, own, k, file)
    <3>1. L2[L[c]] # 0 /\ ~Linked(L2, D, L[c])
      BY <1>8, <2>1, LinkFacts DEF Unlinked
    <3> QED BY <1>6, <2>1, <2>2, <2>3, <3>1 DEF Held
  <2>5. Calling(L2, R, D, own, k, file, torn, kept)
    BY <1>1, <1>2, <2>2, <2>3, <2>4 DEF Calling, Steps, Looking, Deleting, Victim
  <2>6. Loading' /\ Kicked' /\ Unmounted'
    BY <1>0, <1>1, <1>2, <1>3, <2>2 DEF Loading, Kicked, Unmounted
  <2>7. Handles(L2, R, D, own, pos, k, file)
    BY <1>10, <2>2
  <2>8. crashes = 0 => torn = {} /\ NoneLost(w, L2, R, D, k, file)
    BY <1>12, <2>2, <2>3
  <2> QED BY <1>13, <2>3, <2>5, <2>6, <2>7, <2>8
<1>15. CASE L[c] = EOC /\ call.fn = "delete"
  <2>1. /\ k.fn = "delete" /\ k.step = "unlink" /\ k.h = call.h /\ k.name = call.name
    BY <1>0, <1>2, <1>4, <1>15 DEF CallType
  <2>2. /\ VictimOf(k, file) = Victim /\ ~Holding(k) /\ Searching(L2, R, D, pos, k)
        /\ \A v : Alike(v, call, file) => Alike(v, k, file)
    BY <1>15, <2>1 DEF VictimOf, Victim, Holding, Searching, Alike
  <2>3. Calling(L2, R, D, own, k, file, torn, kept)
    BY <1>1, <1>2, <1>15, <2>1, <2>2 DEF Calling, Steps, Looking, Deleting, Victim, Held
  <2>4. Loading' /\ Kicked' /\ Unmounted'
    BY <1>0, <1>1, <1>2, <1>3, <2>1 DEF Loading, Kicked, Unmounted
  <2>5. Handles(L2, R, D, own, pos, k, file)
    BY <1>10, <1>15, <2>1
  <2>6. crashes = 0 => torn = {} /\ NoneLost(w, L2, R, D, k, file)
    BY <1>12, <1>15, <2>2, LinkFacts
  <2> QED BY <1>13, <2>2, <2>3, <2>4, <2>5, <2>6
<1>16. CASE L[c] = EOC /\ call.fn = "create"
  <2>1. k = NoCall /\ k.fn = "none" /\ k.step = "none"
    BY <1>0, <1>4, <1>16 DEF NoCall
  <2>2. /\ Searching(L2, R, D, pos, k) /\ Calling(L2, R, D, own, k, file, torn, kept)
        /\ VictimOf(k, file) = Nobody /\ \A v : Alike(v, k, file)
    BY <2>1, CallOver
  <2>3. VictimOf(k, file) = Victim
    BY <1>16, <2>2 DEF Victim, VictimOf
  <2>4. Loading' /\ Kicked' /\ Unmounted'
    BY <1>0, <1>1, <1>2, <1>3, <2>1 DEF Loading, Kicked, Unmounted
  <2> QED BY <1>10, <1>12, <1>13, <1>16, <2>1, <2>2, <2>3, <2>4, LinkFacts
<1> QED BY <1>3, <1>14, <1>15, <1>16
-----------------------------------------------------------------------------
(* AllocateCluster with a parent: the claimed cluster is linked behind it. *)

HandlesGrow(L, L2, R, D, own, pos) ==
  \A f \in FileType : HandleOK(L, R, D, own, pos, f) => HandleOK(L2, R, D, own, pos, f)

LEMMA LinkSound ==
  ASSUME NEW L \in [Links -> Link], NEW R, NEW D, NEW own, NEW pos, NEW S, NEW gone, NEW relied,
         Sound(L, R, D, own, pos, S, gone, relied), NEW par \in Clusters \ D, NEW c \in Clusters \ D,
         L[par] = EOC, L[c] = EOC, ~Linked(L, D, c), own[c] = own[par], pos[c] = pos[par] + 1,
         par = Ent(R, own[par]).first \/ Linked(L, D, par),
         \A p \in S : Ent(R, p).size \in Nat, NEW L2, L2 = Put(L, par, c)
  PROVE  /\ Sound(L2, R, D, own, pos, S, gone, relied) /\ Joined(L, L2, D, c)
         /\ HandlesGrow(L, L2, R, D, own, pos)
         /\ L2[par] = c /\ \A d \in Links : d # par => L2[d] = L[d]
<1>1. ChainsOK(L, D, own, pos) /\ FilesOK(L, R, D, own, pos, S)
  BY DEF Sound, Layout
<1>2. ChainsOK(L2, D, own, pos) /\ Joined(L, L2, D, c) /\ FilesGrow(L, L2, D, own, pos, par)
  BY <1>1, Chain
<1>3. L2[par] = c /\ \A d \in Links : d # par => L2[d] = L[d]
  BY LinkFacts DEF Put
<1>4. SameDir(D, L, L2, pos, pos)
  BY DEF SameDir, Put
<1>5. FilesOK(L2, R, D, own, pos, S)
  <2>1. ASSUME NEW p \in S
        PROVE  FileOK(L2, R, D, own, pos, p, Ent(R, p).first, Ent(R, p).size, Ent(R, p).name)
    <3>1. FileOK(L, R, D, own, pos, p, Ent(R, p).first, Ent(R, p).size, Ent(R, p).name)
      BY <1>1 DEF FilesOK
    <3>2. own[par] = p => par = Ent(R, p).first \/ Linked(L, D, par)
      OBVIOUS
    <3> QED BY <1>2, <3>1, <3>2 DEF FilesGrow
  <2> QED BY <2>1 DEF FilesOK
<1>6. Sound(L2, R, D, own, pos, S, gone, relied) /\ SameOrder(L, L2, D)
  BY <1>2, <1>4, <1>5, SoundFat
<1>7. ASSUME NEW f \in FileType, HandleOK(L, R, D, own, pos, f)
      PROVE  HandleOK(L2, R, D, own, pos, f)
  <2>1. FileOK(L2, R, D, own, pos, SlotOf(f), f.first, f.size, f.name)
    <3>1. /\ FileOK(L, R, D, own, pos, SlotOf(f), f.first, f.size, f.name)
          /\ Ent(R, SlotOf(f)).first = f.first
      BY <1>7 DEF HandleOK
    <3>2. f.size \in Nat
      <4>1. f.size \in 0..MaxSectors
        BY DEF FileType
      <4> QED BY <4>1, VolumesAssumption
    <3>3. own[par] = SlotOf(f) => par = f.first \/ Linked(L, D, par)
      BY <3>1
    <3> QED BY <1>2, <3>1, <3>2, <3>3 DEF FilesGrow
  <2>2. ASSUME ~f.eof /\ f.cluster # 0, f.cluster # f.first
        PROVE  Linked(L2, D, f.cluster)
    <3>1. f.cluster \in Clusters \ D /\ Linked(L, D, f.cluster)
      BY <1>7, <2>2 DEF HandleOK
    <3> QED BY <1>2, <3>1 DEF Joined
  <2> QED BY <1>6, <1>7, <2>1, <2>2, HandleFat
<1> QED BY <1>2, <1>3, <1>6, <1>7 DEF HandlesGrow

(* Marking and linking: the volume is sound at each of the three points.   *)
LEMMA GrowSound ==
  ASSUME NEW L \in [Links -> Link], NEW R, NEW D, NEW own, NEW pos, NEW S, NEW gone, NEW relied,
         Sound(L, R, D, own, pos, S, gone, relied), NEW par \in Clusters \ D, NEW c \in Clusters \ D,
         L[par] = EOC, L[c] = 0, par = Ent(R, own[par]).first \/ Linked(L, D, par),
         \A p \in S : Ent(R, p).size \in Nat,
         NEW M, M = Marked(L, c), NEW G, G = Chained(L, c, par)
  PROVE  \E own2, pos2 :
           /\ Sound(L, R, D, own2, pos2, S, gone, relied)
           /\ Sound(M, R, D, own2, pos2, S, gone, relied)
           /\ Sound(G, R, D, own2, pos2, S, gone, relied)
           /\ HandlesStay(L, M, D, own, pos, own2, pos2) /\ HandlesGrow(M, G, R, D, own2, pos2)
           /\ G[par] = c /\ Linked(G, D, c)
           /\ \A d \in Clusters \ D : L[d] = 0 \/ Linked(L, D, d) => G[d] = 0 \/ Linked(G, D, d)
<1>1. PICK own2, pos2 :
        /\ own2 = [d \in Clusters |-> IF d = c THEN own[par] ELSE own[d]]
        /\ pos2 = [d \in Clusters \cup D |-> IF d = c THEN pos[par] + 1 ELSE pos[d]]
  OBVIOUS
<1>2. par # c /\ EOC # 0
  BY LinkFacts
<1>3. ChainsOK(L, D, own, pos)
  BY DEF Sound, Layout
<1>4. pos[par] \in Nat
  BY <1>3, ChainAt
<1>5. /\ Reowned(D, c, own, pos, own2, pos2) /\ own2[c] = own[par] /\ pos2[c] = pos[par] + 1
      /\ own2[par] = own[par] /\ pos2[par] = pos[par]
  BY <1>1, <1>2, <1>4 DEF Reowned
<1>6. /\ Sound(L, R, D, own2, pos2, S, gone, relied) /\ Sound(M, R, D, own2, pos2, S, gone, relied)
      /\ ~Linked(L, D, c) /\ SameLinks(L, M, D) /\ HandlesStay(L, M, D, own, pos, own2, pos2)
      /\ M \in [Links -> Link] /\ M[c] = EOC /\ \A d \in Links : d # c => M[d] = L[d]
  BY <1>5, ClaimSound
<1>7. /\ ~Linked(M, D, c) /\ M[par] = EOC
      /\ par = Ent(R, own2[par]).first \/ Linked(M, D, par)
      /\ own2[c] = own2[par] /\ pos2[c] = pos2[par] + 1
  BY <1>2, <1>5, <1>6, LinkFacts DEF SameLinks
<1>8. G = Put(M, par, c)
  BY DEF Chained, Put
<1>9. /\ Sound(G, R, D, own2, pos2, S, gone, relied) /\ Joined(M, G, D, c)
      /\ HandlesGrow(M, G, R, D, own2, pos2)
      /\ G[par] = c /\ \A d \in Links : d # par => G[d] = M[d]
  BY <1>6, <1>7, <1>8, LinkSound
<1>10. Linked(G, D, c)
  BY <1>9 DEF Joined
<1>11. ASSUME NEW d \in Clusters \ D, L[d] = 0 \/ Linked(L, D, d)
       PROVE  G[d] = 0 \/ Linked(G, D, d)
  <2>1. CASE d = c
    BY <1>10, <2>1
  <2>2. CASE d # c /\ L[d] = 0
    BY <1>2, <1>6, <1>9, <2>2, LinkFacts
  <2>3. CASE Linked(L, D, d)
    BY <1>6, <1>9, <2>3 DEF SameLinks, Joined
  <2> QED BY <1>11, <2>1, <2>2, <2>3
<1> QED BY <1>6, <1>9, <1>10, <1>11
(* The program writes between two calls of the library.                    *)
LEMMA WroteStill ==
  ASSUME TypeInv, NEW D, NEW own, NEW pos, QuietAt(D, own, pos), Idle, mounted,
         card' = card, torn' = torn, crashes' = crashes, kept' = kept, kick' = kick, image' = image,
         call' = call, mounted' = mounted,
         NEW own2, NEW pos2, NEW vs, Trace(card, io'.todo, vs), NEW w, w = End(io'.todo, vs),
         \A i \in DOMAIN vs : Good(vs[i], D, own2, pos2, Nobody, torn, kept),
         NEW L2, L2 = LinksOf(w), NEW R2, R2 = PlainOf(w),
         Handles(L2, R2, D, own2, pos2, call, file'), Buffered(io', w),
         crashes = 0 => torn = {} /\ NoneLost(w, L2, R2, D, call, file)
  PROVE  \E own3, pos3, vs3 : Certified(D, own3, pos3, vs3)'
<1>1. Unmounted
  BY Parts
<1>2. /\ call.fn = "none" /\ Victim = Nobody /\ ~Holding(call) /\ image = <<>> /\ kick = "none"
      /\ call.step = "none"
  BY Calm
<1>3. /\ Searching(L2, R2, D, pos2, call') /\ Calling(L2, R2, D, own2, call', file', torn, kept')
      /\ VictimOf(call', file') = Nobody /\ VictimOf(call, file) = Nobody
      /\ Victim' = Nobody
  BY <1>2, CallOver DEF Victim
<1>4. crashes' = 0 => torn' = {} /\ NoneLost(w, L2, R2, D, call', file')
  BY <1>2, <1>3, NoneLostKept
<1>5. Loading' /\ Kicked' /\ Unmounted'
  BY <1>2 DEF Loading, Kicked, Unmounted
<1>6. \A i \in DOMAIN vs :
        Good(vs[i], D, own2, pos2, Victim', torn', kept') /\ Alike(vs[i], call', file')
  BY <1>2, <1>3 DEF Alike
<1>7. /\ Handles(L2, R2, D, own2, pos2, call', file')
      /\ Calling(L2, R2, D, own2, call', file', torn', kept')
  BY <1>3
<1> QED BY <1>3, <1>4, <1>5, <1>6, <1>7, WritingThen

LEMMA EntrySize ==
  ASSUME NEW v, Formatted(v), NEW p \in DirSlots(PlainOf(v))
  PROVE  Ent(PlainOf(v), p) \in Entry /\ Ent(PlainOf(v), p).size \in Nat
<1>1. p[1] \in DirSectors(PlainOf(v)) /\ p[2] \in 0..(DPS - 1) /\ p[1] \in Lba \ FatArea
  BY SlotTypes
<1>2. v[p[1]] \in DirContent /\ PlainOf(v)[p[1]] = v[p[1]]
  BY <1>1 DEF Formatted, DirSectors, PlainOf
<1>3. Ent(PlainOf(v), p) \in Entry
  BY <1>1, <1>2 DEF DirContent, Ent
<1>4. Ent(PlainOf(v), p).size \in 0..MaxSectors /\ MaxSectors \in Nat
  BY <1>3, VolumesAssumption DEF Entry
<1> QED BY <1>3, <1>4

LEMMA GrowStill ==
  ASSUME TypeInv, NEW D, NEW own, NEW pos, QuietAt(D, own, pos), NEW h \in Names,
         FileNextSector(h, TRUE), NEW ok \in BOOLEAN, NEW f, f = file[h],
         NEW r \in IoType, r.todo = <<>>, Crosses(f), LinksOf(card)[f.cluster] = EOC,
         NEW c, c = Allocated(None), c # 0, io' = AllocateCluster(r, f.cluster, None),
         NEW g, file' = Put(file, h, g), g.name = f.name, g.first = f.first, g.size = f.size,
         g.rest = f.rest, g.dirty = f.dirty, SlotOf(g) = SlotOf(f), g.sector = f.sector + 1, g.cluster = c,
         ~g.eof, f.cluster # 0, f.sector < f.size
  PROVE  \E own2, pos2, vs : Certified(D, own2, pos2, vs)'
<1>0. PICK L, R, par : L = LinksOf(card) /\ R = PlainOf(card) /\ par = f.cluster
  OBVIOUS
<1>1. /\ f.open /\ f.cluster # 0 /\ f.sector < f.size /\ Ready /\ Idle /\ mounted
      /\ card' = card /\ torn' = torn /\ crashes' = crashes /\ kept' = kept /\ kick' = kick
      /\ image' = image /\ call' = call /\ mounted' = mounted
  BY DEF FileNextSector, Ready, Idle, UnchangedRest
<1>2. /\ f \in FileType /\ f.name \in Names /\ HandleOK(L, R, D, own, pos, f) /\ ~f.eof
      /\ \A x \in Names : x # h /\ file[x].open => file[x].name # f.name
      /\ DirectoryOK(L, R, D, pos) /\ ChainsOK(L, D, own, pos)
      /\ Handles(L, R, D, own, pos, call, file) /\ call.fn # "delete"
  BY <1>0, <1>1, LiveStill DEF HandleOK
<1>3. /\ Formatted(card) /\ CardTyped /\ L \in [Links -> Link]
      /\ Sound(L, R, D, own, pos, Counting(R, Victim, torn), torn, kept)
      /\ crashes = 0 => torn = {} /\ NoneLost(card, L, R, D, call, file)
  BY <1>0, Parts DEF TypeInv
<1>4. Victim = Nobody /\ ~Holding(call) /\ VictimOf(call, file) = Nobody
  BY <1>1, Calm DEF Victim
<1>5. /\ par \in Clusters \ D /\ par \in Links /\ L[par] = EOC
      /\ par = Ent(R, own[par]).first \/ Linked(L, D, par)
  <2>1. par \in Clusters \ D /\ own[par] = SlotOf(f) /\ (par = f.first \/ Linked(L, D, par))
    BY <1>0, <1>1, <1>2, SectorPlace
  <2>2. Ent(R, SlotOf(f)).first = f.first
    BY <1>2 DEF HandleOK
  <2> QED BY <1>0, <2>1, <2>2, LinkFacts
<1>6. c \in Clusters \ D /\ L[c] = 0
  BY <1>0, <1>2, <1>3, AllocatedTyped, FreeIs
<1>7. \A p \in Counting(R, Nobody, torn) : Ent(R, p).size \in Nat
  BY <1>0, <1>3, EntrySize DEF Counting, FileSlots
<1>8. PICK M, G : M = Marked(L, c) /\ G = Chained(L, c, par)
  OBVIOUS
<1>9. PICK own2, pos2 :
           /\ Sound(L, R, D, own2, pos2, Counting(R, Nobody, torn), torn, kept)
           /\ Sound(M, R, D, own2, pos2, Counting(R, Nobody, torn), torn, kept)
           /\ Sound(G, R, D, own2, pos2, Counting(R, Nobody, torn), torn, kept)
           /\ HandlesStay(L, M, D, own, pos, own2, pos2) /\ HandlesGrow(M, G, R, D, own2, pos2)
           /\ G[par] = c /\ Linked(G, D, c)
           /\ \A d \in Clusters \ D : L[d] = 0 \/ Linked(L, D, d) => G[d] = 0 \/ Linked(G, D, d)
  <2>1. Sound(L, R, D, own, pos, Counting(R, Nobody, torn), torn, kept)
    BY <1>3, <1>4
  <2> QED BY <1>3, <1>5, <1>6, <1>7, <1>8, <2>1, GrowSound
<1>10. Grown(L, c, par) = G
  BY <1>5, <1>8, LinkFacts DEF Grown
<1>11. PICK vs : /\ Trace(card, io'.todo, vs)
                 /\ \A i \in DOMAIN vs :
                      /\ Formatted(vs[i]) /\ PlainOf(vs[i]) = PlainOf(card)
                      /\ LinksOf(vs[i]) \in {LinksOf(card), Marked(LinksOf(card), c),
                                             Grown(LinksOf(card), c, par)}
                 /\ LET w == End(io'.todo, vs) IN
                    /\ Formatted(w) /\ PlainOf(w) = PlainOf(card) /\ Buffered(io', w)
                    /\ LinksOf(w) = Grown(LinksOf(card), c, par)
                    /\ Mirrored(card) => Mirrored(w)
  <2>1. PICK n : n = io'
    OBVIOUS
  <2>2. n = AllocateCluster(r, par, None) /\ par \in Links
    BY <1>0, <1>5, <2>1
  <2>3. \E vs : /\ Trace(card, n.todo, vs)
                /\ \A i \in DOMAIN vs :
                     /\ Formatted(vs[i]) /\ PlainOf(vs[i]) = PlainOf(card)
                     /\ LinksOf(vs[i]) \in {LinksOf(card), Marked(LinksOf(card), c),
                                            Grown(LinksOf(card), c, par)}
                /\ LET w == End(n.todo, vs) IN
                   /\ Formatted(w) /\ PlainOf(w) = PlainOf(card) /\ Buffered(n, w)
                   /\ LinksOf(w) = Grown(LinksOf(card), c, par)
                   /\ Mirrored(card) => Mirrored(w)
    BY <1>3, <2>2, AllocateQuiet
  <2> QED BY <2>1, <2>3
<1>12. PICK w : w = End(io'.todo, vs)
  OBVIOUS
<1>13. /\ Formatted(w) /\ PlainOf(w) = R /\ Buffered(io', w) /\ LinksOf(w) = G
       /\ (Mirrored(card) => Mirrored(w))
       /\ \A i \in DOMAIN vs : Formatted(vs[i]) /\ PlainOf(vs[i]) = R /\ LinksOf(vs[i]) \in {L, M, G}
  BY <1>0, <1>8, <1>10, <1>11, <1>12
<1>14. \A i \in DOMAIN vs : Good(vs[i], D, own2, pos2, Nobody, torn, kept)
  BY <1>9, <1>13 DEF Good
<1>15. ASSUME NEW x \in FileType, HandleOK(L, R, D, own, pos, x)
       PROVE  HandleOK(G, R, D, own2, pos2, x)
  BY <1>9, <1>15 DEF HandlesStay, HandlesGrow
<1>16. Handles(G, R, D, own2, pos2, call, file)
  <2>1. \A x \in Names : file[x] \in FileType
    BY DEF TypeInv, FileTyped
  <2> QED BY <1>2, <1>15, <2>1 DEF Handles
<1>17. HandleOK(G, R, D, own2, pos2, g)
  <2>1. DirectoryOK(G, R, D, pos2) /\ ChainsOK(G, D, own2, pos2)
    BY <1>9 DEF Sound, Layout
  <2>2. HandleOK(G, R, D, own2, pos2, f)
    BY <1>2, <1>15
  <2>3. G[f.cluster] # EOC /\ g.cluster = G[f.cluster]
    BY <1>0, <1>6, <1>9, LinkFacts
  <2> QED BY <1>1, <1>2, <2>1, <2>2, <2>3, HandleStepped
<1>18. Handles(G, R, D, own2, pos2, call, file')
  <2>1. PICK F2 : F2 = file'
    OBVIOUS
  <2>2. \A x \in Names : F2[x] = IF x = h THEN g ELSE file[x]
    BY <2>1 DEF TypeInv, FileTyped, Put
  <2>3. g.open => /\ HandleOK(G, R, D, own2, pos2, g)
                  /\ \A x \in Names : x # h /\ file[x].open => file[x].name # g.name
    BY <1>2, <1>17
  <2>4. Handles(G, R, D, own2, pos2, call, F2)
    BY <1>2, <1>16, <2>2, <2>3, HandlesPut
  <2> QED BY <2>1, <2>4
<1>19. ASSUME crashes = 0
       PROVE  torn = {} /\ NoneLost(w, G, R, D, call, file)
  <2>1. torn = {} /\ NoneLost(card, L, R, D, call, file)
    BY <1>3, <1>19
  <2>2. ASSUME NEW d \in Clusters \ D
        PROVE  \/ G[d] = 0 \/ Linked(G, D, d) \/ (Holding(call) /\ d = call.cluster)
               \/ \E p \in FileSlots(R) : p # VictimOf(call, file) /\ Ent(R, p).first = d
    BY <1>4, <1>9, <2>1 DEF NoneLost
  <2>3. Mirrored(w)
    BY <1>13, <2>1 DEF NoneLost
  <2> QED BY <2>1, <2>2, <2>3 DEF NoneLost
<1>20. G = LinksOf(w) /\ R = PlainOf(w) /\ Buffered(io', w)
  BY <1>13
<1> QED BY <1>1, <1>11, <1>12, <1>14, <1>18, <1>19, <1>20, WroteStill

LEMMA NextAny ==
  ASSUME TypeInv, NEW D, NEW own, NEW pos, QuietAt(D, own, pos), NEW h \in Names,
         NEW append \in BOOLEAN, FileNextSector(h, append), faults' = 0
  PROVE  \E own2, pos2, vs : Certified(D, own2, pos2, vs)'
<1>1. PICK ok \in Oks, bad \in Bads :
        /\ StepFaults(file[h], ok, bad) /\ io' = NextIo(io, file[h], append, ok, bad)
        /\ file' = [file EXCEPT ![h] = Stepped(io, file[h], append, ok, bad)]
  BY DEF FileNextSector
<1>2. PICK f, g, c : f = file[h] /\ g = Stepped(io, f, append, ok, bad) /\ c = Allocated(bad)
  OBVIOUS
<1>3. CASE Crosses(f) /\ append /\ NextCluster(io, f.cluster, ok) = EOC => c = 0
  BY <1>1, <1>2, <1>3, NextStill
<1>4. CASE Crosses(f) /\ append /\ NextCluster(io, f.cluster, ok) = EOC /\ c # 0
  <2>2. /\ f.open /\ f.cluster # 0 /\ f.sector < f.size /\ Ready /\ Idle /\ io.todo = <<>>
        /\ bad = None /\ ~FetchFails(io, f.cluster, ok)
    <3>1. ok \in BOOLEAN
      BY DEF Oks
    <3>2. /\ file[h].open /\ ~Beyond(file[h]) /\ Ready /\ Idle /\ mounted /\ io.todo = <<>>
          /\ bad = None /\ ~(Crosses(file[h]) /\ FetchFails(io, file[h].cluster, ok))
      BY <1>1, <3>1, NextWithin
    <3> QED BY <1>2, <1>4, <3>2, WithinIs
  <2>1. /\ ok \in BOOLEAN /\ io \in IoType /\ CardTyped /\ Formatted(card)
        /\ Buffered(io, card)
    BY <2>2, Parts, Watched DEF Oks, TypeInv
  <2>3. /\ f \in FileType /\ HandleOK(LinksOf(card), PlainOf(card), D, own, pos, f) /\ ~f.eof
        /\ DirectoryOK(LinksOf(card), PlainOf(card), D, pos) /\ ChainsOK(LinksOf(card), D, own, pos)
    BY <1>2, <2>2, LiveStill DEF HandleOK
  <2>4. f.cluster \in Links
    BY <2>2, <2>3, SectorPlace, LinkFacts
  <2>5. PICK r : r = FetchFat(io, f.cluster, ok)
    OBVIOUS
  <2>6. r \in IoType /\ r.todo = <<>> /\ LinksOf(card)[f.cluster] = EOC
    BY <1>4, <2>1, <2>2, <2>4, <2>5, FetchQuiet
  <2>7. io' = AllocateCluster(r, f.cluster, None)
    <3>1. Crosses(f) /\ append /\ NextCluster(io, f.cluster, ok) = EOC
      BY <1>4
    <3>2. NextIo(io, f, append, ok, bad) = AllocateCluster(FetchFat(io, f.cluster, ok), f.cluster, bad)
      BY <3>1 DEF NextIo
    <3>3. io' = NextIo(io, f, append, ok, bad)
      BY <1>1, <1>2
    <3> QED BY <2>2, <2>5, <3>2, <3>3
  <2>8. /\ g.name = f.name /\ g.first = f.first /\ g.size = f.size /\ g.dirty = f.dirty /\ g.rest = f.rest
        /\ SlotOf(g) = SlotOf(f) /\ g.sector = f.sector + 1 /\ g.cluster = c /\ ~g.eof
    <3>1. PICK next : next = NextCluster(io, f.cluster, ok)
      OBVIOUS
    <3>2. /\ g.name = f.name /\ g.first = f.first /\ g.size = f.size /\ g.dirty = f.dirty /\ g.rest = f.rest
          /\ SlotOf(g) = SlotOf(f) /\ g.sector = f.sector + 1
          /\ Crosses(f) => g.cluster = IF next # EOC THEN next ELSE IF append THEN Allocated(bad) ELSE 0
          /\ g.eof => f.eof \/ g.cluster = 0
      BY <1>2, <2>1, <2>3, <3>1, SteppedIs
    <3> QED BY <1>2, <1>4, <2>3, <3>1, <3>2
  <2>9. file' = Put(file, h, g) /\ c = Allocated(None) /\ c # 0 /\ Crosses(f)
        /\ FileNextSector(h, TRUE)
    <3>1. append = TRUE
      BY <1>4
    <3> QED BY <1>1, <1>2, <1>4, <2>2, <3>1 DEF Put
  <2> QED BY <1>2, <2>1, <2>2, <2>6, <2>7, <2>8, <2>9, GrowStill
<1> QED BY <1>3, <1>4
-----------------------------------------------------------------------------
(* FileWriteSector: one sector of a file.                                  *)

SameSlots(R, R2) ==
  /\ DirSlots(R2) = DirSlots(R) /\ FileSlots(R2) = FileSlots(R)
  /\ \A q \in DirSlots(R) : Ent(R2, q) = Ent(R, q)
HandlesData(L, R, R2, D, own, pos) ==
  \A f : HandleOK(L, R, D, own, pos, f) => HandleOK(L, R2, D, own, pos, f)

LEMMA DataSound ==
  ASSUME NEW L, NEW R, NEW D, NEW own, NEW pos, NEW x, NEW gone, NEW relied,
         Sound(L, R, D, own, pos, Counting(R, x, gone), gone, relied),
         NEW c \in Clusters \ D, NEW i \in 0..(cluster_size - 1), NEW m, NEW k,
         k = cluster_size * pos[c] + i, NEW R2, DataStep(R, R2, ClusterLba(c) + i, m, k),
         Ent(R, own[c]).name = m
  PROVE  /\ Sound(L, R2, D, own, pos, Counting(R2, x, gone), gone, relied)
         /\ SameSlots(R, R2) /\ HandlesData(L, R, R2, D, own, pos)
<1>1. DirectoryOK(L, R, D, pos) /\ LongNamesOK(L, R, D) /\ ChainsOK(L, D, own, pos)
  BY DEF Sound, Layout
<1>2. PICK s, b : s = ClusterLba(c) + i /\ b = Token(m, k)
  OBVIOUS
<1>3. s \notin DirSectors(R) /\ b.kind # "dir"
  BY <1>1, <1>2, DirNotFile DEF Token
<1>4. /\ DirSectors(R2) = DirSectors(R) /\ SameSlots(R, R2)
  <2>1. \A t \in Lba \ FatArea : R2[t] = IF t = s THEN b ELSE R[t]
    BY <1>2 DEF DataStep
  <2> QED BY <1>3, <2>1, DataFrame DEF SameSlots
<1>5. DirectoryOK(L, R2, D, pos) /\ LongNamesOK(L, R2, D)
  BY <1>1, <1>4, SlotsFrame, NamesFrame DEF SameSlots
<1>6. ASSUME NEW q, NEW f, NEW size, NEW n, q = own[c] => n = m, FileOK(L, R, D, own, pos, q, f, size, n)
      PROVE  FileOK(L, R2, D, own, pos, q, f, size, n)
  <2>1. FilesData(L, R, R2, D, own, pos, own[c], m)
    BY DataPut
  <2> QED BY <1>6, <2>1 DEF FilesData
<1>7. Counting(R2, x, gone) = Counting(R, x, gone)
  BY <1>4 DEF Counting, SameSlots, FileSlots
<1>8. Sound(L, R2, D, own, pos, Counting(R2, x, gone), gone, relied)
  <2>1. \A p \in Counting(R, x, gone) : p \in DirSlots(R) /\ Ent(R2, p) = Ent(R, p)
    BY <1>4 DEF Counting, FileSlots, SameSlots
  <2>2. FilesOK(L, R2, D, own, pos, Counting(R, x, gone))
    <3>1. ASSUME NEW p \in Counting(R, x, gone)
          PROVE  FileOK(L, R2, D, own, pos, p, Ent(R, p).first, Ent(R, p).size, Ent(R, p).name)
      BY <1>6 DEF Sound, FilesOK
    <3> QED BY <2>1, <3>1 DEF FilesOK
  <2>3. NamesOK(R2, Counting(R, x, gone)) /\ KeptOK(R2, Counting(R, x, gone), gone, relied)
    BY <2>1 DEF Sound, NamesOK, KeptOK
  <2> QED BY <1>1, <1>5, <1>7, <2>2, <2>3 DEF Sound, Layout
<1>9. ASSUME NEW f, HandleOK(L, R, D, own, pos, f)
      PROVE  HandleOK(L, R2, D, own, pos, f)
  <2>1. /\ SlotOf(f) \in DirSlots(R) /\ Ent(R, SlotOf(f)).name = f.name
        /\ FileOK(L, R, D, own, pos, SlotOf(f), f.first, f.size, f.name)
    BY <1>9 DEF HandleOK
  <2>2. FileOK(L, R2, D, own, pos, SlotOf(f), f.first, f.size, f.name)
    BY <1>6, <2>1
  <2>3. DirSlots(R2) = DirSlots(R) /\ \A q \in DirSlots(R) : Ent(R2, q) = Ent(R, q)
    BY <1>4 DEF SameSlots
  <2> QED BY <1>9, <2>1, <2>2, <2>3 DEF HandleOK
<1> QED BY <1>4, <1>8, <1>9 DEF HandlesData

LEMMA WriteSectorStill ==
  ASSUME TypeInv, NEW D, NEW own, NEW pos, QuietAt(D, own, pos), NEW h \in Names, FileWriteSector(h),
         faults' = 0
  PROVE  \E own2, pos2, vs : Certified(D, own2, pos2, vs)'
<1>0. PICK L, R, f, c, i : /\ L = LinksOf(card) /\ R = PlainOf(card) /\ f = file[h]
                           /\ c = f.cluster /\ i = f.sector % cluster_size
  OBVIOUS
<1>1. /\ f.open /\ f.cluster # 0 /\ Ready /\ Idle /\ mounted
      /\ card' = card /\ torn' = torn /\ crashes' = crashes /\ kept' = kept /\ kick' = kick
      /\ image' = image /\ call' = call /\ mounted' = mounted
  <2>1. faults \in Nat
    BY DEF TypeInv, RestTyped
  <2>2. ~Astray(f)
    BY <1>0, <2>1, CountTyped DEF FileWriteSector
  <2> QED BY <1>0, <2>2 DEF Astray, FileWriteSector, Ready, Idle, UnchangedRest
<1>2. /\ f \in FileType /\ f.name \in Names /\ HandleOK(L, R, D, own, pos, f) /\ ~f.eof
      /\ \A x \in Names : x # h /\ file[x].open => file[x].name # f.name
      /\ DirectoryOK(L, R, D, pos) /\ ChainsOK(L, D, own, pos)
      /\ Handles(L, R, D, own, pos, call, file) /\ call.fn # "delete"
  BY <1>0, <1>1, LiveStill DEF HandleOK
<1>3. /\ Formatted(card) /\ CardTyped /\ L \in [Links -> Link] /\ io \in IoType
      /\ Sound(L, R, D, own, pos, Counting(R, Victim, torn), torn, kept)
      /\ crashes = 0 => torn = {} /\ NoneLost(card, L, R, D, call, file)
  BY <1>0, Parts DEF TypeInv
<1>4. Victim = Nobody /\ ~Holding(call) /\ VictimOf(call, file) = Nobody
  BY <1>1, Calm DEF Victim
<1>5. PICK s, b : s = SectorLba(f) /\ b = Token(f.name, f.sector)
  OBVIOUS
<1>6. /\ c \in Clusters \ D /\ own[c] = SlotOf(f) /\ (c = f.first \/ Linked(L, D, c)) /\ f.first # 0
      /\ i \in 0..(cluster_size - 1) /\ s = ClusterLba(c) + i
      /\ s \in Lba \ FatArea /\ s \notin FatSectors
      /\ f.sector = cluster_size * pos[c] + i
  BY <1>0, <1>1, <1>2, <1>5, SectorPlace
<1>7. Plain(b) /\ b.kind = "data"
  BY <1>5 DEF Plain, Token
<1>8. PICK w : w = Put(card, s, b)
  OBVIOUS
<1>9. PICK R2 : R2 = PlainOf(w)
  OBVIOUS
<1>10. /\ Formatted(w) /\ LinksOf(w) = L /\ (Mirrored(card) => Mirrored(w))
       /\ DataStep(R, R2, s, f.name, f.sector)
  <2>1. PlainStep(card, w, s, b)
    BY <1>3, <1>6, <1>7, <1>8, PlainPut
  <2> QED BY <1>0, <1>5, <1>9, <2>1 DEF PlainStep, DataStep
<1>11. io'.cached = s /\ io'.todo = <<[lba |-> s, b |-> b, left |-> 0]>>
  BY <1>0, <1>3, <1>5 DEF FileWriteSector, IoType
<1>12. PICK vs : /\ Trace(card, io'.todo, vs) /\ End(io'.todo, vs) = w
                 /\ \A j \in DOMAIN vs : vs[j] \in {card, w}
  <2>1. w = [card EXCEPT ![s] = b] /\ s \in Lba
    BY <1>6, <1>8 DEF Put
  <2> QED BY <1>11, <2>1, WriteTrace
<1>13. Buffered(io', w)
  BY <1>6, <1>11 DEF Buffered
<1>14. /\ Sound(L, R2, D, own, pos, Counting(R2, Nobody, torn), torn, kept)
       /\ SameSlots(R, R2) /\ HandlesData(L, R, R2, D, own, pos)
  <2>1. Sound(L, R, D, own, pos, Counting(R, Nobody, torn), torn, kept)
    BY <1>3, <1>4
  <2>2. Ent(R, own[c]).name = f.name
    BY <1>2, <1>6 DEF HandleOK
  <2>3. DataStep(R, R2, ClusterLba(c) + i, f.name, f.sector)
    BY <1>6, <1>10
  <2> QED BY <1>6, <2>1, <2>2, <2>3, DataSound
<1>15. \A j \in DOMAIN vs : Good(vs[j], D, own, pos, Nobody, torn, kept)
  <2>1. Good(card, D, own, pos, Nobody, torn, kept)
    BY <1>0, <1>3, <1>4 DEF Good
  <2>2. Good(w, D, own, pos, Nobody, torn, kept)
    BY <1>9, <1>10, <1>14 DEF Good
  <2> QED BY <1>12, <2>1, <2>2
<1>16. Handles(L, R2, D, own, pos, call, file)
  BY <1>2, <1>14 DEF Handles, HandlesData
<1>17. Handles(L, R2, D, own, pos, call, file')
  <2>1. CASE f.sector + 1 > Whole(f)
    <3>1. PICK g, F2 : g = Lengthened(f) /\ F2 = file'
      OBVIOUS
    <3>2. \A x \in Names : F2[x] = IF x = h THEN g ELSE file[x]
      BY <1>0, <2>1, <3>1 DEF FileWriteSector, TypeInv, FileTyped
    <3>3. f.size \in 0..MaxSectors /\ f.sector \in Nat
      BY <1>2 DEF FileType
    <3>4. f.size \in Nat /\ f.sector <= f.size
      BY <1>2, <3>3, VolumesAssumption DEF HandleOK
    <3>5. HandleOK(L, R2, D, own, pos, f)
      BY <1>2, <1>14 DEF HandlesData
    <3>6. HandleOK(L, R2, D, own, pos, g) /\ g.open = f.open /\ g.name = f.name
      <4>1. g.open = f.open /\ g.name = f.name
        BY <1>2, <3>1 DEF Lengthened, FileType
      <4>2. CASE f.sector < f.size
        <5>1. /\ g.open = f.open /\ g.name = f.name /\ g.first = f.first /\ g.size = f.size /\ g.dirty
              /\ g.cluster = f.cluster /\ g.sector = f.sector /\ g.eof = f.eof /\ SlotOf(g) = SlotOf(f)
          BY <1>2, <3>1, <4>2 DEF Lengthened, FileType, SlotOf
        <5>2. g.size # 0
          BY <3>3, <3>4, <4>2, <5>1
        <5> QED BY <3>5, <5>1, <5>2 DEF HandleOK
      <4>3. CASE ~(f.sector < f.size)
        <5>1. f.sector = f.size
          BY <3>3, <3>4, <4>3
        <5>2. /\ g.open = f.open /\ g.name = f.name /\ g.first = f.first /\ g.size = f.size + 1 /\ g.dirty
              /\ g.cluster = f.cluster /\ g.sector = f.sector /\ g.eof = f.eof /\ SlotOf(g) = SlotOf(f)
          BY <1>2, <3>1, <4>3 DEF Lengthened, FileType, SlotOf
        <5>3. FileOK(L, R2, D, own, pos, SlotOf(f), f.first, f.size + 1, f.name)
          <6>1. FileOK(L, R2, D, own, pos, SlotOf(f), f.first, f.size, f.name)
            BY <3>5 DEF HandleOK
          <6>2. R2[ClusterLba(c) + i] = Token(f.name, f.size)
            BY <1>6, <1>10, <5>1 DEF DataStep
          <6>3. f.size = cluster_size * pos[c] + i
            BY <1>6, <5>1
          <6> QED BY <1>2, <1>3, <1>6, <3>4, <6>1, <6>2, <6>3, DataGrown
        <5>4. Ent(R2, SlotOf(f)).size \in Nat
          <6>1. SlotOf(f) \in DirSlots(R2)
            BY <3>5 DEF HandleOK
          <6> QED BY <1>9, <1>10, <6>1, EntrySize
        <5>5. Ent(R2, SlotOf(f)).size <= f.size + 1 /\ f.size + 1 # 0 /\ f.sector <= f.size + 1
          BY <3>4, <3>5, <5>1, <5>4 DEF HandleOK
        <5> QED BY <3>5, <5>2, <5>3, <5>5 DEF HandleOK
      <4> QED BY <4>1, <4>2, <4>3
    <3>7. Handles(L, R2, D, own, pos, call, F2)
      <4>1. g.open => /\ HandleOK(L, R2, D, own, pos, g)
                      /\ \A x \in Names : x # h /\ file[x].open => file[x].name # g.name
        BY <1>2, <3>6
      <4> QED BY <1>2, <1>16, <3>2, <4>1, HandlesPut
    <3> QED BY <3>1, <3>7
  <2>2. CASE ~(f.sector + 1 > Whole(f))
    <3>1. file' = file
      BY <1>0, <2>2 DEF FileWriteSector
    <3> QED BY <1>16, <3>1
  <2> QED BY <2>1, <2>2
<1>18. crashes = 0 => torn = {} /\ NoneLost(w, L, R2, D, call, file)
  <2>1. \A p \in FileSlots(R) : Ent(R2, p) = Ent(R, p)
    BY <1>14 DEF SameSlots, FileSlots
  <2> QED BY <1>3, <1>10, <1>14, <2>1 DEF NoneLost, SameSlots
<1>19. L = LinksOf(w) /\ w = End(io'.todo, vs)
  BY <1>10, <1>12
<1> QED BY <1>1, <1>9, <1>12, <1>13, <1>15, <1>17, <1>18, <1>19, WroteStill
-----------------------------------------------------------------------------
(* LoadFileAbs.                                                            *)

(* What a file that is open holds where the program is.                    *)
LEMMA SectorHolds ==
  ASSUME NEW L, NEW R, NEW D, NEW own, NEW pos, DirectoryOK(L, R, D, pos), ChainsOK(L, D, own, pos),
         NEW f \in FileType, HandleOK(L, R, D, own, pos, f), ~f.eof, f.cluster # 0, f.sector < f.size
  PROVE  /\ R[SectorLba(f)] = Token(f.name, f.sector)
         /\ Crosses(f) /\ f.sector + 1 < f.size => IsLink(L[f.cluster])
<1>1. PICK c, i : c = f.cluster /\ i = f.sector % cluster_size
  OBVIOUS
<1>2. /\ c \in Clusters \ D /\ own[c] = SlotOf(f) /\ (c = f.first \/ Linked(L, D, c))
      /\ i \in 0..(cluster_size - 1) /\ SectorLba(f) = ClusterLba(c) + i
      /\ f.sector = cluster_size * pos[c] + i
  BY <1>1, SectorPlace
<1>3. FileOK(L, R, D, own, pos, SlotOf(f), f.first, f.size, f.name)
  BY DEF HandleOK
<1>4. /\ cluster_size * (pos[c] + 1) < f.size => IsLink(L[c])
      /\ \A j \in 0..(cluster_size - 1) : cluster_size * pos[c] + j < f.size =>
           R[ClusterLba(c) + j] = Token(f.name, cluster_size * pos[c] + j)
  BY <1>2, <1>3, FileCluster
<1>5. ASSUME Crosses(f)
      PROVE  cluster_size * (pos[c] + 1) = f.sector + 1
  <2>1. f.sector \in Nat
    BY DEF FileType
  <2>2. pos[c] \in Nat
    BY <1>2, ChainAt
  <2>3. pos[c] = f.sector \div cluster_size
    BY <1>1, <1>2 DEF HandleOK
  <2>4. (f.sector + 1) \div cluster_size = pos[c] + 1
    BY <1>5, <2>1, <2>3, Step DEF Crosses
  <2>5. f.sector + 1 = cluster_size * ((f.sector + 1) \div cluster_size) + ((f.sector + 1) % cluster_size)
    <3>1. f.sector + 1 \in Nat
      BY <2>1
    <3> QED BY <3>1, Division
  <2>6. \A x \in Nat : cluster_size * x \in Nat
    BY ConstantTypes
  <2>7. pos[c] + 1 \in Nat
    BY <2>2
  <2> QED BY <1>5, <2>4, <2>5, <2>6, <2>7 DEF Crosses
<1> QED BY <1>1, <1>2, <1>4, <1>5

LEMMA ReachIs ==
  ASSUME NEW f \in FileType
  PROVE  /\ Reach(f) \in Nat /\ f.size \in Nat /\ f.size <= Reach(f) /\ Reach(f) <= f.size + 1
         /\ Reach(f) > f.size => f.rest = "past"
<1>1. f.size \in 0..MaxSectors
  BY DEF FileType
<1>2. f.size \in Nat
  BY <1>1, VolumesAssumption
<1> QED BY <1>2 DEF Reach

(* What holds while a sector is loaded.                                    *)
LEMMA LoadHas ==
  ASSUME TypeInv, NEW D, NEW own, NEW pos, QuietAt(D, own, pos), LoadSector,
         NEW L, L = LinksOf(card), NEW R, R = PlainOf(card), NEW f, f = file[call.h]
  PROVE  /\ call.fn = "load" /\ call.step = "read" /\ call.h \in Names /\ call.name \in Names
         /\ kick = "none" /\ mounted /\ Victim = Nobody /\ VictimOf(call, file) = Nobody /\ ~Holding(call)
         /\ f \in FileType /\ HandleOK(L, R, D, own, pos, f)
         /\ \A h \in Names : file[h].open => h = call.h
         /\ f.open /\ f.name = call.name /\ ~f.dirty /\ call.name \notin torn
         /\ image \in Seq(Content) /\ Len(image) \in Nat /\ f.size \in Nat
         /\ Len(image) <= Reach(f)
         /\ \A k \in 1..Len(image) : k <= f.size => image[k] = Token(call.name, k - 1)
         /\ Len(image) < f.size => f.sector = Len(image) /\ ~f.eof /\ f.cluster # 0
<1>1. /\ Handles(L, R, D, own, pos, call, file) /\ Calling(L, R, D, own, call, file, torn, kept)
      /\ Loading /\ Kicked /\ Unmounted
  BY Parts
<1>2. call.fn # "none" /\ call.step = "read"
  BY DEF LoadSector, Running
<1>3. call.fn = "load" /\ kick = "none" /\ mounted
  BY <1>1, <1>2 DEF Calling, Steps, Kicked, Unmounted, NoCall
<1>4. Victim = Nobody /\ VictimOf(call, file) = Nobody /\ ~Holding(call)
  BY <1>3 DEF Victim, VictimOf, Holding
<1>5. /\ call.h \in Names /\ call.name \in Names /\ image \in Seq(Content) /\ Len(image) \in Nat
      /\ f \in FileType
  BY <1>2 DEF TypeInv, CallTyped, FileTyped, RestTyped
<1>6. f.size \in Nat
  <2>1. f.size \in 0..MaxSectors
    BY <1>5 DEF FileType
  <2> QED BY <2>1, VolumesAssumption
<1>7. /\ \A h \in Names : file[h].open => h = call.h
      /\ f.open /\ f.name = call.name /\ ~f.dirty /\ call.name \notin torn
      /\ Len(image) <= Reach(f)
      /\ \A k \in 1..Len(image) : k <= f.size => image[k] = Token(call.name, k - 1)
      /\ Len(image) < f.size => f.sector = Len(image) /\ ~f.eof /\ f.cluster # 0
  BY <1>1, <1>2, <1>3 DEF Loading, Reach
<1>8. HandleOK(L, R, D, own, pos, f)
  BY <1>1, <1>3, <1>5, <1>7 DEF Handles
<1> QED BY <1>2, <1>3, <1>4, <1>5, <1>6, <1>7, <1>8

LEMMA NotNobody ==
  ASSUME NEW R, NEW p \in DirSlots(R)
  PROVE  p # Nobody /\ p[1] \in Lba \ FatArea /\ R[p[1]].kind = "dir" /\ p[2] \in 0..(DPS - 1)
<1>1. -1 \notin Lba
  BY Areas
<1>2. p[1] \in Lba \ FatArea /\ R[p[1]].kind = "dir" /\ p[2] \in 0..(DPS - 1)
  BY DEF DirSlots, DirSectors
<1> QED BY <1>1, <1>2 DEF Nobody

LEMMA SlotsHere ==
  ASSUME Formatted(card), NEW R, R = PlainOf(card)
  PROVE  Slot = DirSlots(R) /\ \A p \in Slot : EntryAt(p) = Ent(R, p)
<1>1. \A s \in Lba \ FatArea : R[s] = card[s]
  BY DEF PlainOf
<1>2. \A s \in Lba : card[s].kind = "dir" => s \notin FatArea
  BY FatTyped
<1>3. {s \in Lba : card[s].kind = "dir"} = DirSectors(R)
  BY <1>1, <1>2 DEF DirSectors
<1>4. Slot = DirSlots(R)
  BY <1>3 DEF Slot, DirSlots
<1>5. \A p \in Slot : EntryAt(p) = Ent(R, p)
  BY <1>1, <1>4, NotNobody DEF EntryAt, Ent
<1> QED BY <1>4, <1>5

(* Where FileSize claims a sector that is not counted, the entry says so.  *)
LEMMA ClaimsHere ==
  ASSUME Formatted(card), NEW L, NEW R, R = PlainOf(card), NEW D, NEW own, NEW pos,
         NEW f, HandleOK(L, R, D, own, pos, f), f.name \in Names \ torn', ~f.dirty, f.rest = "past",
         card' = card, call'.fn = "none"
  PROVE  Claimed(f.name)'
<1>1. PICK p : p = SlotOf(f)
  OBVIOUS
<1>2. p \in Slot /\ EntryAt(p) = Ent(R, p)
  BY <1>1, SlotsHere DEF HandleOK
<1>3. /\ Ent(R, p).name = f.name /\ Ent(R, p).attr \in {"normal", "archive"} /\ Ent(R, p).rest = "past"
  BY <1>1 DEF HandleOK
<1>4. Slot' = Slot /\ EntryAt(p)' = EntryAt(p)
  BY DEF Slot, EntryAt
<1>5. f.name \notin Free
  BY VolumesAssumption
<1>6. Live(p)'
  BY <1>2, <1>3, <1>4, <1>5 DEF Live
<1>7. p \in LiveEntries'
  BY <1>2, <1>4, <1>6 DEF LiveEntries
<1> QED BY <1>2, <1>3, <1>4, <1>7 DEF Claimed

LEMMA LoadedStill ==
  ASSUME TypeInv, NEW D, NEW own, NEW pos, QuietAt(D, own, pos), LoadSector,
         Len(image) >= Reach(file[call.h]), Loaded(TRUE), UNCHANGED <<io, image, faults>>
  PROVE  \E own2, pos2, vs : Certified(D, own2, pos2, vs)'
<1>0. PICK L, R, f : L = LinksOf(card) /\ R = PlainOf(card) /\ f = file[call.h]
  OBVIOUS
<1>1. /\ Formatted(card) /\ Sound(L, R, D, own, pos, Counting(R, Victim, torn), torn, kept)
      /\ crashes = 0 => torn = {} /\ NoneLost(card, L, R, D, call, file)
  BY <1>0, Parts
<1>2. /\ call.h \in Names /\ call.name \in Names /\ f \in FileType
      /\ mounted /\ Victim = Nobody /\ VictimOf(call, file) = Nobody /\ ~Holding(call)
      /\ HandleOK(L, R, D, own, pos, f) /\ \A h \in Names : file[h].open => h = call.h
      /\ f.name = call.name /\ ~f.dirty /\ call.name \notin torn
      /\ Len(image) \in Nat /\ f.size \in Nat /\ Len(image) <= Reach(f)
      /\ \A k \in 1..Len(image) : k <= f.size => image[k] = Token(call.name, k - 1)
  BY <1>0, LoadHas
<1>3. /\ io.todo = <<>> /\ io' = io /\ image' = image /\ kick' = "softkick"
      /\ card' = card /\ torn' = torn /\ crashes' = crashes /\ kept' = kept /\ mounted' = mounted
  BY DEF LoadSector, Running, Loaded, UnchangedRest
<1>4. PICK k, F : k = call' /\ F = file'
  OBVIOUS
<1>5. /\ k.fn = "none" /\ k.step = "none" /\ k.name = call.name
      /\ \A h \in Names : ~F[h].open
  <2>1. k.fn = "none" /\ k.step = "none" /\ k.name = call.name
    BY <1>4 DEF Loaded, NoCall
  <2>2. \A h \in Names : ~F[h].open
    BY <1>2, <1>4 DEF Loaded, TypeInv, FileTyped, NoFile
  <2> QED BY <2>1, <2>2
<1>6. /\ Searching(L, R, D, pos, k) /\ Calling(L, R, D, own, k, F, torn, kept)
      /\ VictimOf(k, F) = Nobody /\ Alike(card, k, F)
  BY <1>5, CallOver
<1>7. Handles(L, R, D, own, pos, k, F)
  BY <1>5 DEF Handles
<1>8. crashes = 0 => torn = {} /\ NoneLost(card, L, R, D, k, F)
  BY <1>1, <1>2, <1>6, NoneLostKept
<1>9. f.size >= kept[call.name]
  <2>1. kept[call.name] \in -1..MaxSectors
    BY <1>2 DEF TypeInv, RestTyped
  <2>2. CASE kept[call.name] = -1
    BY <1>2, <2>2
  <2>3. CASE kept[call.name] # -1
    <3>1. PICK p \in Counting(R, Victim, torn) :
            Ent(R, p).name = call.name /\ Ent(R, p).size >= kept[call.name]
      BY <1>1, <1>2, <2>3 DEF Sound, KeptOK
    <3>2. SlotOf(f) \in FileSlots(R) /\ SlotOf(f) # Nobody /\ Ent(R, SlotOf(f)).name = f.name
      BY <1>2, SlotIs
    <3>3. SlotOf(f) \in Counting(R, Victim, torn)
      BY <1>2, <3>2 DEF Counting
    <3>4. p = SlotOf(f)
      BY <1>1, <1>2, <3>1, <3>2, <3>3 DEF Sound, NamesOK
    <3>5. Ent(R, SlotOf(f)).size = f.size
      BY <1>2 DEF HandleOK
    <3> QED BY <3>1, <3>4, <3>5
  <2> QED BY <2>2, <2>3
<1>14. /\ Len(image) = Reach(f) /\ f.size <= Reach(f) /\ Reach(f) <= f.size + 1 /\ Reach(f) \in Nat
       /\ Reach(f) > f.size => f.rest = "past"
  BY <1>0, <1>2, ReachIs
<1>15. ASSUME Len(image) > f.size PROVE Claimed(call.name)'
  <2>1. call'.fn = "none" /\ call'.name = f.name
    BY <1>2, <1>4, <1>5
  <2>2. f.rest = "past" /\ f.name \in Names \ torn'
    BY <1>2, <1>3, <1>14, <1>15
  <2>3. Claimed(f.name)'
    BY <1>0, <1>1, <1>2, <1>3, <2>1, <2>2, ClaimsHere
  <2> QED BY <2>1, <2>3 DEF Claimed
<1>10. RomTrue'
  <2>1. kept[call.name] \in Int
    BY <1>2 DEF TypeInv, RestTyped
  <2>2. Len(image) >= kept[call.name]
    BY <1>2, <1>9, <1>14, <2>1
  <2>3. \A j \in 1..Len(image) :
          \/ image[j] = Token(call.name, j - 1)
          \/ j = Len(image) /\ j > kept[call.name] /\ Claimed(call.name)'
    <3> SUFFICES ASSUME NEW j \in 1..Len(image), ~(j <= f.size)
                 PROVE  j = Len(image) /\ j > kept[call.name] /\ Claimed(call.name)'
      BY <1>2
    <3>1. j = Len(image) /\ Len(image) > f.size
      BY <1>2, <1>14
    <3> QED BY <1>2, <1>9, <1>15, <2>1, <3>1
  <2> QED BY <1>3, <1>4, <1>5, <2>2, <2>3 DEF RomTrue
<1>11. Loading' /\ Kicked' /\ Unmounted'
  BY <1>2, <1>3, <1>4, <1>5, <1>10 DEF Loading, Kicked, Unmounted
<1>12. Victim' = Nobody
  BY <1>4, <1>6 DEF Victim
<1>13. /\ Sound(L, R, D, own, pos, Counting(R, Victim', torn), torn, kept')
       /\ Alike(card, call', file') /\ Handles(L, R, D, own, pos, call', file')
       /\ Searching(L, R, D, pos, call') /\ Calling(L, R, D, own, call', file', torn, kept')
       /\ crashes = 0 => torn = {} /\ NoneLost(card, L, R, D, call', file')
  BY <1>1, <1>2, <1>3, <1>4, <1>6, <1>7, <1>8, <1>12
<1>16. ~Watching'
  BY <1>3 DEF Watching
<1> QED BY <1>0, <1>1, <1>3, <1>11, <1>13, <1>16, StillThen

Advanced(f, g, next) ==
  /\ g.name = f.name /\ g.first = f.first /\ g.size = f.size /\ g.dirty = f.dirty /\ g.rest = f.rest
  /\ g.open = f.open /\ SlotOf(g) = SlotOf(f) /\ g.sector = f.sector + 1
  /\ ~Crosses(f) => g.cluster = f.cluster
  /\ Crosses(f) => g.cluster = IF next # EOC THEN next ELSE 0
  /\ g.eof => f.eof \/ g.cluster = 0

LEMMA SteppedOn ==
  ASSUME NEW f \in FileType, NEW m, NEW ok \in BOOLEAN, NEW next, next = NextCluster(m, f.cluster, ok),
         NEW g, g = Stepped(m, f, FALSE, ok, None)
  PROVE  Advanced(f, g, next)
BY DEF Stepped, FileType, SlotOf, Advanced

More(f) == Len(image) + 1 < Reach(f)

LEMMA SectorLoadedStill ==
  ASSUME TypeInv, NEW D, NEW own, NEW pos, QuietAt(D, own, pos), LoadSector,
         NEW f, f = file[call.h], Len(image) < f.size,
         NEW m \in IoType, m.todo = io.todo, m.cached = SectorLba(f),
         image' = Append(image, OnCard(SectorLba(f))), NEW ok \in BOOLEAN,
         More(f) /\ Crosses(f) => ~FetchFails(m, f.cluster, ok),
         io' = IF More(f) THEN NextIo(m, f, FALSE, ok, None) ELSE m,
         NEW g, g = Stepped(m, f, FALSE, ok, None),
         file' = IF More(f) THEN Put(file, call.h, g) ELSE file,
         UNCHANGED <<call, kick>>
  PROVE  \E own2, pos2, vs : Certified(D, own2, pos2, vs)'
<1>0. PICK L, R, c : L = LinksOf(card) /\ R = PlainOf(card) /\ c = f.cluster
  OBVIOUS
<1>1. /\ Formatted(card) /\ Sound(L, R, D, own, pos, Counting(R, Victim, torn), torn, kept)
      /\ DirectoryOK(L, R, D, pos) /\ ChainsOK(L, D, own, pos) /\ Unmounted /\ Alike(card, call, file)
      /\ Handles(L, R, D, own, pos, call, file) /\ Searching(L, R, D, pos, call)
      /\ Calling(L, R, D, own, call, file, torn, kept)
      /\ crashes = 0 => torn = {} /\ NoneLost(card, L, R, D, call, file)
  BY <1>0, Parts
<1>2. /\ call.fn = "load" /\ call.step = "read" /\ call.h \in Names /\ call.name \in Names
      /\ kick = "none" /\ mounted /\ Victim = Nobody /\ VictimOf(call, file) = Nobody /\ ~Holding(call)
      /\ f \in FileType /\ HandleOK(L, R, D, own, pos, f)
      /\ \A h \in Names : file[h].open => h = call.h
  BY <1>0, LoadHas
<1>3. /\ f.open /\ f.name = call.name /\ ~f.dirty /\ call.name \notin torn
      /\ image \in Seq(Content) /\ Len(image) \in Nat
      /\ \A k \in 1..Len(image) : image[k] = Token(call.name, k - 1)
      /\ f.sector = Len(image) /\ ~f.eof /\ f.cluster # 0
      /\ Reach(f) \in Nat /\ f.size \in Nat /\ f.size <= Reach(f)
  <2>1. Reach(f) \in Nat /\ f.size \in Nat /\ f.size <= Reach(f)
    BY <1>2, ReachIs
  <2>2. /\ f.open /\ f.name = call.name /\ ~f.dirty /\ call.name \notin torn
        /\ image \in Seq(Content) /\ Len(image) \in Nat
        /\ \A k \in 1..Len(image) : k <= f.size => image[k] = Token(call.name, k - 1)
        /\ f.sector = Len(image) /\ ~f.eof /\ f.cluster # 0
    BY <1>0, LoadHas
  <2>3. \A k \in 1..Len(image) : k <= f.size
    BY <2>1, <2>2
  <2> QED BY <2>1, <2>2, <2>3
<1>4. /\ io.todo = <<>> /\ io \in IoType /\ CardTyped
      /\ card' = card /\ torn' = torn /\ crashes' = crashes /\ kept' = kept /\ mounted' = mounted
      /\ kick' = kick
  BY DEF LoadSector, Running, UnchangedRest, TypeInv
<1>5. PICK s : s = SectorLba(f)
  OBVIOUS
<1>6. /\ c \in Clusters \ D /\ c \in Links /\ s \in Lba \ FatArea /\ s \notin FatSectors
  BY <1>0, <1>1, <1>2, <1>3, <1>5, SectorPlace, LinkFacts
<1>7. /\ R[s] = Token(call.name, Len(image))
      /\ Crosses(f) /\ Len(image) + 1 < f.size => IsLink(L[c])
  BY <1>0, <1>1, <1>2, <1>3, <1>5, SectorHolds
<1>8. OnCard(s) = Token(call.name, Len(image)) /\ OnCard(s) \in Content
  <2>1. OnCard(s) = R[s]
    BY <1>0, <1>6 DEF OnCard, PlainOf
  <2> QED BY <1>4, <1>7, <2>1, OnCardTyped
<1>9. /\ m \in IoType /\ m.todo = <<>> /\ Buffered(m, card)
  BY <1>4, <1>5, <1>6 DEF Buffered
<1>10. ASSUME More(f), Crosses(f)
       PROVE  /\ io' = FetchFat(m, c, ok) /\ io'.todo = <<>> /\ Buffered(io', card)
              /\ NextCluster(m, c, ok) = L[c]
  <2>1. PICK r : r = FetchFat(m, c, ok)
    OBVIOUS
  <2>2. r \in IoType /\ r.todo = <<>> /\ Buffered(r, card) /\ NextCluster(m, c, ok) = L[c]
    <3>1. ~FetchFails(m, c, ok)
      BY <1>0, <1>10
    <3> QED BY <1>0, <1>1, <1>4, <1>6, <1>9, <2>1, <3>1, FetchQuiet
  <2>3. NextIo(m, f, FALSE, ok, None) = r
    BY <1>0, <1>10, <2>1 DEF NextIo
  <2> QED BY <1>10, <2>1, <2>2, <2>3
<1>11. io'.todo = <<>> /\ Buffered(io', card)
  <2>1. CASE More(f) /\ Crosses(f)
    BY <1>10, <2>1
  <2>2. CASE ~(More(f) /\ Crosses(f))
    BY <1>9, <2>2 DEF NextIo
  <2> QED BY <2>1, <2>2
<1>12. ASSUME More(f)
       PROVE  /\ g.name = f.name /\ g.first = f.first /\ g.size = f.size /\ g.dirty = f.dirty /\ g.rest = f.rest
              /\ g.open = f.open /\ SlotOf(g) = SlotOf(f) /\ g.sector = f.sector + 1
              /\ g.eof => g.cluster = 0
              /\ g.cluster # 0 => IF Crosses(f) THEN L[c] # EOC /\ g.cluster = L[c] ELSE g.cluster = c
              /\ Len(image) + 1 < f.size => ~g.eof /\ g.cluster # 0
  <2>1. PICK next : next = NextCluster(m, f.cluster, ok)
    OBVIOUS
  <2>2. Crosses(f) => next = L[c]
    BY <1>0, <1>10, <1>12, <2>1
  <2>3. /\ g.name = f.name /\ g.first = f.first /\ g.size = f.size /\ g.dirty = f.dirty /\ g.rest = f.rest
        /\ g.open = f.open /\ SlotOf(g) = SlotOf(f) /\ g.sector = f.sector + 1
        /\ ~Crosses(f) => g.cluster = f.cluster
        /\ Crosses(f) => g.cluster = IF next # EOC THEN next ELSE 0
        /\ g.eof => f.eof \/ g.cluster = 0
    <3>1. Advanced(f, g, next)
      BY <1>2, <2>1, SteppedOn
    <3> QED BY <3>1 DEF Advanced
  <2>4. Crosses(f) /\ Len(image) + 1 < f.size => L[c] # EOC /\ L[c] # 0
    BY <1>7, LinkFacts
  <2> QED BY <1>0, <1>3, <2>2, <2>3, <2>4
<1>13. ASSUME More(f) PROVE HandleOK(L, R, D, own, pos, g)
  BY <1>0, <1>1, <1>2, <1>3, <1>12, <1>13, HandleStepped
<1>14. PICK F : F = file'
  OBVIOUS
<1>15. \A h \in Names : F[h] = IF More(f) /\ h = call.h THEN g ELSE file[h]
  BY <1>14 DEF Put, TypeInv, FileTyped
<1>16. Handles(L, R, D, own, pos, call, F)
  <2>1. ASSUME NEW h \in Names, F[h].open PROVE h = call.h /\ HandleOK(L, R, D, own, pos, F[h])
    BY <1>0, <1>2, <1>13, <1>15, <2>1
  <2> QED BY <2>1 DEF Handles
<1>17. /\ VictimOf(call, F) = Nobody /\ Alike(card, call, F)
       /\ Calling(L, R, D, own, call, F, torn, kept)
  BY <1>1, <1>2 DEF VictimOf, Alike, Calling, Looking, Held, Holding, Deleting
<1>18. crashes = 0 => torn = {} /\ NoneLost(card, L, R, D, call, F)
  BY <1>1, <1>2, <1>17, NoneLostKept
<1>19. /\ Len(image') = Len(image) + 1 /\ \A k \in 1..Len(image') : image'[k] = Token(call.name, k - 1)
  <2>1. image' = Append(image, OnCard(s))
    BY <1>5
  <2>2. /\ Len(image') = Len(image) + 1 /\ image'[Len(image) + 1] = OnCard(s)
        /\ \A k \in 1..Len(image) : image'[k] = image[k]
    BY <1>3, <1>8, <2>1
  <2>3. ASSUME NEW k \in 1..(Len(image) + 1) PROVE image'[k] = Token(call.name, k - 1)
    <3>1. CASE k = Len(image) + 1
      <4>1. k - 1 = Len(image)
        BY <1>3, <3>1
      <4> QED BY <1>8, <2>2, <3>1, <4>1
    <3>2. CASE k # Len(image) + 1
      <4>1. k \in 1..Len(image)
        BY <1>3, <3>2
      <4> QED BY <1>3, <2>2, <4>1
    <3> QED BY <3>1, <3>2
  <2> QED BY <2>2, <2>3
<1>20. Loading'
  <2>1. PICK f2 : f2 = F[call.h]
    OBVIOUS
  <2>2. f2.open /\ f2.name = call.name /\ ~f2.dirty /\ f2.size = f.size /\ Reach(f2) = Reach(f)
    <3>1. CASE More(f)
      <4>1. f2 = g /\ g.open /\ g.name = call.name /\ ~g.dirty /\ g.size = f.size /\ g.rest = f.rest
        BY <1>2, <1>3, <1>12, <1>15, <2>1, <3>1
      <4> QED BY <4>1 DEF Reach
    <3>2. CASE ~More(f)
      <4>1. f2 = f
        BY <1>2, <1>15, <2>1, <3>2
      <4> QED BY <1>3, <4>1
    <3> QED BY <3>1, <3>2
  <2>3. /\ Len(image') <= Reach(f2)
        /\ Len(image') < f2.size => More(f) /\ Len(image) + 1 < f.size
    BY <1>3, <1>19, <2>2 DEF More
  <2>4. ASSUME More(f), Len(image) + 1 < f.size PROVE f2.sector = Len(image') /\ ~f2.eof /\ f2.cluster # 0
    <3>1. f2 = g
      BY <1>2, <1>15, <2>1, <2>4
    <3> QED BY <1>3, <1>12, <1>19, <2>4, <3>1
  <2>5. \A h \in Names : F[h].open => h = call.h
    BY <1>2, <1>15
  <2>6. call'.h = call.h /\ call' = call /\ file' = F
    BY <1>14
  <2>7. Reach(file[call.h])' = Reach(f2)
    BY <2>1, <2>6 DEF Reach
  <2> QED BY <1>2, <1>3, <1>4, <1>19, <2>1, <2>2, <2>3, <2>4, <2>5, <2>6, <2>7 DEF Loading
<1>21. Kicked' /\ Unmounted'
  BY <1>2, <1>4 DEF Kicked, Unmounted
<1>22. /\ Sound(L, R, D, own, pos, Counting(R, Victim', torn), torn, kept')
       /\ Alike(card, call', file') /\ Handles(L, R, D, own, pos, call', file')
       /\ Searching(L, R, D, pos, call') /\ Calling(L, R, D, own, call', file', torn, kept')
       /\ crashes = 0 => torn = {} /\ NoneLost(card, L, R, D, call', file')
  <2>1. Victim' = Victim
    BY <1>2, <1>14, <1>17 DEF Victim
  <2> QED BY <1>1, <1>4, <1>14, <1>16, <1>17, <1>18, <2>1
<1> QED BY <1>0, <1>1, <1>4, <1>11, <1>20, <1>21, <1>22, StillThen

(* A sector that only FileSize claims: anything may come from the card.    *)
LEMMA PastStill ==
  ASSUME TypeInv, NEW D, NEW own, NEW pos, QuietAt(D, own, pos), LoadSector,
         NEW f, f = file[call.h], Len(image) < Reach(f), ~(Len(image) < f.size),
         NEW m \in IoType, m.todo = io.todo, image' = Append(image, OnCard(SectorLba(f))),
         io' = IF More(f) THEN NextIo(m, f, FALSE, TRUE, None) ELSE m,
         file' = IF More(f) THEN Put(file, call.h, Stepped(m, f, FALSE, TRUE, None)) ELSE file,
         UNCHANGED <<call, kick>>
  PROVE  \E own2, pos2, vs : Certified(D, own2, pos2, vs)'
<1>0. PICK L, R : L = LinksOf(card) /\ R = PlainOf(card)
  OBVIOUS
<1>1. /\ Formatted(card) /\ Sound(L, R, D, own, pos, Counting(R, Victim, torn), torn, kept)
      /\ Alike(card, call, file) /\ Unmounted
      /\ Handles(L, R, D, own, pos, call, file) /\ Searching(L, R, D, pos, call)
      /\ Calling(L, R, D, own, call, file, torn, kept)
      /\ crashes = 0 => torn = {} /\ NoneLost(card, L, R, D, call, file)
  BY <1>0, Parts
<1>2. /\ call.fn = "load" /\ call.step = "read" /\ kick = "none" /\ mounted
      /\ \A h \in Names : file[h].open => h = call.h
      /\ f.open /\ f.name = call.name /\ ~f.dirty /\ call.name \notin torn
      /\ f \in FileType /\ image \in Seq(Content) /\ Len(image) \in Nat
      /\ \A k \in 1..Len(image) : k <= f.size => image[k] = Token(call.name, k - 1)
  BY <1>0, LoadHas
<1>3. /\ Reach(f) \in Nat /\ f.size \in Nat /\ Reach(f) = f.size + 1 /\ Len(image) = f.size
      /\ ~More(f)
  BY <1>2, ReachIs DEF More
<1>4. /\ io.todo = <<>> /\ card' = card /\ torn' = torn /\ crashes' = crashes /\ kept' = kept
      /\ mounted' = mounted /\ kick' = kick /\ call' = call /\ file' = file /\ io' = m
  BY <1>3 DEF LoadSector, Running, UnchangedRest
<1>5. OnCard(SectorLba(f)) \in Content
  BY OnCardTyped DEF TypeInv
<1>6. Len(image') = Len(image) + 1 /\ \A k \in 1..Len(image) : image'[k] = image[k]
  BY <1>2, <1>5
<1>7. Reach(file[call.h])' = Reach(f) /\ (file[call.h])' = f
  BY <1>4 DEF Reach
<1>8. ~Watching'
  BY <1>2, <1>3, <1>4, <1>6, <1>7 DEF Watching, LastRead
<1>9. Loading'
  <2>1. \A k \in 1..Len(image') : k <= f.size => image'[k] = Token(call.name, k - 1)
    BY <1>2, <1>3, <1>6
  <2> QED BY <1>2, <1>3, <1>4, <1>6, <1>7, <2>1 DEF Loading
<1>10. Kicked' /\ Unmounted'
  BY <1>2, <1>4 DEF Kicked, Unmounted
<1>11. Victim' = Victim
  BY <1>4 DEF Victim
<1> QED BY <1>0, <1>1, <1>4, <1>8, <1>9, <1>10, <1>11, StillThen

LEMMA LoadSectorStill ==
  ASSUME TypeInv, NEW D, NEW own, NEW pos, QuietAt(D, own, pos), LoadSector, faults' = 0
  PROVE  \E own2, pos2, vs : Certified(D, own2, pos2, vs)'
<1>1. PICK f, m : f = file[call.h] /\ m = [io EXCEPT !.cached = SectorLba(f)]
  OBVIOUS
<1>2. faults \in Nat /\ io \in IoType
  BY DEF TypeInv, RestTyped
<1>3. CASE Len(image) >= Reach(f) /\ Loaded(TRUE) /\ UNCHANGED <<io, image, faults>>
  BY <1>1, <1>3, LoadedStill
<1>4. CASE Count(TRUE)
  BY <1>2, <1>4, CountTyped
<1>5. ASSUME Len(image) < Reach(f), image' = Append(image, OnCard(SectorLba(f))), NEW ok \in Oks,
             ok \/ (More(f) /\ Crosses(f) /\ FetchFails(m, f.cluster, ok)), Count(~ok),
             io' = IF More(f) THEN NextIo(m, f, FALSE, ok, None) ELSE m,
             file' = IF More(f) THEN [file EXCEPT ![call.h] = Stepped(m, f, FALSE, ok, None)] ELSE file,
             UNCHANGED <<call, kick>>
      PROVE  \E own2, pos2, vs : Certified(D, own2, pos2, vs)'
  <2>1. ok \in BOOLEAN /\ ok
    BY <1>2, <1>5, CountTyped DEF Oks
  <2>2. ~FetchFails(m, f.cluster, ok)
    BY <2>1 DEF FetchFails
  <2>3. PICK g : g = Stepped(m, f, FALSE, ok, None)
    OBVIOUS
  <2>4. file' = IF More(f) THEN Put(file, call.h, g) ELSE file
    BY <1>5, <2>3 DEF Put
  <2>5. m \in IoType /\ m.todo = io.todo /\ m.cached = SectorLba(f)
    <3>1. call.h \in Names /\ f \in FileType
      BY <1>1 DEF LoadSector, Running, TypeInv, CallTyped, FileTyped
    <3>2. SectorLba(f) \in Int
      BY <3>1, SectorTyped
    <3> QED BY <1>1, <1>2, <3>2 DEF IoType
  <2>6. CASE Len(image) < f.size
    BY <1>1, <1>5, <2>1, <2>2, <2>3, <2>4, <2>5, <2>6, SectorLoadedStill
  <2>7. CASE ~(Len(image) < f.size)
    <3>1. ok = TRUE
      BY <2>1
    <3> QED BY <1>1, <1>5, <2>3, <2>4, <2>5, <2>7, <3>1, PastStill
  <2> QED BY <2>6, <2>7
<1> QED BY <1>1, <1>3, <1>4, <1>5 DEF LoadSector, More
-----------------------------------------------------------------------------
(* A sector reaches the card, or the power is lost.                        *)

Later(ws, vs) == [i \in 1..Len(ws) |-> vs[i + 1]]

FirstLanded(v, ws, vs, vs2) ==
  /\ ws[1].lba \in Lba /\ ws[1] = Head(ws)
  /\ Trace(Put(v, ws[1].lba, ws[1].b), Tail(ws), vs2)
  /\ End(Tail(ws), vs2) = End(ws, vs)
  /\ \A i \in DOMAIN vs2 : \E j \in DOMAIN vs : vs2[i] = vs[j]

LEMMA TraceTail ==
  ASSUME NEW v, NEW ws \in Writes, ws # <<>>, NEW vs, Trace(v, ws, vs),
         NEW vs2, vs2 = Later(ws, vs)
  PROVE  FirstLanded(v, ws, vs, vs2)
<1>1. /\ Tail(ws) \in Writes /\ Len(Tail(ws)) = Len(ws) - 1 /\ Len(ws) >= 1 /\ Head(ws) = ws[1]
      /\ \A i \in 1..Len(Tail(ws)) : Tail(ws)[i] = ws[i + 1]
  BY HeadTail DEF Writes
<1>2. Len(ws) \in Nat
  BY DEF Writes
<1>3. /\ DOMAIN vs = 1..(Len(ws) + 1) /\ vs[1] = v
      /\ \A i \in 1..Len(ws) :
           ws[i].lba \in Lba /\ vs[i + 1] = [vs[i] EXCEPT ![ws[i].lba] = ws[i].b]
  BY DEF Trace
<1>4. PICK n : n = Len(ws)
  OBVIOUS
<1>5. n \in Nat /\ n >= 1 /\ Len(Tail(ws)) = n - 1 /\ 1 \in 1..n /\ n \in 1..n /\ n - 1 + 1 = n
  BY <1>1, <1>2, <1>4
<1>6. \A i \in 1..n : vs2[i] = vs[i + 1]
  BY <1>4 DEF Later
<1>7. vs2[1] = [v EXCEPT ![ws[1].lba] = ws[1].b]
  <2>1. vs[1 + 1] = [vs[1] EXCEPT ![ws[1].lba] = ws[1].b]
    BY <1>3, <1>4, <1>5
  <2> QED BY <1>3, <1>5, <1>6, <2>1
<1>8. ASSUME NEW i \in 1..Len(Tail(ws))
      PROVE  /\ Tail(ws)[i].lba \in Lba
             /\ vs2[i + 1] = [vs2[i] EXCEPT ![Tail(ws)[i].lba] = Tail(ws)[i].b]
  <2>1. i \in 1..n /\ i + 1 \in 1..n
    BY <1>5
  <2>2. ws[i + 1].lba \in Lba /\ vs[i + 1 + 1] = [vs[i + 1] EXCEPT ![ws[i + 1].lba] = ws[i + 1].b]
    BY <1>3, <1>4, <2>1
  <2>3. Tail(ws)[i] = ws[i + 1]
    BY <1>1
  <2>4. vs2[i] = vs[i + 1] /\ vs2[i + 1] = vs[i + 1 + 1]
    BY <1>6, <2>1
  <2> QED BY <2>2, <2>3, <2>4
<1>9. DOMAIN vs2 = 1..(Len(Tail(ws)) + 1)
  BY <1>4, <1>5 DEF Later
<1>10. Trace(Put(v, ws[1].lba, ws[1].b), Tail(ws), vs2)
  BY <1>7, <1>8, <1>9 DEF Trace, Put
<1>11. End(Tail(ws), vs2) = End(ws, vs)
  BY <1>4, <1>5, <1>6 DEF End
<1>12. \A i \in DOMAIN vs2 : i + 1 \in DOMAIN vs /\ vs2[i] = vs[i + 1]
  BY <1>3, <1>4, <1>5, <1>6, <1>9
<1>13. ws[1].lba \in Lba
  BY <1>3, <1>4, <1>5
<1> QED BY <1>1, <1>10, <1>11, <1>12, <1>13 DEF FirstLanded

LEMMA LandStill ==
  ASSUME TypeInv, NEW D, NEW own, NEW pos, NEW vs, Certified(D, own, pos, vs), Land,
         faults' = 0
  PROVE  \E own2, pos2, vs2 : Certified(D, own2, pos2, vs2)'
<1>1. PICK ws : ws = io.todo
  OBVIOUS
<1>2. ws \in Writes /\ ws # <<>>
  BY <1>1 DEF TypeInv, IoType, Writes, Land
<1>3. PICK vs2 : vs2 = Later(ws, vs)
  OBVIOUS
<1>4. Trace(card, ws, vs)
  BY <1>1 DEF Certified
<1>5. /\ ws[1].lba \in Lba /\ ws[1] = Head(ws)
      /\ Trace(Put(card, ws[1].lba, ws[1].b), Tail(ws), vs2)
      /\ End(Tail(ws), vs2) = End(ws, vs)
      /\ \A i \in DOMAIN vs2 : \E j \in DOMAIN vs : vs2[i] = vs[j]
  <2>1. FirstLanded(card, ws, vs, vs2)
    BY <1>2, <1>3, <1>4, TraceTail
  <2> QED BY <2>1 DEF FirstLanded
<1>6. /\ io'.todo = Tail(ws) /\ io'.cached = io.cached /\ io'.buf = io.buf
      /\ card' = Put(card, ws[1].lba, ws[1].b)
      /\ mounted' = mounted /\ call' = call /\ file' = file /\ image' = image /\ kick' = kick
      /\ kept' = kept /\ torn' = torn /\ crashes' = crashes
  <2>1. faults \in Nat
    BY DEF TypeInv, RestTyped
  <2>2. ~Count(TRUE)
    BY <2>1, CountTyped
  <2>3. /\ card' = [card EXCEPT ![ws[1].lba] = ws[1].b] /\ io' = [io EXCEPT !.todo = Tail(@)]
        /\ UNCHANGED <<mounted, call, file, image, kick, kept, torn, crashes>>
    BY <1>1, <1>5, <2>2 DEF Land
  <2> QED BY <1>1, <2>3 DEF TypeInv, IoType, Put
<1>7. Trace(card', io'.todo, vs2)
  BY <1>5, <1>6
<1>8. Victim' = Victim
  BY <1>6 DEF Victim
<1>9. \A i \in DOMAIN vs2 :
        Good(vs2[i], D, own, pos, Victim', torn', kept') /\ Alike(vs2[i], call', file')
  BY <1>5, <1>6, <1>8 DEF Certified
<1>10. PICK w : w = End(ws, vs)
  OBVIOUS
<1>11. AtEnd(w, D, own, pos)'
  <2>1. AtEnd(w, D, own, pos)
    BY <1>1, <1>10 DEF Certified
  <2>2. Watching' <=> Watching
    BY <1>6 DEF Watching, LastRead, Reach
  <2> QED BY <1>6, <2>1, <2>2 DEF AtEnd, Buffered
<1>12. kick = "none" /\ mounted
  BY <1>1, <1>2 DEF Certified, Kicked, Unmounted
<1>13. Loading'
  BY <1>6 DEF Certified, Loading, Reach
<1>14. Kicked' /\ Unmounted'
  BY <1>6, <1>12 DEF Kicked, Unmounted
<1>15. w = End(io'.todo, vs2)
  BY <1>5, <1>6, <1>10
<1>16. Certified(D, own, pos, vs2)'
  BY <1>7, <1>9, <1>11, <1>13, <1>14, <1>15, Settled
<1> QED BY <1>16

LEMMA PowerStill ==
  ASSUME TypeInv, NEW D, NEW own, NEW pos, NEW vs, Certified(D, own, pos, vs), PowerLoss
  PROVE  \E own2, pos2, vs2 : Certified(D, own2, pos2, vs2)'
<1>1. /\ card' = card /\ io' = Blank /\ mounted' = FALSE /\ call' = NoCall
      /\ file' = [h \in Names |-> NoFile] /\ image' = <<>> /\ kick' = "none" /\ kept' = kept
      /\ crashes' > 0 /\ torn' = IF call.fn = "delete" THEN torn \cup {call.name} ELSE torn
  <2>1. crashes \in Nat
    BY DEF TypeInv, RestTyped
  <2> QED BY <2>1 DEF PowerLoss
<1>2. PICK R, v, L : R = PlainOf(v) /\ v = card /\ L = LinksOf(v)
  OBVIOUS
<1>3. Good(v, D, own, pos, Victim, torn, kept) /\ Alike(v, call, file)
  <2>1. io.todo \in Writes
    BY DEF TypeInv, IoType, Writes
  <2>2. 1 \in 1..(Len(io.todo) + 1)
    BY <2>1 DEF Writes
  <2> QED BY <1>2, <2>2 DEF Certified, Trace
<1>4. PICK S, S2, x, gone : /\ S = Counting(R, x, torn) /\ S2 = Counting(R, Nobody, gone)
                            /\ x = Victim /\ gone = torn'
  OBVIOUS
<1>5. NoCall.fn = "none" /\ NoCall.step = "none" /\ ~NoFile.open
  BY DEF NoCall, NoFile
<1>6. Victim' = Nobody
  BY <1>1, <1>5 DEF Victim, VictimOf
<1>7. torn \subseteq gone /\ (x # Nobody => Ent(R, x).name \in gone \cup {"deleted"})
  BY <1>1, <1>2, <1>3, <1>4 DEF Victim, VictimOf, Alike
<1>8. S2 \subseteq S
  BY <1>4, <1>7 DEF Counting, FileSlots, Free
<1>9. /\ Formatted(v) /\ Layout(L, R, D, own, pos) /\ FilesOK(L, R, D, own, pos, S)
      /\ NamesOK(R, S) /\ KeptOK(R, S, torn, kept)
  BY <1>2, <1>3, <1>4 DEF Good, Sound
<1>10. FilesOK(L, R, D, own, pos, S2)
  BY <1>8, <1>9 DEF FilesOK
<1>11. NamesOK(R, S2)
  BY <1>8, <1>9 DEF NamesOK
<1>12. KeptOK(R, S2, gone, kept)
  <2> SUFFICES ASSUME NEW n \in Names \ gone, kept[n] # -1
               PROVE  \E p \in S2 : Ent(R, p).name = n /\ Ent(R, p).size >= kept[n]
    BY DEF KeptOK
  <2>1. PICK p \in S : Ent(R, p).name = n /\ Ent(R, p).size >= kept[n]
    BY <1>7, <1>9 DEF KeptOK
  <2>2. p # Nobody
    <3>1. -1 \notin Lba
      BY Areas
    <3>2. p[1] \in Lba
      BY <1>4, <2>1 DEF Counting, FileSlots, DirSlots, DirSectors
    <3> QED BY <3>1, <3>2 DEF Nobody
  <2>3. p \in S2
    BY <1>4, <2>1, <2>2 DEF Counting
  <2> QED BY <2>1, <2>3
<1>13. Good(v, D, own, pos, Victim', torn', kept')
  <2>1. Sound(L, R, D, own, pos, S2, gone, kept)
    BY <1>9, <1>10, <1>11, <1>12 DEF Sound
  <2>2. Good(v, D, own, pos, Nobody, gone, kept)
    BY <1>2, <1>4, <1>9, <2>1 DEF Good
  <2> QED BY <1>1, <1>4, <1>6, <2>2
<1>14. Alike(v, call', file')
  BY <1>1, <1>5 DEF Alike
<1>15. io'.todo = <<>> /\ io'.cached = None
  BY <1>1 DEF Blank
<1>16. AtEnd(v, D, own, pos)'
  <2>1. Handles(L, R, D, own, pos, call', file')
    BY <1>1, <1>5 DEF Handles
  <2>2. Searching(L, R, D, pos, call')
    BY <1>1, <1>5 DEF Searching
  <2>3. Calling(L, R, D, own, call', file', torn', kept')
    BY <1>1, <1>5 DEF Calling, Steps, Looking, Held, Holding, Deleting
  <2>4. Buffered(io', v)
    BY <1>15, Areas DEF Buffered, None
  <2>5. ~(crashes' = 0)
    BY <1>1
  <2> QED BY <1>2, <2>1, <2>2, <2>3, <2>4, <2>5, AtEndThen
<1>17. Loading' /\ Kicked' /\ Unmounted'
  BY <1>1, <1>5, <1>15 DEF Loading, Kicked, Unmounted
<1>18. QuietAt(D, own, pos)'
  BY <1>2, <1>1, <1>13, <1>14, <1>16, <1>17 DEF QuietAt
<1> QED BY <1>15, <1>18, Still
-----------------------------------------------------------------------------
(* Every step, and the invariant.                                          *)

LEMMA StepStill ==
  ASSUME TypeInv, NEW D, NEW own, NEW pos, NEW vs, Certified(D, own, pos, vs), Next, faults' = 0
  PROVE  \E own2, pos2, vs2 : Certified(D, own2, pos2, vs2)'
<1> DEFINE Loads == \E n \in Names : LoadROM(n)
<1>1. io.todo = <<>> => QuietAt(D, own, pos)
  BY Rested
<1> HIDE DEF Loads
<1>2. CASE Mount
  <2>1. QuietAt(D, own, pos)
    BY <1>1, <1>2 DEF Mount
  <2> QED BY <1>2, <2>1, MountStill
<1>3. CASE Land
  BY <1>3, LandStill
<1>4. CASE PowerLoss
  BY <1>4, PowerStill
<1>5. CASE Internal /\ ~Land
  <2>1. io.todo = <<>>
    BY <1>5 DEF Internal, ScanSector, ScanCluster, CreateAllocates, ReleaseStep, DeleteUnlinks,
                Return, LoadSector, Running
  <2>2. QuietAt(D, own, pos)
    BY <1>1, <2>1
  <2>3. CASE ScanSector
    BY <2>2, <2>3, ScanStill
  <2>4. CASE ScanCluster
    BY <2>2, <2>4, ClusterStill
  <2>5. CASE CreateAllocates
    BY <2>2, <2>5, AllocatesStill
  <2>6. CASE ReleaseStep
    BY <2>2, <2>6, ReleaseStill
  <2>7. CASE DeleteUnlinks
    BY <2>2, <2>7, UnlinksStill
  <2>8. CASE Return
    BY <2>2, <2>8, ReturnStill
  <2>9. CASE LoadSector
    BY <2>2, <2>9, LoadSectorStill
  <2> QED BY <1>5, <2>3, <2>4, <2>5, <2>6, <2>7, <2>8, <2>9 DEF Internal
<1>6. CASE Loads
  <2>1. PICK n \in Names : LoadROM(n)
    BY <1>6 DEF Loads
  <2>2. QuietAt(D, own, pos)
    BY <1>1, <2>1 DEF LoadROM, Idle
  <2> QED BY <2>1, <2>2, LoadStill
<1>7. CASE Calls
  <2>1. PICK h \in Names :
          \/ FileClose(h) \/ FileDelete(h) \/ FileWriteSector(h) \/ FileReadSector(h)
          \/ \E append \in BOOLEAN : FileNextSector(h, append)
          \/ \E n \in Names : FileOpen(h, n) \/ FileCreate(h, n) \/ SetFilename(h, n)
    BY <1>7 DEF Calls
  <2>2. Ready
    BY <2>1 DEF FileClose, FileDelete, FileWriteSector, FileReadSector, FileNextSector,
                FileOpen, FileCreate, SetFilename
  <2>3. QuietAt(D, own, pos)
    BY <1>1, <2>2 DEF Ready, Idle
  <2>4. CASE FileClose(h)
    BY <2>3, <2>4, CloseAny
  <2>5. CASE FileDelete(h)
    BY <2>3, <2>5, DeleteStill
  <2>6. CASE FileWriteSector(h)
    BY <2>3, <2>6, WriteSectorStill
  <2>7. CASE FileReadSector(h)
    BY <2>3, <2>7, ReadSectorStill
  <2>8. CASE \E append \in BOOLEAN : FileNextSector(h, append)
    <3>1. PICK append \in BOOLEAN : FileNextSector(h, append)
      BY <2>8
    <3> QED BY <2>3, <3>1, NextAny
  <2>9. CASE \E n \in Names : FileOpen(h, n) \/ FileCreate(h, n) \/ SetFilename(h, n)
    <3>1. PICK n \in Names : FileOpen(h, n) \/ FileCreate(h, n) \/ SetFilename(h, n)
      BY <2>9
    <3>2. CASE FileOpen(h, n) \/ FileCreate(h, n)
      BY <2>3, <3>2, OpenStill
    <3>3. CASE SetFilename(h, n)
      BY <2>3, <3>3, RenameStill
    <3> QED BY <3>1, <3>2, <3>3
  <2> QED BY <2>1, <2>4, <2>5, <2>6, <2>7, <2>8, <2>9
<1>8. CASE Internal
  BY <1>3, <1>5, <1>8
<1>9. Mount \/ Internal \/ Calls \/ Loads \/ PowerLoss
  BY DEF Next, Loads
<1> QED BY <1>2, <1>4, <1>6, <1>7, <1>8, <1>9

LEMMA FaultsStay ==
  ASSUME TypeInv, Next, faults' = 0
  PROVE  faults = 0
<1>1. faults \in Nat
  BY DEF TypeInv, RestTyped
<1> DEFINE Fails == \E failed : Count(failed)
<1>2. Fails => faults = 0
  BY <1>1, CountTyped
<1> HIDE DEF Fails
<1>3. CASE Mount
  BY <1>1, <1>3 DEF Mount
<1>4. CASE Land \/ PowerLoss
  <2>1. Fails \/ faults' = faults
    BY <1>4 DEF Land, PowerLoss, Fails
  <2> QED BY <1>2, <2>1
<1>5. CASE Internal /\ ~Land
  <2>1. Fails \/ faults' = faults
    BY <1>5 DEF Internal, ScanSector, ScanCluster, CreateAllocates, ReleaseStep, DeleteUnlinks,
                Return, LoadSector, Fails
  <2> QED BY <1>2, <2>1
<1>6. CASE \E n \in Names : LoadROM(n)
  BY <1>6 DEF LoadROM
<1>7. CASE Calls
  BY <1>7 DEF Calls, FileClose, FileDelete, FileWriteSector, FileReadSector, FileNextSector,
              FileOpen, FileCreate, SetFilename, Ready
<1> QED BY <1>3, <1>4, <1>5, <1>6, <1>7 DEF Next, Internal

(* Until a step goes wrong the volume is sound, whatever is on its way to  *)
(* it.                                                                     *)
VolumeInv == faults = 0 => \E D, own, pos, vs : Certified(D, own, pos, vs)
Inv == TypeInv /\ VolumeInv

LEMMA InvKept ==
  ASSUME Inv, [Next]_vars
  PROVE  Inv'
<1>1. TypeInv'
  BY TypeKept DEF Inv
<1>2. VolumeInv'
  <2> SUFFICES ASSUME faults' = 0 PROVE \E D, own, pos, vs : Certified(D, own, pos, vs)'
    BY DEF VolumeInv
  <2>1. faults = 0
    BY FaultsStay DEF Inv, vars
  <2>2. PICK D, own, pos, vs : Certified(D, own, pos, vs)
    BY <2>1 DEF Inv, VolumeInv
  <2>3. CASE Next
    BY <2>2, <2>3, StepStill DEF Inv
  <2>4. CASE UNCHANGED vars
    <3>1. Trace(card', io'.todo, vs)
      BY <2>2, <2>4 DEF Certified, vars
    <3>2. Victim' = Victim
      BY <2>4 DEF Victim, vars
    <3>3. \A i \in DOMAIN vs :
            Good(vs[i], D, own, pos, Victim', torn', kept') /\ Alike(vs[i], call', file')
      BY <2>2, <2>4, <3>2 DEF Certified, vars
    <3>4. PICK w : w = End(io.todo, vs) /\ w = End(io'.todo, vs)
      BY <2>4 DEF vars
    <3>5. AtEnd(w, D, own, pos)'
      <4>1. AtEnd(w, D, own, pos)
        BY <2>2, <3>4 DEF Certified
      <4>2. Watching' <=> Watching
        BY <2>4 DEF vars, Watching, LastRead, Reach
      <4> QED BY <2>4, <4>1, <4>2 DEF AtEnd, vars
    <3>6. Loading' /\ Kicked' /\ Unmounted'
      <4>1. Loading' /\ Unmounted'
        BY <2>2, <2>4 DEF Certified, vars, Loading, Unmounted, Reach
      <4>2. RomTrue' <=> RomTrue
        <5>1. \A n : Claimed(n)' <=> Claimed(n)
          BY <2>4 DEF vars, Claimed, LiveEntries, Live, Slot, EntryAt
        <5> QED BY <2>4, <5>1 DEF vars, RomTrue
      <4>3. Kicked'
        BY <2>2, <2>4, <4>2 DEF Certified, vars, Kicked
      <4> QED BY <4>1, <4>3
    <3> QED BY <3>1, <3>3, <3>4, <3>5, <3>6, Settled
  <2> QED BY <2>3, <2>4
<1> QED BY <1>1, <1>2 DEF Inv
-----------------------------------------------------------------------------
(* A sound volume, before anything is done.                                *)

LEMMA SoundGood ==
  ASSUME NEW v, SoundVolume(v), NEW L, L = LinksOf(v), NEW R, R = PlainOf(v)
  PROVE  \E D, own, pos :
           /\ Formatted(v) /\ Layout(L, R, D, own, pos)
           /\ FilesOK(L, R, D, own, pos, FileSlots(R)) /\ NamesOK(R, FileSlots(R))
           /\ Mirrored(v)
           /\ \A c \in Clusters \ D :
                L[c] = 0 \/ Linked(L, D, c) \/ \E p \in FileSlots(R) : Ent(R, p).first = c
<1>1. PICK D : D = IF FAT32 THEN {c \in Clusters : R[ClusterLba(c)].kind = "dir"}
                   ELSE {root_directory_cluster}
  OBVIOUS
<1>2. /\ Formatted(v) /\ Mirrored(v)
      /\ \A p, q \in FileSlots(R) :
           Ent(R, p).name = Ent(R, q).name /\ Ent(R, p).name \in Names => p = q
      /\ LongNamesOK(L, R, D)
      /\ \A c \in Clusters \ D :
           L[c] = 0 \/ Linked(L, D, c) \/ \E p \in FileSlots(R) : Ent(R, p).first = c
      /\ \E pos \in [Clusters \cup {root_directory_cluster} -> 0..CLUSTERS],
            own \in [Clusters \ D -> FileSlots(R) \cup {Nobody}] :
           /\ DirectoryOK(L, R, D, pos) /\ ChainsOK(L, D, own, pos)
           /\ \A p \in FileSlots(R) :
                FileOK(L, R, D, own, pos, p, Ent(R, p).first, Ent(R, p).size, Ent(R, p).name)
  BY <1>1 DEF SoundVolume
<1>3. PICK pos, own :
           /\ DirectoryOK(L, R, D, pos) /\ ChainsOK(L, D, own, pos)
           /\ \A p \in FileSlots(R) :
                FileOK(L, R, D, own, pos, p, Ent(R, p).first, Ent(R, p).size, Ent(R, p).name)
  BY <1>2
<1>4. Layout(L, R, D, own, pos)
  BY <1>2, <1>3 DEF Layout
<1>5. FilesOK(L, R, D, own, pos, FileSlots(R))
  BY <1>3 DEF FilesOK
<1>6. NamesOK(R, FileSlots(R))
  BY <1>2 DEF NamesOK
<1> QED BY <1>2, <1>4, <1>5, <1>6

LEMMA KeptFirst ==
  ASSUME Init, Formatted(card), NEW R, R = PlainOf(card), NEW n \in Names, kept[n] # -1
  PROVE  \E p \in FileSlots(R) : Ent(R, p).name = n /\ Ent(R, p).size >= kept[n]
<1> DEFINE entries == {e \in UNION {{card[s].v[i] : i \in 0..(DPS - 1)} :
                                      s \in {t \in Lba : card[t].kind = "dir"}} :
                         e.name = n /\ e.attr \notin {"lfn", "volume"}}
<1>1. kept[n] = IF entries = {} THEN -1 ELSE (CHOOSE e \in entries : TRUE).size
  BY DEF Init
<1>2. PICK e : e = CHOOSE x \in entries : TRUE
  OBVIOUS
<1>3. e \in entries /\ kept[n] = e.size
  BY <1>1, <1>2
<1>4. PICK s \in Lba, i \in 0..(DPS - 1) : card[s].kind = "dir" /\ e = card[s].v[i]
  BY <1>3
<1>5. e.name = n /\ e.attr \notin {"lfn", "volume"}
  BY <1>3
<1> HIDE DEF entries
<1>6. s \in Lba \ FatArea
  BY <1>4, FatTyped
<1>7. R[s] = card[s]
  BY <1>6 DEF PlainOf
<1>8. PICK p : p = <<s, i>>
  OBVIOUS
<1>9. p \in DirSlots(R) /\ Ent(R, p) = e
  BY <1>4, <1>6, <1>7, <1>8 DEF DirSlots, DirSectors, Ent
<1>10. n \notin Free
  BY VolumesAssumption
<1>11. p \in FileSlots(R)
  BY <1>5, <1>9, <1>10 DEF FileSlots
<1>12. e.size \in Nat
  <2>1. card[s] \in DirContent
    BY <1>4 DEF Formatted
  <2>2. e \in Entry
    BY <1>4, <2>1 DEF DirContent
  <2>3. e.size \in 0..MaxSectors
    BY <2>2 DEF Entry
  <2> QED BY <2>3
<1> QED BY <1>3, <1>5, <1>9, <1>11, <1>12

LEMMA InitCertified ==
  ASSUME Init
  PROVE  \E D, own, pos, vs : Certified(D, own, pos, vs)
<1>1. PICK v, L, R : v = card /\ L = LinksOf(v) /\ R = PlainOf(v)
  OBVIOUS
<1>2. SoundVolume(v)
  BY <1>1, VolumesAssumption DEF Init
<1>3. PICK D, own, pos :
           /\ Formatted(v) /\ Layout(L, R, D, own, pos)
           /\ FilesOK(L, R, D, own, pos, FileSlots(R)) /\ NamesOK(R, FileSlots(R))
           /\ Mirrored(v)
           /\ \A c \in Clusters \ D :
                L[c] = 0 \/ Linked(L, D, c) \/ \E p \in FileSlots(R) : Ent(R, p).first = c
  BY <1>1, <1>2, SoundGood
<1>4. /\ call = NoCall /\ NoCall.fn = "none" /\ NoCall.step = "none" /\ torn = {} /\ mounted = FALSE
      /\ image = <<>> /\ kick = "none" /\ io.todo = <<>> /\ io.cached = None
      /\ \A h \in Names : ~file[h].open
  BY DEF Init, NoCall, NoFile, Blank
<1>5. Victim = Nobody /\ VictimOf(call, file) = Nobody
  BY <1>4 DEF Victim, VictimOf
<1>6. Counting(R, Victim, torn) = FileSlots(R)
  <2>1. FileSlots(R) \subseteq DirSlots(R)
    BY DEF FileSlots
  <2> QED BY <1>4, <1>5, <2>1, NotNobody DEF Counting
<1>7. KeptOK(R, FileSlots(R), torn, kept)
  BY <1>1, <1>3, <1>4, KeptFirst DEF KeptOK
<1>8. Good(v, D, own, pos, Victim, torn, kept)
  BY <1>1, <1>3, <1>6, <1>7 DEF Good, Sound
<1>9. Alike(v, call, file)
  BY <1>4 DEF Alike
<1>10. AtEnd(v, D, own, pos)
  <2>1. Handles(L, R, D, own, pos, call, file)
    BY <1>4 DEF Handles
  <2>2. Searching(L, R, D, pos, call)
    BY <1>4 DEF Searching
  <2>3. Calling(L, R, D, own, call, file, torn, kept)
    BY <1>4 DEF Calling, Steps, Looking, Held, Holding, Deleting
  <2>4. Buffered(io, v)
    BY <1>4, Areas DEF Buffered, None
  <2>5. NoneLost(v, L, R, D, call, file)
    <3>1. \A p \in FileSlots(R) : p # VictimOf(call, file)
      BY <1>5, NotNobody DEF FileSlots
    <3> QED BY <1>3, <3>1 DEF NoneLost
  <2> QED BY <1>1, <1>4, <2>1, <2>2, <2>3, <2>4, <2>5 DEF AtEnd
<1>11. Loading /\ Kicked /\ Unmounted
  BY <1>4 DEF Loading, Kicked, Unmounted
<1>12. PICK vs : vs = [i \in 1..1 |-> v]
  OBVIOUS
<1>13. Trace(card, io.todo, vs)
  BY <1>1, <1>4, <1>12, TraceNil
<1>14. Len(<<>>) = 0
  OBVIOUS
<1>15. End(io.todo, vs) = v /\ \A i \in DOMAIN vs : vs[i] = v
  BY <1>4, <1>12, <1>14 DEF End
<1>16. Certified(D, own, pos, vs)
  BY <1>8, <1>9, <1>10, <1>11, <1>13, <1>15 DEF Certified
<1> QED BY <1>16

(* MinFat keeps its invariant.                                             *)
THEOREM MinFatInvariant == Spec => []Inv
<1>1. Init => Inv
  BY InitTyped, InitCertified DEF Inv, VolumeInv
<1>2. Inv /\ [Next]_vars => Inv'
  BY InvKept
<1> QED BY <1>1, <1>2, PTL DEF Spec
-----------------------------------------------------------------------------
(* What follows from it.                                                   *)

(* LoadROM tells the truth about the card until a step goes wrong; of a    *)
(* sector that only FileSize claims it says nothing.                       *)
THEOREM RomRight == Spec => []RomTrue
<1>1. Inv => RomTrue
  <2> SUFFICES ASSUME Inv, faults = 0 PROVE RomTrue
    BY DEF RomTrue
  <2>1. Kicked
    BY DEF Inv, VolumeInv, Certified
  <2>2. CASE kick = "none"
    BY <2>2 DEF RomTrue
  <2> QED BY <2>1, <2>2 DEF Kicked
<1> QED BY <1>1, MinFatInvariant, PTL

(* A sector that is not written any more stays as it is.                   *)
Past(ws, s, m) == \A i \in m..Len(ws) : ws[i].lba # s
Sized(vs) == \A i \in DOMAIN vs : DOMAIN vs[i] = Lba

LEMMA Steady ==
  ASSUME NEW v, NEW ws \in Writes, NEW vs, Trace(v, ws, vs), Sized(vs),
         NEW s \in Lba, NEW m \in 1..(Len(ws) + 1), Past(ws, s, m)
  PROVE  End(ws, vs)[s] = vs[m][s]
<1>1. PICK n : n = Len(ws)
  OBVIOUS
<1>2. n \in Nat
  BY <1>1 DEF Writes
<1>3. /\ DOMAIN vs = 1..(n + 1)
      /\ \A i \in 1..n : ws[i].lba \in Lba /\ vs[i + 1] = [vs[i] EXCEPT ![ws[i].lba] = ws[i].b]
  BY <1>1 DEF Trace
<1> DEFINE Bad == {i \in m..(n + 1) : vs[i][s] # vs[m][s]}
<1>4. Bad \subseteq Nat
  BY <1>1, <1>2
<1>5. ASSUME Bad # {} PROVE FALSE
  <2>1. PICK k : k = FirstOf(Bad)
    OBVIOUS
  <2>2. k \in Bad /\ \A y \in Bad : k <= y
    BY <1>4, <1>5, <2>1, Least
  <2>3. k \in m..(n + 1) /\ vs[k][s] # vs[m][s]
    BY <2>2
  <2>4. k # m
    BY <2>3
  <2>5. k - 1 \in m..n /\ k - 1 \in 1..n /\ k - 1 + 1 = k /\ ~(k <= k - 1)
    BY <1>1, <1>2, <2>3, <2>4
  <2>6. k - 1 \notin Bad
    BY <2>2, <2>5
  <2>7. vs[k - 1][s] = vs[m][s]
    BY <1>2, <2>5, <2>6
  <2>8. ws[k - 1].lba # s
    BY <1>1, <2>5 DEF Past
  <2>9. vs[k] = [vs[k - 1] EXCEPT ![ws[k - 1].lba] = ws[k - 1].b]
    BY <1>3, <2>5
  <2>10. k - 1 \in DOMAIN vs
    BY <1>2, <1>3, <2>5
  <2> QED BY <2>3, <2>7, <2>8, <2>9, <2>10 DEF Sized
<1>6. n + 1 \in m..(n + 1)
  BY <1>1, <1>2
<1> QED BY <1>1, <1>5, <1>6 DEF End

LEMMA Greatest ==
  ASSUME NEW n \in Nat, NEW S, S \subseteq 1..n, S # {}
  PROVE  \E m \in S : \A j \in S : j <= m
<1> DEFINE T == {n - i : i \in S}
<1>1. \A i \in S : i \in Int /\ n - i \in Nat /\ n - i \in T
  OBVIOUS
<1>2. PICK t : t = FirstOf(T)
  OBVIOUS
<1>3. T \subseteq Nat
  BY <1>1
<1>4. T # {}
  BY <1>1
<1>5. t \in T /\ \A y \in T : t <= y
  BY <1>2, <1>3, <1>4, Least
<1>6. PICK m \in S : t = n - m
  BY <1>5
<1>7. ASSUME NEW j \in S PROVE j <= m
  <2>1. n - m <= n - j
    BY <1>1, <1>5, <1>6
  <2> QED BY <1>1, <2>1
<1> QED BY <1>7

LEMMA EndAt ==
  ASSUME CardTyped, io \in IoType, NEW vs, Trace(card, io.todo, vs),
         Sized(vs), NEW s \in Lba
  PROVE  End(io.todo, vs)[s] = Landed(s)
<1>1. PICK ws, n : ws = io.todo /\ n = Len(ws)
  OBVIOUS
<1>2. ws \in Writes /\ n \in Nat /\ DOMAIN ws = 1..n
  BY <1>1 DEF IoType, Writes
<1>3. /\ DOMAIN vs = 1..(n + 1) /\ vs[1] = card
      /\ \A i \in 1..n : ws[i].lba \in Lba /\ vs[i + 1] = [vs[i] EXCEPT ![ws[i].lba] = ws[i].b]
  BY <1>1 DEF Trace
<1>4. PICK P : P = Pending(s)
  OBVIOUS
<1>5. P = {i \in 1..n : ws[i].lba = s}
  BY <1>1, <1>2, <1>4 DEF Pending
<1>6. CASE P = {}
  <2>1. 1 \in 1..(n + 1) /\ Past(ws, s, 1)
    BY <1>1, <1>2, <1>5, <1>6 DEF Past
  <2>2. End(ws, vs)[s] = vs[1][s]
    BY <1>1, <1>2, <2>1, Steady
  <2> QED BY <1>1, <1>3, <1>4, <1>6, <2>2 DEF Landed, OnCard
<1>7. CASE P # {}
  <2>1. PICK m : m = CHOOSE i \in P : \A j \in P : j <= i
    OBVIOUS
  <2>2. \E i \in P : \A j \in P : j <= i
    BY <1>2, <1>5, <1>7, Greatest
  <2>3. m \in P /\ \A j \in P : j <= m
    BY <2>1, <2>2
  <2>4. m \in 1..n /\ ws[m].lba = s /\ m + 1 \in 1..(n + 1)
    BY <1>2, <1>5, <2>3
  <2>5. Past(ws, s, m + 1)
    BY <1>1, <1>2, <1>5, <2>3, <2>4 DEF Past
  <2>6. End(ws, vs)[s] = vs[m + 1][s]
    <3>1. PICK k : k = m + 1
      OBVIOUS
    <3>2. k \in 1..(Len(ws) + 1) /\ Past(ws, s, k) /\ Trace(card, ws, vs)
      BY <1>1, <2>4, <2>5, <3>1
    <3> QED BY <1>2, <3>1, <3>2, Steady
  <2>7. m \in DOMAIN vs
    BY <1>2, <1>3, <2>4
  <2>8. vs[m + 1] = [vs[m] EXCEPT ![s] = ws[m].b]
    BY <1>3, <2>4
  <2>9. vs[m + 1][s] = ws[m].b
    BY <2>7, <2>8 DEF Sized
  <2>10. Landed(s) = ws[m].b
    BY <1>1, <1>4, <1>7, <2>1 DEF Landed
  <2> QED BY <1>1, <2>6, <2>9, <2>10
<1> QED BY <1>6, <1>7

(* sector_buffer holds what the card will hold where its label points.     *)
THEOREM CacheRight == Spec => []CacheTrue
<1>1. Inv => CacheTrue
  <2> SUFFICES ASSUME Inv, faults = 0, io.cached \in FatSectors, Watching
               PROVE  io.buf.kind = "fat" /\ io.buf = Landed(io.cached)
    BY DEF CacheTrue, Watching
  <2>1. PICK D, own, pos, vs : Certified(D, own, pos, vs)
    BY DEF Inv, VolumeInv
  <2>2. PICK s, w : s = io.cached /\ w = End(io.todo, vs)
    OBVIOUS
  <2>3. CardTyped /\ io \in IoType
    BY DEF Inv, TypeInv
  <2>4. Trace(card, io.todo, vs)
    BY <2>1 DEF Certified
  <2>5. \A i \in DOMAIN vs : Formatted(vs[i])
    BY <2>1 DEF Certified, Good
  <2>6. Sized(vs)
    BY <2>5, VolumeTypes DEF Sized
  <2>7. s \in FatArea /\ s \in Lba
    BY <2>2, Areas
  <2>8. w[s] = Landed(s)
    BY <2>2, <2>3, <2>4, <2>6, <2>7, EndAt
  <2>9. io.buf = w[s]
    BY <2>1, <2>2 DEF Certified, AtEnd, Buffered
  <2>10. Formatted(w)
    <3>1. Len(io.todo) \in Nat /\ Len(io.todo) + 1 \in 1..(Len(io.todo) + 1)
      BY <2>3 DEF IoType
    <3> QED BY <2>2, <2>4, <2>5, <3>1 DEF Trace, End
  <2>11. w[s].kind = "fat"
    BY <2>7, <2>10, FatTyped
  <2> QED BY <2>2, <2>8, <2>9, <2>11
<1> QED BY <1>1, MinFatInvariant, PTL
-----------------------------------------------------------------------------
(* The entries that count, on the card as it is.                           *)

LEMMA LinkHere ==
  ASSUME Formatted(card), NEW L, L = LinksOf(card), NEW c \in Clusters
  PROVE  FatLink(c) = L[c] /\ L[c] \in Link /\ c \in Links
<1>1. c \in Links
  BY ConstantTypes DEF Links, Clusters
<1> QED BY <1>1, LinkOf DEF FatLink

(* Now, on the card: L and R are what it holds, S the files that count.    *)
Present(L, R, D, own, pos, S) ==
  /\ Layout(L, R, D, own, pos) /\ FilesOK(L, R, D, own, pos, S) /\ NamesOK(R, S)
  /\ KeptOK(R, S, torn, kept) /\ S \subseteq FileSlots(R)
  /\ LiveEntries \subseteq S
  /\ \A p \in S : Ent(R, p).name \notin torn
                    /\ ~(call.fn = "delete" /\ call.name = Ent(R, p).name) => p \in LiveEntries
  /\ \A n \in Names \ torn : call.fn = "delete" /\ call.name = n => kept[n] = -1
  /\ Quiet => S = FileSlots(R) /\ LiveEntries = S /\ NoneLost(card, L, R, D, call, file)

LEMMA PresentNow ==
  ASSUME Inv, faults = 0, NEW L, L = LinksOf(card), NEW R, R = PlainOf(card)
  PROVE  Formatted(card) /\ \E D, own, pos, S : Present(L, R, D, own, pos, S)
<1>1. PICK D, own, pos, vs : Certified(D, own, pos, vs)
  BY DEF Inv, VolumeInv
<1>2. Good(card, D, own, pos, Victim, torn, kept) /\ Alike(card, call, file)
  <2>1. Len(io.todo) \in Nat
    BY DEF Inv, TypeInv, IoType
  <2>2. 1 \in 1..(Len(io.todo) + 1)
    BY <2>1
  <2> QED BY <1>1, <2>2 DEF Certified, Trace
<1>3. PICK S : S = Counting(R, Victim, torn)
  OBVIOUS
<1>4. /\ Formatted(card) /\ Layout(L, R, D, own, pos) /\ FilesOK(L, R, D, own, pos, S)
      /\ NamesOK(R, S) /\ KeptOK(R, S, torn, kept)
  BY <1>2, <1>3 DEF Good, Sound
<1>5. Slot = DirSlots(R) /\ \A p \in Slot : EntryAt(p) = Ent(R, p)
  BY <1>4, SlotsHere
<1>6. S \subseteq FileSlots(R) /\ FileSlots(R) \subseteq DirSlots(R)
  BY <1>3 DEF Counting, FileSlots
<1>7. LiveEntries \subseteq S
  <2> SUFFICES ASSUME NEW p \in LiveEntries PROVE p \in S
    OBVIOUS
  <2>1. p \in DirSlots(R) /\ EntryAt(p) = Ent(R, p) /\ Live(p)
    BY <1>5 DEF LiveEntries
  <2>2. p \in FileSlots(R) /\ Ent(R, p).name \notin torn /\ Ent(R, p).name \notin Free
    BY <2>1 DEF Live, FileSlots
  <2>3. p # Victim
    <3>1. CASE call.fn = "delete"
      <4>1. Ent(R, p).name # call.name /\ Ent(R, p).name # "deleted"
        BY <2>1, <2>2, <3>1 DEF Live, Free
      <4> QED BY <1>2, <3>1, <4>1 DEF Alike, Victim
    <3>2. CASE call.fn # "delete"
      BY <2>1, <3>2, NotNobody DEF Victim, VictimOf
    <3> QED BY <3>1, <3>2
  <2> QED BY <1>3, <2>2, <2>3 DEF Counting
<1>8. ASSUME NEW p \in S, Ent(R, p).name \notin torn,
             ~(call.fn = "delete" /\ call.name = Ent(R, p).name)
      PROVE  p \in LiveEntries
  BY <1>5, <1>6, <1>8 DEF LiveEntries, Live, FileSlots
<1>9. AtEnd(End(io.todo, vs), D, own, pos)
  BY <1>1 DEF Certified
<1>10. \A n \in Names \ torn : call.fn = "delete" /\ call.name = n => kept[n] = -1
  BY <1>9 DEF AtEnd, Calling, Deleting
<1>11. ASSUME Quiet
       PROVE  S = FileSlots(R) /\ LiveEntries = S /\ NoneLost(card, L, R, D, call, file)
  <2>1. QuietAt(D, own, pos) /\ call.fn = "none" /\ crashes = 0
    BY <1>1, <1>11, Rested DEF Quiet
  <2>2. torn = {} /\ NoneLost(card, L, R, D, call, file)
    BY <2>1 DEF QuietAt, AtEnd
  <2>3. Victim = Nobody
    BY <2>1 DEF Victim, VictimOf
  <2>4. S = FileSlots(R)
    BY <1>3, <1>6, <2>2, <2>3, NotNobody DEF Counting
  <2>5. \A p \in S : p \in LiveEntries
    BY <1>8, <2>1, <2>2
  <2> QED BY <1>7, <2>2, <2>4, <2>5
<1>12. \A p \in S : Ent(R, p).name \notin torn
                    /\ ~(call.fn = "delete" /\ call.name = Ent(R, p).name) => p \in LiveEntries
  BY <1>8
<1>13. Present(L, R, D, own, pos, S)
  BY <1>4, <1>6, <1>7, <1>10, <1>11, <1>12 DEF Present
<1> QED BY <1>4, <1>13

(* The walk of ClusterOf along a chain of n links is what it defines.      *)
Onward(x) == IF x \in Clusters THEN FatLink(x) ELSE 0
IsWalk(g, first, n) == g = [j \in 0..n |-> IF j = 0 THEN first ELSE Onward(g[j - 1])]

LEMMA WalkGrows ==
  ASSUME NEW g, NEW first, NEW n \in Nat, IsWalk(g, first, n)
  PROVE  \E h : IsWalk(h, first, n + 1)
<1>1. PICK h : h = [j \in 0..(n + 1) |-> IF j \in 0..n THEN g[j] ELSE Onward(g[n])]
  OBVIOUS
<1>2. ASSUME NEW j \in 0..(n + 1) PROVE h[j] = IF j = 0 THEN first ELSE Onward(h[j - 1])
  <2>1. CASE j = 0
    <3>1. h[j] = g[j] /\ g[j] = first
      BY <1>1, <2>1 DEF IsWalk
    <3> QED BY <2>1, <3>1
  <2>2. CASE j \in 1..n
    <3>1. j \in 0..n /\ j - 1 \in 0..n /\ j # 0 /\ j - 1 \in 0..(n + 1)
      BY <2>2
    <3>2. h[j] = g[j] /\ h[j - 1] = g[j - 1]
      BY <1>1, <3>1
    <3>3. g[j] = Onward(g[j - 1])
      BY <3>1 DEF IsWalk
    <3> QED BY <3>1, <3>2, <3>3
  <2>3. CASE j = n + 1
    <3>1. j \notin 0..n /\ j # 0 /\ j - 1 = n /\ n \in 0..n /\ n \in 0..(n + 1)
      BY <2>3
    <3>2. h[j] = Onward(g[n]) /\ h[n] = g[n]
      BY <1>1, <3>1
    <3> QED BY <3>1, <3>2
  <2> QED BY <2>1, <2>2, <2>3
<1>3. h = [j \in 0..(n + 1) |-> h[j]]
  BY <1>1
<1>4. h = [j \in 0..(n + 1) |-> IF j = 0 THEN first ELSE Onward(h[j - 1])]
  BY <1>2, <1>3
<1>5. IsWalk(h, first, n + 1)
  BY <1>4 DEF IsWalk
<1> QED BY <1>5

LEMMA WalkIs ==
  ASSUME NEW first, NEW n \in Nat
  PROVE  \E g : IsWalk(g, first, n)
<1> DEFINE Bad == {k \in Nat : ~\E g : IsWalk(g, first, k)}
<1>1. ASSUME Bad # {} PROVE FALSE
  <2>1. PICK k : k = FirstOf(Bad)
    OBVIOUS
  <2>2. k \in Bad /\ \A y \in Bad : k <= y
    BY <1>1, <2>1, Least
  <2>3. k # 0
    <3>1. PICK g : g = [j \in 0..0 |-> first]
      OBVIOUS
    <3>2. g = [j \in 0..0 |-> IF j = 0 THEN first ELSE Onward(g[j - 1])]
      BY <3>1
    <3>3. IsWalk(g, first, 0)
      BY <3>2 DEF IsWalk
    <3> QED BY <2>2, <3>3
  <2>4. k - 1 \in Nat /\ ~(k <= k - 1) /\ k - 1 + 1 = k
    BY <2>2, <2>3
  <2>5. PICK g : IsWalk(g, first, k - 1)
    BY <2>2, <2>4
  <2>6. PICK i \in Nat : i = k - 1 /\ i + 1 = k
    BY <2>4
  <2>7. \E h : IsWalk(h, first, i + 1)
    BY <2>5, <2>6, WalkGrows
  <2> QED BY <2>2, <2>6, <2>7
<1>2. n \notin Bad
  BY <1>1
<1> QED BY <1>2

LEMMA ClusterIs ==
  ASSUME NEW first, NEW k \in Nat
  PROVE  \E g : IsWalk(g, first, k) /\ ClusterOf(first, k) = g[k \div cluster_size]
<1>1. PICK g : g = CHOOSE at : IsWalk(at, first, k)
  OBVIOUS
<1>2. IsWalk(g, first, k)
  BY <1>1, WalkIs
<1>3. g = CHOOSE at : at = [j \in 0..k |-> IF j = 0 THEN first
                        ELSE IF at[j - 1] \in Clusters THEN FatLink(at[j - 1]) ELSE 0]
  BY <1>1 DEF IsWalk, Onward
<1>4. ClusterOf(first, k) = g[k \div cluster_size]
  BY <1>3 DEF ClusterOf
<1> QED BY <1>2, <1>4
-----------------------------------------------------------------------------
(* The sectors of a file that counts are where its chain leads.            *)
LeadsTo(L, D, own, pos, p, f, c, j) ==
  c \in Clusters \ D /\ own[c] = p /\ pos[c] = j /\ (c = f \/ Linked(L, D, c))

LEMMA Within ==
  ASSUME NEW k \in Nat, NEW q, q = k \div cluster_size
  PROVE  /\ q \in Nat /\ q \in 0..k /\ k % cluster_size \in 0..(cluster_size - 1)
         /\ cluster_size * q + (k % cluster_size) = k
         /\ \A j \in Nat : j + 1 <= q => cluster_size * (j + 1) <= k
<1>1. PICK m \in Nat : m = cluster_size /\ m > 0
  BY ConstantTypes
<1>2. /\ k \div m \in Nat /\ k % m \in 0..(m - 1) /\ m * (k \div m) + (k % m) = k
      /\ k \div m <= k
  BY <1>1, Z3
<1>3. q \in Nat /\ q \in 0..k
  BY <1>1, <1>2
<1>4. ASSUME NEW j \in Nat, j + 1 <= q PROVE m * (j + 1) <= k
  <2>1. m * (j + 1) <= m * q
    BY <1>1, <1>3, <1>4, Z3
  <2>2. m * q <= k
    BY <1>1, <1>2
  <2>3. m * (j + 1) \in Nat /\ m * q \in Nat
    BY <1>1, <1>3, Z3
  <2> QED BY <2>1, <2>2, <2>3
<1> QED BY <1>1, <1>2, <1>3, <1>4

LEMMA WalkLeads ==
  ASSUME Formatted(card), NEW L, L = LinksOf(card), NEW R, NEW D, NEW own, NEW pos,
         Layout(L, R, D, own, pos), NEW p, NEW f, NEW size \in Nat, NEW n,
         FileOK(L, R, D, own, pos, p, f, size, n), NEW k \in Nat, k < size,
         NEW g, IsWalk(g, f, k), NEW q, q = k \div cluster_size
  PROVE  LeadsTo(L, D, own, pos, p, f, g[q], q)
<1>1. /\ q \in Nat /\ q \in 0..k
      /\ \A j \in Nat : j + 1 <= q => cluster_size * (j + 1) <= k
  BY Within
<1>2. f # 0
  BY DEF FileOK
<1>3. LeadsTo(L, D, own, pos, p, f, f, 0)
  BY <1>2 DEF FileOK, LeadsTo
<1>4. \A j \in 0..k : g[j] = IF j = 0 THEN f ELSE Onward(g[j - 1])
  BY DEF IsWalk
<1>5. ASSUME NEW j \in Nat, j + 1 <= q, LeadsTo(L, D, own, pos, p, f, g[j], j)
      PROVE  LeadsTo(L, D, own, pos, p, f, g[j + 1], j + 1)
  <2>1. PICK c : c = g[j]
    OBVIOUS
  <2>2. c \in Clusters \ D /\ own[c] = p /\ pos[c] = j /\ (c = f \/ Linked(L, D, c))
    BY <1>5, <2>1 DEF LeadsTo
  <2>3. cluster_size * (j + 1) <= k
    BY <1>1, <1>5
  <2>4. cluster_size * (pos[c] + 1) < size
    <3>1. PICK m \in Nat : m = cluster_size * (j + 1)
      BY ConstantTypes, Z3
    <3> QED BY <2>2, <2>3, <3>1
  <2>5. IsLink(L[c])
    BY <2>2, <2>4 DEF FileOK
  <2>6. L[c] \in Clusters \ D /\ own[L[c]] = p /\ pos[L[c]] = j + 1
    BY <2>2, <2>5 DEF Layout, ChainsOK
  <2>7. Linked(L, D, L[c])
    BY <2>2 DEF Linked
  <2>8. g[j + 1] = L[c]
    <3>1. j + 1 \in 0..k /\ j + 1 # 0 /\ j + 1 - 1 = j
      BY <1>1, <1>5
    <3>2. g[j + 1] = Onward(c)
      BY <1>4, <2>1, <3>1
    <3> QED BY <2>2, <3>2, LinkHere DEF Onward
  <2> QED BY <2>6, <2>7, <2>8 DEF LeadsTo
<1> DEFINE Bad == {j \in 0..q : ~LeadsTo(L, D, own, pos, p, f, g[j], j)}
<1>6. g[0] = f
  BY <1>1, <1>4
<1>7. Bad \subseteq Nat
  BY <1>1
<1>8. ASSUME Bad # {} PROVE FALSE
  <2>1. PICK j : j = FirstOf(Bad)
    OBVIOUS
  <2>2. j \in Bad /\ \A y \in Bad : j <= y
    BY <1>7, <1>8, <2>1, Least
  <2>3. j \in 0..q /\ ~LeadsTo(L, D, own, pos, p, f, g[j], j)
    BY <2>2
  <2>4. j # 0
    BY <1>3, <1>6, <2>3
  <2>5. PICK i \in Nat : i + 1 = j /\ i \in 0..q /\ i + 1 <= q /\ ~(j <= i)
    <3>1. j - 1 \in Nat /\ j - 1 + 1 = j /\ j - 1 \in 0..q /\ j <= q /\ ~(j <= j - 1)
      BY <1>1, <2>3, <2>4
    <3> QED BY <3>1
  <2>6. i \notin Bad
    BY <2>2, <2>5
  <2>7. LeadsTo(L, D, own, pos, p, f, g[i], i)
    BY <2>5, <2>6
  <2>8. LeadsTo(L, D, own, pos, p, f, g[i + 1], i + 1)
    BY <1>5, <2>5, <2>7
  <2> QED BY <2>3, <2>5, <2>8
<1>9. q \in 0..q
  BY <1>1
<1> QED BY <1>8, <1>9

LEMMA ChainHolds ==
  ASSUME Formatted(card), NEW L, L = LinksOf(card), NEW R, R = PlainOf(card), NEW D, NEW own, NEW pos,
         Layout(L, R, D, own, pos), NEW p, NEW f, NEW size \in Nat, NEW n,
         FileOK(L, R, D, own, pos, p, f, size, n), NEW k \in Nat, k < size
  PROVE  OnCard(ClusterLba(ClusterOf(f, k)) + (k % cluster_size)) = Token(n, k)
<1>1. PICK q, i : q = k \div cluster_size /\ i = k % cluster_size
  OBVIOUS
<1>2. PICK g : IsWalk(g, f, k) /\ ClusterOf(f, k) = g[q]
  BY <1>1, ClusterIs
<1>3. PICK c : c = g[q]
  OBVIOUS
<1>4. LeadsTo(L, D, own, pos, p, f, c, q)
  BY <1>1, <1>2, <1>3, WalkLeads
<1>5. /\ q \in Nat /\ i \in 0..(cluster_size - 1) /\ cluster_size * q + i = k
  BY <1>1, Within
<1>6. c \in Clusters \ D /\ own[c] = p /\ pos[c] = q /\ (c = f \/ Linked(L, D, c))
  BY <1>4 DEF LeadsTo
<1>7. cluster_size * pos[c] + i = k
  BY <1>5, <1>6
<1>8. R[ClusterLba(c) + i] = Token(n, k)
  BY <1>5, <1>6, <1>7 DEF FileOK
<1>9. ClusterLba(c) + i \in Lba \ FatArea
  BY <1>5, <1>6, ClusterPlace
<1>10. OnCard(ClusterLba(c) + i) = R[ClusterLba(c) + i]
  BY <1>9 DEF OnCard, PlainOf
<1> QED BY <1>1, <1>2, <1>3, <1>8, <1>10

(* A file that was closed stays, and no entry counts a sector that was not *)
(* written, until a read or a write fails or a program goes on behind the  *)
(* end of its file.                                                        *)
THEOREM FilesStayKept == Spec => []FilesKept
<1>1. Inv => FilesKept
  <2> SUFFICES ASSUME Inv, faults = 0
               PROVE  /\ \A p \in LiveEntries : \A k \in 0..(EntryAt(p).size - 1) : Holds(p, k)
                      /\ \A n \in Names \ torn :
                           LET named == {p \in LiveEntries : EntryAt(p).name = n} IN
                           /\ Cardinality(named) <= 1
                           /\ kept[n] # -1 => \E p \in named : EntryAt(p).size >= kept[n]
    BY DEF FilesKept
  <2>1. PICK L, R : L = LinksOf(card) /\ R = PlainOf(card)
    OBVIOUS
  <2>2. Formatted(card) /\ \E D, own, pos, S : Present(L, R, D, own, pos, S)
    BY <2>1, PresentNow
  <2>3. PICK D, own, pos, S : Present(L, R, D, own, pos, S)
    BY <2>2
  <2>4. \A p \in LiveEntries : p \in S /\ p \in DirSlots(R) /\ EntryAt(p) = Ent(R, p)
    <3>1. LiveEntries \subseteq S /\ LiveEntries \subseteq Slot
      BY <2>3 DEF Present, LiveEntries
    <3> QED BY <2>1, <2>2, <3>1, SlotsHere
  <2>5. ASSUME NEW p \in LiveEntries, NEW k \in 0..(EntryAt(p).size - 1) PROVE Holds(p, k)
    <3>1. PICK e : e = EntryAt(p)
      OBVIOUS
    <3>2. e = Ent(R, p) /\ p \in S /\ p \in DirSlots(R)
      BY <2>4, <3>1
    <3>3. FileOK(L, R, D, own, pos, p, e.first, e.size, e.name) /\ Layout(L, R, D, own, pos)
      BY <2>3, <3>2 DEF Present, FilesOK
    <3>4. e.size \in Nat
      BY <2>1, <2>2, <3>2, EntrySize
    <3>5. k \in Nat /\ k < e.size
      BY <3>1, <3>4
    <3>6. PICK f, size, n : f = e.first /\ size = e.size /\ n = e.name
      OBVIOUS
    <3>7. OnCard(ClusterLba(ClusterOf(f, k)) + (k % cluster_size)) = Token(n, k)
      BY <2>1, <2>2, <3>3, <3>4, <3>5, <3>6, ChainHolds
    <3> QED BY <3>1, <3>6, <3>7 DEF Holds
  <2>6. ASSUME NEW n \in Names \ torn, NEW named, named = {p \in LiveEntries : EntryAt(p).name = n}
        PROVE  /\ Cardinality(named) <= 1
               /\ kept[n] # -1 => \E p \in named : EntryAt(p).size >= kept[n]
    <3>1. \A p, q \in named : p = q
      BY <2>3, <2>4, <2>6 DEF Present, NamesOK
    <3>2. Cardinality(named) <= 1
      <4>1. CASE named = {}
        BY <4>1, FS_EmptySet
      <4>2. CASE named # {}
        <5>1. PICK p : named = {p}
          BY <3>1, <4>2
        <5> QED BY <5>1, FS_Singleton
      <4> QED BY <4>1, <4>2
    <3>3. ASSUME kept[n] # -1 PROVE \E p \in named : EntryAt(p).size >= kept[n]
      <4>1. PICK p \in S : Ent(R, p).name = n /\ Ent(R, p).size >= kept[n]
        BY <2>3, <3>3 DEF Present, KeptOK
      <4>2. ~(call.fn = "delete" /\ call.name = n)
        BY <2>3, <3>3 DEF Present
      <4>3. p \in LiveEntries
        BY <2>3, <4>1, <4>2 DEF Present
      <4> QED BY <2>4, <2>6, <4>1, <4>3
    <3> QED BY <3>2, <3>3
  <2> QED BY <2>5, <2>6
<1> QED BY <1>1, MinFatInvariant, PTL
-----------------------------------------------------------------------------
(* What is named is named once.                                            *)

LEMMA SameSize ==
  ASSUME NEW S, NEW T, IsFiniteSet(T), NEW g, g = [x \in S |-> g[x]],
         \A x \in S : g[x] \in T, \A x, y \in S : g[x] = g[y] => x = y
  PROVE  IsFiniteSet(S) /\ Cardinality({g[x] : x \in S}) = Cardinality(S)
<1> DEFINE U == {g[x] : x \in S}
<1>1. g \in Injection(S, T) /\ g \in Surjection(S, U)
  BY DEF Injection, IsInjective, Surjection
<1>2. IsFiniteSet(S)
  BY <1>1, FS_Injection
<1>3. ExistsBijection(S, U)
  BY <1>1 DEF ExistsBijection, Bijection, Injection, Surjection
<1>4. Cardinality(U) = Cardinality(S)
  BY <1>2, <1>3, FS_Bijection
<1> QED BY <1>2, <1>4

LEMMA TwoSizes ==
  ASSUME NEW S, NEW T, IsFiniteSet(S), IsFiniteSet(T), S \cap T = {}
  PROVE  Cardinality(S \cup T) = Cardinality(S) + Cardinality(T)
<1>1. Cardinality(S \cup T) = Cardinality(S) + Cardinality(T) - Cardinality(S \cap T)
  BY FS_Union
<1>2. Cardinality(S \cap T) = 0
  BY FS_EmptySet
<1>3. Cardinality(S) \in Nat /\ Cardinality(T) \in Nat
  BY FS_CardinalityType
<1> QED BY <1>1, <1>2, <1>3

LEMMA LinkKinds ==
  ASSUME NEW x \in Clusters
  PROVE  x # 0 /\ ~EndMark(x) /\ IsLink(x) /\ (~FAT32 => x # root_directory_cluster)
<1>1. x # 0 /\ ~EndMark(x)
  <2>1. x \in Nat /\ x >= 2 /\ x <= CLUSTERS + 1 /\ CLUSTERS \in Nat
    BY ConstantTypes DEF Clusters
  <2>2. PICK m \in Nat : m = fat_size * EPS
    BY Products
  <2>3. EOC \in Nat /\ EOC > m + 8 /\ m >= CLUSTERS + 2
    BY <2>2, ConstantTypes
  <2> QED BY <2>1, <2>2, <2>3 DEF EndMark
<1> QED BY <1>1 DEF IsLink, root_directory_cluster

LEMMA EndNotNone ==
  ASSUME NEW x \in Link, EndMark(x)
  PROVE  x # 0
<1>1. PICK m \in Nat : m = fat_size * EPS
  BY Products
<1>2. EOC \in Nat /\ EOC > m + 8
  BY <1>1, ConstantTypes
<1> QED BY <1>2 DEF EndMark

(* A link leads to an allocated cluster, and no two lead to the same one.  *)
LEMMA LinkedOnce ==
  ASSUME Formatted(card), NEW L, L = LinksOf(card), NEW R, NEW D, NEW own, NEW pos,
         DirectoryOK(L, R, D, pos), ChainsOK(L, D, own, pos)
  PROVE  /\ \A c \in Linking : /\ c \in Clusters /\ FatLink(c) = L[c] /\ L[c] \in Clusters
                               /\ L[c] # root_directory_cluster /\ L[L[c]] # 0
         /\ \A c, d \in Linking : L[c] = L[d] => c = d
<1>1. \A c \in Clusters : FatLink(c) = L[c] /\ L[c] \in Link
  BY LinkHere
<1>2. \A c \in Linking : c \in Clusters /\ FatLink(c) = L[c] /\ IsLink(L[c])
  BY <1>1 DEF Linking
<1>3. ASSUME NEW c \in Linking, c \in D
      PROVE  FAT32 /\ L[c] \in D /\ L[c] \in Clusters /\ L[c] # root_directory_cluster
             /\ L[L[c]] # 0 /\ pos[L[c]] = pos[c] + 1
  <2>1. FAT32
    BY <1>2, <1>3, LinkKinds DEF DirectoryOK
  <2>2. D \subseteq Clusters
    BY <2>1 DEF DirectoryOK
  <2>3. L[c] \in D \ {root_directory_cluster} /\ pos[L[c]] = pos[c] + 1
    BY <1>2, <1>3 DEF DirectoryOK, IsLink
  <2>4. L[L[c]] # 0
    <3>1. L[L[c]] \in D \/ EndMark(L[L[c]])
      BY <2>3 DEF DirectoryOK
    <3>2. L[L[c]] \in Link
      BY <1>1, <2>2, <2>3
    <3> QED BY <2>2, <3>1, <3>2, EndNotNone, LinkKinds
  <2> QED BY <2>1, <2>2, <2>3, <2>4
<1>4. ASSUME NEW c \in Linking, c \notin D
      PROVE  /\ L[c] \in Clusters \ D /\ L[c] # root_directory_cluster /\ L[L[c]] # 0
             /\ \A d \in Clusters \ D : L[d] = L[c] => d = c
  <2>1. c \in Clusters \ D /\ IsLink(L[c])
    BY <1>2, <1>4
  <2>2. L[c] \in Clusters \ D /\ L[L[c]] # 0 /\ \A d \in Clusters \ D : L[d] = L[c] => d = c
    BY <2>1 DEF ChainsOK
  <2>3. L[c] # root_directory_cluster
    BY <2>2, LinkKinds DEF DirectoryOK
  <2> QED BY <2>2, <2>3
<1>5. ASSUME NEW c \in Linking, NEW d \in Linking, L[c] = L[d] PROVE c = d
  <2>1. CASE c \in D /\ d \in D
    <3>1. pos[c] \in Nat /\ pos[d] \in Nat /\ (pos[c] = pos[d] => c = d)
      BY <2>1 DEF DirectoryOK
    <3>2. pos[c] + 1 = pos[d] + 1
      BY <1>3, <1>5, <2>1
    <3> QED BY <3>1, <3>2
  <2>2. CASE c \notin D /\ d \notin D
    BY <1>2, <1>4, <1>5, <2>2
  <2> QED BY <1>3, <1>4, <1>5, <2>1, <2>2
<1> QED BY <1>2, <1>3, <1>4, <1>5
-----------------------------------------------------------------------------
(* An entry leads to an allocated cluster, which nothing else names.       *)
LEMMA LedOnce ==
  ASSUME Formatted(card), NEW L, L = LinksOf(card), NEW R, R = PlainOf(card), NEW D, NEW own, NEW pos,
         NEW S, Present(L, R, D, own, pos, S)
  PROVE  /\ \A p \in Owners : LET f == EntryAt(p).first IN
              /\ f \in Clusters /\ f # root_directory_cluster /\ L[f] # 0 /\ own[f] = p
              /\ \A c \in Linking : L[c] # f
         /\ \A p \in LiveEntries : p \in S /\ EntryAt(p) = Ent(R, p)
<1>1. \A p \in LiveEntries : p \in S /\ EntryAt(p) = Ent(R, p)
  BY SlotsHere DEF Present, LiveEntries
<1>2. DirectoryOK(L, R, D, pos) /\ ChainsOK(L, D, own, pos) /\ FilesOK(L, R, D, own, pos, S)
  BY DEF Present, Layout
<1>3. ASSUME NEW p \in Owners, NEW f, f = EntryAt(p).first
      PROVE  /\ f \in Clusters /\ f # root_directory_cluster /\ L[f] # 0 /\ own[f] = p
             /\ \A c \in Linking : L[c] # f
  <2>1. p \in S /\ f = Ent(R, p).first /\ f # 0
    BY <1>1, <1>3 DEF Owners
  <2>2. f \in Clusters \ D /\ L[f] # 0 /\ own[f] = p /\ pos[f] = 0
    BY <1>2, <2>1 DEF FilesOK, FileOK
  <2>3. f # root_directory_cluster
    BY <1>2, <2>2, LinkKinds DEF DirectoryOK
  <2>4. ASSUME NEW c \in Linking, L[c] = f PROVE FALSE
    <3>1. c \in Clusters /\ IsLink(L[c])
      BY LinkHere DEF Linking
    <3>2. CASE c \in D
      BY <1>2, <2>2, <2>4, <3>1, <3>2 DEF DirectoryOK, IsLink
    <3>3. CASE c \notin D
      BY <1>2, <2>2, <2>4, <3>1, <3>3 DEF ChainsOK
    <3> QED BY <3>2, <3>3
  <2> QED BY <2>2, <2>3, <2>4
<1> QED BY <1>1, <1>3

NamedClusters == {FatLink(c) : c \in Linking} \cup {EntryAt(p).first : p \in Owners}

LEMMA NamedOnce ==
  ASSUME Formatted(card), NEW L, L = LinksOf(card), NEW R, R = PlainOf(card), NEW D, NEW own, NEW pos,
         NEW S, Present(L, R, D, own, pos, S)
  PROVE  /\ \A x \in NamedClusters : x \in Clusters \ {root_directory_cluster} /\ FatLink(x) # 0
         /\ Cardinality(NamedClusters) = Cardinality(Linking) + Cardinality(Owners)
<1>1. DirectoryOK(L, R, D, pos) /\ ChainsOK(L, D, own, pos)
  BY DEF Present, Layout
<1>2. /\ \A c \in Linking : /\ c \in Clusters /\ FatLink(c) = L[c] /\ L[c] \in Clusters
                            /\ L[c] # root_directory_cluster /\ L[L[c]] # 0
      /\ \A c, d \in Linking : L[c] = L[d] => c = d
  BY <1>1, LinkedOnce
<1>3. \A p \in Owners : LET f == EntryAt(p).first IN
         /\ f \in Clusters /\ f # root_directory_cluster /\ L[f] # 0 /\ own[f] = p
         /\ \A c \in Linking : L[c] # f
  BY LedOnce
<1>4. \A x \in Clusters : FatLink(x) = L[x]
  BY LinkHere
<1>5. \A x \in NamedClusters : x \in Clusters \ {root_directory_cluster} /\ FatLink(x) # 0
  BY <1>2, <1>3, <1>4 DEF NamedClusters
<1>6. PICK g, h : g = [c \in Linking |-> FatLink(c)] /\ h = [p \in Owners |-> EntryAt(p).first]
  OBVIOUS
<1>7. IsFiniteSet(Clusters)
  BY FS_Interval, ConstantTypes DEF Clusters
<1>8. IsFiniteSet(Linking) /\ Cardinality({g[x] : x \in Linking}) = Cardinality(Linking)
  <2>1. g = [x \in Linking |-> g[x]] /\ \A x \in Linking : g[x] = L[x] /\ g[x] \in Clusters
    BY <1>2, <1>6
  <2>2. \A x, y \in Linking : g[x] = g[y] => x = y
    BY <1>2, <2>1
  <2> QED BY <1>7, <2>1, <2>2, SameSize
<1>9. IsFiniteSet(Owners) /\ Cardinality({h[x] : x \in Owners}) = Cardinality(Owners)
  <2>1. h = [x \in Owners |-> h[x]] /\ \A x \in Owners : h[x] \in Clusters /\ own[h[x]] = x
    BY <1>3, <1>6
  <2>2. \A x, y \in Owners : h[x] = h[y] => x = y
    BY <2>1
  <2> QED BY <1>7, <2>1, <2>2, SameSize
<1>10. PICK A, B : A = {g[x] : x \in Linking} /\ B = {h[x] : x \in Owners}
  OBVIOUS
<1>11. NamedClusters = A \cup B
  BY <1>6, <1>10 DEF NamedClusters
<1>12. A \subseteq Clusters /\ B \subseteq Clusters /\ A \cap B = {}
  BY <1>2, <1>3, <1>6, <1>10
<1>13. IsFiniteSet(A) /\ IsFiniteSet(B)
  BY <1>7, <1>12, FS_Subset
<1>14. Cardinality(NamedClusters) = Cardinality(Linking) + Cardinality(Owners)
  BY <1>8, <1>9, <1>10, <1>11, <1>12, <1>13, TwoSizes
<1> QED BY <1>5, <1>14

LEMMA NoneAstray ==
  ASSUME Formatted(card), NEW L, L = LinksOf(card), NEW R, R = PlainOf(card), NEW D, NEW own, NEW pos,
         NEW S, Present(L, R, D, own, pos, S), Quiet
  PROVE  /\ \A c \in Clusters \ (NamedClusters \cup {root_directory_cluster}) : FatLink(c) = 0
         /\ \A s \in FatSectors, i \in 0..(fat_number - 1) : card[s + i * fat_size] = card[s]
<1>1. /\ S = FileSlots(R) /\ LiveEntries = S /\ NoneLost(card, L, R, D, call, file)
      /\ DirectoryOK(L, R, D, pos) /\ ~Holding(call)
  BY DEF Present, Layout, Quiet, Holding
<1>2. \A c \in Clusters : FatLink(c) = L[c] /\ IsLink(c)
  BY LinkHere, LinkKinds
<1>3. ASSUME NEW d \in Clusters, NEW c \in Clusters, L[d] = c PROVE c \in NamedClusters
  BY <1>2, <1>3 DEF NamedClusters, Linking
<1>4. ASSUME NEW c \in Clusters \ (NamedClusters \cup {root_directory_cluster}) PROVE FatLink(c) = 0
  <2>1. c \notin D
    <3>1. CASE FAT32 /\ c \in D
      BY <1>1, <1>3, <1>4, <3>1 DEF DirectoryOK
    <3>2. CASE ~FAT32 /\ c \in D
      BY <1>1, <1>4, <3>2 DEF DirectoryOK
    <3> QED BY <3>1, <3>2
  <2>2. ~Linked(L, D, c)
    BY <1>3, <1>4 DEF Linked
  <2>3. ASSUME NEW p \in FileSlots(R), Ent(R, p).first = c PROVE FALSE
    <3>1. EntryAt(p).first = c /\ p \in LiveEntries
      BY <1>1, <2>3, LedOnce
    <3>2. p \in Owners
      BY <1>2, <1>4, <3>1 DEF Owners, IsLink
    <3> QED BY <1>4, <3>1, <3>2 DEF NamedClusters
  <2>4. L[c] = 0
    BY <1>1, <1>4, <2>1, <2>2, <2>3 DEF NoneLost
  <2> QED BY <1>2, <1>4, <2>4
<1>5. Mirrored(card)
  BY <1>1 DEF NoneLost
<1> QED BY <1>4, <1>5 DEF Mirrored

LEMMA TypeOK ==
  ASSUME Inv
  PROVE  MinFatTypeOK
<1>1. TypeInv
  BY DEF Inv
<1>2. DOMAIN card = Lba /\ io.cached \in Int
  BY <1>1 DEF TypeInv, CardTyped, IoType
<1>3. /\ mounted \in BOOLEAN /\ call.index \in Nat /\ call.longname \in Names \cup {NoName, "deleted"}
      /\ call.fn \in {"none", "open", "create", "delete", "close", "load"}
      /\ call.step \in {"none", "scan", "alloc", "slot", "release", "unlink", "return", "read"}
  BY <1>1 DEF TypeInv, CallTyped, CallType, RestTyped
<1>4. \A h \in Names : file[h].size \in 0..MaxSectors /\ file[h].first \in Link
  BY <1>1 DEF TypeInv, FileTyped, FileType
<1>5. /\ kick \in {"none", "softkick", "stock"} /\ faults \in Nat
      /\ kept \in [Names -> -1..MaxSectors] /\ torn \subseteq Names
  BY <1>1 DEF TypeInv, RestTyped
<1>6. ASSUME faults = 0
      PROVE  /\ \A i \in DOMAIN io.todo : io.todo[i].lba \in Lba
             /\ \A s \in FatSectors : card[s].kind = "fat" /\ card[s].v \in [0..(EPS - 1) -> Link]
  <2>1. PICK D, own, pos, vs : Certified(D, own, pos, vs)
    BY <1>6 DEF Inv, VolumeInv
  <2>2. DOMAIN io.todo = 1..Len(io.todo)
    BY <1>1 DEF TypeInv, IoType
  <2>3. \A i \in DOMAIN io.todo : io.todo[i].lba \in Lba
    BY <2>1, <2>2 DEF Certified, Trace
  <2>4. Formatted(card)
    BY <1>6, PresentNow
  <2>5. \A s \in FatSectors : s \in FatArea
    BY Areas
  <2> QED BY <2>3, <2>4, <2>5, FatTyped
<1>7. faults > 0 \/ faults = 0
  BY <1>5
<1> QED BY <1>2, <1>3, <1>4, <1>5, <1>6, <1>7 DEF MinFatTypeOK

(* Wherever the power is lost, no chain runs into another; and the FAT and *)
(* the directory agree when a call has ended: until a read or a write      *)
(* fails or a program goes on behind the end of its file.                  *)
THEOREM FatStaysSound == Spec => []FatSound
<1>1. Inv => FatSound
  <2> SUFFICES ASSUME Inv PROVE FatSound
    OBVIOUS
  <2>1. MinFatTypeOK
    BY TypeOK
  <2>2. ASSUME faults = 0, NEW named, named = NamedClusters
        PROVE  /\ \A x \in named : x \in Clusters \ {root_directory_cluster} /\ FatLink(x) # 0
               /\ Cardinality(named) = Cardinality(Linking) + Cardinality(Owners)
               /\ Quiet => \A c \in Clusters \ (named \cup {root_directory_cluster}) : FatLink(c) = 0
               /\ Quiet => \A s \in FatSectors, i \in 0..(fat_number - 1) :
                             card[s + i * fat_size] = card[s]
    <3>1. PICK L, R : L = LinksOf(card) /\ R = PlainOf(card)
      OBVIOUS
    <3>2. Formatted(card) /\ \E D, own, pos, S : Present(L, R, D, own, pos, S)
      BY <2>2, <3>1, PresentNow
    <3>3. PICK D, own, pos, S : Present(L, R, D, own, pos, S)
      BY <3>2
    <3>4. /\ \A x \in named : x \in Clusters \ {root_directory_cluster} /\ FatLink(x) # 0
          /\ Cardinality(named) = Cardinality(Linking) + Cardinality(Owners)
      BY <2>2, <3>1, <3>2, <3>3, NamedOnce
    <3>5. ASSUME Quiet
          PROVE  /\ \A c \in Clusters \ (named \cup {root_directory_cluster}) : FatLink(c) = 0
                 /\ \A s \in FatSectors, i \in 0..(fat_number - 1) : card[s + i * fat_size] = card[s]
      BY <2>2, <3>1, <3>2, <3>3, <3>5, NoneAstray
    <3> QED BY <3>4, <3>5
  <2> QED BY <2>1, <2>2 DEF FatSound, NamedClusters
<1> QED BY <1>1, MinFatInvariant, PTL
=============================================================================
