--------------------------- MODULE SmartFs_proofs ---------------------------
(***************************************************************************)
(* Theorems about SmartFs, for every volume, every set of names and every  *)
(* end of the search for a free cluster, that of the code (0xFF0, behind   *)
(* the FATs) among them.  Where the search leaves the FATs the model ends, *)
(* so the theorems speak of everything up to that step and of the step.    *)
(***************************************************************************)
EXTENDS SmartFs, FiniteSetTheorems, SequenceTheorems, WellFoundedInduction, TLAPS

(* A set of natural numbers that is not empty has a least element. *)
LEMMA MinIsLeast ==
    ASSUME NEW S \in SUBSET Nat, S # {}
    PROVE  Min(S) \in S /\ \A y \in S : Min(S) <= y
<1>1. PICK x \in S : \A y \in S : ~ (<<y, x>> \in OpToRel(<, Nat))
  BY NatLessThanWellFounded, WFMin, Zenon
<1>2. x \in S
  BY <1>1, Zenon
<1>3. \A y \in S : x <= y
  <2> SUFFICES ASSUME NEW y \in S PROVE x <= y
    OBVIOUS
  <2>1. <<y, x>> \in Nat \X Nat /\ ~ (<<y, x>> \in OpToRel(<, Nat))
    <3>1. <<y, x>> \in Nat \X Nat
      BY <1>2
    <3>2. ~ (<<y, x>> \in OpToRel(<, Nat))
      BY <1>1, Zenon
    <3> QED BY <3>1, <3>2, Zenon
  <2>2. ~ (y < x)
    BY <2>1 DEF OpToRel
  <2> QED BY <2>2, <1>2
<1> QED BY <1>2, <1>3 DEF Min

(* The lesser of two natural numbers. *)
LEMMA MinOfTwo ==
    ASSUME NEW m \in Nat, NEW n \in Nat
    PROVE  Min({m, n}) \in {m, n} /\ Min({m, n}) <= m /\ Min({m, n}) <= n
BY MinIsLeast, {m, n} \in SUBSET Nat, {m, n} # {}

Entries == 0 .. FatEntries - 1

(* The facts about the volume that the proofs use. *)
LEMMA Volume ==
    /\ RootEntries \in Nat \ {0} /\ SectorSlots \in Nat \ {0}
    /\ SectorsPerFat \in Nat \ {0} /\ ClusterSize \in Nat \ {0}
    /\ FatEntries \in Nat \ {0} /\ LastCluster \in Nat /\ LastCluster >= 2
    /\ SearchEnd \in Nat /\ SearchEnd >= 3 /\ SearchEnd < 4088
    /\ SearchEnd <= (2 * SectorsPerFat - 1) * FatEntries
    /\ LastCluster < SearchEnd /\ LastCluster < FatEntries
<1>1. /\ RootEntries \in Nat \ {0} /\ SectorSlots \in Nat \ {0}
      /\ SectorsPerFat \in Nat \ {0} /\ ClusterSize \in Nat \ {0}
      /\ FatEntries \in Nat \ {0} /\ LastCluster \in Nat /\ LastCluster >= 2
      /\ LastCluster < FatEntries
      /\ ScanEnd \in Nat /\ LastCluster < ScanEnd /\ ScanEnd < 4088
  BY VolumeAssumption
<1>2. FatEnd \in Nat /\ FatEntries <= FatEnd
  <2>1. FatEnd = FatEntries + 2 * (SectorsPerFat - 1) * FatEntries
    BY <1>1 DEF FatEnd
  <2>2. 2 * (SectorsPerFat - 1) * FatEntries \in Nat
    BY <1>1
  <2> QED BY <1>1, <2>1, <2>2
<1>3. SearchEnd \in {ScanEnd, FatEnd} /\ SearchEnd <= ScanEnd /\ SearchEnd <= FatEnd
  BY <1>1, <1>2 DEF SearchEnd
<1> QED BY <1>1, <1>2, <1>3 DEF FatEnd

(* A quotient, for a divisor that is not a number literal.                  *)
LEMMA Quotient ==
    ASSUME NEW c \in Nat, NEW d \in Nat \ {0}
    PROVE  c \div d \in Nat /\ c % d \in 0 .. d - 1
<1>1. c \div d \in Int /\ c \div d >= 0
  OBVIOUS
<1>2. c % d \in 0 .. d - 1
  OBVIOUS
<1> QED BY <1>1, <1>2

LEMMA QuotientBound ==
    ASSUME NEW c \in Nat, NEW d \in Nat \ {0}, NEW k \in Nat, c < k * d
    PROVE  c \div d < k
BY SMTT(20)

(* Every cluster of the search has its entry in the first sectors. *)
LEMMA EntryPlace ==
    ASSUME NEW c \in Cluster
    PROVE  /\ c \div FatEntries \in Sectors /\ c \div FatEntries + 1 \in Sectors
           /\ c % FatEntries \in Entries
<1> DEFINE K == 2 * SectorsPerFat - 1
<1>1. c \in Nat /\ c < K * FatEntries /\ K \in Nat
  BY Volume DEF Cluster
<1>2. c \div FatEntries \in Nat /\ c % FatEntries \in 0 .. FatEntries - 1
  <2>1. c \in Nat /\ FatEntries \in Nat \ {0}
    BY <1>1, Volume
  <2> QED BY <2>1, Quotient, Zenon
<1>3. c \div FatEntries < K
  <2> HIDE DEF K
  <2> QED BY <1>1, Volume, QuotientBound
<1> QED BY <1>2, <1>3, Volume DEF Sectors, Entries

(* write_fat_entry keeps the FATs a table of entries; read_fat_entry finds  *)
(* one there.                                                               *)
LEMMA EntryTypes ==
    ASSUME NEW f \in FatType, NEW c \in Cluster
    PROVE  /\ Entry(f, c) \in Cluster \cup {4088, EOC}
           /\ NextCluster(f, c) \in Cluster \cup {EndMark}
           /\ \A v \in Cluster \cup {4088, EOC} : WriteEntry(f, c, v) \in FatType
<1>1. Entry(f, c) \in Cluster \cup {4088, EOC}
  <2> DEFINE at == c \div FatEntries
  <2> DEFINE e == c % FatEntries
  <2>1. at \in Sectors /\ e \in Entries
    BY EntryPlace
  <2>2. Entry(f, c) = f[at][e]
    BY DEF Entry
  <2> HIDE DEF at, e
  <2>3. f[at] \in [Entries -> Cluster \cup {4088, EOC}]
    BY <2>1 DEF FatType, Entries
  <2>4. f[at][e] \in Cluster \cup {4088, EOC}
    BY <2>1, <2>3
  <2> QED BY <2>2, <2>4
<1>2. NextCluster(f, c) \in Cluster \cup {EndMark}
  BY <1>1 DEF NextCluster, EOC
<1>3. ASSUME NEW v \in Cluster \cup {4088, EOC}
      PROVE  WriteEntry(f, c, v) \in FatType
  <2> DEFINE sector == [f[c \div FatEntries] EXCEPT ![c % FatEntries] = v]
  <2>1. sector \in [Entries -> Cluster \cup {4088, EOC}]
    BY EntryPlace DEF FatType, Entries
  <2> HIDE DEF sector
  <2>2. \A at : [s \in Sectors |-> IF s \in {at, at + 1} THEN sector ELSE f[s]]
                  \in FatType
    BY <2>1 DEF FatType, Entries
  <2>3. DOMAIN f = Sectors
    BY DEF FatType
  <2> QED BY <2>2, <2>3 DEF WriteEntry, sector
<1> QED BY <1>1, <1>2, <1>3

(* allocate_cluster returns a cluster of the search and keeps the FATs.     *)
LEMMA AllocateTypes ==
    ASSUME NEW f \in FatType, FreeClusters(f) # {}
    PROVE  /\ Min(FreeClusters(f)) \in Cluster \ {0}
           /\ Allocated(f) \in FatType
           /\ \A c \in Cluster : Extended(f, c) \in FatType
<1>1. FreeClusters(f) \in SUBSET Nat /\ FreeClusters(f) \subseteq Cluster \ {0}
  BY Volume DEF FreeClusters, Cluster
<1>2. Min(FreeClusters(f)) \in Cluster \ {0}
  BY <1>1, MinIsLeast
<1>3. Allocated(f) \in FatType
  BY <1>2, EntryTypes DEF Allocated
<1>4. \A c \in Cluster : Extended(f, c) \in FatType
  BY SMTT(60), <1>2, <1>3, EntryTypes DEF Extended
<1> QED BY <1>2, <1>3, <1>4

(* update_file_info changes cluster and size of at most one entry: the one  *)
(* its search finds.                                                        *)
LEMMA UpdatedEntry ==
    ASSUME NEW d \in DirType, file \in Handle, NEW key
    PROVE  /\ Updated(d, key) \in DirType
           /\ \A i \in Slot : Updated(d, key)[i].name = d[i].name
           /\ FoundToChange(d, key) = {} => Updated(d, key) = d
           /\ FoundToChange(d, key) # {} =>
                \A i \in Slot : i # Min(FoundToChange(d, key))
                                    => Updated(d, key)[i] = d[i]
<1>1. CASE FoundToChange(d, key) = {}
  BY <1>1 DEF Updated
<1>2. CASE FoundToChange(d, key) # {}
  <2> DEFINE m == Min(FoundToChange(d, key))
  <2>1. Updated(d, key) =
          [d EXCEPT ![m] = [@ EXCEPT !.first = file.first, !.size = file.size]]
    BY <1>2 DEF Updated
  <2> HIDE DEF m
  <2>2. file.first \in Cluster /\ file.size \in Nat
    BY DEF Handle
  <2> QED BY ZenonT(60), <1>2, <2>1, <2>2 DEF DirType, m
<1> QED BY <1>1, <1>2

LEMMA ClosedEntry ==
    ASSUME TypeOK
    PROVE  /\ Closed(dir) \in DirType
           /\ Closed(Updated(dir, Key[file.name])) \in DirType
<1>1. dir \in DirType /\ file \in Handle
  BY DEF TypeOK
<1> QED BY <1>1, UpdatedEntry DEF Closed

(* What write puts into a cluster and what it keeps for the next.           *)
LEMMA PartTypes ==
    ASSUME TypeOK
    PROVE  /\ Part \in Seq(Unit) /\ Rest \in Seq(Unit)
           /\ Len(Part) \in 0 .. ClusterSize
<1>1. left \in Seq(Unit) /\ Len(left) \in Nat /\ file.size \in Nat
  BY DEF TypeOK, Handle
<1> DEFINE room == ClusterSize - (file.size % ClusterSize)
<1>2. room \in 1 .. ClusterSize
  <2>1. ClusterSize \in Nat \ {0} /\ file.size \in Nat
    BY <1>1, Volume
  <2>2. file.size % ClusterSize \in 0 .. ClusterSize - 1
    BY <2>1, Quotient, Zenon
  <2> QED BY <2>1, <2>2
<1> DEFINE n == Min({Len(left), room})
<1>3. n \in 0 .. Len(left) /\ n \in 0 .. ClusterSize
  <2> HIDE DEF room
  <2>1. n \in {Len(left), room} /\ n <= Len(left) /\ n <= room
    BY <1>1, <1>2, MinOfTwo, Volume
  <2> HIDE DEF n
  <2> QED BY <1>1, <1>2, <2>1, Volume
<1>4. Part = SubSeq(left, 1, n)
  BY DEF Part
<1> HIDE DEF n, room
<1>5. Part \in Seq(Unit) /\ Len(Part) = n
  BY <1>1, <1>3, <1>4, SubSeqProperties
<1>6. Rest \in Seq(Unit)
  BY <1>1, <1>3, <1>5, SubSeqProperties DEF Rest
<1> QED BY <1>3, <1>5, <1>6

-----------------------------------------------------------------------------
(* The steps keep the types.                                                *)
LEMMA InitTypes == Init => TypeOK
<1> SUFFICES ASSUME Init PROVE TypeOK
  OBVIOUS
<1>1. fat \in FatType
  BY Volume DEF Init, EmptyFat, FatType, Sectors, Cluster, EOC
<1>2. dir \in DirType
  BY Volume DEF Init, EmptyDir, Unused, DirType, Cluster
<1>3. data \in DataType
  BY DEF Init, DataType, Unit
<1>4. file \in Handle
  <2>1. AnyName \in Name
    BY NameAssumption DEF AnyName
  <2> QED BY <2>1, Volume DEF Init, NoFile, Handle, Cluster
<1>5. cluster \in Cluster
  BY Volume DEF Init, Cluster
<1> QED BY <1>1, <1>2, <1>3, <1>4, <1>5 DEF Init, TypeOK

(* Back at the prompt the locals of the command are typed.                  *)
LEMMA PromptTypes ==
    ToPrompt => /\ pc' = "prompt" /\ file' \in Handle /\ kind' = "word"
                /\ opened' = 0 /\ shown' \in Seq(Unit)
<1>1. AnyName \in Name
  BY NameAssumption DEF AnyName
<1> QED BY <1>1, Volume DEF ToPrompt, NoFile, Handle, Cluster

(* When a call of write returns, its locals are typed.                      *)
LEMMA ReturnTypes ==
    ASSUME NEW ok, WriteReturns(ok), kind \in {"word", "space"}
    PROVE  /\ pc' \in {"echo", "failed"} /\ kind' \in {"word", "space"}
           /\ cluster' \in Cluster /\ togo' \in Nat /\ left' \in Seq(Unit)
BY Volume DEF WriteReturns, Cluster

(* So they are when it finds no cluster, one way or the other.              *)
LEMMA NoClusterTypes ==
    ASSUME TypeOK, NoCluster
    PROVE  /\ pc' \in {"echo", "failed", "overrun"} /\ kind' \in {"word", "space"}
           /\ cluster' \in Cluster /\ togo' \in Nat /\ left' \in Seq(Unit)
BY ReturnTypes DEF NoCluster, TypeOK, locals

LEMMA DirectoryTypes ==
    ASSUME TypeOK, NEW n \in Name, Format \/ Remove(n) \/ Create(n)
    PROVE  TypeOK'
<1>1. CASE Format
  <2>1. EmptyFat \in FatType
    BY Volume DEF EmptyFat, FatType, Sectors, Cluster, EOC
  <2>2. EmptyDir \in DirType
    BY Volume DEF EmptyDir, Unused, DirType, Cluster
  <2> QED BY <1>1, <2>1, <2>2 DEF Format, TypeOK, locals
<1>2. CASE Remove(n)
  <2>1. [Unused EXCEPT !.name = Deleted]
            \in [name : {Key[m] : m \in Name} \cup {Never, Deleted},
                first : Cluster, size : Nat]
    BY Volume DEF Unused, Cluster
  <2>2. dir' \in DirType
    BY <1>2, <2>1 DEF Remove, TypeOK, DirType
  <2>3. text' \in [Slot -> Seq(Unit)]
    <3>1. PICK m : text' = [text EXCEPT ![m] = <<>>]
      BY <1>2 DEF Remove
    <3>2. text \in [Slot -> Seq(Unit)] /\ <<>> \in Seq(Unit)
      BY DEF TypeOK
    <3> QED BY <3>1, <3>2
  <2> QED BY <1>2, <2>2, <2>3 DEF Remove, TypeOK, locals
<1>3. CASE Create(n)
  <2>1. [Unused EXCEPT !.name = Key[n]]
            \in [name : {Key[m] : m \in Name} \cup {Never, Deleted},
                first : Cluster, size : Nat]
    BY Volume DEF Unused, Cluster
  <2>2. dir' \in DirType
    BY <1>3, <2>1 DEF Create, TypeOK, DirType
  <2>3. file' \in Handle
    BY <1>3, Volume DEF Create, NoFile, Handle, Cluster
  <2> QED BY <1>3, <2>2, <2>3 DEF Create, TypeOK, locals, history
<1> QED BY <1>1, <1>2, <1>3

LEMMA OpenTypes ==
    ASSUME TypeOK, NEW n \in Name, NEW command \in {"echo", "cat"},
           OpenFor(n, command)
    PROVE  TypeOK'
<1> DEFINE i == Min(FoundToOpen(dir, Key[n]))
<1>1. i \in Slot
  BY MinIsLeast, FoundToOpen(dir, Key[n]) \in SUBSET Nat
     DEF OpenFor, FoundToOpen, Slot
<1>2. /\ pc' = command /\ opened' = i
      /\ file' = [name |-> n, first |-> dir[i].first, size |-> dir[i].size,
                  position |-> 0]
      /\ UNCHANGED <<disk, kind, locals, text, shown>>
  BY DEF OpenFor
<1> HIDE DEF i
<1>3. file' \in Handle
  BY <1>1, <1>2 DEF TypeOK, DirType, Handle
<1> QED BY <1>1, <1>2, <1>3 DEF TypeOK, disk, locals

LEMMA GrowTypes ==
    ASSUME TypeOK, NEW step, GrowOrFail(step)
    PROVE  /\ fat' \in FatType /\ cluster' \in Cluster
           /\ \/ step
              \/ /\ pc' \in {"echo", "failed", "overrun"} /\ kind' \in {"word", "space"}
                 /\ togo' \in Nat /\ left' \in Seq(Unit)
<1>1. fat \in FatType /\ cluster \in Cluster /\ kind \in {"word", "space"}
  BY DEF TypeOK
<1>2. CASE FreeClusters(fat) # {}
  BY <1>1, <1>2, AllocateTypes DEF GrowOrFail
<1>3. CASE FreeClusters(fat) = {}
  BY <1>1, <1>3, NoClusterTypes DEF GrowOrFail
<1> QED BY <1>2, <1>3

LEMMA WriteTypes ==
    ASSUME TypeOK, NEW w \in Words \cup {Space},
           StartWrite(w) \/ Seek \/ WriteSector \/ WriteOffVolume
    PROVE  TypeOK'
<1>1. /\ fat \in FatType /\ cluster \in Cluster /\ kind \in {"word", "space"}
      /\ file \in Handle /\ file.size \in Nat /\ file.first \in Cluster
  BY DEF TypeOK, Handle
<1>2. CASE StartWrite(w)
  <2>1. w \in Seq(Unit)
    <3>1. w \in Seq(Nat)
      BY WordsAssumption
    <3> QED BY <3>1 DEF Unit
  <2>2. opened \in Slot
    BY <1>2 DEF StartWrite, TypeOK
  <2>3. CASE file.first # 0 \/ FreeClusters(fat) # {}
    <3> DEFINE c == IF file.first # 0 THEN file.first ELSE Min(FreeClusters(fat))
    <3>1. /\ file' = [file EXCEPT !.first = c]
          /\ fat' = IF file.first # 0 THEN fat ELSE Allocated(fat)
          /\ cluster' = c /\ togo' = EndDistance(file.size) /\ left' = w
          /\ pc' = "write" /\ UNCHANGED kind
      BY <1>2, <2>3 DEF StartWrite
    <3>2. c \in Cluster /\ fat' \in FatType
      BY <1>1, <2>3, <3>1, AllocateTypes
    <3>3. EndDistance(file.size) \in Nat
      <4>1. ClusterSize \in Nat \ {0}
        BY Volume
      <4>2. file.size \div ClusterSize \in Nat
        BY <1>1, <4>1, Quotient, Zenon
      <4> QED BY <4>2 DEF EndDistance
    <3> HIDE DEF c
    <3>4. file' \in Handle
      BY <1>1, <3>1, <3>2 DEF Handle
    <3> QED BY <1>2, <2>1, <2>2, <3>1, <3>2, <3>3, <3>4 DEF StartWrite, TypeOK, history
  <2>4. CASE ~(file.first # 0 \/ FreeClusters(fat) # {})
    <3>1. NoCluster /\ UNCHANGED <<file, fat, dir, data, history>>
      BY <1>2, <2>4 DEF StartWrite
    <3>2. /\ pc' \in {"echo", "failed", "overrun"} /\ kind' \in {"word", "space"}
          /\ cluster' \in Cluster /\ togo' \in Nat /\ left' \in Seq(Unit)
      BY <3>1, NoClusterTypes
    <3> QED BY <2>2, <3>1, <3>2 DEF TypeOK, history
  <2> QED BY <2>3, <2>4
<1>3. CASE Seek
  <2> DEFINE step == togo' = togo - 1 /\ UNCHANGED <<pc, kind, left>>
  <2>1. /\ UNCHANGED <<dir, data, file, history>> /\ togo - 1 \in Nat
        /\ opened \in Slot /\ pc = "write"
    BY <1>3 DEF Seek, TypeOK
  <2>2. step => /\ pc' = "write" /\ kind' \in {"word", "space"}
                /\ togo' \in Nat /\ left' \in Seq(Unit)
    BY <2>1 DEF TypeOK
  <2>3. CASE NextCluster(fat, cluster) = EndMark
    <3>1. GrowOrFail(step)
      BY <1>3, <2>3 DEF Seek
    <3> HIDE DEF step
    <3> QED BY <2>1, <2>2, <3>1, GrowTypes DEF TypeOK, history
  <2>4. CASE NextCluster(fat, cluster) # EndMark
    <3>1. cluster' = NextCluster(fat, cluster) /\ step /\ fat' = fat
      BY <1>3, <2>4 DEF Seek
    <3>2. cluster' \in Cluster
      BY <1>1, <2>4, <3>1, EntryTypes
    <3> HIDE DEF step
    <3> QED BY <2>1, <2>2, <3>1, <3>2 DEF TypeOK, history
  <2> QED BY <2>3, <2>4
<1>4. CASE WriteSector
  <2> DEFINE offset == file.size % ClusterSize
  <2> DEFINE size == file.size + Len(Part)
  <2>1. /\ Part \in Seq(Unit) /\ Rest \in Seq(Unit) /\ Len(Part) \in Nat
        /\ opened \in Slot /\ pc = "write" /\ cluster \in 2 .. LastCluster
    BY SMTT(60), <1>4, PartTypes, Volume DEF WriteSector, OnVolume, TypeOK
  <2>2. data' \in DataType
    <3>1. data' = [data EXCEPT ![cluster] =
                     [u \in 1 .. ClusterSize |->
                        IF u - offset \in 1 .. Len(Part) THEN Part[u - offset]
                                                         ELSE data[cluster][u]]]
      BY <1>4, <2>1 DEF WriteSector, TypeOK, DataType
    <3> HIDE DEF offset
    <3>2. \A u \in 1 .. ClusterSize : data[cluster][u] \in Unit
      BY <2>1 DEF TypeOK, DataType
    <3>3. \A u \in 1 .. Len(Part) : Part[u] \in Unit
      BY <2>1
    <3>4. [u \in 1 .. ClusterSize |->
             IF u - offset \in 1 .. Len(Part) THEN Part[u - offset]
                                              ELSE data[cluster][u]]
              \in [1 .. ClusterSize -> Unit]
      BY <3>2, <3>3
    <3> QED BY <2>1, <3>1, <3>4 DEF TypeOK, DataType
  <2>3. file' \in Handle
    <3>1. file' = [file EXCEPT !.size = size, !.position = @ + Len(Part)]
      BY <1>4 DEF WriteSector
    <3>2. size \in Nat /\ file.position + Len(Part) \in Nat
      BY <1>1, <2>1 DEF Handle
    <3> HIDE DEF size
    <3> QED BY <1>1, <3>1, <3>2 DEF Handle
  <2>4. text' \in [Slot -> Seq(Unit)]
    <3>1. text' = [text EXCEPT ![opened] = @ \o Part]
      BY <1>4 DEF WriteSector
    <3>2. text[opened] \o Part \in Seq(Unit)
      BY <2>1, ConcatProperties DEF TypeOK
    <3> QED BY <2>1, <3>1, <3>2 DEF TypeOK
  <2>5. /\ fat' \in FatType /\ cluster' \in Cluster
        /\ pc' \in {"echo", "write", "failed", "overrun"} /\ kind' \in {"word", "space"}
        /\ togo' \in Nat /\ left' \in Seq(Unit)
    <3>1. CASE Rest = <<>>
      <4>1. WriteReturns(TRUE) /\ fat' = fat
        BY <1>4, <3>1 DEF WriteSector
      <4> QED BY <1>1, <4>1, ReturnTypes
    <3>2. CASE Rest # <<>>
      <4> DEFINE step == left' = Rest /\ UNCHANGED <<pc, kind, togo>>
      <4>1. GrowOrFail(step)
        BY <1>4, <3>2 DEF WriteSector
      <4>2. step => /\ pc' = "write" /\ kind' \in {"word", "space"}
                    /\ togo' \in Nat /\ left' \in Seq(Unit)
        BY <2>1 DEF TypeOK
      <4> HIDE DEF step
      <4> QED BY <4>1, <4>2, GrowTypes
    <3> QED BY <3>1, <3>2
  <2> QED BY <1>4, <2>1, <2>2, <2>3, <2>4, <2>5 DEF WriteSector, TypeOK
<1>5. CASE WriteOffVolume
  <2>1. WriteReturns(FALSE) /\ UNCHANGED <<disk, file, history>> /\ opened \in Slot
    BY <1>5 DEF WriteOffVolume, TypeOK
  <2>2. /\ pc' \in {"echo", "failed"} /\ kind' \in {"word", "space"}
        /\ cluster' \in Cluster /\ togo' \in Nat /\ left' \in Seq(Unit)
    BY <1>1, <2>1, ReturnTypes
  <2> QED BY <2>1, <2>2 DEF TypeOK, disk, history
<1> QED BY <1>2, <1>3, <1>4, <1>5

(* The rest of echo and cat: open, read and close.                          *)
LEMMA CommandTypes ==
    ASSUME TypeOK, NEW n \in Name,
           \/ OpenCreated \/ CreateFailed \/ EchoEnds \/ EchoFails
           \/ CatOpens(n) \/ CatReads \/ CatEnds
    PROVE  TypeOK'
<1>1. file \in Handle /\ file.name \in Name /\ file.position \in Nat /\ file.size \in Nat
  BY DEF TypeOK, Handle
<1>2. CASE OpenCreated
  BY <1>1, <1>2, OpenTypes DEF OpenCreated
<1>3. CASE CatOpens(n)
  BY <1>3, OpenTypes DEF CatOpens
<1>4. CASE CreateFailed
  BY <1>4, PromptTypes DEF CreateFailed, TypeOK, disk, locals
<1>5. CASE EchoEnds
  BY <1>5, PromptTypes, ClosedEntry DEF EchoEnds, TypeOK, locals
<1>6. CASE EchoFails
  BY <1>6, PromptTypes, ClosedEntry DEF EchoFails, TypeOK, locals
<1>7. CASE CatEnds
  BY <1>7, PromptTypes, ClosedEntry DEF CatEnds, TypeOK, locals
<1>8. CASE CatReads
  <2> DEFINE offset == file.position % ClusterSize
  <2> DEFINE count == Min({ClusterSize - offset, file.size - file.position})
  <2> DEFINE piece == [u \in 1 .. count |-> data[ReadCluster][offset + u]]
  <2>1. offset \in 0 .. ClusterSize - 1
    <3>1. ClusterSize \in Nat \ {0}
      BY Volume
    <3> QED BY <1>1, <3>1, Quotient, Zenon
  <2>2. ReadCluster \in 2 .. LastCluster /\ file.size - file.position \in Nat
    BY <1>1, <1>8 DEF CatReads, CanRead, OnVolume
  <2>3. shown' = shown \o piece /\ file' = [file EXCEPT !.position = @ + count]
    BY <1>8 DEF CatReads
  <2>4. count \in Nat /\ count <= ClusterSize - offset
    <3> HIDE DEF offset
    <3> QED BY <2>1, <2>2, MinOfTwo, Volume
  <2> HIDE DEF offset, count
  <2>5. piece \in Seq(Unit)
    <3>1. \A u \in 1 .. count : offset + u \in 1 .. ClusterSize
      BY <2>1, <2>4, Volume
    <3>2. data[ReadCluster] \in [1 .. ClusterSize -> Unit]
      BY <2>2 DEF TypeOK, DataType
    <3>3. piece \in [1 .. count -> Unit]
      BY <3>1, <3>2
    <3> QED BY <2>4, <3>3
  <2> HIDE DEF piece
  <2>6. shown' \in Seq(Unit)
    BY <2>3, <2>5, ConcatProperties DEF TypeOK
  <2>7. file' \in Handle
    BY <1>1, <2>3, <2>4 DEF Handle
  <2> QED BY <1>8, <2>6, <2>7 DEF CatReads, TypeOK, disk, locals
<1> QED BY <1>2, <1>3, <1>4, <1>5, <1>6, <1>7, <1>8

LEMMA StepTypes == TypeOK /\ [Next]_vars => TypeOK'
<1> SUFFICES ASSUME TypeOK, [Next]_vars PROVE TypeOK'
  OBVIOUS
<1>1. PICK n \in Name : TRUE
  BY NameAssumption
<1>2. CASE Format
  BY <1>1, <1>2, DirectoryTypes
<1>3. ASSUME NEW m \in Name, Remove(m) \/ Create(m) \/ CatOpens(m)
      PROVE  TypeOK'
  BY <1>3, DirectoryTypes, CommandTypes
<1>4. CASE OpenCreated \/ CreateFailed \/ EchoEnds \/ EchoFails \/ CatReads \/ CatEnds
  BY <1>1, <1>4, CommandTypes
<1>5. ASSUME NEW w \in Words \cup {Space}, StartWrite(w)
      PROVE  TypeOK'
  BY <1>5, WriteTypes
<1>6. CASE Seek \/ WriteSector \/ WriteOffVolume
  BY <1>6, WriteTypes, Space \in Words \cup {Space}
<1>7. CASE UNCHANGED vars
  BY <1>7 DEF vars, disk, locals, history, TypeOK
<1> QED BY <1>2, <1>3, <1>4, <1>5, <1>6, <1>7 DEF Next, Overrun

(***************************************************************************)
(* Up to the step in which the search leaves the FATs no command takes a   *)
(* cluster, a size or a file position of smart_fs.c out of its range:      *)
(* every cluster that is followed, linked or kept in an entry has its      *)
(* entry in the FATs, and a write of it, with the copy one sector behind,  *)
(* stays in them.                                                          *)
(***************************************************************************)
THEOREM TypeCorrect == Spec => []TypeOK
<1>1. Init => TypeOK
  BY InitTypes
<1>2. TypeOK /\ [Next]_vars => TypeOK'
  BY StepTypes
<1> QED BY <1>1, <1>2, PTL DEF Spec

-----------------------------------------------------------------------------
(* Behind an entry that was never used there are only such entries.         *)
Packed == \A i, j \in Slot :
              i < j /\ dir[i].name = Never => dir[j].name = Never

(* Then it does not matter whether a 0x00 ends the search of its sector or  *)
(* of the directory.                                                        *)
LEMMA SearchesAgree ==
    ASSUME Packed, NEW n \in Name
    PROVE  FoundToOpen(dir, Key[n]) = FoundToChange(dir, Key[n])
<1>1. Key[n] # Never
  BY NameAssumption
<1>2. ASSUME NEW i \in Slot, dir[i].name = Key[n], NEW j \in 1 .. i - 1
      PROVE  dir[j].name # Never
  <2>1. j \in Slot /\ j < i
    BY <1>2, Volume DEF Slot
  <2> QED BY <1>1, <1>2, <2>1 DEF Packed
<1> QED BY <1>2 DEF FoundToOpen, FoundToChange

(* What the search finds is an entry in use.                                *)
LEMMA FoundEntry ==
    ASSUME NEW d, NEW n \in Name, FoundToChange(d, Key[n]) # {}
    PROVE  /\ Min(FoundToChange(d, Key[n])) \in Slot
           /\ d[Min(FoundToChange(d, Key[n]))].name = Key[n]
<1>1. FoundToChange(d, Key[n]) \in SUBSET Nat
  BY DEF FoundToChange, Slot
<1>2. Min(FoundToChange(d, Key[n])) \in FoundToChange(d, Key[n])
  BY <1>1, MinIsLeast
<1> QED BY <1>2 DEF FoundToChange

(* The search sees names only. *)
LEMMA SameNames ==
    ASSUME NEW d, NEW e, \A i \in Slot : e[i].name = d[i].name, NEW key
    PROVE  FoundToChange(e, key) = FoundToChange(d, key)
<1>1. \A i \in Slot : \A j \in 1 .. i - 1 : j \in Slot
  BY Volume DEF Slot
<1> QED BY <1>1 DEF FoundToChange

(* Close keeps all names, and changes the entry it finds or none.           *)
LEMMA CloseKeepsNames ==
    ASSUME TypeOK,
           NEW d \in {Closed(dir), Closed(Updated(dir, Key[file.name]))}
    PROVE  \A i \in Slot : d[i].name = dir[i].name
<1>1. dir \in DirType /\ file \in Handle
  BY DEF TypeOK
<1> QED BY <1>1, UpdatedEntry DEF Closed

LEMMA StepPacked == TypeOK /\ Packed /\ [Next]_vars => Packed'
<1> SUFFICES ASSUME TypeOK, Packed, [Next]_vars PROVE Packed'
  OBVIOUS
<1>1. CASE Format
  BY <1>1 DEF Format, EmptyDir, Unused, Packed
<1>2. ASSUME NEW n \in Name, Remove(n) PROVE Packed'
  <2> DEFINE m == Min(FoundToChange(dir, Key[n]))
  <2>1. m \in Slot /\ dir[m].name # Never
    BY <1>2, FoundEntry, NameAssumption DEF Remove
  <2>2. dir' = [dir EXCEPT ![m] = [Unused EXCEPT !.name = Deleted]]
    BY <1>2 DEF Remove
  <2> HIDE DEF m
  <2>3. dir'[m].name = Deleted /\ \A i \in Slot \ {m} : dir'[i] = dir[i]
    BY <2>1, <2>2 DEF TypeOK, DirType, Unused
  <2> QED BY <2>1, <2>3, NameAssumption DEF Packed
<1>3. ASSUME NEW n \in Name, Create(n) PROVE Packed'
  <2>1. CASE FreeSlots = {}
    BY <1>3, <2>1 DEF Create, Packed
  <2>2. CASE FreeSlots # {}
    <3> DEFINE m == Min(FreeSlots)
    <3>1. m \in FreeSlots /\ \A i \in FreeSlots : m <= i
      BY <2>2, MinIsLeast, FreeSlots \in SUBSET Nat DEF FreeSlots, Slot
    <3>2. dir' = [dir EXCEPT ![m] = [Unused EXCEPT !.name = Key[n]]]
      BY <1>3, <2>2 DEF Create
    <3> HIDE DEF m
    <3>3. m \in Slot
      BY <3>1 DEF FreeSlots
    <3>4. dir'[m].name = Key[n] /\ \A i \in Slot \ {m} : dir'[i] = dir[i]
      BY <3>2, <3>3 DEF TypeOK, DirType, Unused
    <3>5. ASSUME NEW i \in Slot, NEW j \in Slot, i < j, dir'[i].name = Never
          PROVE  dir'[j].name = Never
      <4>1. i # m /\ dir[i].name = Never
        BY <3>4, <3>5, NameAssumption
      <4>2. m <= i
        BY <3>1, <4>1 DEF FreeSlots
      <4>3. j # m
        BY <3>3, <3>5, <4>2 DEF Slot
      <4> QED BY <3>4, <3>5, <4>1, <4>3 DEF Packed
    <3> QED BY <3>5 DEF Packed
  <2> QED BY <2>1, <2>2
<1>4. CASE EchoEnds \/ EchoFails \/ CatEnds
  <2>1. dir' \in {Closed(dir), Closed(Updated(dir, Key[file.name]))}
    BY <1>4 DEF EchoEnds, EchoFails, CatEnds
  <2> QED BY <2>1, CloseKeepsNames DEF Packed
<1>5. CASE dir' = dir
  BY <1>5 DEF Packed
<1>6. \/ Format \/ \E n \in Name : Remove(n) \/ Create(n)
      \/ EchoEnds \/ EchoFails \/ CatEnds \/ dir' = dir
  BY DEF Next, CatOpens, OpenFor, OpenCreated, CreateFailed, StartWrite, Seek,
         WriteSector, WriteOffVolume, CatReads, Overrun, vars, disk
<1> QED BY <1>1, <1>2, <1>3, <1>4, <1>5, <1>6

THEOREM PackedHolds == Spec => [](TypeOK /\ Packed)
<1>1. Init => Packed
  BY DEF Init, EmptyDir, Unused, Packed
<1> QED BY <1>1, TypeCorrect, StepPacked, PTL DEF Spec

(***************************************************************************)
(* The search of smart_fs_open, which a 0x00 ends for its sector only, and *)
(* the search of smart_fs_delete and smart_fs_update_file_info, which a    *)
(* 0x00 ends, find the same entry: smart_fs_create takes the first free    *)
(* entry and smart_fs_delete leaves no 0x00 behind.  (The writes behind    *)
(* the FATs put other bytes there; the claim is for the time before.)      *)
(***************************************************************************)
THEOREM LookupsCorrect == Spec => []LookupsAgree
<1>1. Packed => LookupsAgree
  BY SearchesAgree DEF LookupsAgree
<1> QED BY <1>1, PackedHolds, PTL

-----------------------------------------------------------------------------
(* A command with an open file has opened the entry that its searches find. *)
HasFile == {"echo", "write", "failed", "cat"}
Holding ==
    pc \in HasFile =>
        /\ FoundToOpen(dir, Key[file.name]) # {}
        /\ opened = Min(FoundToOpen(dir, Key[file.name]))

LEMMA StepHolding == TypeOK /\ Holding /\ [Next]_vars => Holding'
<1> SUFFICES ASSUME TypeOK, Holding, [Next]_vars PROVE Holding'
  OBVIOUS
<1>1. ASSUME NEW n \in Name, NEW command, OpenFor(n, command) PROVE Holding'
  BY <1>1 DEF OpenFor, Holding, disk
<1>2. CASE pc' \notin HasFile
  BY <1>2 DEF Holding
<1>3. CASE pc \in HasFile /\ UNCHANGED <<dir, opened>> /\ file'.name = file.name
  BY <1>3 DEF Holding
<1>4. file \in Handle
  BY DEF TypeOK
<1>5. ASSUME NEW w, StartWrite(w) PROVE Holding'
  <2>1. file'.name = file.name
    BY <1>4, <1>5 DEF StartWrite, Handle
  <2> QED BY <1>3, <1>5, <2>1 DEF StartWrite, HasFile, history
<1>6. CASE Seek \/ WriteOffVolume
  BY <1>3, <1>6 DEF Seek, WriteOffVolume, HasFile, history, disk
<1>7. CASE WriteSector
  <2>1. file'.name = file.name
    BY <1>4, <1>7 DEF WriteSector, Handle
  <2> QED BY <1>3, <1>7, <2>1 DEF WriteSector, HasFile
<1>8. CASE CatReads
  <2>1. file'.name = file.name
    BY <1>4, <1>8 DEF CatReads, Handle
  <2> QED BY <1>3, <1>8, <2>1 DEF CatReads, HasFile, disk
<1>9. CASE UNCHANGED vars
  BY <1>9 DEF vars, disk, history, Holding
<1>10. CASE CreateFailed \/ EchoEnds \/ EchoFails \/ CatEnds \/ Format
  BY <1>2, <1>10 DEF CreateFailed, EchoEnds, EchoFails, CatEnds, ToPrompt,
                     Format, HasFile
<1>11. ASSUME NEW n \in Name, Remove(n) \/ Create(n) PROVE Holding'
  BY <1>2, <1>11 DEF Remove, Create, HasFile
<1>12. CASE OpenCreated \/ \E n \in Name : CatOpens(n)
  BY <1>1, <1>4, <1>12 DEF OpenCreated, CatOpens, Handle
<1> QED BY <1>5, <1>6, <1>7, <1>8, <1>9, <1>10, <1>11, <1>12 DEF Next, Overrun

(* The step that closes a file.                                             *)
LEMMA StepCloses ==
    ASSUME \A n \in Name : Key[Saved[n]] = Key[n],
           TypeOK, Packed, Holding, [Next]_vars,
           pc \in {"echo", "failed", "cat"},
           NEW i \in Slot, dir'[i] # dir[i]
    PROVE  i = opened
<1> DEFINE key == Key[file.name]
<1>1. file \in Handle /\ file.name \in Name /\ dir \in DirType
  BY DEF TypeOK, Handle
<1>2. dir' \in {Closed(dir), Closed(Updated(dir, key))}
  BY DEF Next, Format, Remove, Create, CatOpens, OpenFor, OpenCreated,
         CreateFailed, StartWrite, Seek, WriteSector, WriteOffVolume,
         EchoEnds, EchoFails, CatReads, CatEnds, Overrun, vars, disk
<1>3. /\ FoundToChange(dir, key) # {}
      /\ opened = Min(FoundToChange(dir, key))
  BY <1>1, SearchesAgree DEF Holding, HasFile
<1>4. \A d : Closed(d) = Updated(d, key)
  BY <1>1 DEF Closed
<1> HIDE DEF key
<1>5. \A j \in Slot : j # opened => Updated(dir, key)[j] = dir[j]
  BY <1>1, <1>3, UpdatedEntry
<1>6. /\ Updated(dir, key) \in DirType
      /\ FoundToChange(Updated(dir, key), key) = FoundToChange(dir, key)
  BY <1>1, UpdatedEntry, SameNames
<1>7. \A j \in Slot : j # opened
          => Updated(Updated(dir, key), key)[j] = Updated(dir, key)[j]
  BY <1>1, <1>3, <1>6, UpdatedEntry
<1> QED BY <1>2, <1>4, <1>5, <1>7

(***************************************************************************)
(* When the name that smart_fs_open keeps in the handle still leads to the *)
(* entry (it does for names of up to 11 characters with the dot), what     *)
(* smart_fs_update_file_info and smart_fs_close write goes to the entry    *)
(* that was opened, whatever was created and deleted under that name       *)
(* before.                                                                 *)
(***************************************************************************)
THEOREM CloseCorrect ==
    ASSUME \A n \in Name : Key[Saved[n]] = Key[n]
    PROVE  Spec => CloseHitsOpened
<1>1. Init => Holding
  BY DEF Init, Holding, HasFile
<1>2. Spec => []Holding
  BY <1>1, TypeCorrect, StepHolding, PTL DEF Spec
<1>3. TypeOK /\ Packed /\ Holding /\ [Next]_vars =>
        [\A i \in Slot : pc \in {"echo", "failed", "cat"} /\ dir'[i] # dir[i]
                             => i = opened]_vars
  BY StepCloses
<1> QED BY <1>2, <1>3, PackedHolds, PTL DEF Spec, CloseHitsOpened

-----------------------------------------------------------------------------
(* The FAT as links between clusters.                                      *)

(* A number by quotient and remainder, and that these are the only ones.    *)
LEMMA Division ==
    ASSUME NEW c \in Int, NEW d \in Int, d > 0
    PROVE  c = d * (c \div d) + (c % d) /\ c \div d \in Int /\ c % d \in 0 .. d - 1
<1>1. c = d * (c \div d) + (c % d)
  BY Z3
<1>2. c % d \in 0 .. d - 1 /\ c \div d \in Int
  OBVIOUS
<1> QED BY <1>1, <1>2

LEMMA DivisionUnique ==
    ASSUME NEW d \in Nat \ {0}, NEW q \in Nat, NEW r \in 0 .. d - 1
    PROVE  (d * q + r) \div d = q /\ (d * q + r) % d = r
BY SMTT(30)

Even(s) == \E k \in Nat : s = 2 * k

LEMMA EvenOdd ==
    \A s \in Nat : /\ Even(s) => ~Even(s + 1)
                   /\ ~Even(s) => s # 0 /\ Even(s - 1)
<1> TAKE s \in Nat
<1>1. Even(s) => ~Even(s + 1)
  BY DEF Even
<1>2. ASSUME ~Even(s) PROVE s # 0 /\ Even(s - 1)
  <2>1. s = 2 * (s \div 2) + (s % 2) /\ s \div 2 \in Nat /\ s % 2 \in 0 .. 1
    OBVIOUS
  <2>2. s % 2 = 1
    BY <1>2, <2>1 DEF Even
  <2> QED BY <2>1, <2>2 DEF Even
<1> QED BY <1>1, <1>2

(* The clusters whose entries are in a sector of an even number. *)
Home == {c \in 2 .. SearchEnd - 1 : Even(c \div FatEntries)}

LEMMA HomeFacts ==
    /\ Home \subseteq Cluster /\ Home \subseteq Nat
    /\ \A c \in Home : c >= 2 /\ c < 4088 /\ c # EndMark
    /\ FatEntries > 2
    /\ \A c \in 0 .. FatEntries - 1 : c \div FatEntries = 0 /\ c % FatEntries = c
    /\ \A c \in 2 .. SearchEnd - 1 : c < FatEntries => c \in Home
<1>1. FatEntries > 2 /\ FatEntries \in Nat \ {0}
  BY Volume, VolumeAssumption
<1>2. ASSUME NEW c \in 0 .. FatEntries - 1
      PROVE  c \div FatEntries = 0 /\ c % FatEntries = c
  <2>1. FatEntries * 0 + c = c
    BY <1>1
  <2> QED BY <1>1, <2>1, DivisionUnique
<1>3. Even(0)
  BY DEF Even
<1> QED BY <1>1, <1>2, <1>3, Volume DEF Home, Cluster, EndMark

(* write_fat_entry changes one entry, and the copy is not in the way. *)
LEMMA EntryWritten ==
    ASSUME NEW f \in FatType, NEW c \in Home, NEW v,
           NEW d \in Cluster, Even(d \div FatEntries)
    PROVE  Entry(WriteEntry(f, c, v), d) = IF d = c THEN v ELSE Entry(f, d)
<1> DEFINE at == c \div FatEntries
           e  == c % FatEntries
           bt == d \div FatEntries
           b  == d % FatEntries
           sector == [f[at] EXCEPT ![e] = v]
<1>1. /\ at \in Sectors /\ bt \in Sectors /\ e \in Entries /\ b \in Entries
      /\ Even(at) /\ Even(bt)
  BY HomeFacts, EntryPlace DEF Home
<1>2. WriteEntry(f, c, v) = [s \in Sectors |-> IF s \in {at, at + 1} THEN sector ELSE f[s]]
  BY DEF WriteEntry, FatType
<1>3. /\ c = FatEntries * at + e /\ d = FatEntries * bt + b
  <2>1. FatEntries \in Int /\ FatEntries > 0 /\ c \in Int /\ d \in Int
    BY Volume, HomeFacts DEF Cluster
  <2> QED BY <2>1, Division
<1> HIDE DEF at, e, bt, b, sector
<1>4. bt # at + 1
  BY <1>1, EvenOdd DEF Sectors
<1>5. Entry(WriteEntry(f, c, v), d) = (IF bt = at THEN sector ELSE f[bt])[b]
  <2>1. Entry(WriteEntry(f, c, v), d) = WriteEntry(f, c, v)[bt][b]
    BY DEF Entry, bt, b
  <2>2. WriteEntry(f, c, v)[bt] = IF bt = at THEN sector ELSE f[bt]
    BY <1>1, <1>2, <1>4
  <2> QED BY <2>1, <2>2
<1>6. f[at] \in [Entries -> Cluster \cup {4088, EOC}]
  BY <1>1 DEF FatType, Entries
<1>7. \A x \in Entries : sector[x] = IF x = e THEN v ELSE f[at][x]
  BY <1>1, <1>6 DEF sector
<1>8. Entry(f, d) = f[bt][b]
  BY DEF Entry, bt, b
<1>9. CASE d = c
  <2>1. bt = at /\ b = e
    BY <1>9 DEF at, bt, b, e
  <2> QED BY <1>1, <1>5, <1>7, <1>9, <2>1
<1>10. CASE d # c
  <2>1. ~(bt = at /\ b = e)
    BY <1>3, <1>10
  <2> QED BY <1>1, <1>5, <1>7, <1>8, <1>10, <2>1
<1> QED BY <1>9, <1>10

(* Each sector of an odd number is the copy of the one before it, unless   *)
(* nothing was allocated yet.                                              *)
Mirrored(f) ==
    /\ Entry(f, 0) # 0 /\ Entry(f, 1) # 0
    /\ \A s \in Sectors : ~Even(s) => f[s] = f[s - 1] \/ (s = 1 /\ Entry(f, 2) = 0)

LEMMA EmptyMirrored == Mirrored(EmptyFat)
<1>1. /\ 0 \in Sectors
      /\ \A c \in 0 .. 2 : c \in Entries /\ c \div FatEntries = 0 /\ c % FatEntries = c
  BY HomeFacts, Volume DEF Sectors, Entries
<1>2. \A c \in 0 .. 2 : Entry(EmptyFat, c) = IF c = 0 THEN 4088 ELSE IF c = 1 THEN EOC ELSE 0
  BY <1>1 DEF Entry, EmptyFat, Sectors, Entries
<1>3. ASSUME NEW s \in Sectors, ~Even(s), s # 1
      PROVE  EmptyFat[s] = EmptyFat[s - 1]
  <2>1. s - 1 \in Sectors /\ s # 0 /\ s - 1 # 0
    BY <1>3, EvenOdd, Volume DEF Sectors
  <2> QED BY <2>1 DEF EmptyFat, Sectors
<1> QED BY <1>2, <1>3 DEF Mirrored, EOC

LEMMA MirrorKept ==
    ASSUME NEW f \in FatType, Mirrored(f), NEW c \in Home, NEW v
    PROVE  Mirrored(WriteEntry(f, c, v))
<1> DEFINE at == c \div FatEntries
           g  == WriteEntry(f, c, v)
           sector == [f[at] EXCEPT ![c % FatEntries] = v]
<1>1. at \in Sectors /\ Even(at) /\ c >= 2 /\ c \in Nat
  BY HomeFacts, EntryPlace DEF Home
<1>2. g = [s \in Sectors |-> IF s \in {at, at + 1} THEN sector ELSE f[s]]
  BY DEF WriteEntry, FatType
<1>3. \A d \in 0 .. 2 : /\ d \in Cluster /\ Even(d \div FatEntries)
                        /\ Entry(g, d) = IF d = c THEN v ELSE Entry(f, d)
  <2>1. \A d \in 0 .. 2 : d \in Cluster /\ Even(d \div FatEntries)
    BY HomeFacts, Volume DEF Cluster, Even
  <2> QED BY <2>1, EntryWritten
<1>4. 0 # c /\ 1 # c /\ (c = 2 => at = 0)
  <2>1. 2 \in 0 .. FatEntries - 1
    BY HomeFacts, Volume
  <2>2. 2 \div FatEntries = 0
    BY <2>1, HomeFacts
  <2> QED BY <1>1, <2>2
<1> HIDE DEF at, g, sector
<1>5. ASSUME NEW s \in Sectors, ~Even(s)
      PROVE  g[s] = g[s - 1] \/ (s = 1 /\ Entry(g, 2) = 0)
  <2>1. s - 1 \in Sectors /\ s # 0 /\ Even(s - 1) /\ s \in Nat
    BY <1>5, EvenOdd, Volume DEF Sectors
  <2>2. CASE s - 1 = at
    BY <1>1, <1>2, <2>1, <2>2
  <2>3. CASE s - 1 # at
    <3>1. s # at /\ s # at + 1 /\ s - 1 # at + 1
      BY <1>1, <1>5, <2>1, <2>3, EvenOdd DEF Sectors
    <3>2. g[s] = f[s] /\ g[s - 1] = f[s - 1]
      BY <1>2, <2>1, <2>3, <3>1
    <3>3. s = 1 => c # 2
      BY <1>4, <2>3
    <3>4. f[s] = f[s - 1] \/ (s = 1 /\ Entry(f, 2) = 0)
      BY <1>5 DEF Mirrored
    <3> QED BY <1>3, <3>2, <3>3, <3>4
  <2> QED BY <2>2, <2>3
<1>6. Entry(g, 0) # 0 /\ Entry(g, 1) # 0
  BY <1>3, <1>4 DEF Mirrored
<1> QED BY <1>5, <1>6 DEF Mirrored, g

(* So allocate_cluster never returns a cluster of a copy. *)
LEMMA AllocatesHome ==
    ASSUME NEW f \in FatType, Mirrored(f), FreeClusters(f) # {}
    PROVE  /\ Min(FreeClusters(f)) \in Home
           /\ Entry(f, Min(FreeClusters(f))) = 0
           /\ \A d \in 2 .. SearchEnd - 1 :
                 d < Min(FreeClusters(f)) => Entry(f, d) # 0
<1> DEFINE c == Min(FreeClusters(f))
           at == c \div FatEntries
           e  == c % FatEntries
<1>1. c \in FreeClusters(f) /\ \A d \in FreeClusters(f) : c <= d
  BY MinIsLeast, FreeClusters(f) \in SUBSET Nat DEF FreeClusters
<1>2. c \in 2 .. SearchEnd - 1 /\ Entry(f, c) = 0
  BY <1>1 DEF FreeClusters
<1>3. \A d \in 2 .. SearchEnd - 1 : d < c => Entry(f, d) # 0
  <2> HIDE DEF c
  <2> QED BY <1>1, <1>2, Volume DEF FreeClusters
<1>4. c \in Cluster /\ c \in Nat /\ FatEntries \in Nat \ {0} /\ SearchEnd \in Nat
  BY <1>2, Volume DEF Cluster
<1>5. /\ at \in Sectors /\ e \in Entries /\ Entry(f, c) = f[at][e]
  BY <1>4, EntryPlace DEF Entry
<1>6. c = FatEntries * at + e
  <2>1. FatEntries \in Int /\ FatEntries > 0 /\ c \in Int
    BY <1>4
  <2> HIDE DEF c
  <2> QED BY <2>1, Division
<1>7. Even(at)
  <2> SUFFICES ASSUME ~Even(at) PROVE FALSE
    OBVIOUS
  <2> DEFINE d == FatEntries * (at - 1) + e
  <2> HIDE DEF c, at, e
  <2>1. at \in Nat /\ at # 0 /\ at - 1 \in Nat /\ e \in 0 .. FatEntries - 1
    BY <1>5, EvenOdd DEF Sectors, Entries
  <2>2. d \in Nat /\ d < c /\ d = c - FatEntries
    BY <1>4, <1>6, <2>1
  <2>3. d \div FatEntries = at - 1 /\ d % FatEntries = e
    BY <1>4, <2>1, DivisionUnique
  <2>4. Entry(f, d) = f[at - 1][e]
    BY <2>3 DEF Entry
  <2> HIDE DEF d
  <2>5. CASE f[at] = f[at - 1]
    <3>1. Entry(f, d) = 0
      BY <1>2, <1>5, <2>4, <2>5
    <3>2. d \notin 2 .. SearchEnd - 1
      BY <1>3, <2>2, <3>1
    <3>3. d = 0 \/ d = 1
      BY <1>2, <1>4, <2>2, <3>2
    <3> QED BY <3>1, <3>3 DEF Mirrored
  <2>6. CASE at = 1 /\ Entry(f, 2) = 0
    <3>1. c > 2
      <4>1. c = FatEntries + e
        BY <1>4, <1>6, <2>1, <2>6
      <4> QED BY <1>4, <2>1, <4>1, HomeFacts
    <3>2. 2 \in 2 .. SearchEnd - 1
      BY Volume
    <3> QED BY <1>3, <2>6, <3>1, <3>2
  <2> QED BY <1>5, <2>5, <2>6 DEF Mirrored
<1> QED BY <1>2, <1>3, <1>7 DEF Home

-----------------------------------------------------------------------------
(* Which piece of a file a unit is in, and where in the piece.              *)
Piece(n)  == n \div ClusterSize
Offset(n) == n % ClusterSize

LEMMA Pieces ==
    \A n \in Nat : /\ Piece(n) \in Nat /\ Offset(n) \in 0 .. ClusterSize - 1
                   /\ n = ClusterSize * Piece(n) + Offset(n)
<1> TAKE n \in Nat
<1>1. ClusterSize \in Nat \ {0} /\ ClusterSize \in Int /\ ClusterSize > 0 /\ n \in Int
  BY Volume
<1>2. n \div ClusterSize \in Nat
  BY <1>1, Quotient, Zenon
<1>3. n = ClusterSize * (n \div ClusterSize) + (n % ClusterSize)
      /\ n % ClusterSize \in 0 .. ClusterSize - 1
  BY <1>1, Division
<1> QED BY <1>2, <1>3 DEF Piece, Offset

LEMMA PieceOf ==
    ASSUME NEW q \in Nat, NEW r \in 0 .. ClusterSize - 1
    PROVE  Piece(ClusterSize * q + r) = q /\ Offset(ClusterSize * q + r) = r
<1>1. ClusterSize \in Nat \ {0}
  BY Volume
<1> QED BY <1>1, DivisionUnique DEF Piece, Offset

LEMMA PieceOrder ==
    ASSUME NEW m \in Nat, NEW n \in Nat, m < n
    PROVE  /\ Piece(m) <= Piece(n)
           /\ Piece(m) = Piece(n) => Offset(m) < Offset(n)
<1> DEFINE a == Piece(m)
           b == Piece(n)
<1>1. /\ a \in Nat /\ b \in Nat /\ ClusterSize \in Nat \ {0}
      /\ Offset(m) \in 0 .. ClusterSize - 1 /\ Offset(n) \in 0 .. ClusterSize - 1
      /\ m = ClusterSize * a + Offset(m) /\ n = ClusterSize * b + Offset(n)
  BY Pieces, Volume
<1> HIDE DEF a, b
<1>2. ASSUME a > b PROVE FALSE
  <2> DEFINE e == a - b - 1
  <2>1. e \in Nat /\ a = b + 1 + e
    BY <1>1, <1>2
  <2>2. ClusterSize * e \in Nat
    BY <1>1, <2>1
  <2>3. ClusterSize * a = ClusterSize * b + ClusterSize + ClusterSize * e
    <3> HIDE DEF e
    <3> QED BY <1>1, <2>1
  <2> QED BY <1>1, <2>2, <2>3
<1>3. a = b => Offset(m) < Offset(n)
  BY <1>1
<1> QED BY <1>1, <1>2, <1>3 DEF a, b

(* The units behind n, up to the end of its piece. *)
LEMMA SamePiece ==
    ASSUME NEW n \in Nat, NEW v \in Nat
    PROVE  /\ Offset(n) + v < ClusterSize
                => Piece(n + v) = Piece(n) /\ Offset(n + v) = Offset(n) + v
           /\ Offset(n) + v = ClusterSize
                => Piece(n + v) = Piece(n) + 1 /\ Offset(n + v) = 0
<1> DEFINE q == Piece(n)
           r == Offset(n)
<1>1. /\ q \in Nat /\ r \in 0 .. ClusterSize - 1 /\ ClusterSize \in Nat \ {0}
      /\ n = ClusterSize * q + r
  BY Pieces, Volume
<1> HIDE DEF q, r
<1>2. ASSUME r + v < ClusterSize
      PROVE  Piece(n + v) = q /\ Offset(n + v) = r + v
  <2>1. n + v = ClusterSize * q + (r + v) /\ r + v \in 0 .. ClusterSize - 1
    BY <1>1, <1>2
  <2> QED BY SMTT(60), <1>1, <2>1, PieceOf
<1>3. ASSUME r + v = ClusterSize
      PROVE  Piece(n + v) = q + 1 /\ Offset(n + v) = 0
  <2>1. n + v = ClusterSize * (q + 1) + 0 /\ 0 \in 0 .. ClusterSize - 1 /\ q + 1 \in Nat
    BY <1>1, <1>3
  <2> QED BY <2>1, PieceOf
<1> QED BY <1>2, <1>3 DEF q, r

-----------------------------------------------------------------------------
(* The chain of each file as a sequence of clusters.                        *)
Full(f) == \A d \in 2 .. LastCluster : Entry(f, d) # 0

Linked(f, s) ==
    \A k \in 1 .. Len(s) :
        Entry(f, s[k]) = IF k = Len(s) THEN EOC ELSE s[k + 1]

Disjoint(ch) ==
    \A i, j \in Slot : \A k \in 1 .. Len(ch[i]), l \in 1 .. Len(ch[j]) :
        ch[i][k] = ch[j][l] => i = j /\ k = l

Chained(f, ch) ==
    /\ ch \in [Slot -> Seq(Home)] /\ Mirrored(f)
    /\ Disjoint(ch)
    /\ \A i \in Slot : Linked(f, ch[i])
    /\ \A i \in Slot : \A k \in 1 .. Len(ch[i]) :
           ch[i][k] > LastCluster => Full(f)

LEMMA EmptyChained == Chained(EmptyFat, [i \in Slot |-> <<>>])
BY EmptyMirrored DEF Chained, Disjoint, Linked

LEMMA ChainDropped ==
    ASSUME NEW f, NEW ch, Chained(f, ch), NEW i \in Slot
    PROVE  Chained(f, [ch EXCEPT ![i] = <<>>])
<1> DEFINE n == [ch EXCEPT ![i] = <<>>]
<1>1. /\ n \in [Slot -> Seq(Home)] /\ n[i] = <<>> /\ 1 .. Len(n[i]) = {}
      /\ \A j \in Slot \ {i} : n[j] = ch[j]
  BY DEF Chained
<1> HIDE DEF n
<1>2. Disjoint(n)
  BY SMTT(60), <1>1 DEF Chained, Disjoint
<1>3. \A j \in Slot : Linked(f, n[j])
  BY <1>1 DEF Chained, Linked
<1> QED BY <1>1, <1>2, <1>3 DEF Chained, n

(* Allocated and Extended, entry by entry.                                  *)
LEMMA EntriesAllocated ==
    ASSUME NEW f \in FatType, Mirrored(f), FreeClusters(f) # {}
    PROVE  LET new == Min(FreeClusters(f))
           IN  /\ new \in Home /\ Mirrored(Allocated(f)) /\ Allocated(f) \in FatType
               /\ \A d \in Cluster : Even(d \div FatEntries) =>
                     Entry(Allocated(f), d) = IF d = new THEN EOC ELSE Entry(f, d)
<1> DEFINE new == Min(FreeClusters(f))
<1>1. new \in Home
  BY AllocatesHome
<1>2. Allocated(f) = WriteEntry(f, new, EOC)
  BY DEF Allocated
<1>3. Allocated(f) \in FatType
  BY AllocateTypes
<1> HIDE DEF new
<1>4. Mirrored(Allocated(f))
  BY <1>1, <1>2, MirrorKept
<1>5. \A d \in Cluster : Even(d \div FatEntries) =>
         Entry(Allocated(f), d) = IF d = new THEN EOC ELSE Entry(f, d)
  BY <1>1, <1>2, EntryWritten
<1> QED BY <1>1, <1>3, <1>4, <1>5 DEF new

LEMMA EntriesExtended ==
    ASSUME NEW f \in FatType, Mirrored(f), FreeClusters(f) # {}, NEW c \in Home,
           Entry(f, c) # 0
    PROVE  LET new == Min(FreeClusters(f))
           IN  /\ Mirrored(Extended(f, c)) /\ Extended(f, c) \in FatType
               /\ \A d \in Cluster : Even(d \div FatEntries) =>
                     Entry(Extended(f, c), d) = IF d = new THEN EOC
                                                ELSE IF d = c THEN new ELSE Entry(f, d)
<1> DEFINE new == Min(FreeClusters(f))
<1>1. /\ new \in Home /\ new # c /\ Mirrored(Allocated(f)) /\ Allocated(f) \in FatType
      /\ \A d \in Cluster : Even(d \div FatEntries) =>
             Entry(Allocated(f), d) = IF d = new THEN EOC ELSE Entry(f, d)
  BY EntriesAllocated, AllocatesHome
<1>2. Extended(f, c) = WriteEntry(Allocated(f), c, new)
  BY DEF Extended
<1>3. Extended(f, c) \in FatType
  BY HomeFacts, AllocateTypes
<1> HIDE DEF new
<1>4. Mirrored(Extended(f, c))
  BY <1>1, <1>2, MirrorKept
<1>5. \A d \in Cluster : Even(d \div FatEntries) =>
         Entry(Extended(f, c), d) = IF d = c THEN new ELSE Entry(Allocated(f), d)
  BY <1>1, <1>2, EntryWritten
<1> QED BY <1>1, <1>3, <1>4, <1>5 DEF new

(* The last cluster of a chain, or nothing, is followed by a new one.       *)
Behind(f, s) == IF s = <<>> THEN Allocated(f) ELSE Extended(f, s[Len(s)])

LEMMA ChainGrows ==
    ASSUME NEW f \in FatType, NEW ch, Chained(f, ch), FreeClusters(f) # {}, NEW i \in Slot
    PROVE  /\ Behind(f, ch[i]) \in FatType /\ Min(FreeClusters(f)) \in Home
           /\ Chained(Behind(f, ch[i]),
                      [ch EXCEPT ![i] = Append(@, Min(FreeClusters(f)))])
<1> DEFINE new == Min(FreeClusters(f))
           g   == Behind(f, ch[i])
           L   == Len(ch[i])
           n   == [ch EXCEPT ![i] = Append(@, new)]
<1>1. /\ ch \in [Slot -> Seq(Home)] /\ Mirrored(f) /\ Disjoint(ch)
      /\ \A j \in Slot : Linked(f, ch[j])
      /\ \A j \in Slot : \A k \in 1 .. Len(ch[j]) : ch[j][k] \in Home
      /\ \A j \in Slot : \A k \in 1 .. Len(ch[j]) : ch[j][k] > LastCluster => Full(f)
      /\ \A j \in Slot : Len(ch[j]) \in Nat
  BY DEF Chained
<1>2. /\ new \in Home /\ Entry(f, new) = 0
      /\ \A d \in 2 .. SearchEnd - 1 : d < new => Entry(f, d) # 0
  BY <1>1, AllocatesHome
<1> HIDE DEF new
<1>3. \A j \in Slot : \A k \in 1 .. Len(ch[j]) :
         /\ Entry(f, ch[j][k]) # 0 /\ ch[j][k] # new
         /\ Entry(f, ch[j][k]) = IF k = Len(ch[j]) THEN EOC ELSE ch[j][k + 1]
  <2> SUFFICES ASSUME NEW j \in Slot, NEW k \in 1 .. Len(ch[j])
               PROVE  /\ Entry(f, ch[j][k]) # 0 /\ ch[j][k] # new
                      /\ Entry(f, ch[j][k]) = IF k = Len(ch[j]) THEN EOC ELSE ch[j][k + 1]
    OBVIOUS
  <2>1. Entry(f, ch[j][k]) = IF k = Len(ch[j]) THEN EOC ELSE ch[j][k + 1]
    BY <1>1 DEF Linked
  <2>2. k # Len(ch[j]) => ch[j][k + 1] \in Home
    BY <1>1
  <2>3. Entry(f, ch[j][k]) # 0
    BY <2>1, <2>2, HomeFacts DEF EOC
  <2> QED BY <1>2, <2>1, <2>3
<1>4. /\ g \in FatType /\ Mirrored(g)
      /\ \A d \in Cluster : Even(d \div FatEntries) =>
            Entry(g, d) = IF d = new THEN EOC
                          ELSE IF L # 0 /\ d = ch[i][L] THEN new ELSE Entry(f, d)
  <2>1. CASE ch[i] = <<>>
    <3>1. g = Allocated(f) /\ L = 0
      BY <2>1 DEF Behind
    <3> QED BY <1>1, <3>1, EntriesAllocated DEF new
  <2>2. CASE ch[i] # <<>>
    <3>1. g = Extended(f, ch[i][L])
      BY <2>2 DEF Behind
    <3>2. L \in 1 .. Len(ch[i])
      BY <1>1, <2>2, EmptySeq
    <3>3. ch[i][L] \in Home /\ Entry(f, ch[i][L]) # 0
      BY <1>1, <1>3, <3>2
    <3> HIDE DEF g, L
    <3>4. L # 0
      BY <1>1, <3>2
    <3> QED BY <1>1, <3>1, <3>3, <3>4, EntriesExtended DEF new
  <2> QED BY <2>1, <2>2
<1>5. /\ n \in [Slot -> Seq(Home)]
      /\ \A j \in Slot \ {i} : n[j] = ch[j]
      /\ Len(n[i]) = L + 1 /\ n[i][L + 1] = new
      /\ \A k \in 1 .. L : n[i][k] = ch[i][k]
  BY <1>1, <1>2
<1> HIDE DEF n, g
<1>6. Disjoint(n)
  <2> SUFFICES ASSUME NEW a \in Slot, NEW b \in Slot,
                      NEW k \in 1 .. Len(n[a]), NEW l \in 1 .. Len(n[b]),
                      n[a][k] = n[b][l]
               PROVE  a = b /\ k = l
    BY DEF Disjoint
  <2> DEFINE IsNew(x, y) == x = i /\ y = L + 1
  <2>1. \A x \in Slot : \A y \in 1 .. Len(n[x]) :
            IF IsNew(x, y) THEN n[x][y] = new
            ELSE y \in 1 .. Len(ch[x]) /\ n[x][y] = ch[x][y]
    BY <1>1, <1>5
  <2>2. CASE IsNew(a, k) /\ IsNew(b, l)
    BY <2>2
  <2>3. CASE ~IsNew(a, k) /\ ~IsNew(b, l)
    <3>1. /\ k \in 1 .. Len(ch[a]) /\ l \in 1 .. Len(ch[b])
          /\ ch[a][k] = ch[b][l]
      <4> HIDE DEF IsNew
      <4> QED BY <2>1, <2>3
    <3> QED BY <1>1, <3>1 DEF Disjoint
  <2>4. ASSUME NEW x \in Slot, NEW y \in 1 .. Len(n[x]), ~IsNew(x, y)
        PROVE  n[x][y] # new
    <3> HIDE DEF IsNew
    <3>1. y \in 1 .. Len(ch[x]) /\ n[x][y] = ch[x][y]
      BY <2>1, <2>4
    <3> QED BY <1>3, <3>1
  <2>5. IsNew(a, k) <=> IsNew(b, l)
    <3> HIDE DEF IsNew
    <3> QED BY <2>1, <2>4
  <2> QED BY <2>2, <2>3, <2>5
<1>7. \A j \in Slot : Linked(g, n[j])
  <2> SUFFICES ASSUME NEW j \in Slot, NEW k \in 1 .. Len(n[j])
               PROVE  Entry(g, n[j][k]) = IF k = Len(n[j]) THEN EOC ELSE n[j][k + 1]
    BY DEF Linked
  <2>1. \A d \in Home :
            Entry(g, d) = IF d = new THEN EOC
                          ELSE IF L # 0 /\ d = ch[i][L] THEN new ELSE Entry(f, d)
    BY <1>4, HomeFacts DEF Home
  <2>2. CASE j # i
    <3>1. n[j] = ch[j] /\ ch[j][k] \in Home /\ ch[j][k] # new
      BY <1>1, <1>3, <1>5, <2>2
    <3>2. L # 0 => ch[j][k] # ch[i][L]
      BY <1>1, <1>5, <2>2, <3>1 DEF Disjoint
    <3>3. Entry(g, ch[j][k]) = Entry(f, ch[j][k])
      BY <2>1, <3>1, <3>2
    <3> QED BY <1>3, <1>5, <2>2, <3>1, <3>3
  <2>3. CASE j = i /\ k = L + 1
    BY <1>2, <1>5, <2>1, <2>3
  <2>4. CASE j = i /\ k \in 1 .. L
    <3>1. /\ n[i][k] = ch[i][k] /\ ch[i][k] \in Home /\ ch[i][k] # new
          /\ Entry(f, ch[i][k]) = IF k = L THEN EOC ELSE ch[i][k + 1]
      BY <1>1, <1>3, <1>5, <2>4
    <3>2. L \in 1 .. Len(ch[i])
      BY <1>1, <2>4
    <3>3. k # L => ch[i][k] # ch[i][L]
      BY <1>1, <2>4, <3>2 DEF Disjoint
    <3>4. k # L => n[i][k + 1] = ch[i][k + 1]
      BY SMTT(60), <1>1, <1>5, <2>4
    <3> HIDE DEF L
    <3>5. L \in Nat /\ L # 0 /\ k # L + 1
      BY <1>1, <2>4 DEF L
    <3> QED BY <1>5, <2>1, <2>4, <3>1, <3>3, <3>4, <3>5
  <2> QED BY <1>1, <1>5, <2>2, <2>3, <2>4
<1>8. Full(f) => Full(g)
  <2> SUFFICES ASSUME Full(f), NEW d \in 2 .. LastCluster PROVE Entry(g, d) # 0
    BY DEF Full
  <2>1. d \in Cluster /\ Even(d \div FatEntries)
    <3>1. d \in 2 .. SearchEnd - 1 /\ d < FatEntries
      BY Volume, VolumeAssumption
    <3> QED BY <3>1, HomeFacts DEF Home
  <2>2. Entry(f, d) # 0 /\ new # 0
    BY <1>2, HomeFacts DEF Full
  <2> QED BY <1>4, <2>1, <2>2 DEF EOC
<1>9. ASSUME NEW j \in Slot, NEW k \in 1 .. Len(n[j]), n[j][k] > LastCluster
      PROVE  Full(g)
  <2>1. CASE n[j][k] = new
    <3>1. \A d \in 2 .. LastCluster : d \in 2 .. SearchEnd - 1 /\ d < new
      BY <1>2, <1>9, <2>1, Volume, VolumeAssumption, HomeFacts
    <3> QED BY <1>2, <1>8, <3>1 DEF Full
  <2>2. CASE n[j][k] # new
    <3>1. k \in 1 .. Len(ch[j]) /\ n[j][k] = ch[j][k]
      <4>1. CASE j = i
        <5>1. k # L + 1
          BY <1>5, <2>2, <4>1
        <5> QED BY <1>1, <1>5, <4>1, <5>1
      <4>2. CASE j # i
        BY <1>5, <4>2
      <4> QED BY <4>1, <4>2
    <3> QED BY <1>1, <1>8, <1>9, <3>1
  <2> QED BY <2>1, <2>2
<1>10. Chained(g, n)
  BY <1>4, <1>5, <1>6, <1>7, <1>9 DEF Chained
<1> QED BY <1>2, <1>4, <1>10 DEF n, g, new

-----------------------------------------------------------------------------
(* The files as chains: what the entries, the open handle, the write that   *)
(* runs and the data clusters have to do with them.                         *)
Fits(s, size) ==
    /\ Len(s) <= Piece(size) + 1
    /\ \A u \in 0 .. size - 1 : Piece(u) < Len(s) /\ OnVolume(s[Piece(u) + 1])

Files(ch) ==
    \A i \in Slot : /\ First(i) = IF ch[i] = <<>> THEN 0 ELSE ch[i][1]
                    /\ Fits(ch[i], Size(i))
                    /\ ~Live(i) => ch[i] = <<>>

Stored(ch) ==
    \A i \in Slot :
        /\ Len(text[i]) = Size(i)
        /\ \A u \in 0 .. Size(i) - 1 :
              text[i][u + 1] = data[ch[i][Piece(u) + 1]][Offset(u) + 1]

Seeking(ch) ==
    pc = "write" => LET k == Piece(file.size) - togo + 1
                    IN  k \in 1 .. Len(ch[opened]) /\ cluster = ch[opened][k]

ChainsOf(ch) == Chained(fat, ch) /\ Files(ch) /\ Stored(ch) /\ Seeking(ch)

Showing ==
    IF pc = "cat"
    THEN /\ Len(shown) = file.position /\ file.position <= file.size
         /\ \A u \in 1 .. Len(shown) : shown[u] = text[opened][u]
    ELSE shown = <<>>

CommandInv == (Intact /\ pc \notin HasFile => opened = 0) /\ Showing

ChainInv == CommandInv /\ \E ch : ChainsOf(ch)

(* An empty chain has no room; a file without units needs no chain.         *)
LEMMA NothingFits ==
    ASSUME NEW size \in Nat, Fits(<<>>, size)
    PROVE  size = 0
<1> SUFFICES ASSUME size # 0 PROVE FALSE
  OBVIOUS
<1>1. 0 \in 0 .. size - 1 /\ Piece(0) \in Nat
  BY Pieces
<1> QED BY <1>1 DEF Fits

LEMMA EmptyFits == Fits(<<>>, 0)
BY Pieces DEF Fits

(* What the sizes of the files are.                                         *)
LEMMA SizeTypes ==
    ASSUME TypeOK
    PROVE  /\ file.size \in Nat /\ file.first \in Cluster /\ file.position \in Nat
           /\ file \in Handle
           /\ \A i \in Slot : Size(i) \in Nat /\ First(i) \in Cluster
           /\ \A i \in Slot : dir[i].size \in Nat /\ dir[i].first \in Cluster
BY DEF TypeOK, DirType, Handle, Size, First

(* Nothing is stored for an entry that is not in use.                       *)
LEMMA UnusedEmpty ==
    ASSUME TypeOK, NEW ch, Files(ch), Stored(ch), NEW i \in Slot, ch[i] = <<>>
    PROVE  Size(i) = 0 /\ First(i) = 0 /\ text[i] = <<>>
<1>1. Size(i) \in Nat
  BY SizeTypes
<1>2. Size(i) = 0 /\ First(i) = 0
  BY <1>1, NothingFits DEF Files
<1>3. Len(text[i]) = 0 /\ text[i] \in Seq(Unit)
  BY <1>2 DEF Stored, TypeOK
<1> QED BY <1>2, <1>3, EmptySeq

(* When every file is seen as before, the chains fit as before.             *)
LEMMA ViewKept ==
    ASSUME NEW ch, Files(ch), Stored(ch), UNCHANGED <<data, text>>,
           \A i \in Slot : /\ First(i)' = First(i) /\ Size(i)' = Size(i)
                           /\ Live(i) => Live(i)'
    PROVE  Files(ch)' /\ Stored(ch)'
<1>1. Files(ch)'
  BY DEF Files
<1>2. Stored(ch)'
  BY DEF Stored
<1> QED BY <1>1, <1>2

(* What update_file_info writes into the entry it finds.                    *)
LEMMA UpdatedFound ==
    ASSUME NEW d \in DirType, file \in Handle, NEW n \in Name,
           FoundToChange(d, Key[n]) # {}
    PROVE  LET m == Min(FoundToChange(d, Key[n]))
           IN  /\ Updated(d, Key[n])[m].first = file.first
               /\ Updated(d, Key[n])[m].size = file.size
<1> DEFINE m == Min(FoundToChange(d, Key[n]))
<1>1. Updated(d, Key[n]) =
        [d EXCEPT ![m] = [@ EXCEPT !.first = file.first, !.size = file.size]]
  BY DEF Updated
<1>2. m \in Slot
  BY FoundEntry
<1> HIDE DEF m
<1> QED BY <1>1, <1>2 DEF DirType, m

(* Closing a file leaves all files as they are seen.                        *)
LEMMA CloseKeepsView ==
    ASSUME \A n \in Name : Key[Saved[n]] = Key[n],
           TypeOK, Packed, Holding, pc \in HasFile,
           dir' \in {Closed(dir), Closed(Updated(dir, Key[file.name]))},
           opened' = 0
    PROVE  \A i \in Slot : /\ First(i)' = First(i) /\ Size(i)' = Size(i)
                           /\ Live(i) => Live(i)'
<1> DEFINE key == Key[file.name]
           m == Min(FoundToChange(dir, key))
<1>1. file \in Handle /\ file.name \in Name /\ dir \in DirType
  BY DEF TypeOK, Handle
<1>2. FoundToChange(dir, key) # {} /\ opened = m
  BY <1>1, SearchesAgree DEF Holding
<1>3. \A d : Closed(d) = Updated(d, key)
  BY <1>1 DEF Closed
<1>4. /\ Updated(dir, key) \in DirType
      /\ FoundToChange(Updated(dir, key), key) = FoundToChange(dir, key)
      /\ \A j \in Slot : Updated(dir, key)[j].name = dir[j].name
      /\ \A j \in Slot : j # m => Updated(dir, key)[j] = dir[j]
      /\ Updated(dir, key)[m].first = file.first
      /\ Updated(dir, key)[m].size = file.size
  <2> HIDE DEF m
  <2>1. /\ Updated(dir, key) \in DirType
        /\ \A j \in Slot : Updated(dir, key)[j].name = dir[j].name
        /\ \A j \in Slot : j # m => Updated(dir, key)[j] = dir[j]
    BY <1>1, <1>2, UpdatedEntry DEF m
  <2>2. FoundToChange(Updated(dir, key), key) = FoundToChange(dir, key)
    BY <2>1, SameNames
  <2>3. /\ Updated(dir, key)[m].first = file.first
        /\ Updated(dir, key)[m].size = file.size
    BY <1>1, <1>2, UpdatedFound DEF m
  <2> QED BY <2>1, <2>2, <2>3
<1> DEFINE e == Updated(dir, key)
<1>5. /\ \A j \in Slot : Updated(e, key)[j].name = dir[j].name
      /\ \A j \in Slot : j # m => Updated(e, key)[j] = dir[j]
      /\ Updated(e, key)[m].first = file.first
      /\ Updated(e, key)[m].size = file.size
  <2>1. e \in DirType /\ FoundToChange(e, key) # {} /\ Min(FoundToChange(e, key)) = m
    BY <1>2, <1>4
  <2> HIDE DEF e, m
  <2>2. /\ \A j \in Slot : Updated(e, key)[j].name = e[j].name
        /\ \A j \in Slot : j # m => Updated(e, key)[j] = e[j]
        /\ Updated(e, key)[m].first = file.first
        /\ Updated(e, key)[m].size = file.size
    BY <1>1, <2>1, UpdatedEntry, UpdatedFound
  <2> QED BY <1>4, <2>2 DEF e
<1>6. dir' = e \/ dir' = Updated(e, key)
  BY <1>3
<1> HIDE DEF e, m, key
<1>7. /\ \A j \in Slot : dir'[j].name = dir[j].name
      /\ \A j \in Slot : j # m => dir'[j] = dir[j]
      /\ dir'[m].first = file.first /\ dir'[m].size = file.size
  BY <1>4, <1>5, <1>6 DEF e
<1>8. 0 \notin Slot
  BY DEF Slot
<1> QED BY <1>2, <1>7, <1>8 DEF First, Size, Live

-----------------------------------------------------------------------------
(* The steps keep the chains.                                               *)
LEMMA ChainInit == Init => ChainInv
<1> SUFFICES ASSUME Init PROVE ChainInv
  OBVIOUS
<1>1. PICK ch : ch = [i \in Slot |-> <<>>]
  OBVIOUS
<1>2. Chained(fat, ch)
  BY <1>1, EmptyChained DEF Init
<1>3. \A i \in Slot : First(i) = 0 /\ Size(i) = 0
  BY DEF Init, First, Size, NoFile, EmptyDir, Unused
<1>4. Files(ch)
  BY <1>1, <1>3, EmptyFits DEF Files
<1>5. Stored(ch)
  BY <1>3 DEF Init, Stored
<1>6. Seeking(ch) /\ CommandInv
  BY DEF Init, Seeking, CommandInv, Intact, Showing, HasFile
<1> QED BY <1>2, <1>4, <1>5, <1>6 DEF ChainInv, ChainsOf

(* format: no file is left.                                                 *)
LEMMA FormatChains ==
    ASSUME TypeOK, ChainInv, Format
    PROVE  ChainInv'
<1>1. PICK ch : ch = [i \in Slot |-> <<>>]
  OBVIOUS
<1>2. Chained(fat, ch)'
  BY <1>1, EmptyChained DEF Format
<1>3. \A i \in Slot : First(i)' = 0 /\ Size(i)' = 0 /\ text'[i] = <<>>
  <2>1. opened' = 0 /\ 0 \notin Slot
    BY DEF Format, ChainInv, CommandInv, Intact, HasFile, Slot
  <2> QED BY <2>1 DEF Format, First, Size, EmptyDir, Unused
<1>4. Files(ch)'
  BY <1>1, <1>3, EmptyFits DEF Files
<1>5. Stored(ch)'
  BY <1>3 DEF Stored
<1>6. Seeking(ch)' /\ CommandInv'
  BY DEF Format, Seeking, CommandInv, Intact, ChainInv, Showing, HasFile
<1> QED BY <1>2, <1>4, <1>5, <1>6 DEF ChainInv, ChainsOf

(* rm: the chain is no file's any more; its clusters are not freed.         *)
LEMMA RemoveChains ==
    ASSUME TypeOK, ChainInv, NEW n \in Name, Remove(n)
    PROVE  ChainInv'
<1>1. PICK ch : ChainsOf(ch)
  BY DEF ChainInv
<1>2. PICK m \in Slot : m = Min(FoundToChange(dir, Key[n]))
  BY FoundEntry DEF Remove
<1>3. /\ dir' = [dir EXCEPT ![m] = [Unused EXCEPT !.name = Deleted]]
      /\ text' = [text EXCEPT ![m] = <<>>]
      /\ UNCHANGED <<fat, data, pc, file, opened, shown>> /\ pc = "prompt" /\ opened = 0
  BY <1>2 DEF Remove, ChainInv, CommandInv, Intact, HasFile
<1>4. PICK nx : nx = [ch EXCEPT ![m] = <<>>]
  OBVIOUS
<1>5. Chained(fat, nx)'
  BY <1>1, <1>2, <1>3, <1>4, ChainDropped DEF ChainsOf
<1>6. nx[m] = <<>> /\ \A i \in Slot \ {m} : nx[i] = ch[i]
  BY <1>1, <1>2, <1>4 DEF ChainsOf, Chained
<1>7. /\ First(m)' = 0 /\ Size(m)' = 0 /\ text'[m] = <<>>
      /\ \A i \in Slot \ {m} : /\ First(i)' = First(i) /\ Size(i)' = Size(i)
                               /\ (Live(i) => Live(i)') /\ text'[i] = text[i]
  <2>1. 0 \notin Slot
    BY DEF Slot
  <2>2. /\ dir'[m].first = 0 /\ dir'[m].size = 0 /\ \A i \in Slot \ {m} : dir'[i] = dir[i]
        /\ text'[m] = <<>> /\ \A i \in Slot \ {m} : text'[i] = text[i]
    BY <1>2, <1>3 DEF TypeOK, DirType, Unused
  <2>3. opened' = 0 /\ opened = 0
    BY <1>3
  <2>4. First(m)' = 0 /\ Size(m)' = 0
    BY <1>2, <2>1, <2>2, <2>3 DEF First, Size
  <2>5. \A i \in Slot \ {m} : /\ First(i)' = First(i) /\ Size(i)' = Size(i)
                              /\ (Live(i) => Live(i)')
    BY <2>1, <2>2, <2>3 DEF First, Size, Live
  <2> QED BY <2>2, <2>4, <2>5
<1>8. Files(nx)'
  <2> SUFFICES ASSUME NEW i \in Slot
               PROVE  /\ First(i)' = IF nx[i] = <<>> THEN 0 ELSE nx[i][1]
                      /\ Fits(nx[i], Size(i)')
                      /\ ~Live(i)' => nx[i] = <<>>
    BY DEF Files
  <2>1. CASE i = m
    BY <1>6, <1>7, <2>1, EmptyFits
  <2>2. CASE i # m
    BY <1>1, <1>6, <1>7, <2>2 DEF Files, ChainsOf
  <2> QED BY <2>1, <2>2
<1>9. Stored(nx)'
  <2> SUFFICES ASSUME NEW i \in Slot
               PROVE  /\ Len(text'[i]) = Size(i)'
                      /\ \A u \in 0 .. Size(i)' - 1 :
                           text'[i][u + 1] = data'[nx[i][Piece(u) + 1]][Offset(u) + 1]
    BY DEF Stored
  <2>1. CASE i = m
    BY <1>7, <2>1
  <2>2. CASE i # m
    BY <1>1, <1>3, <1>6, <1>7, <2>2 DEF Stored, ChainsOf
  <2> QED BY <2>1, <2>2
<1>10. Seeking(nx)' /\ CommandInv'
  BY <1>3 DEF Seeking, CommandInv, Intact, ChainInv, Showing, HasFile
<1> QED BY <1>5, <1>8, <1>9, <1>10 DEF ChainInv, ChainsOf

(* echo begins with create: the entry it takes was nobody's.                *)
LEMMA CreateChains ==
    ASSUME TypeOK, ChainInv, NEW n \in Name, Create(n)
    PROVE  ChainInv'
<1>1. PICK ch : ChainsOf(ch)
  BY DEF ChainInv
<1>2. /\ UNCHANGED <<fat, data, opened, text, shown>>
      /\ pc = "prompt" /\ pc' = "created" /\ opened = 0 /\ 0 \notin Slot
  BY DEF Create, history, ChainInv, CommandInv, Intact, HasFile, Slot
<1>3. \A i \in Slot : /\ First(i)' = First(i) /\ Size(i)' = Size(i)
                      /\ Live(i) => Live(i)'
  <2>1. CASE FreeSlots = {}
    BY <1>2, <2>1 DEF Create, First, Size, Live
  <2>2. CASE FreeSlots # {}
    <3>1. PICK m \in FreeSlots : m = Min(FreeSlots)
      BY <2>2, MinIsLeast, FreeSlots \in SUBSET Nat DEF FreeSlots, Slot
    <3>2. dir' = [dir EXCEPT ![m] = [Unused EXCEPT !.name = Key[n]]]
      BY <2>2, <3>1 DEF Create
    <3>3. m \in Slot /\ ~Live(m)
      BY <3>1 DEF FreeSlots, Live
    <3>4. ch[m] = <<>> /\ Files(ch) /\ Stored(ch)
      BY <1>1, <3>3 DEF ChainsOf, Files
    <3>5. Size(m) = 0 /\ First(m) = 0
      BY <3>3, <3>4, UnusedEmpty
    <3>6. /\ dir'[m].first = 0 /\ dir'[m].size = 0
          /\ \A i \in Slot \ {m} : dir'[i] = dir[i]
      BY <3>2, <3>3 DEF TypeOK, DirType, Unused
    <3> QED BY <1>2, <3>3, <3>5, <3>6 DEF First, Size, Live
  <2> QED BY <2>1, <2>2
<1>4. Files(ch)' /\ Stored(ch)'
  BY <1>1, <1>2, <1>3, ViewKept DEF ChainsOf
<1>5. Chained(fat, ch)' /\ Seeking(ch)' /\ CommandInv'
  BY <1>1, <1>2 DEF ChainsOf, Seeking, CommandInv, Intact, ChainInv, Showing, HasFile
<1> QED BY <1>4, <1>5 DEF ChainInv, ChainsOf

(* open copies the entry into the handle; every file is seen as before.     *)
LEMMA OpenChains ==
    ASSUME TypeOK, ChainInv, NEW n \in Name, NEW command \in {"echo", "cat"},
           pc \in {"prompt", "created"}, OpenFor(n, command)
    PROVE  ChainInv'
<1> DEFINE m == Min(FoundToOpen(dir, Key[n]))
<1>1. PICK ch : ChainsOf(ch)
  BY DEF ChainInv
<1>2. /\ pc' = command /\ opened' = m /\ opened = 0 /\ 0 \notin Slot
      /\ file' = [name |-> n, first |-> dir[m].first, size |-> dir[m].size,
                  position |-> 0]
      /\ UNCHANGED <<fat, dir, data, text, shown>> /\ shown = <<>>
  BY DEF OpenFor, ChainInv, CommandInv, Intact, Slot, Showing, HasFile, disk
<1> HIDE DEF m
<1>3. \A i \in Slot : /\ First(i)' = First(i) /\ Size(i)' = Size(i)
                      /\ Live(i) => Live(i)'
  BY <1>2 DEF First, Size, Live
<1>4. Files(ch)' /\ Stored(ch)'
  BY <1>1, <1>2, <1>3, ViewKept DEF ChainsOf
<1>5. Chained(fat, ch)' /\ Seeking(ch)'
  BY <1>1, <1>2 DEF ChainsOf, Seeking
<1>6. CommandInv'
  <2>1. m \in Slot
    BY MinIsLeast, FoundToOpen(dir, Key[n]) \in SUBSET Nat
       DEF OpenFor, FoundToOpen, Slot, m
  <2>2. dir[m].size \in Nat
    BY <2>1, SizeTypes
  <2> QED BY <1>2, <2>2 DEF CommandInv, Intact, HasFile, Showing
<1> QED BY <1>4, <1>5, <1>6 DEF ChainInv, ChainsOf

(* The commands return; with an open file, through close.                   *)
LEMMA ReturnChains ==
    ASSUME \A n \in Name : Key[Saved[n]] = Key[n],
           TypeOK, Packed, Holding, ChainInv,
           CreateFailed \/ EchoEnds \/ EchoFails \/ CatEnds
    PROVE  ChainInv'
<1>1. PICK ch : ChainsOf(ch)
  BY DEF ChainInv
<1>2. /\ UNCHANGED <<fat, data, text>>
      /\ pc' = "prompt" /\ opened' = 0 /\ shown' = <<>> /\ 0 \notin Slot
  BY DEF CreateFailed, EchoEnds, EchoFails, CatEnds, ToPrompt, disk, Slot
<1>3. \A i \in Slot : /\ First(i)' = First(i) /\ Size(i)' = Size(i)
                      /\ Live(i) => Live(i)'
  <2>1. CASE CreateFailed
    BY <1>2, <2>1 DEF CreateFailed, disk, ChainInv, CommandInv, Intact, HasFile,
                      First, Size, Live
  <2>2. CASE EchoEnds \/ EchoFails \/ CatEnds
    <3>1. /\ pc \in HasFile
          /\ dir' \in {Closed(dir), Closed(Updated(dir, Key[file.name]))}
      BY <2>2 DEF EchoEnds, EchoFails, CatEnds, HasFile
    <3> QED BY <1>2, <3>1, CloseKeepsView
  <2> QED BY <2>1, <2>2
<1>4. Files(ch)' /\ Stored(ch)'
  BY <1>1, <1>2, <1>3, ViewKept DEF ChainsOf
<1>5. Chained(fat, ch)' /\ Seeking(ch)' /\ CommandInv'
  BY <1>1, <1>2 DEF ChainsOf, Seeking, CommandInv, Showing
<1> QED BY <1>4, <1>5 DEF ChainInv, ChainsOf

-----------------------------------------------------------------------------
(* The piece of a unit has its cluster in the chain, on the volume.         *)
LEMMA FitsFacts ==
    ASSUME NEW size \in Nat, NEW s, Fits(s, size), NEW u \in 0 .. size - 1
    PROVE  /\ u \in Nat /\ Piece(u) \in Nat /\ Offset(u) \in 0 .. ClusterSize - 1
           /\ Piece(u) < Len(s) /\ OnVolume(s[Piece(u) + 1])
<1>1. u \in Nat
  OBVIOUS
<1> QED BY <1>1, Pieces DEF Fits

LEMMA HomeNumbers ==
    \A c \in Home : c \in Nat /\ c >= 2 /\ c < 4088 /\ c # EndMark
BY HomeFacts

(* The entry of the open file is in use.                                    *)
LEMMA OpenedLive ==
    ASSUME TypeOK, Packed, Holding, pc \in HasFile
    PROVE  opened \in Slot /\ Live(opened)
<1>1. file.name \in Name
  BY DEF TypeOK, Handle
<1>2. /\ FoundToChange(dir, Key[file.name]) # {}
      /\ opened = Min(FoundToChange(dir, Key[file.name]))
  BY <1>1, SearchesAgree DEF Holding
<1> QED BY <1>1, <1>2, FoundEntry, NameAssumption DEF Live

(* Only the open file changes.                                              *)
LEMMA OneFile ==
    ASSUME NEW ch, Files(ch), opened \in Slot, Live(opened), NEW nx,
           UNCHANGED <<opened, dir>>, \A i \in Slot \ {opened} : nx[i] = ch[i],
           file'.first = IF nx[opened] = <<>> THEN 0 ELSE nx[opened][1],
           Fits(nx[opened], file'.size)
    PROVE  Files(nx)'
<1>1. ASSUME NEW i \in Slot
      PROVE  /\ First(i)' = IF nx[i] = <<>> THEN 0 ELSE nx[i][1]
             /\ Fits(nx[i], Size(i)')
             /\ ~Live(i)' => nx[i] = <<>>
  <2>1. CASE i = opened
    BY <2>1 DEF First, Size, Live
  <2>2. CASE i # opened
    <3>1. First(i)' = First(i) /\ Size(i)' = Size(i) /\ (Live(i) => Live(i)')
      BY <2>2 DEF First, Size, Live
    <3> QED BY <2>2, <3>1 DEF Files
  <2> QED BY <2>1, <2>2
<1> QED BY <1>1 DEF Files

(* A cluster is put behind the chain of the open file.                      *)
LEMMA OpenedGrows ==
    ASSUME TypeOK, NEW ch, Chained(fat, ch), opened \in Slot,
           FreeClusters(fat) # {}, fat' = Behind(fat, ch[opened])
    PROVE  LET new == Min(FreeClusters(fat))
               L   == Len(ch[opened])
           IN  \E nx : /\ Chained(fat, nx)' /\ L \in Nat
                       /\ \A i \in Slot \ {opened} : nx[i] = ch[i]
                       /\ nx[opened] # <<>>
                       /\ Len(nx[opened]) = L + 1 /\ nx[opened][L + 1] = new
                       /\ \A k \in 1 .. L : nx[opened][k] = ch[opened][k]
<1> DEFINE new == Min(FreeClusters(fat))
<1>1. PICK nx : nx = [ch EXCEPT ![opened] = Append(@, new)]
  OBVIOUS
<1>2. fat \in FatType
  BY DEF TypeOK
<1>3. new \in Home /\ Chained(fat', nx)
  BY <1>1, <1>2, ChainGrows
<1>4. ch[opened] \in Seq(Home) /\ nx[opened] = Append(ch[opened], new)
      /\ \A i \in Slot \ {opened} : nx[i] = ch[i]
  BY <1>1 DEF Chained
<1> HIDE DEF new
<1>5. /\ nx[opened] # <<>> /\ Len(ch[opened]) \in Nat
      /\ Len(nx[opened]) = Len(ch[opened]) + 1
      /\ nx[opened][Len(ch[opened]) + 1] = new
      /\ \A k \in 1 .. Len(ch[opened]) : nx[opened][k] = ch[opened][k]
  BY <1>3, <1>4
<1> QED BY <1>3, <1>4, <1>5 DEF new

(* A call of write that returns leaves the files as they are.               *)
LEMMA WriteReturned ==
    ASSUME NEW ch, NEW ok, WriteReturns(ok), pc \in {"echo", "write"}, CommandInv,
           UNCHANGED shown
    PROVE  Seeking(ch)' /\ CommandInv'
BY DEF WriteReturns, Seeking, CommandInv, Intact, HasFile, Showing

LEMMA NoClusterReturned ==
    ASSUME NEW ch, NoCluster, pc \in {"echo", "write"}, CommandInv, UNCHANGED shown
    PROVE  Seeking(ch)' /\ CommandInv'
<1>1. CASE WriteReturns(FALSE)
  <2>1. pc' \in {"echo", "failed"}
    BY <1>1 DEF WriteReturns
  <2> QED BY <2>1 DEF Seeking, CommandInv, HasFile, Showing
<1>2. CASE pc' = "overrun"
  BY <1>2 DEF Seeking, CommandInv, Intact, Showing
<1> QED BY <1>1, <1>2 DEF NoCluster

(* write begins: an empty file gets a chain of one cluster.                 *)
LEMMA StartChains ==
    ASSUME TypeOK, Packed, Holding, ChainInv, NEW w, StartWrite(w)
    PROVE  ChainInv'
<1>1. PICK ch : ChainsOf(ch)
  BY DEF ChainInv
<1>2. /\ pc = "echo" /\ pc \in HasFile /\ opened \in Slot /\ Live(opened)
      /\ UNCHANGED <<dir, data, opened, text, shown>> /\ CommandInv /\ shown = <<>>
  <2>1. pc = "echo" /\ pc \in HasFile
    BY DEF StartWrite, HasFile
  <2> QED BY <2>1, OpenedLive DEF StartWrite, history, ChainInv, CommandInv, Showing
<1>3. /\ Chained(fat, ch) /\ Files(ch) /\ Stored(ch)
      /\ ch[opened] \in Seq(Home) /\ file.size \in Nat /\ file \in Handle
      /\ First(opened) = file.first /\ Size(opened) = file.size
      /\ file.first = IF ch[opened] = <<>> THEN 0 ELSE ch[opened][1]
  BY <1>1, <1>2, SizeTypes DEF ChainsOf, Chained, Files, First, Size
<1>4. Piece(file.size) \in Nat /\ EndDistance(file.size) = Piece(file.size)
      /\ Piece(0) \in Nat
  BY <1>3, Pieces DEF EndDistance, Piece
<1>5. CASE file.first # 0
  <2>1. /\ file' = [file EXCEPT !.first = file.first] /\ fat' = fat
        /\ cluster' = file.first /\ togo' = EndDistance(file.size) /\ pc' = "write"
    BY <1>5 DEF StartWrite
  <2>2. file' = file
    BY <1>3, <2>1 DEF Handle
  <2>3. Files(ch)' /\ Stored(ch)'
    BY <1>2, <1>3, <2>2, ViewKept DEF First, Size, Live
  <2>4. Len(ch[opened]) >= 1 /\ Len(ch[opened]) \in Nat
    BY <1>3, <1>5, EmptySeq
  <2>5. Seeking(ch)'
    BY <1>2, <1>3, <1>4, <1>5, <2>1, <2>2, <2>4 DEF Seeking
  <2> QED BY <1>2, <1>3, <2>1, <2>3, <2>5
          DEF ChainInv, ChainsOf, CommandInv, Intact, HasFile, Showing
<1>6. CASE file.first = 0 /\ FreeClusters(fat) # {}
  <2> DEFINE new == Min(FreeClusters(fat))
  <2>1. /\ file' = [file EXCEPT !.first = new] /\ fat' = Allocated(fat)
        /\ cluster' = new /\ togo' = EndDistance(file.size) /\ pc' = "write"
    BY <1>6 DEF StartWrite
  <2>2. ch[opened] = <<>> /\ file.size = 0
    <3>1. ch[opened] # <<>> => ch[opened][1] \in Home
      BY <1>3, EmptySeq
    <3>2. ch[opened] = <<>>
      BY <1>3, <1>6, <3>1, HomeFacts
    <3> QED BY <1>2, <1>3, <3>2, UnusedEmpty
  <2>3. PICK nx : /\ Chained(fat, nx)' /\ \A i \in Slot \ {opened} : nx[i] = ch[i]
                  /\ Len(nx[opened]) = 1 /\ nx[opened][1] = new /\ nx[opened] # <<>>
    <3> DEFINE L == Len(ch[opened])
    <3>1. fat' = Behind(fat, ch[opened])
      BY <2>1, <2>2 DEF Behind
    <3>2. \E nx : /\ Chained(fat, nx)' /\ \A i \in Slot \ {opened} : nx[i] = ch[i]
                  /\ nx[opened] # <<>> /\ Len(nx[opened]) = L + 1 /\ nx[opened][L + 1] = new
      <4> HIDE DEF new
      <4> QED BY <1>2, <1>3, <1>6, <3>1, OpenedGrows, Zenon DEF new
    <3>3. L = 0
      BY <2>2
    <3> HIDE DEF L, new
    <3> QED BY <3>2, <3>3
  <2> HIDE DEF new
  <2>4. file'.first = new /\ file'.size = 0
    BY <1>3, <2>1, <2>2 DEF Handle
  <2>5. Fits(nx[opened], 0)
    BY <1>4, <2>3 DEF Fits
  <2>6. Files(nx)'
    BY <1>2, <1>3, <2>3, <2>4, <2>5, OneFile
  <2>7. Stored(nx)'
    <3> SUFFICES ASSUME NEW i \in Slot
                 PROVE  /\ Len(text'[i]) = Size(i)'
                        /\ \A u \in 0 .. Size(i)' - 1 :
                             text'[i][u + 1] = data'[nx[i][Piece(u) + 1]][Offset(u) + 1]
      BY DEF Stored
    <3>1. Size(i)' = Size(i)
      BY <1>2, <1>3, <2>2, <2>4 DEF Size
    <3>2. CASE i = opened
      BY <1>2, <1>3, <2>2, <3>1, <3>2 DEF Stored
    <3>3. CASE i # opened
      BY <1>2, <1>3, <2>3, <3>1, <3>3 DEF Stored
    <3> QED BY <3>2, <3>3
  <2>8. Seeking(nx)'
    BY <1>2, <1>4, <2>1, <2>2, <2>3, <2>4 DEF Seeking
  <2> QED BY <1>2, <2>1, <2>3, <2>6, <2>7, <2>8
          DEF ChainInv, ChainsOf, CommandInv, Intact, HasFile, Showing
<1>7. CASE file.first = 0 /\ FreeClusters(fat) = {}
  <2>1. NoCluster /\ UNCHANGED <<file, fat>>
    BY <1>7 DEF StartWrite
  <2>2. Files(ch)' /\ Stored(ch)'
    BY <1>2, <1>3, <2>1, ViewKept DEF First, Size, Live
  <2> QED BY <1>2, <1>3, <2>1, <2>2, NoClusterReturned DEF ChainInv, ChainsOf
<1> QED BY <1>5, <1>6, <1>7

(* The cluster the write is at, and what follows it.                        *)
LEMMA SeekingFacts ==
    ASSUME TypeOK, Packed, Holding, NEW ch, ChainsOf(ch), pc = "write"
    PROVE  LET s == ch[opened]
               k == Piece(file.size) - togo + 1
           IN  /\ opened \in Slot /\ Live(opened)
               /\ s \in Seq(Home) /\ s # <<>> /\ Len(s) \in Nat
               /\ k \in 1 .. Len(s) /\ cluster = s[k] /\ cluster \in Home
               /\ First(opened) = file.first /\ Size(opened) = file.size
               /\ file.first = s[1] /\ Fits(s, file.size)
               /\ Len(s) <= Piece(file.size) + 1
               /\ Piece(file.size) \in Nat /\ togo \in Nat /\ file.size \in Nat
               /\ NextCluster(fat, cluster) = IF k = Len(s) THEN EndMark ELSE s[k + 1]
<1> DEFINE s == ch[opened]
           k == Piece(file.size) - togo + 1
<1>1. opened \in Slot /\ Live(opened)
  BY OpenedLive DEF HasFile
<1>2. /\ Chained(fat, ch) /\ Files(ch) /\ s \in Seq(Home) /\ Len(s) \in Nat
      /\ First(opened) = file.first /\ Size(opened) = file.size
      /\ k \in 1 .. Len(s) /\ cluster = s[k]
      /\ file.size \in Nat /\ togo \in Nat
  <2>1. Chained(fat, ch) /\ Files(ch) /\ Seeking(ch)
    BY DEF ChainsOf
  <2>2. s \in Seq(Home) /\ Len(s) \in Nat
    BY <1>1, <2>1 DEF Chained
  <2>3. First(opened) = file.first /\ Size(opened) = file.size
    BY DEF First, Size
  <2>4. k \in 1 .. Len(s) /\ cluster = s[k]
    BY <2>1 DEF Seeking
  <2>5. file.size \in Nat /\ togo \in Nat
    BY SizeTypes DEF TypeOK
  <2> QED BY <2>1, <2>2, <2>3, <2>4, <2>5
<1>3. Piece(file.size) \in Nat
  BY <1>2, Pieces
<1>4. s # <<>> /\ cluster \in Home
  BY <1>2
<1>5. file.first = s[1] /\ Fits(s, file.size)
  BY <1>1, <1>2, <1>4 DEF Files
<1>6. Len(s) <= Piece(file.size) + 1
  BY <1>5 DEF Fits
<1>7. Entry(fat, cluster) = IF k = Len(s) THEN EOC ELSE s[k + 1]
  BY <1>1, <1>2 DEF Chained, Linked
<1>8. k # Len(s) => s[k + 1] \in Home
  BY <1>2
<1>9. NextCluster(fat, cluster) = IF k = Len(s) THEN EndMark ELSE s[k + 1]
  <2>1. CASE k = Len(s)
    BY <1>7, <2>1 DEF NextCluster, EOC
  <2>2. CASE k # Len(s)
    <3>1. Entry(fat, cluster) = s[k + 1]
      BY <1>7, <2>2
    <3>2. s[k + 1] \in Nat /\ s[k + 1] < 4088
      BY <1>8, <2>2, HomeNumbers
    <3> QED BY <2>2, <3>1, <3>2 DEF NextCluster
  <2> QED BY <2>1, <2>2
<1> QED BY <1>1, <1>2, <1>3, <1>4, <1>5, <1>6, <1>9

(* The way to the end of the file, which may need one more cluster.         *)
LEMMA SeekChains ==
    ASSUME TypeOK, Packed, Holding, ChainInv, Seek
    PROVE  ChainInv'
<1>1. PICK ch : ChainsOf(ch)
  BY DEF ChainInv
<1> DEFINE s == ch[opened]
           k == Piece(file.size) - togo + 1
           step == togo' = togo - 1 /\ UNCHANGED <<pc, kind, left>>
<1>2. /\ pc = "write" /\ togo > 0 /\ UNCHANGED <<dir, data, file, opened, text, shown>>
      /\ CommandInv /\ Chained(fat, ch) /\ Files(ch) /\ Stored(ch)
  BY <1>1 DEF Seek, history, ChainInv, ChainsOf
<1>3. /\ opened \in Slot /\ Live(opened)
      /\ s \in Seq(Home) /\ s # <<>> /\ Len(s) \in Nat
      /\ k \in 1 .. Len(s) /\ cluster = s[k] /\ cluster \in Home
      /\ First(opened) = file.first /\ Size(opened) = file.size
      /\ file.first = s[1] /\ Fits(s, file.size)
      /\ Len(s) <= Piece(file.size) + 1
      /\ Piece(file.size) \in Nat /\ togo \in Nat /\ file.size \in Nat
      /\ NextCluster(fat, cluster) = IF k = Len(s) THEN EndMark ELSE s[k + 1]
  BY <1>1, <1>2, SeekingFacts
<1>4. step => CommandInv'
  BY <1>2 DEF CommandInv, Intact, HasFile, Showing
<1>5. CASE k # Len(s)
  <2>1. NextCluster(fat, cluster) # EndMark
    <3>1. s[k + 1] \in Home
      BY <1>3, <1>5
    <3>2. s[k + 1] # EndMark
      BY <3>1, HomeNumbers
    <3> QED BY <1>3, <1>5, <3>2
  <2>2. cluster' = s[k + 1] /\ step /\ fat' = fat
    BY <1>3, <1>5, <2>1 DEF Seek
  <2>3. Files(ch)' /\ Stored(ch)'
    BY <1>2, ViewKept DEF First, Size, Live
  <2>4. Seeking(ch)'
    BY SMTT(60), <1>2, <1>3, <1>5, <2>2 DEF Seeking
  <2> QED BY <1>2, <1>4, <2>2, <2>3, <2>4 DEF ChainInv, ChainsOf
<1>6. CASE k = Len(s) /\ FreeClusters(fat) = {}
  <2>1. GrowOrFail(step)
    BY <1>3, <1>6 DEF Seek
  <2>2. NoCluster /\ fat' = fat
    BY <1>6, <2>1 DEF GrowOrFail
  <2>3. Files(ch)' /\ Stored(ch)'
    BY <1>2, ViewKept DEF First, Size, Live
  <2> QED BY <1>2, <2>2, <2>3, NoClusterReturned DEF ChainInv, ChainsOf
<1>7. CASE k = Len(s) /\ FreeClusters(fat) # {}
  <2> DEFINE new == Min(FreeClusters(fat))
  <2>1. GrowOrFail(step)
    BY <1>3, <1>7 DEF Seek
  <2>2. fat' = Extended(fat, cluster) /\ cluster' = new /\ step
    BY <1>7, <2>1 DEF GrowOrFail
  <2>3. fat' = Behind(fat, s)
    BY <1>3, <1>7, <2>2 DEF Behind
  <2>4. PICK nx : /\ Chained(fat, nx)' /\ \A i \in Slot \ {opened} : nx[i] = ch[i]
                  /\ nx[opened] # <<>>
                  /\ Len(nx[opened]) = Len(s) + 1 /\ nx[opened][Len(s) + 1] = new
                  /\ \A l \in 1 .. Len(s) : nx[opened][l] = s[l]
    BY <1>2, <1>3, <1>7, <2>3, OpenedGrows
  <2> HIDE DEF new
  <2>5. Fits(nx[opened], file.size)
    <3>1. Len(nx[opened]) <= Piece(file.size) + 1
      BY <1>2, <1>3, <1>7, <2>4
    <3>2. ASSUME NEW u \in 0 .. file.size - 1
          PROVE  Piece(u) < Len(nx[opened]) /\ OnVolume(nx[opened][Piece(u) + 1])
      <4>1. Piece(u) \in Nat /\ Piece(u) < Len(s) /\ OnVolume(s[Piece(u) + 1])
        BY <1>3, FitsFacts
      <4>2. Piece(u) + 1 \in 1 .. Len(s) /\ Len(s) \in Nat
        <5>1. Len(s) \in Nat
          BY <1>3
        <5> HIDE DEF s
        <5> QED BY <4>1, <5>1
      <4>3. nx[opened][Piece(u) + 1] = s[Piece(u) + 1]
        BY <2>4, <4>2
      <4> HIDE DEF s
      <4> QED BY <2>4, <4>1, <4>2, <4>3
    <3> QED BY <3>1, <3>2 DEF Fits
  <2>6. Files(nx)'
    <3>1. nx[opened][1] = s[1]
      <4>1. 1 \in 1 .. Len(s)
        BY <1>3
      <4> HIDE DEF s, k
      <4> QED BY <2>4, <4>1
    <3>2. file'.first = nx[opened][1] /\ file'.size = file.size
      BY <1>2, <1>3, <3>1
    <3> QED BY <1>2, <1>3, <2>4, <2>5, <3>2, OneFile
  <2>7. Stored(nx)'
    <3> SUFFICES ASSUME NEW i \in Slot
                 PROVE  /\ Len(text'[i]) = Size(i)'
                        /\ \A u \in 0 .. Size(i)' - 1 :
                             text'[i][u + 1] = data'[nx[i][Piece(u) + 1]][Offset(u) + 1]
      BY DEF Stored
    <3>1. Size(i)' = Size(i)
      BY <1>2 DEF Size
    <3>2. CASE i = opened
      <4>1. \A u \in 0 .. Size(i) - 1 : nx[i][Piece(u) + 1] = s[Piece(u) + 1]
        <5> SUFFICES ASSUME NEW u \in 0 .. file.size - 1
                     PROVE  nx[opened][Piece(u) + 1] = s[Piece(u) + 1]
          BY <1>3, <3>2
        <5>1. Piece(u) \in Nat /\ Piece(u) < Len(s)
          BY <1>3, FitsFacts
        <5>2. Piece(u) + 1 \in 1 .. Len(s)
          <6>1. Len(s) \in Nat
            BY <1>3
          <6> HIDE DEF s
          <6> QED BY <5>1, <6>1
        <5> QED BY <2>4, <5>2
      <4> QED BY <1>2, <3>1, <3>2, <4>1 DEF Stored
    <3>3. CASE i # opened
      BY <1>2, <2>4, <3>1, <3>3 DEF Stored
    <3> QED BY <3>2, <3>3
  <2>8. Seeking(nx)'
    BY SMTT(60), <1>2, <1>3, <1>7, <2>2, <2>4 DEF Seeking
  <2> QED BY <1>4, <2>2, <2>4, <2>6, <2>7, <2>8 DEF ChainInv, ChainsOf
<1> QED BY <1>5, <1>6, <1>7

-----------------------------------------------------------------------------
(* The same without the product, which the provers are slow with.           *)
LEMMA PieceTypes ==
    \A n \in Nat : /\ Piece(n) \in Nat /\ Offset(n) \in Nat /\ Offset(n) < ClusterSize
                   /\ ClusterSize \in Nat
<1>1. ClusterSize \in Nat
  BY Volume
<1> QED BY <1>1, Pieces

(* What write puts into the present cluster: all of it, or up to its end.   *)
LEMMA PartFits ==
    ASSUME TypeOK
    PROVE  /\ Part \in Seq(Unit) /\ Len(Part) \in Nat
           /\ Offset(file.size) + Len(Part) <= ClusterSize
           /\ Rest # <<>> => Offset(file.size) + Len(Part) = ClusterSize
<1>1. left \in Seq(Unit) /\ Len(left) \in Nat /\ file.size \in Nat
  BY DEF TypeOK, Handle
<1> DEFINE room == ClusterSize - Offset(file.size)
           n    == Min({Len(left), room})
<1>2. room \in Nat /\ Offset(file.size) \in Nat /\ ClusterSize \in Nat
  <2>1. Offset(file.size) \in Nat /\ Offset(file.size) < ClusterSize /\ ClusterSize \in Nat
    BY <1>1, PieceTypes
  <2> QED BY <2>1
<1>3. Part = SubSeq(left, 1, n)
  BY DEF Part, Offset
<1>4. n \in {Len(left), room} /\ n <= Len(left) /\ n <= room
  <2> HIDE DEF room
  <2> QED BY <1>1, <1>2, MinOfTwo
<1> HIDE DEF n
<1>5. n \in 0 .. Len(left)
  <2> HIDE DEF room
  <2> QED BY <1>1, <1>2, <1>4
<1>6. Part \in Seq(Unit) /\ Len(Part) = n
  BY <1>1, <1>3, <1>5, SubSeqProperties
<1>7. n = Len(left) => Rest = <<>>
  BY <1>1, <1>6 DEF Rest
<1> QED BY <1>2, <1>4, <1>5, <1>6, <1>7

(* The units of a file behind a round of write: the old ones, and the part. *)
(* What a round of write does to the data and to what was stored.           *)
RoundOfWrite(ch) ==
    /\ \A i \in Slot : Len(ch[i]) \in Nat
    /\ opened \in Slot /\ Len(ch[opened]) = Piece(file.size) + 1
    /\ cluster = ch[opened][Len(ch[opened])] /\ cluster \in 2 .. LastCluster
    /\ opened' = opened /\ dir' = dir /\ file'.size = file.size + Len(Part)
    /\ data' = [data EXCEPT ![cluster] =
                   [u \in 1 .. ClusterSize |->
                      IF u - Offset(file.size) \in 1 .. Len(Part)
                      THEN Part[u - Offset(file.size)] ELSE @[u]]]
    /\ text' = [text EXCEPT ![opened] = @ \o Part]

LEMMA PartStored ==
    ASSUME TypeOK, NEW ch, Disjoint(ch), Files(ch), Stored(ch), RoundOfWrite(ch),
           NEW nx, \A i \in Slot \ {opened} : nx[i] = ch[i],
           \A k \in 1 .. Len(ch[opened]) : nx[opened][k] = ch[opened][k]
    PROVE  Stored(nx)'
<1> DEFINE s == ch[opened]
           size == file.size
           r == Offset(size)
           q == Piece(size)
           n == Len(Part)
<1>1. /\ Part \in Seq(Unit) /\ n \in Nat /\ r + n <= ClusterSize
      /\ size \in Nat /\ q \in Nat /\ r \in Nat /\ ClusterSize \in Nat
  <2>1. size \in Nat
    BY SizeTypes
  <2> QED BY <2>1, PartFits, PieceTypes
<1>2. /\ text[opened] \in Seq(Unit) /\ Len(text[opened]) = size
      /\ text'[opened] = text[opened] \o Part
      /\ \A i \in Slot \ {opened} : text'[i] = text[i]
  BY DEF TypeOK, Stored, Size, RoundOfWrite
<1>3. /\ \A c \in (2 .. LastCluster) \ {cluster} : data'[c] = data[c]
      /\ \A u \in 1 .. ClusterSize :
            data'[cluster][u] = IF u - r \in 1 .. n THEN Part[u - r] ELSE data[cluster][u]
  BY DEF TypeOK, DataType, RoundOfWrite
<1>0. opened \in Slot /\ Len(s) = q + 1 /\ cluster = s[Len(s)]
  BY DEF RoundOfWrite
<1>4. ASSUME NEW i \in Slot, NEW u \in 0 .. Size(i) - 1
      PROVE  /\ u \in Nat /\ Piece(u) + 1 \in 1 .. Len(ch[i])
             /\ Offset(u) \in 0 .. ClusterSize - 1
             /\ ch[i][Piece(u) + 1] \in 2 .. LastCluster
  <2>1. Size(i) \in Nat /\ Fits(ch[i], Size(i)) /\ Len(ch[i]) \in Nat
    BY SizeTypes DEF Files, RoundOfWrite
  <2>2. /\ u \in Nat /\ Piece(u) \in Nat /\ Offset(u) \in 0 .. ClusterSize - 1
        /\ Piece(u) < Len(ch[i]) /\ OnVolume(ch[i][Piece(u) + 1])
    BY <2>1, FitsFacts
  <2> QED BY <2>1, <2>2 DEF OnVolume
<1> SUFFICES ASSUME NEW i \in Slot
             PROVE  /\ Len(text'[i]) = Size(i)'
                    /\ \A u \in 0 .. Size(i)' - 1 :
                          text'[i][u + 1] = data'[nx[i][Piece(u) + 1]][Offset(u) + 1]
  BY DEF Stored
<1>5. CASE i # opened
  <2>1. Size(i)' = Size(i)
    BY <1>5 DEF Size, RoundOfWrite
  <2>2. ASSUME NEW u \in 0 .. Size(i) - 1
        PROVE  text'[i][u + 1] = data'[nx[i][Piece(u) + 1]][Offset(u) + 1]
    <3>1. /\ Piece(u) + 1 \in 1 .. Len(ch[i]) /\ ch[i][Piece(u) + 1] \in 2 .. LastCluster
      BY <1>4
    <3>2. Len(s) \in 1 .. Len(ch[opened])
      BY <1>0, <1>1
    <3>3. ch[i][Piece(u) + 1] # cluster
      BY <1>0, <1>5, <3>1, <3>2 DEF Disjoint
    <3>4. data'[ch[i][Piece(u) + 1]] = data[ch[i][Piece(u) + 1]]
      BY <1>3, <3>1, <3>3
    <3>5. text[i][u + 1] = data[ch[i][Piece(u) + 1]][Offset(u) + 1]
      BY DEF Stored
    <3> QED BY <1>2, <1>5, <3>4, <3>5
  <2> QED BY <1>2, <1>5, <2>1, <2>2 DEF Stored
<1>6. CASE i = opened
  <2>1. Size(i)' = size + n /\ Size(i) = size
    BY <1>6 DEF Size, RoundOfWrite
  <2>2. Len(text'[i]) = size + n
    <3> HIDE DEF size, r, q
    <3>1. Len(text[opened] \o Part) = Len(text[opened]) + Len(Part)
      BY <1>1, <1>2, ConcatProperties
    <3> QED BY <1>2, <1>6, <3>1
  <2>3. ASSUME NEW u \in 0 .. size - 1
        PROVE  text'[i][u + 1] = data'[nx[i][Piece(u) + 1]][Offset(u) + 1]
    <3>1. /\ u \in Nat /\ u < size /\ Piece(u) + 1 \in 1 .. Len(s)
          /\ Offset(u) \in 0 .. ClusterSize - 1
          /\ s[Piece(u) + 1] \in 2 .. LastCluster
      BY SMTT(60), <1>1, <1>4, <1>6, <2>1
    <3>2. text'[i][u + 1] = text[opened][u + 1]
      BY SMTT(60), <1>1, <1>2, <1>6, <3>1
    <3>3. text[opened][u + 1] = data[s[Piece(u) + 1]][Offset(u) + 1]
      BY <1>6, <2>1 DEF Stored
    <3>4. nx[i][Piece(u) + 1] = s[Piece(u) + 1]
      BY <1>6, <3>1
    <3>5. CASE s[Piece(u) + 1] # cluster
      BY <1>3, <3>1, <3>2, <3>3, <3>4, <3>5
    <3>6. CASE s[Piece(u) + 1] = cluster
      <4>1. Len(s) \in 1 .. Len(s)
        BY <3>1
      <4>2. Piece(u) + 1 = Len(s)
        BY <1>0, <3>1, <3>6, <4>1 DEF Disjoint
      <4>3. Piece(u) \in Nat /\ Piece(u) = q
        <5>1. Piece(u) \in Nat
          BY <3>1, Pieces
        <5> HIDE DEF q
        <5> HIDE DEF s
        <5> QED BY <1>0, <1>1, <4>2, <5>1
      <4>4. Offset(u) < r
        BY <1>1, <3>1, <4>3, PieceOrder
      <4> HIDE DEF r, n, s, size, q
      <4>5. Offset(u) + 1 \in 1 .. ClusterSize /\ (Offset(u) + 1) - r \notin 1 .. n
        BY <1>1, <3>1, <4>4
      <4>6. data'[cluster][Offset(u) + 1] = data[cluster][Offset(u) + 1]
        BY <1>3, <4>5
      <4> QED BY <3>2, <3>3, <3>4, <3>6, <4>6
    <3> QED BY <3>5, <3>6
  <2>4. ASSUME NEW u \in size .. size + n - 1
        PROVE  text'[i][u + 1] = data'[nx[i][Piece(u) + 1]][Offset(u) + 1]
    <3> DEFINE v == u - size
    <3>1. v \in Nat /\ v < n /\ u = size + v /\ v + 1 \in 1 .. n
      <4> HIDE DEF n, size, r, q
      <4> QED BY <1>1
    <3> HIDE DEF v
    <3>2. r + v < ClusterSize
      <4> HIDE DEF r, n
      <4> QED BY <1>1, <3>1
    <3>3. Piece(u) = q /\ Offset(u) = r + v
      BY <1>1, <3>1, <3>2, SamePiece
    <3>4. nx[i][Piece(u) + 1] = cluster
      <4>1. Len(s) \in 1 .. Len(s) /\ Len(s) = Piece(u) + 1
        BY <1>0, <1>1, <3>3
      <4> QED BY <1>0, <1>6, <4>1
    <3>5. text'[i][u + 1] = Part[v + 1]
      <4> HIDE DEF n, size, r, q
      <4> QED BY SMTT(60), <1>1, <1>2, <1>6, <3>1 DEF n
    <3> HIDE DEF r, n, q, size
    <3>6. Offset(u) + 1 \in 1 .. ClusterSize /\ (Offset(u) + 1) - r = v + 1
      BY <1>1, <3>1, <3>2, <3>3
    <3>7. data'[cluster][Offset(u) + 1] = Part[v + 1]
      BY <1>3, <3>1, <3>6
    <3> QED BY <3>4, <3>5, <3>7
  <2>5. 0 .. (size + n) - 1 = (0 .. size - 1) \cup (size .. size + n - 1)
    BY <1>1
  <2> HIDE DEF n, size
  <2> QED BY <2>1, <2>2, <2>3, <2>4, <2>5
<1> QED BY <1>5, <1>6

(* A round of write: the cluster is the last one, and is full before the    *)
(* chain grows.                                                             *)
LEMMA WriteChains ==
    ASSUME TypeOK, Packed, Holding, ChainInv, WriteSector
    PROVE  ChainInv'
<1>1. PICK ch : ChainsOf(ch)
  BY DEF ChainInv
<1> DEFINE s == ch[opened]
           size == file.size
           n == Len(Part)
           step == left' = Rest /\ UNCHANGED <<pc, kind, togo>>
<1>2. /\ pc = "write" /\ togo = 0 /\ UNCHANGED <<dir, opened, shown>> /\ shown = <<>>
      /\ cluster \in 2 .. LastCluster
      /\ CommandInv /\ Chained(fat, ch) /\ Disjoint(ch) /\ Files(ch) /\ Stored(ch)
      /\ \A i \in Slot : Len(ch[i]) \in Nat
  BY <1>1 DEF WriteSector, ChainInv, ChainsOf, Chained, CommandInv, Showing, OnVolume
<1>3. /\ opened \in Slot /\ Live(opened)
      /\ s \in Seq(Home) /\ s # <<>> /\ Len(s) \in Nat
      /\ Piece(size) - togo + 1 \in 1 .. Len(s) /\ cluster = s[Piece(size) - togo + 1]
      /\ file.first = s[1] /\ Fits(s, size)
      /\ Len(s) <= Piece(size) + 1 /\ Piece(size) \in Nat /\ size \in Nat
  BY <1>1, <1>2, SeekingFacts
<1>4. Len(s) = Piece(size) + 1 /\ cluster = s[Len(s)] /\ 1 \in 1 .. Len(s)
  BY <1>2, <1>3
<1>5. /\ data' = [data EXCEPT ![cluster] =
                   [u \in 1 .. ClusterSize |->
                      IF u - Offset(file.size) \in 1 .. Len(Part)
                      THEN Part[u - Offset(file.size)] ELSE @[u]]]
      /\ text' = [text EXCEPT ![opened] = @ \o Part]
  BY DEF WriteSector, Offset
<1>6. file'.first = file.first /\ file'.size = size + n
  <2>1. file \in Handle
    BY DEF TypeOK
  <2>2. file' = [file EXCEPT !.size = file.size + Len(Part), !.position = @ + Len(Part)]
    BY DEF WriteSector
  <2> QED BY <2>1, <2>2 DEF Handle
<1>7. /\ n \in Nat /\ Offset(size) \in Nat /\ Offset(size) + n <= ClusterSize
      /\ Rest # <<>> => Piece(size + n) = Piece(size) + 1
      /\ Piece(size + n) \in Nat
      /\ Piece(size) <= Piece(size + n)
  <2>1. n \in Nat /\ Offset(size) + n <= ClusterSize
        /\ (Rest # <<>> => Offset(size) + n = ClusterSize)
    BY PartFits
  <2>0. size \in Nat /\ Piece(size) \in Nat
    BY <1>3
  <2>5. Offset(size) \in Nat
    BY <2>0, PieceTypes
  <2> HIDE DEF size, n, s
  <2>2. Rest # <<>> => Piece(size + n) = Piece(size) + 1
    BY <2>0, <2>1, SamePiece
  <2>3. CASE n = 0
    <3>1. size + n = size
      BY <2>0, <2>3
    <3> QED BY <2>0, <2>1, <2>2, <2>5, <3>1
  <2>4. CASE n > 0
    <3>1. size + n \in Nat /\ size < size + n
      BY <2>0, <2>1, <2>4
    <3>2. Piece(size) <= Piece(size + n)
      BY <2>0, <3>1, PieceOrder
    <3>3. Piece(size + n) \in Nat
      BY <3>1, PieceTypes
    <3> QED BY <2>1, <2>2, <2>5, <3>2, <3>3
  <2> QED BY <2>1, <2>3, <2>4
(* Every unit of the longer file is in a cluster of the volume. *)
<1>8. ASSUME NEW u \in 0 .. (size + n) - 1
      PROVE  /\ Piece(u) \in Nat /\ Piece(u) < Len(s) /\ Piece(u) + 1 \in 1 .. Len(s)
             /\ OnVolume(s[Piece(u) + 1])
  <2>1. CASE u < size
    <3>1. u \in 0 .. size - 1
      BY <1>3, <1>7, <2>1
    <3>2. Piece(u) \in Nat /\ Piece(u) < Len(s) /\ OnVolume(s[Piece(u) + 1])
      BY <1>3, <3>1, FitsFacts
    <3>3. Len(s) \in Nat
      BY <1>3
    <3> HIDE DEF s
    <3> QED BY <3>2, <3>3
  <2>2. CASE ~(u < size)
    <3> DEFINE v == u - size
    <3>1. v \in Nat /\ v < n /\ u = size + v
      BY SMTT(60), <1>3, <1>7, <2>2
    <3> HIDE DEF v
    <3>2. Offset(size) + v < ClusterSize
      <4> HIDE DEF size, n
      <4> QED BY <1>7, <3>1, Volume
    <3>3. Piece(u) = Piece(size)
      BY <1>3, <3>1, <3>2, SamePiece
    <3>4. Piece(u) + 1 = Len(s) /\ Len(s) \in Nat
      BY <1>3, <1>4, <3>3
    <3>5. OnVolume(s[Piece(u) + 1])
      BY <1>2, <1>4, <3>4 DEF OnVolume
    <3> HIDE DEF s, size
    <3> QED BY <1>3, <3>3, <3>4, <3>5
  <2> QED BY <2>1, <2>2
<1>9. CASE Rest = <<>> \/ FreeClusters(fat) = {}
  <2>1. (WriteReturns(TRUE) \/ NoCluster) /\ fat' = fat
    <3>1. CASE Rest = <<>>
      BY <3>1 DEF WriteSector
    <3>2. CASE Rest # <<>>
      <4>1. GrowOrFail(step)
        BY <3>2 DEF WriteSector
      <4> HIDE DEF step
      <4> QED BY <1>9, <3>2, <4>1 DEF GrowOrFail
    <3> QED BY <3>1, <3>2
  <2>2. Fits(s, size + n)
    <3>1. Len(s) <= Piece(size + n) + 1
      <4> HIDE DEF size, n, s
      <4> QED BY <1>3, <1>4, <1>7
    <3> HIDE DEF size, n, s
    <3> QED BY <1>8, <3>1 DEF Fits
  <2>3. Files(ch)'
    <3>1. file'.first = IF ch[opened] = <<>> THEN 0 ELSE ch[opened][1]
      BY <1>3, <1>6
    <3>2. Fits(ch[opened], file'.size)
      BY <1>6, <2>2
    <3> QED BY <1>2, <1>3, <3>1, <3>2, OneFile
  <2>4. Stored(ch)'
    <3>1. RoundOfWrite(ch)
      BY <1>2, <1>3, <1>4, <1>5, <1>6 DEF RoundOfWrite
    <3> QED BY <1>2, <3>1, PartStored
  <2> QED BY <1>2, <2>1, <2>3, <2>4, WriteReturned, NoClusterReturned DEF ChainInv, ChainsOf
<1>10. CASE Rest # <<>> /\ FreeClusters(fat) # {}
  <2> DEFINE new == Min(FreeClusters(fat))
  <2>1. GrowOrFail(step)
    BY <1>10 DEF WriteSector
  <2>2. fat' = Extended(fat, cluster) /\ cluster' = new /\ step
    BY <1>10, <2>1 DEF GrowOrFail
  <2>3. fat' = Behind(fat, s)
    BY <1>3, <1>4, <2>2 DEF Behind
  <2>4. PICK nx : /\ Chained(fat, nx)' /\ \A i \in Slot \ {opened} : nx[i] = ch[i]
                  /\ nx[opened] # <<>>
                  /\ Len(nx[opened]) = Len(s) + 1 /\ nx[opened][Len(s) + 1] = new
                  /\ \A l \in 1 .. Len(s) : nx[opened][l] = s[l]
    <3>1. /\ Chained(fat, ch) /\ opened \in Slot /\ FreeClusters(fat) # {}
          /\ fat' = Behind(fat, ch[opened])
      BY <1>2, <1>3, <1>10, <2>3
    <3> QED BY <3>1, OpenedGrows
  <2> HIDE DEF new
  <2>5. Fits(nx[opened], size + n)
    <3>1. Len(nx[opened]) <= Piece(size + n) + 1
      <4> HIDE DEF size, n, s
      <4> QED BY <1>3, <1>4, <1>7, <1>10, <2>4
    <3>2. ASSUME NEW u \in 0 .. (size + n) - 1
          PROVE  Piece(u) < Len(nx[opened]) /\ OnVolume(nx[opened][Piece(u) + 1])
      <4>1. nx[opened][Piece(u) + 1] = s[Piece(u) + 1]
        BY <1>8, <2>4
      <4>2. Len(s) \in Nat /\ Piece(u) \in Nat /\ Piece(u) < Len(s)
        BY <1>3, <1>8
      <4> HIDE DEF s, size, n
      <4> QED BY <1>8, <2>4, <4>1, <4>2
    <3> HIDE DEF size, n
    <3> QED BY <3>1, <3>2 DEF Fits
  <2>6. Files(nx)'
    <3>1. nx[opened][1] = s[1]
      BY <1>4, <2>4
    <3>2. file'.first = IF nx[opened] = <<>> THEN 0 ELSE nx[opened][1]
      BY <1>3, <1>6, <2>4, <3>1
    <3>3. Fits(nx[opened], file'.size)
      BY <1>6, <2>5
    <3> QED BY <1>2, <1>3, <2>4, <3>2, <3>3, OneFile
  <2>7. Stored(nx)'
    <3>1. RoundOfWrite(ch)
      BY <1>2, <1>3, <1>4, <1>5, <1>6 DEF RoundOfWrite
    <3> QED BY <1>2, <2>4, <3>1, PartStored
  <2>8. Seeking(nx)' /\ CommandInv'
    <3>1. Piece(file'.size) = Piece(size) + 1 /\ togo' = 0 /\ opened' = opened
      BY <1>2, <1>6, <1>7, <1>10, <2>2
    <3>2. Len(nx[opened]) \in Nat /\ Piece(file'.size) - togo' + 1 = Len(nx[opened])
          /\ Len(nx[opened]) = Len(s) + 1 /\ Len(nx[opened]) >= 1
      <4> HIDE DEF s, size
      <4> QED BY <1>3, <1>4, <2>4, <3>1
    <3>3. Seeking(nx)'
      BY <2>2, <2>4, <3>1, <3>2 DEF Seeking
    <3>4. CommandInv'
      BY <1>2, <2>2 DEF CommandInv, Intact, HasFile, Showing
    <3> QED BY <3>3, <3>4
  <2> QED BY <2>4, <2>6, <2>7, <2>8 DEF ChainInv, ChainsOf
<1> QED BY <1>9, <1>10

(* A cluster behind the volume is refused by the device.                    *)
LEMMA OffVolumeChains ==
    ASSUME TypeOK, ChainInv, WriteOffVolume
    PROVE  ChainInv'
<1>1. PICK ch : ChainsOf(ch)
  BY DEF ChainInv
<1>2. /\ pc = "write" /\ WriteReturns(FALSE) /\ CommandInv
      /\ UNCHANGED <<fat, dir, data, file, opened, text, shown>>
      /\ Chained(fat, ch) /\ Files(ch) /\ Stored(ch)
  BY <1>1 DEF WriteOffVolume, disk, history, ChainInv, ChainsOf
<1>3. Files(ch)' /\ Stored(ch)'
  BY <1>2, ViewKept DEF First, Size, Live
<1> QED BY <1>2, <1>3, WriteReturned DEF ChainInv, ChainsOf

-----------------------------------------------------------------------------
(* Following the links of the FAT.                                          *)
(* A set of numbers with 0 and, below a bound, the successor of each of its *)
(* members has every number up to the bound.                                *)
LEMMA UpTo ==
    ASSUME NEW N \in Nat, NEW T, 0 \in T, \A n \in T : n \in Nat /\ n < N => n + 1 \in T
    PROVE  0 .. N \subseteq T
<1> SUFFICES ASSUME (0 .. N) \ T # {} PROVE FALSE
  OBVIOUS
<1> DEFINE D == (0 .. N) \ T
           n == Min(D)
<1>1. D \in SUBSET Nat /\ D # {}
  OBVIOUS
<1>2. n \in D /\ \A m \in D : n <= m
  <2> HIDE DEF D
  <2> QED BY <1>1, MinIsLeast
<1> HIDE DEF n
<1>3. n # 0 /\ n - 1 \in 0 .. N
  BY <1>2
<1>4. n - 1 \in T
  BY <1>2, <1>3
<1>5. (n - 1) + 1 \in T
  BY <1>2, <1>3, <1>4
<1> QED BY <1>2, <1>5

(* The function by which Follow is defined.                                 *)
Links(f, c, n, at) ==
    at = [k \in 0 .. n |->
             IF k = 0 THEN c
             ELSE IF at[k - 1] = EndMark THEN EndMark ELSE NextCluster(f, at[k - 1])]

(* The recursive function of Follow is the loop it describes. *)
LEMMA FollowLoops ==
    ASSUME NEW f, NEW c, NEW n \in Nat
    PROVE  \E at : Links(f, c, n, at) /\ Follow(f, c, n) = at[n]
<1> DEFINE T == {k \in Nat : \E at : Links(f, c, k, at)}
<1>1. 0 \in T
  <2>1. Links(f, c, 0, [k \in 0 .. 0 |-> c])
    BY DEF Links
  <2> QED BY <2>1
<1>2. ASSUME NEW k \in T PROVE k + 1 \in T
  <2>1. PICK at : Links(f, c, k, at)
    OBVIOUS
  <2> DEFINE Step(a) == IF a = EndMark THEN EndMark ELSE NextCluster(f, a)
             g == [m \in 0 .. k + 1 |-> IF m = k + 1 THEN Step(at[k]) ELSE at[m]]
  <2>2. \A m \in 0 .. k : at[m] = IF m = 0 THEN c ELSE Step(at[m - 1])
    BY <2>1 DEF Links
  <2> HIDE DEF Step
  <2>3. \A m \in 0 .. k + 1 : g[m] = IF m = 0 THEN c ELSE Step(g[m - 1])
    <3> TAKE m \in 0 .. k + 1
    <3>1. CASE m = k + 1
      BY <3>1
    <3>2. CASE m \in 0 .. k
      BY <2>2, <3>2
    <3> QED BY <3>1, <3>2
  <2>4. Links(f, c, k + 1, g)
    <3>1. g = [m \in 0 .. k + 1 |-> IF m = 0 THEN c ELSE Step(g[m - 1])]
      <4> DEFINE h == [m \in 0 .. k + 1 |-> IF m = 0 THEN c ELSE Step(g[m - 1])]
      <4>1. DOMAIN g = 0 .. k + 1 /\ \A m \in 0 .. k + 1 : g[m] = h[m]
        BY <2>3
      <4>2. g = [m \in 0 .. k + 1 |-> g[m]]
        OBVIOUS
      <4> HIDE DEF g
      <4> QED BY <4>1, <4>2
    <3> HIDE DEF g
    <3> QED BY <3>1 DEF Links, Step
  <2>5. k + 1 \in Nat /\ \E at2 : Links(f, c, k + 1, at2)
    <3> HIDE DEF g
    <3> QED BY <2>4
  <2> QED BY <2>5
<1>3. n \in T
  <2> HIDE DEF T
  <2>1. 0 .. n \subseteq T
    BY <1>1, <1>2, UpTo
  <2> QED BY <2>1
<1>4. PICK at : Links(f, c, n, at)
  BY <1>3
<1> DEFINE first == CHOOSE w : w = [k \in 0 .. n |->
             IF k = 0 THEN c
             ELSE IF w[k - 1] = EndMark THEN EndMark ELSE NextCluster(f, w[k - 1])]
<1>5. first = [k \in 0 .. n |->
             IF k = 0 THEN c
             ELSE IF first[k - 1] = EndMark THEN EndMark ELSE NextCluster(f, first[k - 1])]
  BY <1>4, Zenon DEF Links
<1>6. Follow(f, c, n) = first[n]
  BY DEF Follow
<1>7. Links(f, c, n, first)
  <2> HIDE DEF first
  <2> QED BY <1>5, Zenon DEF Links
<1> QED BY <1>6, <1>7, Zenon

(* So from the first cluster of a chain one comes to each cluster of the    *)
(* chain, and then to its end.                                              *)
LEMMA FollowChain ==
    ASSUME NEW f, NEW s \in Seq(Home), s # <<>>, Linked(f, s), NEW n \in Nat
    PROVE  Follow(f, s[1], n) = IF n < Len(s) THEN s[n + 1] ELSE EndMark
<1>1. PICK at : Links(f, s[1], n, at) /\ Follow(f, s[1], n) = at[n]
  BY FollowLoops
<1>2. \A k \in 0 .. n :
          at[k] = IF k = 0 THEN s[1]
                  ELSE IF at[k - 1] = EndMark THEN EndMark ELSE NextCluster(f, at[k - 1])
  BY <1>1 DEF Links
<1>3. Len(s) \in Nat /\ Len(s) >= 1
  BY EmptySeq
<1> DEFINE X(k) == IF k < Len(s) THEN s[k + 1] ELSE EndMark
           T == {k \in 0 .. n : at[k] = X(k)}
<1>4. 0 \in T
  BY <1>2, <1>3
<1>5. ASSUME NEW k \in T, k < n PROVE k + 1 \in T
  <2>1. /\ k \in 0 .. n /\ k + 1 \in 0 .. n /\ at[k] = X(k) /\ k + 1 # 0 /\ (k + 1) - 1 = k
    BY <1>5
  <2>2. at[k + 1] = IF at[k] = EndMark THEN EndMark ELSE NextCluster(f, at[k])
    BY <1>2, <2>1
  <2>3. CASE k < Len(s)
    <3>1. k + 1 \in 1 .. Len(s) /\ at[k] = s[k + 1] /\ s[k + 1] \in Home
      BY <1>3, <2>1, <2>3
    <3>2. Entry(f, s[k + 1]) = IF k + 1 = Len(s) THEN EOC ELSE s[(k + 1) + 1]
      BY <3>1 DEF Linked
    <3>3. s[k + 1] # EndMark
      BY <3>1, HomeNumbers
    <3>4. at[k + 1] = NextCluster(f, s[k + 1])
      BY <2>2, <3>1, <3>3
    <3>5. CASE k + 1 = Len(s)
      BY <1>3, <2>1, <3>2, <3>4, <3>5 DEF NextCluster, EOC
    <3>6. CASE k + 1 # Len(s)
      <4>1. k + 1 < Len(s) /\ s[(k + 1) + 1] \in Home
        BY <1>3, <3>1, <3>6
      <4>2. s[(k + 1) + 1] \in Nat /\ s[(k + 1) + 1] < 4088
        BY <4>1, HomeNumbers
      <4>3. NextCluster(f, s[k + 1]) = s[(k + 1) + 1]
        BY <3>2, <3>6, <4>2 DEF NextCluster
      <4> QED BY <2>1, <3>4, <4>1, <4>3
    <3> QED BY <3>5, <3>6
  <2>4. CASE ~(k < Len(s))
    BY <1>3, <2>1, <2>2, <2>4
  <2> QED BY <2>3, <2>4
<1>6. n \in T
  <2>1. \A k \in T : k \in Nat /\ k < n => k + 1 \in T
    BY <1>5
  <2> HIDE DEF T
  <2>2. 0 .. n \subseteq T
    BY <1>4, <2>1, UpTo
  <2> QED BY <2>2
<1> QED BY <1>1, <1>6

-----------------------------------------------------------------------------
(* cat. *)
LEMMA ReadFacts ==
    ASSUME TypeOK, Packed, Holding, ChainInv, pc = "cat", file.position < file.size
    PROVE  /\ OnVolume(ReadCluster)
           /\ opened \in Slot /\ Size(opened) = file.size /\ Len(text[opened]) = file.size
           /\ \A v \in Nat : Offset(file.position) + v < ClusterSize
                             /\ file.position + v < file.size =>
                  text[opened][file.position + v + 1]
                      = data[ReadCluster][Offset(file.position) + v + 1]
<1>1. PICK ch : ChainsOf(ch)
  BY DEF ChainInv
<1> DEFINE s == ch[opened]
           p == file.position
<1>2. opened \in Slot
  BY OpenedLive DEF HasFile
<1>3. /\ file.size \in Nat /\ p \in Nat /\ s \in Seq(Home)
      /\ Linked(fat, s) /\ Files(ch) /\ Stored(ch)
      /\ Size(opened) = file.size /\ First(opened) = file.first
  BY <1>1, <1>2, SizeTypes DEF ChainsOf, Chained, First, Size
<1>4. Fits(s, file.size) /\ file.first = IF s = <<>> THEN 0 ELSE s[1]
  BY <1>2, <1>3 DEF Files
<1>5. p \in 0 .. file.size - 1
  BY <1>3
<1>6. /\ Piece(p) \in Nat /\ Piece(p) < Len(s) /\ OnVolume(s[Piece(p) + 1])
  BY <1>3, <1>4, <1>5, FitsFacts
<1>7. s # <<>> /\ file.first = s[1]
  BY <1>4, <1>6
<1>8. ReadCluster = s[Piece(p) + 1]
  <2>1. ReadCluster = Follow(fat, s[1], Piece(p))
    BY <1>7 DEF ReadCluster, Piece
  <2>2. Follow(fat, s[1], Piece(p)) = IF Piece(p) < Len(s) THEN s[Piece(p) + 1] ELSE EndMark
    BY <1>3, <1>6, <1>7, FollowChain
  <2> QED BY <1>6, <2>1, <2>2
<1>9. ASSUME NEW v \in Nat, Offset(p) + v < ClusterSize, p + v < file.size
      PROVE  text[opened][p + v + 1] = data[ReadCluster][Offset(p) + v + 1]
  <2>1. Piece(p + v) = Piece(p) /\ Offset(p + v) = Offset(p) + v
    BY <1>3, <1>9, SamePiece
  <2>2. p + v \in 0 .. Size(opened) - 1
    BY <1>3, <1>9
  <2>3. text[opened][(p + v) + 1] = data[s[Piece(p + v) + 1]][Offset(p + v) + 1]
    BY <1>2, <1>3, <2>2 DEF Stored
  <2> QED BY <1>8, <2>1, <2>3
<1> QED BY <1>2, <1>3, <1>6, <1>8, <1>9 DEF Stored

(* A round of read: shown stays the beginning of the file.                  *)
LEMMA ReadChains ==
    ASSUME TypeOK, Packed, Holding, ChainInv, CatReads
    PROVE  ChainInv'
<1>1. PICK ch : ChainsOf(ch)
  BY DEF ChainInv
<1> DEFINE p == file.position
           size == file.size
           o == Offset(p)
           count == Min({ClusterSize - o, size - p})
           piece == [u \in 1 .. count |-> data[ReadCluster][o + u]]
<1>2. /\ pc = "cat" /\ p < size /\ UNCHANGED <<fat, dir, data, pc, opened, text>>
      /\ shown' = shown \o piece /\ file' = [file EXCEPT !.position = @ + count]
  BY DEF CatReads, CanRead, disk, Offset
<1>3. /\ Len(shown) = p /\ p <= size /\ shown \in Seq(Unit)
      /\ \A u \in 1 .. p : shown[u] = text[opened][u]
      /\ p \in Nat /\ size \in Nat /\ file \in Handle
      /\ Chained(fat, ch) /\ Files(ch) /\ Stored(ch)
  BY <1>1, <1>2, SizeTypes DEF ChainInv, ChainsOf, CommandInv, Showing, TypeOK
<1>4. /\ opened \in Slot
      /\ \A v \in Nat : o + v < ClusterSize /\ p + v < size =>
             text[opened][p + v + 1] = data[ReadCluster][o + v + 1]
  BY <1>2, ReadFacts
<1>5. o \in Nat /\ o < ClusterSize /\ ClusterSize \in Nat
  BY <1>3, PieceTypes
<1>6. count \in Nat /\ o + count <= ClusterSize /\ p + count <= size
  <2> HIDE DEF o, p, size
  <2>1. ClusterSize - o \in Nat /\ size - p \in Nat
    BY <1>2, <1>3, <1>5
  <2>2. count \in {ClusterSize - o, size - p} /\ count <= ClusterSize - o /\ count <= size - p
    BY <2>1, MinOfTwo
  <2> HIDE DEF count
  <2> QED BY <1>3, <1>5, <2>1, <2>2
<1> HIDE DEF count
<1>7. file'.position = p + count /\ file'.size = size /\ file'.first = file.first
  BY <1>2, <1>3 DEF Handle
<1> HIDE DEF p, size, o
<1>8. piece \in Seq({data[ReadCluster][o + u] : u \in 1 .. count}) /\ Len(piece) = count
  BY <1>6
<1>9. ASSUME NEW u \in 1 .. count
      PROVE  piece[u] = text[opened][p + u]
  <2> DEFINE v == u - 1
  <2>1. v \in Nat /\ u = v + 1 /\ o + v < ClusterSize /\ p + v < size
    BY <1>3, <1>5, <1>6
  <2>2. p + v + 1 = p + u /\ o + v + 1 = o + u
    BY <1>3, <1>5, <2>1
  <2> HIDE DEF v
  <2>3. text[opened][p + v + 1] = data[ReadCluster][o + v + 1]
    BY <1>4, <2>1
  <2> QED BY <2>2, <2>3
<1> HIDE DEF piece
<1>10. Len(shown') = p + count /\ \A u \in 1 .. p + count : shown'[u] = text[opened][u]
  <2>1. /\ Len(shown') = p + count
        /\ \A u \in 1 .. p + count :
              shown'[u] = IF u <= p THEN shown[u] ELSE piece[u - p]
    <3> DEFINE V == Unit \cup {data[ReadCluster][o + u] : u \in 1 .. count}
    <3>1. shown \in Seq(V) /\ piece \in Seq(V) /\ Len(piece) = count
      BY <1>3, <1>8
    <3> HIDE DEF V
    <3>2. /\ Len(shown \o piece) = p + count
          /\ \A u \in 1 .. p + count :
                (shown \o piece)[u] = IF u <= p THEN shown[u] ELSE piece[u - p]
      BY <1>3, <3>1
    <3> QED BY <1>2, <3>2
  <2>2. ASSUME NEW u \in 1 .. p + count, ~(u <= p)
        PROVE  piece[u - p] = text[opened][u]
    <3>1. u - p \in 1 .. count /\ p + (u - p) = u
      BY <1>3, <1>6, <2>2
    <3> QED BY <1>9, <3>1
  <2> QED BY <1>3, <1>6, <2>1, <2>2
<1>11. CommandInv'
  BY <1>2, <1>6, <1>7, <1>10 DEF CommandInv, Intact, HasFile, Showing
<1>12. Files(ch)' /\ Stored(ch)'
  <2>1. \A i \in Slot : First(i)' = First(i) /\ Size(i)' = Size(i) /\ (Live(i) => Live(i)')
    BY <1>2, <1>7 DEF First, Size, Live, size
  <2> QED BY <1>2, <1>3, <2>1, ViewKept
<1>13. Seeking(ch)'
  BY <1>2 DEF Seeking
<1> QED BY <1>2, <1>3, <1>11, <1>12, <1>13 DEF ChainInv, ChainsOf

(* Every step keeps the chains.                                             *)
LEMMA ChainStep ==
    ASSUME \A n \in Name : Key[Saved[n]] = Key[n],
           TypeOK, Packed, Holding, ChainInv, [Next]_vars
    PROVE  ChainInv'
<1>1. file \in Handle /\ file.name \in Name
  BY DEF TypeOK, Handle
<1>2. ASSUME NEW n \in Name, Remove(n) \/ Create(n) PROVE ChainInv'
  BY <1>2, RemoveChains, CreateChains
<1>3. ASSUME NEW n \in Name, CatOpens(n) PROVE ChainInv'
  <2>1. pc = "prompt" /\ OpenFor(n, "cat")
    BY <1>3 DEF CatOpens
  <2> QED BY <2>1, OpenChains
<1>4. CASE OpenCreated
  <2>1. pc = "created" /\ OpenFor(file.name, "echo")
    BY <1>4 DEF OpenCreated
  <2> QED BY <1>1, <2>1, OpenChains
<1>5. CASE CreateFailed \/ EchoEnds \/ EchoFails \/ CatEnds
  BY <1>5, ReturnChains
<1>6. ASSUME NEW w, StartWrite(w) PROVE ChainInv'
  BY <1>6, StartChains
<1>7. CASE Seek \/ WriteSector \/ WriteOffVolume \/ CatReads \/ Format
  BY <1>7, SeekChains, WriteChains, OffVolumeChains, ReadChains, FormatChains
<1>8. CASE UNCHANGED vars
  BY <1>8 DEF vars, disk, locals, history, ChainInv, ChainsOf, CommandInv, Showing, Intact,
              Files, Stored, Seeking, First, Size, Live
<1> QED BY <1>2, <1>3, <1>4, <1>5, <1>6, <1>7, <1>8 DEF Next, Overrun

-----------------------------------------------------------------------------
(* What the chains mean for the properties.                                 *)
(* No cluster twice: a chain is no longer than the search for a free one.   *)
LEMMA ChainShort ==
    ASSUME NEW ch, Chained(fat, ch), NEW i \in Slot
    PROVE  Len(ch[i]) <= SearchEnd
<1> DEFINE s == ch[i]
           L == Len(s)
<1>1. s \in Seq(Home) /\ L \in Nat /\ \A k, l \in 1 .. L : s[k] = s[l] => k = l
  BY DEF Chained, Disjoint
<1>2. \A k \in 1 .. L : s[k] \in 0 .. SearchEnd - 1
  BY <1>1, HomeFacts DEF Home
<1>3. s \in Injection(1 .. L, 0 .. SearchEnd - 1)
  <2>1. s \in [1 .. L -> 0 .. SearchEnd - 1] /\ DOMAIN s = 1 .. L
    BY <1>1, <1>2
  <2> QED BY <1>1, <2>1 DEF Injection, IsInjective
<1>4. /\ IsFiniteSet(0 .. SearchEnd - 1) /\ Cardinality(0 .. SearchEnd - 1) = SearchEnd
      /\ Cardinality(1 .. L) = L
  <2>1. 0 \in Int /\ 1 \in Int /\ SearchEnd - 1 \in Int /\ L \in Int /\ SearchEnd \in Nat
    BY <1>1, Volume
  <2> HIDE DEF L, s
  <2>2. /\ IsFiniteSet(0 .. SearchEnd - 1)
        /\ Cardinality(0 .. SearchEnd - 1) = IF 0 > SearchEnd - 1 THEN 0 ELSE (SearchEnd - 1) - 0 + 1
        /\ Cardinality(1 .. L) = IF 1 > L THEN 0 ELSE L - 1 + 1
    BY <2>1, FS_Interval
  <2> QED BY <1>1, <2>1, <2>2
<1>5. Cardinality(1 .. L) <= Cardinality(0 .. SearchEnd - 1)
  <2> HIDE DEF s, L
  <2> QED BY <1>3, <1>4, FS_Injection
<1> QED BY <1>4, <1>5

(* Chain, by which ChainsApart is stated, is the set of these clusters.     *)
LEMMA ChainSet ==
    ASSUME TypeOK, NEW ch, ChainsOf(ch), NEW i \in Slot
    PROVE  /\ Chain(i) = {ch[i][k] : k \in 1 .. Len(ch[i])}
           /\ First(i) # 0 => Follow(fat, First(i), SearchEnd) = EndMark
<1> DEFINE s == ch[i]
           L == Len(s)
<1>1. /\ s \in Seq(Home) /\ L \in Nat /\ Linked(fat, s) /\ L <= SearchEnd /\ SearchEnd \in Nat
      /\ First(i) = IF s = <<>> THEN 0 ELSE s[1]
  BY ChainShort, Volume DEF ChainsOf, Chained, Files
<1>2. CASE s = <<>>
  <2>1. First(i) = 0 /\ L = 0
    BY <1>1, <1>2
  <2> QED BY <2>1 DEF Chain
<1>3. CASE s # <<>>
  <2>1. First(i) = s[1] /\ s[1] \in Home /\ First(i) # 0
    BY <1>1, <1>3, EmptySeq, HomeNumbers
  <2>2. \A k \in 0 .. SearchEnd :
            Follow(fat, s[1], k) = IF k < L THEN s[k + 1] ELSE EndMark
    BY <1>1, <1>3, FollowChain
  <2>3. \A k \in 1 .. L : s[k] # EndMark
    BY <1>1, HomeNumbers
  <2>4. ~(SearchEnd < L) /\ SearchEnd \in 0 .. SearchEnd
    BY <1>1
  <2>5. Follow(fat, First(i), SearchEnd) = EndMark
    BY <2>1, <2>2, <2>4
  <2>6. Chain(i) = {Follow(fat, s[1], k) : k \in 0 .. SearchEnd} \ {EndMark}
    BY <2>1 DEF Chain
  <2>7. ASSUME NEW c \in Chain(i) PROVE c \in {s[k] : k \in 1 .. L}
    <3>1. PICK k \in 0 .. SearchEnd : c = Follow(fat, s[1], k) /\ c # EndMark
      BY <2>6, <2>7
    <3>2. k < L /\ c = s[k + 1]
      BY <2>2, <3>1
    <3>3. k + 1 \in 1 .. L
      <4> HIDE DEF L
      <4> QED BY <1>1, <3>1, <3>2
    <3> QED BY <3>2, <3>3
  <2>8. ASSUME NEW k \in 1 .. L PROVE s[k] \in Chain(i)
    <3>1. k - 1 \in 0 .. SearchEnd /\ k - 1 < L /\ (k - 1) + 1 = k
      <4> HIDE DEF L
      <4> QED BY <1>1
    <3>2. Follow(fat, s[1], k - 1) = s[k]
      BY <2>2, <3>1
    <3> QED BY <2>3, <2>6, <3>1, <3>2
  <2> QED BY <2>5, <2>7, <2>8
<1> QED BY <1>2, <1>3

(* A file has a cluster of the volume for each piece.                       *)
LEMMA ChainCovers ==
    ASSUME TypeOK, NEW ch, ChainsOf(ch), NEW i \in Slot
    PROVE  Size(i) <= ClusterSize * Cardinality(Chain(i) \cap 2 .. LastCluster)
<1> DEFINE s == ch[i]
           L == Len(s)
           C == Chain(i) \cap 2 .. LastCluster
           n == Cardinality(C)
<1>1. /\ s \in Seq(Home) /\ L \in Nat /\ \A k, l \in 1 .. L : s[k] = s[l] => k = l
      /\ Size(i) \in Nat /\ Fits(s, Size(i)) /\ ClusterSize \in Nat /\ LastCluster \in Nat
  BY SizeTypes, Volume DEF ChainsOf, Chained, Disjoint, Files
<1>2. IsFiniteSet(C) /\ n \in Nat
  <2>1. IsFiniteSet(2 .. LastCluster)
    BY <1>1, FS_Interval
  <2>2. C \in SUBSET (2 .. LastCluster)
    OBVIOUS
  <2>3. IsFiniteSet(C)
    <3> HIDE DEF C
    <3> QED BY <2>1, <2>2, FS_Subset
  <2> HIDE DEF C
  <2> QED BY <2>3, FS_CardinalityType
<1>3. CASE Size(i) = 0
  <2> HIDE DEF n
  <2>1. ClusterSize * n \in Nat
    BY <1>1, <1>2
  <2> QED BY <1>3, <2>1 DEF n
<1>4. CASE Size(i) # 0
  <2> DEFINE u == Size(i) - 1
             K == Piece(u) + 1
  <2>1. u \in 0 .. Size(i) - 1 /\ u \in Nat /\ Size(i) = u + 1
    BY <1>1, <1>4
  <2> HIDE DEF u
  <2>2. /\ Piece(u) \in Nat /\ Piece(u) < L /\ K \in Nat /\ K <= L
        /\ u = ClusterSize * Piece(u) + Offset(u) /\ Offset(u) \in Nat
        /\ Offset(u) < ClusterSize
    <3>1. Piece(u) \in Nat /\ Piece(u) < L /\ Offset(u) \in 0 .. ClusterSize - 1
      BY <1>1, <2>1, FitsFacts
    <3>2. u = ClusterSize * Piece(u) + Offset(u)
      BY <2>1, Pieces
    <3> HIDE DEF L
    <3> QED BY <1>1, <3>1, <3>2
  <2> HIDE DEF K
  <2>3. ASSUME NEW k \in 1 .. K PROVE s[k] \in C
    <3>1. k \in 1 .. L
      <4> HIDE DEF L
      <4> QED BY <1>1, <2>2
    <3>2. s[k] \in Chain(i)
      BY <3>1, ChainSet
    <3> DEFINE v == ClusterSize * (k - 1)
    <3>3. k - 1 \in Nat /\ k - 1 <= Piece(u)
      BY <2>2 DEF K
    <3>4. v \in Nat /\ v <= u
      <4>1. PICK e \in Nat : Piece(u) = (k - 1) + e
        <5>1. Piece(u) - (k - 1) \in Nat
          BY <2>2, <3>3
        <5>2. Piece(u) = (k - 1) + (Piece(u) - (k - 1))
          BY <2>2, <3>3
        <5> QED BY <5>1, <5>2, Zenon
      <4>2. ClusterSize * Piece(u) = ClusterSize * (k - 1) + ClusterSize * e
        BY <1>1, <3>3, <4>1
      <4>3. ClusterSize * (k - 1) \in Nat /\ ClusterSize * e \in Nat
        BY <1>1, <3>3, <4>1
      <4> QED BY <2>1, <2>2, <4>2, <4>3
    <3>5. Piece(v) = k - 1
      <4>1. 0 \in 0 .. ClusterSize - 1 /\ v = ClusterSize * (k - 1) + 0
        BY <1>1, <2>2, <3>4, Volume
      <4> HIDE DEF v
      <4> QED BY <3>3, <4>1, PieceOf
    <3>6. v \in 0 .. Size(i) - 1
      <4> HIDE DEF v
      <4> QED BY <2>1, <3>4
    <3>7. OnVolume(s[Piece(v) + 1])
      <4> HIDE DEF v
      <4> QED BY <1>1, <3>6, FitsFacts
    <3>8. OnVolume(s[k])
      <4> HIDE DEF v
      <4>1. Piece(v) + 1 = k
        BY <3>3, <3>5
      <4> QED BY <3>7, <4>1
    <3> QED BY <3>2, <3>8 DEF OnVolume
  <2>4. [k \in 1 .. K |-> s[k]] \in Injection(1 .. K, C)
    <3> DEFINE f == [k \in 1 .. K |-> s[k]]
    <3>1. f \in [1 .. K -> C]
      BY <2>3
    <3>2. \A a, b \in 1 .. K : f[a] = f[b] => a = b
      <4>1. \A a \in 1 .. K : a \in 1 .. L
        <5> HIDE DEF L
        <5> QED BY <1>1, <2>2
      <4> QED BY <1>1, <4>1
    <3>3. DOMAIN f = 1 .. K
      OBVIOUS
    <3>4. f \in Injection(1 .. K, C)
      <4> HIDE DEF f, C
      <4> QED BY <3>1, <3>2, <3>3 DEF Injection, IsInjective
    <3> QED BY <3>4
  <2>5. K <= n
    <3>1. Cardinality(1 .. K) = K
      <4>1. Cardinality(1 .. K) = IF 1 > K THEN 0 ELSE K - 1 + 1
        BY <2>2, FS_Interval
      <4> QED BY <2>2, <4>1
    <3>2. Cardinality(1 .. K) <= n
      <4> HIDE DEF C
      <4> QED BY <1>2, <2>4, FS_Injection
    <3> QED BY <3>1, <3>2
  <2>6. Size(i) <= ClusterSize * K
    BY <1>1, <2>1, <2>2 DEF K
  <2>7. ClusterSize * K <= ClusterSize * n
    <3> HIDE DEF n
    <3>1. n - K \in Nat /\ n = K + (n - K)
      BY <1>2, <2>2, <2>5
    <3>2. ClusterSize * (n - K) \in Nat
      BY <1>1, <3>1
    <3>3. ClusterSize * n = ClusterSize * K + ClusterSize * (n - K)
      BY <1>1, <1>2, <2>2, <3>1
    <3>4. ClusterSize * K \in Nat
      BY <1>1, <2>2
    <3> QED BY <3>2, <3>3, <3>4
  <2>8. ClusterSize * K \in Nat /\ ClusterSize * n \in Nat
    BY <1>1, <1>2, <2>2
  <2> QED BY <1>1, <2>6, <2>7, <2>8
<1> QED BY <1>3, <1>4

(* So the files end, fit and stay apart.                                    *)
LEMMA ChainInvApart ==
    TypeOK /\ ChainInv => ChainsApart
<1> SUFFICES ASSUME TypeOK, ChainInv PROVE ChainsApart
  OBVIOUS
<1>1. PICK ch : ChainsOf(ch)
  BY DEF ChainInv
<1>2. ASSUME NEW i \in Slot, NEW j \in Slot \ {i}
      PROVE  Chain(i) \cap Chain(j) = {}
  <2>1. Disjoint(ch)
    BY <1>1 DEF ChainsOf, Chained
  <2>2. /\ Chain(i) = {ch[i][k] : k \in 1 .. Len(ch[i])}
        /\ Chain(j) = {ch[j][k] : k \in 1 .. Len(ch[j])}
    BY <1>1, ChainSet
  <2> QED BY <2>1, <2>2 DEF Disjoint
<1> QED BY <1>1, <1>2, ChainSet, ChainCovers DEF ChainsApart

(* cat ends at the end of the file: every cluster of it can be read.        *)
LEMMA ShownAtEnd ==
    ASSUME TypeOK, Packed, Holding, ChainInv, pc = "cat", CatEnds
    PROVE  shown = text[opened]
<1>1. /\ Len(shown) = file.position /\ file.position <= file.size
      /\ \A u \in 1 .. Len(shown) : shown[u] = text[opened][u]
      /\ file.position \in Nat /\ file.size \in Nat /\ shown \in Seq(Unit)
  BY SizeTypes DEF ChainInv, CommandInv, Showing, TypeOK
<1>2. ~(file.position < file.size)
  <2> SUFFICES ASSUME file.position < file.size PROVE FALSE
    OBVIOUS
  <2>1. OnVolume(ReadCluster)
    BY ReadFacts
  <2> QED BY <2>1 DEF CatEnds, CanRead
<1>3. opened \in Slot /\ text[opened] \in Seq(Unit) /\ Len(text[opened]) = file.size
  <2>1. opened \in Slot
    BY OpenedLive DEF HasFile
  <2> QED BY <2>1 DEF ChainInv, ChainsOf, Stored, Size, TypeOK
<1>4. Len(shown) = Len(text[opened])
  BY <1>1, <1>2, <1>3
<1> QED BY <1>1, <1>3, <1>4, SeqEqual

(* A write fails for want of a free cluster, or at one behind the volume.   *)
LEMMA FailedFull ==
    ASSUME TypeOK, Packed, Holding, ChainInv, [Next]_vars,
           pc \in {"echo", "write"}, pc' \in {"failed", "overrun"}
    PROVE  \A c \in 2 .. LastCluster : Entry(fat', c) # 0
<1>1. (\E w : StartWrite(w)) \/ Seek \/ WriteSector \/ WriteOffVolume
  BY DEF Next, Format, Remove, Create, CatOpens, OpenCreated, CreateFailed,
         EchoEnds, ToPrompt, EchoFails, CatReads, CatEnds, Overrun, vars
<1>2. (FreeClusters(fat) = {} /\ fat' = fat) => Full(fat')
  <2> SUFFICES ASSUME FreeClusters(fat) = {}, fat' = fat, NEW c \in 2 .. LastCluster
               PROVE  Entry(fat, c) # 0
    BY DEF Full
  <2>1. c \in 2 .. SearchEnd - 1
    BY Volume
  <2> QED BY <2>1 DEF FreeClusters
<1>3. ASSUME NEW w, StartWrite(w) PROVE Full(fat')
  BY <1>2, <1>3 DEF StartWrite
<1>4. CASE Seek
  <2>1. ~UNCHANGED pc
    OBVIOUS
  <2>2. GrowOrFail(togo' = togo - 1 /\ UNCHANGED <<pc, kind, left>>)
    BY <1>4, <2>1 DEF Seek
  <2> QED BY <1>2, <2>1, <2>2 DEF GrowOrFail, Full
<1>5. CASE WriteSector
  <2>1. Rest # <<>>
    <3> SUFFICES ASSUME Rest = <<>> PROVE FALSE
      OBVIOUS
    <3>1. WriteReturns(TRUE)
      BY <1>5 DEF WriteSector
    <3> QED BY <3>1 DEF WriteReturns
  <2>2. GrowOrFail(left' = Rest /\ UNCHANGED <<pc, kind, togo>>)
    BY <1>5, <2>1 DEF WriteSector
  <2> QED BY <1>2, <2>2 DEF GrowOrFail, Full
<1>6. CASE WriteOffVolume
  <2>1. PICK ch : ChainsOf(ch)
    BY DEF ChainInv
  <2>2. fat' = fat /\ ~OnVolume(cluster) /\ pc = "write"
    BY <1>6 DEF WriteOffVolume, disk
  <2> DEFINE k == Piece(file.size) - togo + 1
  <2>3. /\ opened \in Slot /\ k \in 1 .. Len(ch[opened]) /\ cluster = ch[opened][k]
        /\ cluster \in Home
    BY <2>1, <2>2, SeekingFacts
  <2>4. cluster > LastCluster
    BY <2>2, <2>3, HomeNumbers, Volume DEF OnVolume
  <2> HIDE DEF k
  <2>5. Full(fat)
    BY <2>1, <2>3, <2>4 DEF ChainsOf, Chained
  <2> QED BY <2>2, <2>5 DEF Full
<1> QED BY <1>1, <1>3, <1>4, <1>5, <1>6 DEF Full

(***************************************************************************)
(* For names that the handle keeps whole: after any sequence of commands   *)
(* and between any two rounds of a write there is, for each entry of the   *)
(* root directory, a sequence of clusters that the FAT links, that ends,   *)
(* that no other entry shares, and whose clusters hold what was written.   *)
(***************************************************************************)
THEOREM ChainInvHolds ==
    ASSUME \A n \in Name : Key[Saved[n]] = Key[n]
    PROVE  Spec => [](TypeOK /\ Packed /\ Holding /\ ChainInv)
<1>1. Init => Holding
  BY DEF Init, Holding, HasFile
<1>2. Spec => []Holding
  BY <1>1, TypeCorrect, StepHolding, PTL DEF Spec
<1>3. TypeOK /\ Packed /\ Holding /\ ChainInv /\ [Next]_vars => ChainInv'
  BY ChainStep
<1> QED BY <1>2, <1>3, ChainInit, PackedHolds, PTL DEF Spec

(***************************************************************************)
(* Until the search leaves the FATs the chains that get_next_cluster       *)
(* follows end, cover the size of their file with clusters of the volume,  *)
(* and share no cluster, also when the volume has been full for long.      *)
(***************************************************************************)
THEOREM ChainsCorrect ==
    ASSUME \A n \in Name : Key[Saved[n]] = Key[n]
    PROVE  Spec => []ChainsApart
BY ChainInvHolds, ChainInvApart, PTL

(***************************************************************************)
(* smart_fs_write fails, or leaves the FATs, only on a full volume:        *)
(* allocate_cluster, which does not know the size of the volume, takes the *)
(* first free cluster, so it leaves the volume only when the volume has    *)
(* none, and the FATs later still.                                         *)
(***************************************************************************)
THEOREM FailsCorrect ==
    ASSUME \A n \in Name : Key[Saved[n]] = Key[n]
    PROVE  Spec => FailsOnlyWhenFull
<1>1. TypeOK /\ Packed /\ Holding /\ ChainInv /\ [Next]_vars =>
        [(pc \in {"echo", "write"} /\ pc' \in {"failed", "overrun"}) =>
            \A c \in 2 .. LastCluster : Entry(fat', c) # 0]_vars
  BY FailedFull
<1> QED BY <1>1, ChainInvHolds, PTL DEF Spec, FailsOnlyWhenFull

(***************************************************************************)
(* cat shows what echo stored, for words that end in, at and behind the    *)
(* end of a cluster, however many files grow in turns, and for the parts   *)
(* of a write that failed.                                                 *)
(***************************************************************************)
THEOREM CatCorrect ==
    ASSUME \A n \in Name : Key[Saved[n]] = Key[n]
    PROVE  Spec => CatShowsAll
<1>1. TypeOK /\ Packed /\ Holding /\ ChainInv /\ [Next]_vars =>
        [pc = "cat" /\ pc' = "prompt" => shown = text[opened]]_vars
  <2> SUFFICES ASSUME TypeOK, Packed, Holding, ChainInv, [Next]_vars,
                      pc = "cat", pc' = "prompt"
               PROVE  shown = text[opened]
    OBVIOUS
  <2>1. CatEnds
    BY DEF Next, Format, Remove, Create, CatOpens, OpenCreated, CreateFailed, StartWrite,
           Seek, WriteSector, WriteOffVolume, EchoEnds, EchoFails, CatReads, Overrun, vars
  <2> QED BY <2>1, ShownAtEnd
<1> QED BY <1>1, ChainInvHolds, PTL DEF Spec, CatShowsAll

-----------------------------------------------------------------------------
(* The disk as FileStore.                                                   *)
(* What following the chain of a file gives is what was stored in it.       *)
LEMMA DiskIsText ==
    ASSUME TypeOK, ChainInv
    PROVE  Contents = text
<1>1. PICK ch : ChainsOf(ch)
  BY DEF ChainInv
<1>2. ASSUME NEW i \in Slot PROVE OnDisk(i) = text[i]
  <2> DEFINE s == ch[i]
             size == Size(i)
  <2>1. /\ size \in Nat /\ s \in Seq(Home) /\ Linked(fat, s) /\ Fits(s, size)
        /\ First(i) = IF s = <<>> THEN 0 ELSE s[1]
        /\ text[i] \in Seq(Unit) /\ Len(text[i]) = size
        /\ \A u \in 0 .. size - 1 : text[i][u + 1] = data[s[Piece(u) + 1]][Offset(u) + 1]
    BY <1>1, SizeTypes DEF ChainsOf, Chained, Files, Stored, TypeOK
  <2>2. OnDisk(i) = [u \in 1 .. size |->
                        ReadUnit(Follow(fat, First(i), Piece(u - 1)), Offset(u - 1) + 1)]
    BY DEF OnDisk, Piece, Offset
  <2> HIDE DEF s, size
  <2>3. ASSUME NEW u \in 1 .. size
        PROVE  ReadUnit(Follow(fat, First(i), Piece(u - 1)), Offset(u - 1) + 1) = text[i][u]
    <3>1. u - 1 \in 0 .. size - 1 /\ (u - 1) + 1 = u
      BY <2>1
    <3>2. Piece(u - 1) \in Nat /\ Piece(u - 1) < Len(s) /\ OnVolume(s[Piece(u - 1) + 1])
      BY <2>1, <3>1, FitsFacts
    <3>3. s # <<>> /\ First(i) = s[1]
      BY <2>1, <3>2
    <3>4. Follow(fat, First(i), Piece(u - 1)) = s[Piece(u - 1) + 1]
      BY <2>1, <3>2, <3>3, FollowChain
    <3>5. text[i][(u - 1) + 1] = data[s[Piece(u - 1) + 1]][Offset(u - 1) + 1]
      BY <2>1, <3>1
    <3> QED BY <3>1, <3>2, <3>4, <3>5 DEF ReadUnit
  <2>4. OnDisk(i) = [u \in 1 .. size |-> text[i][u]]
    BY <2>2, <2>3
  <2>5. text[i] = [u \in 1 .. size |-> text[i][u]]
    BY <2>1
  <2> QED BY <2>4, <2>5
<1>3. text = [i \in Slot |-> text[i]]
  BY DEF TypeOK
<1> QED BY <1>2, <1>3 DEF Contents

(* The names of the directory as titles.                                    *)
LEMMA TitleFacts ==
    ASSUME TypeOK, Packed
    PROVE  /\ Store!File = Slot
           /\ \A S : Store!First(S) = Min(S)
           /\ \A n \in Name : /\ Store!Titled(Key[n]) = FoundToOpen(dir, Key[n])
                              /\ Store!Titled(Key[n]) = FoundToChange(dir, Key[n])
           /\ Store!Titled(Never) = FreeSlots
<1>1. Store!File = Slot
  BY DEF Store!File, Slot
<1>2. \A S : Store!First(S) = Min(S)
  BY DEF Store!First, Min
<1>3. ASSUME NEW n \in Name PROVE Store!Titled(Key[n]) = FoundToChange(dir, Key[n])
  <2>1. Key[n] # Never /\ Key[n] # Deleted
    BY NameAssumption
  <2>2. \A i \in Slot : Titles[i] = Key[n] <=> dir[i].name = Key[n]
    BY <2>1 DEF Titles, Live
  <2>3. \A i, j \in Slot : dir[i].name = Key[n] /\ j \in 1 .. i - 1 => dir[j].name # Never
    BY <2>1 DEF Packed, Slot
  <2>4. \A i \in Slot : 1 .. i - 1 \subseteq Slot
    BY Volume DEF Slot
  <2> QED BY <1>1, <2>2, <2>3, <2>4 DEF Store!Titled, FoundToChange
<1>4. Store!Titled(Never) = FreeSlots
  <2>1. \A i \in Slot : Titles[i] = Never <=> dir[i].name \in {Never, Deleted}
    BY DEF Titles, Live
  <2> QED BY <1>1, <2>1 DEF Store!Titled, FreeSlots
<1> QED BY <1>1, <1>2, <1>3, <1>4, SearchesAgree

(* A command begins with a word, and it has something left to write just    *)
(* while it is in smart_fs_write (where the overrun leaves it).             *)
SayState ==
    /\ pc \in {"prompt", "created"} => kind = "word"
    /\ Intact => (pc = "write" <=> left # <<>>)

LEMMA StepSays == TypeOK /\ SayState /\ [Next]_vars => SayState'
<1> SUFFICES ASSUME TypeOK, SayState, [Next]_vars PROVE SayState'
  OBVIOUS
<1>1. ASSUME WriteReturns(TRUE) \/ WriteReturns(FALSE) \/ NoCluster PROVE SayState'
  BY <1>1 DEF NoCluster, WriteReturns, SayState, Intact
<1>2. ASSUME NEW w \in Words \cup {Space}, StartWrite(w) PROVE SayState'
  <2>1. w # <<>>
    BY WordsAssumption
  <2>2. NoCluster \/ (pc' = "write" /\ left' = w)
    BY <1>2 DEF StartWrite
  <2> QED BY <1>1, <2>1, <2>2 DEF SayState
<1>3. CASE Seek
  <2>1. NoCluster \/ UNCHANGED <<pc, kind, left>>
    BY <1>3 DEF Seek, GrowOrFail
  <2> QED BY <1>1, <2>1 DEF SayState, Intact
<1>4. CASE WriteSector
  <2>1. \/ WriteReturns(TRUE) \/ NoCluster
        \/ Rest # <<>> /\ pc = "write" /\ left' = Rest /\ UNCHANGED <<pc, kind>>
    BY <1>4 DEF WriteSector, GrowOrFail
  <2> QED BY <1>1, <2>1 DEF SayState, Intact
<1>5. CASE WriteOffVolume
  BY <1>1, <1>5 DEF WriteOffVolume
<1>6. ASSUME NEW n \in Name, Remove(n) \/ Create(n) \/ CatOpens(n) PROVE SayState'
  BY <1>6 DEF Remove, Create, CatOpens, OpenFor, locals, SayState, Intact
<1>7. CASE Format \/ OpenCreated \/ CatReads \/ UNCHANGED vars
  BY <1>7 DEF Format, OpenCreated, OpenFor, CatReads, locals, vars, SayState, Intact
<1>8. CASE CreateFailed \/ EchoEnds \/ EchoFails \/ CatEnds
  BY <1>8 DEF CreateFailed, EchoEnds, EchoFails, CatEnds, ToPrompt, locals, SayState, Intact
<1> QED BY <1>2, <1>3, <1>4, <1>5, <1>6, <1>7, <1>8 DEF Next, Overrun

DiskInv == TypeOK /\ Packed /\ Holding /\ ChainInv /\ SayState

LEMMA TextNow == DiskInv => Contents = text
BY DiskIsText DEF DiskInv

LEMMA TextNext == DiskInv' => (Contents = text)'
BY TextNow, PTL

LEMMA StoreInit == Init => Store!Init
<1> SUFFICES ASSUME Init PROVE Store!Init
  OBVIOUS
<1>1. Contents = text
  BY InitTypes, ChainInit, DiskIsText
<1>2. Titles = [i \in Slot |-> Never]
  BY DEF Init, EmptyDir, Unused, Titles, Live
<1> QED BY <1>1, <1>2 DEF Init, Store!Init, Store!File, Slot, Doing, Named

(* What does not touch the directory leaves the titles.                     *)
LEMMA TitlesKept ==
    ASSUME \A i \in Slot : dir'[i].name = dir[i].name
    PROVE  Titles' = Titles
BY DEF Titles, Live

LEMMA StoreFormat ==
    ASSUME DiskInv, DiskInv', Format
    PROVE  Store!Format
<1>1. Contents = text /\ Contents' = text'
  BY TextNow, TextNext
<1>2. Titles' = [i \in Slot |-> Never]
  BY DEF Format, EmptyDir, Unused, Titles, Live
<1>3. Doing = "idle" /\ Doing' = "idle" /\ Named' = Named
  BY DEF Format, Doing, Named
<1> QED BY <1>1, <1>2, <1>3
        DEF Format, Store!Format, Store!File, Slot, locals

LEMMA StoreRemove ==
    ASSUME DiskInv, DiskInv', NEW n \in Name, Remove(n)
    PROVE  Store!Remove(Key[n])
<1>1. Contents = text /\ Contents' = text'
  BY TextNow, TextNext
<1> DEFINE i == Min(FoundToChange(dir, Key[n]))
<1>2. FoundToChange(dir, Key[n]) # {} /\ pc = "prompt"
      /\ dir' = [dir EXCEPT ![i] = [Unused EXCEPT !.name = Deleted]]
      /\ text' = [text EXCEPT ![i] = <<>>]
      /\ UNCHANGED <<pc, file, kind, left, opened, shown>>
  BY DEF Remove, locals
<1>3. Store!Titled(Key[n]) = FoundToChange(dir, Key[n])
      /\ Store!First(FoundToChange(dir, Key[n])) = i
  BY TitleFacts DEF DiskInv
<1>4. Titles' = [Titles EXCEPT ![i] = Never]
  <2>1. i \in Slot
    BY <1>2, FoundEntry
  <2> HIDE DEF i
  <2>2. dir'[i].name = Deleted /\ \A j \in Slot \ {i} : dir'[j] = dir[j]
    BY <1>2, <2>1 DEF DiskInv, TypeOK, DirType, Unused
  <2> QED BY <2>1, <2>2 DEF Titles, Live
<1>5. Doing = "idle" /\ Doing' = "idle" /\ Named' = Named
  BY <1>2 DEF Doing, Named
<1> QED BY <1>1, <1>2, <1>3, <1>4, <1>5 DEF Store!Remove

LEMMA StoreCreate ==
    ASSUME DiskInv, DiskInv', NEW n \in Name, Create(n)
    PROVE  Store!Create(Key[n])
<1>1. Contents = text /\ Contents' = text'
  BY TextNow, TextNext
<1> DEFINE i == Min(FreeSlots)
<1>2. /\ pc = "prompt" /\ pc' = "created" /\ file' = NoFile(n)
      /\ dir' = IF FreeSlots = {} THEN dir
                ELSE [dir EXCEPT ![i] = [Unused EXCEPT !.name = Key[n]]]
      /\ UNCHANGED <<kind, left, opened, text, shown>>
  BY DEF Create, locals, history
<1>3. Store!Titled(Never) = FreeSlots /\ Store!First(FreeSlots) = i
  BY TitleFacts DEF DiskInv
<1>4. CASE FreeSlots = {}
  <2>1. Titles' = Titles
    BY <1>2, <1>4 DEF Titles, Live
  <2> QED BY <1>1, <1>2, <1>3, <1>4, <2>1 DEF Store!Create, Doing, Named, NoFile
<1>5. CASE FreeSlots # {}
  <2>1. i \in Slot
    <3>1. FreeSlots \in SUBSET Nat /\ FreeSlots \subseteq Slot
      BY DEF FreeSlots, Slot
    <3> QED BY <1>5, <3>1, MinIsLeast
  <2> HIDE DEF i
  <2>2. dir'[i].name = Key[n] /\ \A j \in Slot \ {i} : dir'[j] = dir[j]
    BY <1>2, <1>5, <2>1 DEF DiskInv, TypeOK, DirType, Unused
  <2>3. Titles' = [Titles EXCEPT ![i] = Key[n]]
    BY <2>1, <2>2, NameAssumption DEF Titles, Live
  <2> QED BY <1>1, <1>2, <1>3, <1>5, <2>3 DEF Store!Create, Doing, Named, NoFile
<1> QED BY <1>4, <1>5

(* The steps that leave names and texts.                                    *)
LEMMA FilesKept ==
    ASSUME DiskInv, DiskInv', text' = text, \A i \in Slot : dir'[i].name = dir[i].name
    PROVE  Titles' = Titles /\ Contents' = Contents
BY TitlesKept, TextNow, TextNext

LEMMA StoreOpen ==
    ASSUME DiskInv, DiskInv', NEW n \in Name
    PROVE  /\ CatOpens(n) => Store!OpenToRead(Key[n])
           /\ OpenCreated => Store!OpenToWrite
<1>1. \A k \in Name : Store!Titled(Key[k]) = FoundToOpen(dir, Key[k])
                      /\ Store!First(FoundToOpen(dir, Key[k])) = Min(FoundToOpen(dir, Key[k]))
  BY TitleFacts DEF DiskInv
<1>2. ASSUME NEW k \in Name, NEW command, OpenFor(k, command)
      PROVE  /\ Store!Titled(Key[k]) # {} /\ opened' = Store!First(Store!Titled(Key[k]))
             /\ pc' = command /\ file'.name = k /\ UNCHANGED <<kind, left, shown>>
             /\ Titles' = Titles /\ Contents' = Contents
  <2>1. /\ FoundToOpen(dir, Key[k]) # {} /\ opened' = Min(FoundToOpen(dir, Key[k]))
        /\ pc' = command /\ file'.name = k /\ UNCHANGED <<dir, kind, left, text, shown>>
    BY <1>2 DEF OpenFor, disk, locals
  <2> QED BY <1>1, <2>1, FilesKept
<1>3. ASSUME CatOpens(n) PROVE Store!OpenToRead(Key[n])
  <2>1. pc = "prompt" /\ OpenFor(n, "cat")
    BY <1>3 DEF CatOpens
  <2>2. Doing = "idle" /\ Doing' = "read" /\ Named' = Key[n]
    BY <1>2, <2>1 DEF Doing, Named
  <2> QED BY <1>2, <2>1, <2>2 DEF Store!OpenToRead, Store!OpenFor, Store!files
<1>4. ASSUME OpenCreated PROVE Store!OpenToWrite
  <2>1. pc = "created" /\ OpenFor(file.name, "echo") /\ file.name \in Name
    BY <1>4 DEF OpenCreated, DiskInv, TypeOK, Handle
  <2>2. kind = "word" /\ kind' = kind
    BY <1>2, <2>1 DEF DiskInv, SayState, Intact
  <2>3. Doing = "created" /\ Doing' = "word" /\ Named = Key[file.name]
        /\ Named' = Key[file.name]
    BY <1>2, <2>1, <2>2 DEF Doing, Named
  <2> QED BY <1>2, <2>1, <2>3 DEF Store!OpenToWrite, Store!OpenFor, Store!files
<1> QED BY <1>3, <1>4

(* Back at the prompt; close keeps the names.                               *)
LEMMA StoreReturn ==
    ASSUME DiskInv, DiskInv'
    PROVE  /\ CreateFailed => Store!NotThere
           /\ EchoEnds \/ EchoFails => Store!EndWrite
           /\ CatEnds => Store!EndRead
<1>1. ASSUME ToPrompt, UNCHANGED <<locals, text>>,
             dir' \in {dir, Closed(dir), Closed(Updated(dir, Key[file.name]))}
      PROVE  Store!Idle /\ Titles' = Titles /\ Contents' = Contents /\ left' = left
  <2>1. \A i \in Slot : dir'[i].name = dir[i].name
    BY <1>1, CloseKeepsNames DEF DiskInv
  <2> QED BY <1>1, <2>1, FilesKept DEF ToPrompt, locals, Doing, Named, Store!Idle
<1>2. ASSUME CreateFailed PROVE Store!NotThere
  <2>1. pc = "created" /\ ToPrompt /\ UNCHANGED <<dir, locals, text>>
        /\ FoundToOpen(dir, Key[file.name]) = {} /\ file.name \in Name
    BY <1>2 DEF CreateFailed, disk, DiskInv, TypeOK, Handle
  <2>2. Store!Titled(Key[file.name]) = {}
    BY <2>1, TitleFacts DEF DiskInv
  <2>3. Doing = "created" /\ Named = Key[file.name]
    BY <2>1 DEF Doing, Named
  <2> QED BY <1>1, <2>1, <2>2, <2>3 DEF Store!NotThere, Store!files
<1>3. ASSUME EchoEnds PROVE Store!EndWrite
  <2>1. pc = "echo" /\ kind = "space" /\ left = <<>>
    BY <1>3 DEF EchoEnds, DiskInv, SayState, Intact
  <2>2. Store!Idle /\ Titles' = Titles /\ Contents' = Contents /\ left' = left
    BY <1>1, <1>3 DEF EchoEnds
  <2>3. Doing = "space"
    BY <2>1 DEF Doing
  <2> QED BY <2>1, <2>2, <2>3 DEF Store!EndWrite, Store!files
<1>4. ASSUME EchoFails PROVE Store!EndWrite
  <2>1. Store!Idle /\ Titles' = Titles /\ Contents' = Contents /\ left' = left
    BY <1>1, <1>4 DEF EchoFails
  <2>2. Doing = "failed"
    BY <1>4 DEF Doing, EchoFails
  <2> QED BY <2>1, <2>2 DEF Store!EndWrite, Store!files
<1>5. ASSUME CatEnds PROVE Store!EndRead
  <2>1. pc = "cat" /\ shown = text[opened]
    BY <1>5, ShownAtEnd DEF DiskInv, CatEnds
  <2>2. Store!Idle /\ Titles' = Titles /\ Contents' = Contents /\ left' = left
    BY <1>1, <1>5 DEF CatEnds
  <2>3. Doing = "read"
    BY <2>1 DEF Doing
  <2> QED BY <2>1, <2>2, <2>3, TextNow DEF Store!EndRead, Store!files
<1> QED BY <1>2, <1>3, <1>4, <1>5

(* A call of write that stores nothing or nothing more.                     *)
LEMMA Returned ==
    ASSUME NEW ok, WriteReturns(ok), file'.name = file.name,
           pc \in {"echo", "write"}, kind \in {"word", "space"}
    PROVE  /\ Doing \in {"word", "space"} /\ left' = <<>> /\ Named' = Named
           /\ ok => Store!Said
           /\ ~ok => Store!GiveUp
BY DEF WriteReturns, Doing, Named, Store!Said, Store!GiveUp

(* The step that leaves the FATs.                                           *)
LEMMA Breaks ==
    ASSUME pc \in {"echo", "write"}, kind \in {"word", "space"}, pc' = "overrun"
    PROVE  Store!Break
BY DEF Doing, Store!Break

LEMMA StoreSay ==
    ASSUME DiskInv, DiskInv', NEW w \in Words \cup {Space}, StartWrite(w)
    PROVE  Store!Say(w) \/ Store!StoreNothing \/ Store!Break
<1>1. /\ pc = "echo" /\ left = <<>> /\ kind \in {"word", "space"} /\ file \in Handle
      /\ UNCHANGED <<dir, opened, text, shown>>
      /\ w \in (IF kind = "word" THEN Words ELSE {Space})
  BY DEF StartWrite, history, DiskInv, SayState, Intact, TypeOK
<1>2. Titles' = Titles /\ Contents' = Contents
  BY <1>1, FilesKept
<1>3. CASE NoCluster /\ UNCHANGED file
  BY <1>1, <1>2, <1>3, Returned, Breaks DEF NoCluster, Store!StoreNothing, Store!files
<1>4. CASE pc' = "write" /\ left' = w /\ UNCHANGED kind /\ file'.name = file.name
  BY <1>1, <1>2, <1>4 DEF Doing, Named, Store!Say, Store!files
<1>5. \A c : [file EXCEPT !.first = c].name = file.name
  BY <1>1 DEF Handle
<1> QED BY <1>3, <1>4, <1>5 DEF StartWrite

LEMMA StoreSeek ==
    ASSUME DiskInv, DiskInv', Seek \/ WriteOffVolume
    PROVE  Store!StoreNothing \/ Store!Break \/ UNCHANGED Store!storeVars
<1>1. /\ pc = "write" /\ kind \in {"word", "space"}
      /\ UNCHANGED <<dir, file, opened, text, shown>>
  BY DEF Seek, WriteOffVolume, disk, history, DiskInv, TypeOK
<1>2. Titles' = Titles /\ Contents' = Contents
  BY <1>1, FilesKept
<1>3. CASE WriteReturns(FALSE) \/ NoCluster
  BY <1>1, <1>2, <1>3, Returned, Breaks DEF NoCluster, Store!StoreNothing, Store!files
<1>4. CASE UNCHANGED <<pc, kind, left>>
  BY <1>1, <1>2, <1>4 DEF Store!storeVars, Store!files, Doing, Named
<1> QED BY <1>3, <1>4 DEF Seek, GrowOrFail, WriteOffVolume

(* What a round of write takes off the buffer is its beginning.             *)
LEMMA PartIsPrefix ==
    ASSUME TypeOK, left # <<>>
    PROVE  /\ Len(Part) \in 1 .. Len(left) /\ Part = SubSeq(left, 1, Len(Part))
           /\ Rest = SubSeq(left, Len(Part) + 1, Len(left))
           /\ Rest = <<>> <=> Len(Part) = Len(left)
<1> DEFINE room == ClusterSize - Offset(file.size)
           k == Min({Len(left), room})
<1>1. left \in Seq(Unit) /\ Len(left) \in Nat /\ Len(left) # 0 /\ file.size \in Nat
  BY EmptySeq, SizeTypes DEF TypeOK
<1>2. room \in Nat /\ room # 0
  <2>1. Offset(file.size) \in Nat /\ Offset(file.size) < ClusterSize /\ ClusterSize \in Nat
    BY <1>1, PieceTypes
  <2> QED BY <2>1
<1> HIDE DEF room
<1>3. k \in {Len(left), room} /\ k <= Len(left)
  BY <1>1, <1>2, MinOfTwo
<1>4. Part = SubSeq(left, 1, k)
  BY DEF Part, room, Offset
<1> HIDE DEF k
<1>5. k \in 1 .. Len(left)
  BY <1>1, <1>2, <1>3
<1>6. Len(Part) = k
  BY <1>1, <1>4, <1>5
<1>7. Len(SubSeq(left, k + 1, Len(left))) = Len(left) - k
      /\ SubSeq(left, k + 1, Len(left)) \in Seq(Unit)
  BY <1>1, <1>5
<1>8. Rest = SubSeq(left, k + 1, Len(left))
  BY <1>6 DEF Rest
<1>9. Rest = <<>> <=> k = Len(left)
  <2>1. Rest \in Seq(Unit) /\ Len(Rest) = Len(left) - k
    BY <1>7, <1>8
  <2>2. Rest = <<>> <=> Len(Rest) = 0
    BY <2>1, EmptySeq
  <2> QED BY <1>1, <1>5, <2>1, <2>2
<1> QED BY <1>4, <1>5, <1>6, <1>8, <1>9

LEMMA StoreWrite ==
    ASSUME DiskInv, DiskInv', WriteSector
    PROVE  Store!Store \/ Store!Break
<1>0. SUFFICES ASSUME pc' # "overrun" PROVE Store!Store
  BY Breaks DEF WriteSector, DiskInv, TypeOK
<1> DEFINE k == Len(Part)
<1>1. /\ pc = "write" /\ kind \in {"word", "space"} /\ left # <<>>
      /\ UNCHANGED <<dir, opened, shown>>
      /\ text' = [text EXCEPT ![opened] = @ \o Part]
      /\ file' = [file EXCEPT !.size = file.size + k, !.position = @ + k]
  BY DEF WriteSector, DiskInv, SayState, Intact, TypeOK
<1>2. file'.name = file.name
  <2>1. file \in Handle
    BY DEF DiskInv, TypeOK
  <2> QED BY <1>1, <2>1 DEF Handle
<1>3. /\ k \in 1 .. Len(left) /\ Part = SubSeq(left, 1, k) /\ Len(left) \in Nat
      /\ Rest = SubSeq(left, k + 1, Len(left)) /\ (Rest = <<>> <=> k = Len(left))
  BY <1>1, PartIsPrefix DEF DiskInv, TypeOK
<1> HIDE DEF k
<1>4. Titles' = Titles
  BY <1>1, TitlesKept
<1>5. Contents' = [Contents EXCEPT ![opened] = @ \o SubSeq(left, 1, k)]
  BY <1>1, <1>3, TextNow, TextNext
<1>6. Doing \in {"word", "space"}
  BY <1>1 DEF Doing
<1>7. /\ \/ k = Len(left) /\ Store!Said
         \/ k < Len(left) /\ left' = SubSeq(left, k + 1, Len(left)) /\ UNCHANGED Doing
         \/ k < Len(left) /\ Store!GiveUp
      /\ Named' = Named
  <2>1. CASE Rest = <<>>
    <3>1. WriteReturns(TRUE)
      BY <2>1 DEF WriteSector
    <3> QED BY <1>1, <1>2, <1>3, <2>1, <3>1, Returned
  <2>2. CASE Rest # <<>> /\ WriteReturns(FALSE)
    <3>1. k < Len(left)
      BY <1>3, <2>2
    <3> QED BY <1>1, <1>2, <2>2, <3>1, Returned
  <2>3. CASE Rest # <<>> /\ left' = Rest /\ UNCHANGED <<pc, kind>>
    <3>1. k < Len(left)
      BY <1>3, <2>3
    <3> QED BY <1>1, <1>2, <1>3, <2>3, <3>1 DEF Doing, Named
  <2> QED BY <1>0, <2>1, <2>2, <2>3 DEF WriteSector, GrowOrFail, NoCluster
<1> QED BY <1>1, <1>3, <1>4, <1>5, <1>6, <1>7 DEF Store!Store

LEMMA StoreRead ==
    ASSUME DiskInv, DiskInv', CatReads
    PROVE  Store!Read
<1> DEFINE k == Len(shown')
           whole == text[opened]
<1>1. /\ pc = "cat" /\ UNCHANGED <<dir, pc, kind, left, opened, text>>
      /\ file.position < file.size
      /\ file' = [file EXCEPT !.position = @ + Min({ClusterSize - Offset(file.position),
                                                     file.size - file.position})]
  BY DEF CatReads, CanRead, disk, locals, Offset
<1>2. file \in Handle /\ file.position \in Nat /\ file.size \in Nat
  BY SizeTypes DEF DiskInv
<1>3. file'.name = file.name /\ file'.size = file.size /\ file'.position \in Nat
      /\ file.position <= file'.position
  <2>1. Offset(file.position) \in Nat /\ Offset(file.position) < ClusterSize
        /\ ClusterSize \in Nat
    BY <1>2, PieceTypes
  <2>2. ClusterSize - Offset(file.position) \in Nat /\ file.size - file.position \in Nat
    BY <1>1, <1>2, <2>1
  <2>3. Min({ClusterSize - Offset(file.position), file.size - file.position}) \in Nat
    BY <2>2, MinOfTwo
  <2> QED BY <1>1, <1>2, <2>3 DEF Handle
<1>4. Len(shown) = file.position
  BY <1>1 DEF DiskInv, ChainInv, CommandInv, Showing
<1>5. /\ k = file'.position /\ k <= file.size /\ shown' \in Seq(Unit)
      /\ \A u \in 1 .. k : shown'[u] = whole[u]
  BY <1>1, <1>3 DEF DiskInv, ChainInv, CommandInv, Showing, TypeOK
<1>6. whole \in Seq(Unit) /\ Len(whole) = file.size
  <2>1. opened \in Slot
    BY <1>1, OpenedLive DEF DiskInv, HasFile
  <2> QED BY <2>1 DEF DiskInv, ChainInv, ChainsOf, Stored, Size, TypeOK
<1> HIDE DEF k, whole
<1>7. shown' = SubSeq(whole, 1, k)
  <2>1. k \in Nat /\ k = Len(shown')
    BY <1>3, <1>5 DEF k
  <2>2. SubSeq(whole, 1, k) \in Seq(Unit) /\ Len(SubSeq(whole, 1, k)) = k
        /\ \A u \in 1 .. k : SubSeq(whole, 1, k)[u] = whole[u]
    BY <1>2, <1>5, <1>6, <2>1
  <2> QED BY <1>5, <2>1, <2>2, SeqEqual
<1>8. k \in Len(shown) .. Len(whole)
  BY <1>2, <1>3, <1>4, <1>5, <1>6
<1>9. Titles' = Titles /\ Contents' = Contents /\ Contents[opened] = whole
  BY <1>1, FilesKept, TextNow DEF whole
<1>10. Doing = "read" /\ Doing' = Doing /\ Named' = Named
  BY <1>1, <1>3 DEF Doing, Named
<1> QED BY <1>1, <1>7, <1>8, <1>9, <1>10 DEF Store!Read, Store!files

(* Every step of a command is a step of FileStore, or leaves it as it is.   *)
LEMMA StoreStep ==
    ASSUME DiskInv, DiskInv', [Next]_vars
    PROVE  [Store!Next]_(Store!storeVars)
<1>1. file.name \in Name
  BY DEF DiskInv, TypeOK, Handle
<1>2. ASSUME NEW n \in Name, Remove(n) \/ Create(n) \/ CatOpens(n) PROVE Store!Next
  <2>1. Store!Remove(Key[n]) \/ Store!Create(Key[n]) \/ Store!OpenToRead(Key[n])
    BY <1>2, StoreRemove, StoreCreate, StoreOpen
  <2> QED BY <2>1 DEF Store!Next
<1>3. ASSUME NEW w \in Words \cup {Space}, StartWrite(w) PROVE Store!Next
  BY <1>3, StoreSay DEF Store!Next
<1>4. CASE OpenCreated \/ CreateFailed \/ EchoEnds \/ EchoFails \/ CatEnds
  BY <1>1, <1>4, StoreOpen, StoreReturn DEF Store!Next
<1>5. CASE Format \/ WriteSector \/ CatReads
  BY <1>5, StoreFormat, StoreWrite, StoreRead DEF Store!Next
<1>6. CASE Seek \/ WriteOffVolume
  BY <1>6, StoreSeek DEF Store!Next
<1>7. CASE UNCHANGED vars
  <2>1. UNCHANGED <<dir, pc, file, kind, left, opened, text, shown>>
    BY <1>7 DEF vars, disk, locals, history
  <2> QED BY <2>1, FilesKept DEF Store!storeVars, Store!files, Doing, Named
<1> QED BY <1>2, <1>3, <1>4, <1>5, <1>6, <1>7 DEF Next, Overrun

LEMMA DiskInvHolds ==
    ASSUME \A n \in Name : Key[Saved[n]] = Key[n]
    PROVE  Spec => []DiskInv
<1>1. Init => SayState
  BY DEF Init, SayState, Intact
<1>2. Spec => [](TypeOK /\ SayState)
  BY <1>1, StepSays, TypeCorrect, PTL DEF Spec
<1> QED BY <1>2, ChainInvHolds, PTL DEF DiskInv

(***************************************************************************)
(* For names that the handle keeps whole: whatever commands have run and   *)
(* wherever one of them is, until the search leaves the FATs, following    *)
(* the links of the FAT from the first cluster of a file gives what was    *)
(* written to it, unit by unit.                                            *)
(***************************************************************************)
THEOREM DiskHoldsText ==
    ASSUME \A n \in Name : Key[Saved[n]] = Key[n]
    PROVE  Spec => [](Intact => Contents = text)
BY DiskInvHolds, TextNow, PTL

(***************************************************************************)
(* For names that the handle keeps whole the disk is a store of files, as  *)
(* FileStore describes it: every call and every round of a loop of         *)
(* smart_fs.c is one of its steps or changes nothing that a user of the    *)
(* disk can see.  The step that leaves the FATs is its step Break, after   *)
(* which it promises nothing.                                              *)
(***************************************************************************)
THEOREM StoreCorrect ==
    ASSUME \A n \in Name : Key[Saved[n]] = Key[n]
    PROVE  Spec => StoreSpec
<1>1. DiskInv /\ DiskInv' /\ [Next]_vars => [Store!Next]_(Store!storeVars)
  BY StoreStep
<1> QED BY <1>1, DiskInvHolds, StoreInit, PTL DEF Spec, StoreSpec, Store!Spec
=============================================================================
