------------------------------- MODULE SmartFs -------------------------------
(***************************************************************************)
(* The FAT12 file system (core/smart_fs.c) on its RAM disk                 *)
(* (drivers/smart_block.c), driven by the commands of the shell, which are *)
(* its only clients and run one at a time: echo, cat, rm and format.       *)
(*                                                                         *)
(* A command is several calls, and a write is several sectors; each step   *)
(* of the model is one call or one round of a loop.  A sector of data      *)
(* holds ClusterSize units (512 bytes; a cluster is one sector), a sector  *)
(* of the FAT holds FatEntries entries (341).  An entry that lies across   *)
(* two sectors, the first of which is that of cluster 341, is left out.    *)
(*                                                                         *)
(* The search for a free cluster does not know where the FATs end.  Once   *)
(* they are used up it goes on into the root directory, takes zeroes there *)
(* for a free entry and writes on them: then pc is "overrun", the model    *)
(* ends and nothing more is claimed.                                       *)
(***************************************************************************)
EXTENDS Integers, Sequences, FiniteSets, FiniteSetsExt

CONSTANTS
    Name,           \* the file names users type, of 1 to 12 characters
    Key,            \* Key[n]: the 11 characters filename_to_83 makes of n
    Saved,          \* Saved[n]: what a handle keeps of n, 11 characters
    Never, Deleted, \* the first character of a name: 0x00, 0xE5
    RootEntries,    \* entries of the root directory
    SectorSlots,    \* of which this many are in a sector
    SectorsPerFat,
    FatEntries,     \* entries in a sector of the FAT
    ScanEnd,        \* 0xFF0, the end of the search for a free cluster
    LastCluster,    \* the last cluster of the volume
    ClusterSize,
    Words, Space    \* what echo writes: the words, and the space between

Slot == 1 .. RootEntries
EOC == 4095                     \* 0xFFF, the end of a chain
EndMark == 65535                \* 0xFFFF, get_next_cluster at the end

ASSUME NameAssumption ==
    /\ Name # {} /\ Saved \in [Name -> Name]
    /\ Never # Deleted
    /\ \A n \in Name : Key[n] \notin {Never, Deleted}
(* The volume is smaller than a FAT sector covers (78 of 341 clusters), and *)
(* the search for a free cluster goes beyond its end.  It may go beyond the *)
(* FATs as well, as that of the code does (they end at 1364, it at 4080).   *)
ASSUME VolumeAssumption ==
    /\ {RootEntries, SectorSlots, SectorsPerFat, ClusterSize} \subseteq Nat \ {0}
    /\ FatEntries \in Nat /\ LastCluster \in 2 .. FatEntries - 1
    /\ ScanEnd \in LastCluster + 1 .. 4087
ASSUME WordsAssumption == Words \cup {Space} \subseteq Seq(Nat) \ {<<>>}

VARIABLES
    fat,                        \* the sectors of FAT #1, then of FAT #2
    dir, data,                  \* the root directory, the data clusters
    pc,                         \* where the command of the shell is
    file,                       \* its smart_file_t
    kind,                       \* echo writes a word or a space next
    cluster, togo, left,        \* smart_fs_write: cluster, links to follow
                                \*   to the end of the file, rest of buffer
    opened, text, shown         \* history: the entry that open found, what
                                \*   was stored in each entry, what cat read

disk    == <<fat, dir, data>>
locals  == <<cluster, togo, left>>
history == <<opened, text, shown>>
vars    == <<disk, pc, file, kind, locals, history>>

Unused == [name |-> Never, first |-> 0, size |-> 0]
NoFile(n) == [name |-> n, first |-> 0, size |-> 0, position |-> 0]
AnyName == CHOOSE n \in Name : TRUE

-----------------------------------------------------------------------------
(* read_fat_entry and get_next_cluster. *)
Entry(f, c) == f[c \div FatEntries][c % FatEntries]

(* Mutant of NextCluster: 0xFFF is not taken for the end.                   *)
NextPastEnd(f, c) == IF Entry(f, c) > EOC THEN EndMark ELSE Entry(f, c)

NextCluster(f, c) == IF Entry(f, c) >= 4088 THEN EndMark ELSE Entry(f, c)

(* write_fat_entry: the sector with c, and its copy in the sector behind.   *)
WriteEntry(f, c, v) ==
    LET at     == c \div FatEntries
        sector == [f[at] EXCEPT ![c % FatEntries] = v]
    IN  [s \in DOMAIN f |-> IF s \in {at, at + 1} THEN sector ELSE f[s]]

(* From cluster FatEnd on the entry lies behind the FATs, or its copy does. *)
FatEnd    == (2 * SectorsPerFat - 1) * FatEntries
SearchEnd == IF ScanEnd < FatEnd THEN ScanEnd ELSE FatEnd

(* Mutant of FreeClusters: the search starts one entry behind.              *)
FreeFromThree(f) == {c \in 3 .. SearchEnd - 1 : Entry(f, c) = 0}

(* allocate_cluster: searched whatever the size of the volume; first one.   *)
FreeClusters(f) == {c \in 2 .. SearchEnd - 1 : Entry(f, c) = 0}
Allocated(f) == WriteEntry(f, Min(FreeClusters(f)), EOC)

(* Mutant of Extended: the new cluster is linked but not marked.            *)
ExtendedUnmarked(f, c) == WriteEntry(f, c, Min(FreeClusters(f)))

(* The chain of c continues in a new cluster. *)
Extended(f, c) == WriteEntry(Allocated(f), c, Min(FreeClusters(f)))

(* The sector of cluster c is on the device; flash_read and flash_write     *)
(* refuse the others.                                                       *)
OnVolume(c) == c \in 2 .. LastCluster

(* The cluster behind n links from c, as a loop over get_next_cluster.      *)
Follow(f, c, n) ==
    LET at[k \in 0 .. n] ==
            IF k = 0 THEN c
            ELSE IF at[k - 1] = EndMark THEN EndMark
                 ELSE NextCluster(f, at[k - 1])
    IN  at[n]

-----------------------------------------------------------------------------
(* find_file_in_root: a 0x00 ends the search of its sector only.            *)
FoundToOpen(d, key) ==
    {i \in Slot :
        /\ d[i].name = key
        /\ \A j \in 1 .. i - 1 :
              (j - 1) \div SectorSlots = (i - 1) \div SectorSlots
                  => d[j].name # Never}

(* The search of smart_fs_update_file_info and smart_fs_delete: a 0x00 ends *)
(* the search.                                                              *)
FoundToChange(d, key) ==
    {i \in Slot : /\ d[i].name = key
                  /\ \A j \in 1 .. i - 1 : d[j].name # Never}

(* Mutant of Updated: the last entry of that name.                          *)
UpdatedLast(d, key) ==
    IF FoundToChange(d, key) = {} THEN d
    ELSE [d EXCEPT ![Max(FoundToChange(d, key))] =
             [@ EXCEPT !.first = file.first, !.size = file.size]]

(* smart_fs_update_file_info: the first entry of that name.                 *)
Updated(d, key) ==
    IF FoundToChange(d, key) = {} THEN d
    ELSE [d EXCEPT ![Min(FoundToChange(d, key))] =
             [@ EXCEPT !.first = file.first, !.size = file.size]]

(* smart_fs_close: by the name the handle has kept.                         *)
Closed(d) == Updated(d, Key[Saved[file.name]])

(* The command returns; what was on its stack is gone. *)
ToPrompt ==
    /\ pc' = "prompt"
    /\ file' = NoFile(AnyName) /\ kind' = "word"
    /\ opened' = 0 /\ shown' = <<>>

-----------------------------------------------------------------------------
EmptyFat ==
    [s \in 0 .. 2 * SectorsPerFat - 1 |->
        [e \in 0 .. FatEntries - 1 |->
            IF s = 0 /\ e = 0 THEN 4088 ELSE IF s = 0 /\ e = 1 THEN EOC ELSE 0]]
EmptyDir == [i \in Slot |-> Unused]

(* After main: the device was 0xFF all over, so it has been formatted. *)
Init ==
    /\ fat = EmptyFat /\ dir = EmptyDir
    /\ data = [c \in 2 .. LastCluster |-> [u \in 1 .. ClusterSize |-> -1]]
    /\ pc = "prompt"
    /\ file = NoFile(AnyName) /\ kind = "word"
    /\ cluster = 0 /\ togo = 0 /\ left = <<>>
    /\ opened = 0 /\ text = [i \in Slot |-> <<>>] /\ shown = <<>>

(* cmd_format: smart_fs_format and smart_fs_init. *)
Format ==
    /\ pc = "prompt"
    /\ fat' = EmptyFat /\ dir' = EmptyDir
    /\ text' = [i \in Slot |-> <<>>]
    /\ UNCHANGED <<data, pc, file, kind, locals, opened, shown>>

(* Mutant of Remove: the entry is cleared as if it had never been used.     *)
RemoveCleared(n) ==
    /\ pc = "prompt" /\ FoundToChange(dir, Key[n]) # {}
    /\ LET i == Min(FoundToChange(dir, Key[n]))
       IN  dir' = [dir EXCEPT ![i] = Unused] /\ text' = [text EXCEPT ![i] = <<>>]
    /\ UNCHANGED <<fat, data, pc, file, kind, locals, opened, shown>>

(* cmd_rm, smart_fs_delete: no cluster is freed.  (The rest of the entry    *)
(* stays on disk and is not read any more.)                                 *)
Remove(n) ==
    /\ pc = "prompt" /\ FoundToChange(dir, Key[n]) # {}
    /\ LET i == Min(FoundToChange(dir, Key[n]))
       IN  /\ dir' = [dir EXCEPT ![i] = [Unused EXCEPT !.name = Deleted]]
           /\ text' = [text EXCEPT ![i] = <<>>]
    /\ UNCHANGED <<fat, data, pc, file, kind, locals, opened, shown>>

-----------------------------------------------------------------------------
FreeSlots == {i \in Slot : dir[i].name \in {Never, Deleted}}

(* cmd_echo, smart_fs_create: no look for the name; a full directory is not *)
(* an error yet, the file may be there.                                     *)
Create(n) ==
    /\ pc = "prompt"
    /\ pc' = "created" /\ file' = NoFile(n)
    /\ dir' = IF FreeSlots = {} THEN dir
              ELSE [dir EXCEPT ![Min(FreeSlots)] = [Unused EXCEPT !.name = Key[n]]]
    /\ UNCHANGED <<fat, data, kind, locals, history>>

(* smart_fs_open, for command: the handle copies the entry. *)
OpenFor(n, command) ==
    LET i == Min(FoundToOpen(dir, Key[n]))
    IN  /\ FoundToOpen(dir, Key[n]) # {}
        /\ pc' = command
        /\ file' = [name |-> n, first |-> dir[i].first, size |-> dir[i].size,
                    position |-> 0]
        /\ opened' = i
        /\ UNCHANGED <<disk, kind, locals, text, shown>>

OpenCreated == pc = "created" /\ OpenFor(file.name, "echo")

CreateFailed ==
    /\ pc = "created" /\ FoundToOpen(dir, Key[file.name]) = {}
    /\ ToPrompt
    /\ UNCHANGED <<disk, locals, text>>

(* A call of smart_fs_write ends; echo ignores the result of a space. *)
WriteReturns(ok) ==
    /\ pc' = IF ok \/ kind = "space" THEN "echo" ELSE "failed"
    /\ kind' = IF kind = "word" THEN "space" ELSE "word"
    /\ cluster' = 0 /\ togo' = 0 /\ left' = <<>>

(***************************************************************************)
(* allocate_cluster has found no free entry before FatEnd: SMART_FS_FULL,  *)
(* or it comes to a zero behind, and what it writes reaches the directory. *)
(* The bytes of the directory are not modelled, so whether there is one is *)
(* left open; in the code there is, as ten bytes of each entry are 0.      *)
(***************************************************************************)
NoCluster ==
    \/ WriteReturns(FALSE)
    \/ /\ ScanEnd > FatEnd
       /\ pc' = "overrun" /\ UNCHANGED <<kind, locals>>

(* Mutant of EndDistance: one link short when the last cluster is full.     *)
EndDistanceShort(size) == IF size = 0 THEN 0 ELSE (size - 1) \div ClusterSize

(* The links from the first cluster to where the file ends. *)
EndDistance(size) == size \div ClusterSize

(* smart_fs_write begins: an empty file gets its first cluster. *)
StartWrite(w) ==
    /\ pc = "echo" /\ w \in (IF kind = "word" THEN Words ELSE {Space})
    /\ IF file.first # 0 \/ FreeClusters(fat) # {}
       THEN LET c == IF file.first # 0 THEN file.first ELSE Min(FreeClusters(fat))
            IN  /\ file' = [file EXCEPT !.first = c]
                /\ fat' = IF file.first # 0 THEN fat ELSE Allocated(fat)
                /\ cluster' = c /\ togo' = EndDistance(file.size) /\ left' = w
                /\ pc' = "write" /\ UNCHANGED kind
       ELSE NoCluster /\ UNCHANGED <<file, fat>>
    /\ UNCHANGED <<dir, data, history>>

(* A new cluster behind the present one. *)
GrowOrFail(step) ==
    IF FreeClusters(fat) # {}
    THEN /\ fat' = Extended(fat, cluster)
         /\ cluster' = Min(FreeClusters(fat)) /\ step
    ELSE NoCluster /\ UNCHANGED fat

(* A round of the loop that looks for the end of the file. *)
Seek ==
    /\ pc = "write" /\ togo > 0
    /\ LET step == togo' = togo - 1 /\ UNCHANGED <<pc, kind, left>>
       IN  IF NextCluster(fat, cluster) = EndMark
           THEN GrowOrFail(step)
           ELSE cluster' = NextCluster(fat, cluster) /\ step /\ UNCHANGED fat
    /\ UNCHANGED <<dir, data, file, history>>

(* What goes into the present cluster: up to its end. *)
Part == SubSeq(left, 1, Min({Len(left), ClusterSize - (file.size % ClusterSize)}))
Rest == SubSeq(left, Len(Part) + 1, Len(left))

(* A round of the loop that writes: a sector and, when there is more to     *)
(* write (the cluster is full then), a new cluster.                         *)
WriteSector ==
    /\ pc = "write" /\ togo = 0 /\ OnVolume(cluster)
    /\ LET offset == file.size % ClusterSize
           size   == file.size + Len(Part)
       IN  /\ data' = [data EXCEPT ![cluster] =
                         [u \in 1 .. ClusterSize |->
                            IF u - offset \in 1 .. Len(Part) THEN Part[u - offset]
                                                             ELSE @[u]]]
           /\ file' = [file EXCEPT !.size = size, !.position = @ + Len(Part)]
           /\ text' = [text EXCEPT ![opened] = @ \o Part]
           /\ IF Rest = <<>>
              THEN WriteReturns(TRUE) /\ UNCHANGED fat
              ELSE GrowOrFail(left' = Rest /\ UNCHANGED <<pc, kind, togo>>)
    /\ UNCHANGED <<dir, opened, shown>>

(* The cluster is behind the end of the device: SMART_FS_ERROR. *)
WriteOffVolume ==
    /\ pc = "write" /\ togo = 0 /\ ~OnVolume(cluster)
    /\ WriteReturns(FALSE)
    /\ UNCHANGED <<disk, file, history>>

(* All words are written: smart_fs_update_file_info, then smart_fs_close. *)
EchoEnds ==
    /\ pc = "echo" /\ kind = "space"
    /\ dir' = Closed(Updated(dir, Key[file.name]))
    /\ ToPrompt
    /\ UNCHANGED <<fat, data, locals, text>>

(* A word could not be written: smart_fs_close only. *)
EchoFails ==
    /\ pc = "failed"
    /\ dir' = Closed(dir)
    /\ ToPrompt
    /\ UNCHANGED <<fat, data, locals, text>>

-----------------------------------------------------------------------------
CatOpens(n) == pc = "prompt" /\ OpenFor(n, "cat")

ReadCluster == Follow(fat, file.first, file.position \div ClusterSize)
CanRead == file.position < file.size /\ OnVolume(ReadCluster)

(* A round of smart_fs_read: up to the end of the sector or of the file. *)
CatReads ==
    /\ pc = "cat" /\ CanRead
    /\ LET offset == file.position % ClusterSize
           count  == Min({ClusterSize - offset, file.size - file.position})
       IN  /\ shown' = shown \o [u \in 1 .. count |-> data[ReadCluster][offset + u]]
           /\ file' = [file EXCEPT !.position = @ + count]
    /\ UNCHANGED <<disk, pc, kind, locals, opened, text>>

(* Nothing more to read, or an error: smart_fs_close writes the entry, too. *)
CatEnds ==
    /\ pc = "cat" /\ ~CanRead
    /\ dir' = Closed(dir)
    /\ ToPrompt
    /\ UNCHANGED <<fat, data, locals, text>>

(* The directory has been written to as if it were a FAT. *)
Overrun == pc = "overrun" /\ UNCHANGED vars

-----------------------------------------------------------------------------
Next ==
    \/ Format
    \/ \E n \in Name : Remove(n) \/ Create(n) \/ CatOpens(n)
    \/ OpenCreated \/ CreateFailed
    \/ \E w \in Words \cup {Space} : StartWrite(w)
    \/ Seek \/ WriteSector \/ WriteOffVolume
    \/ EchoEnds \/ EchoFails
    \/ CatReads \/ CatEnds
    \/ Overrun

Spec == Init /\ [][Next]_vars

-----------------------------------------------------------------------------
Unit     == Nat \cup {-1}
Cluster  == 0 .. SearchEnd - 1
Sectors  == 0 .. 2 * SectorsPerFat - 1
FatType  == [Sectors -> [0 .. FatEntries - 1 -> Cluster \cup {4088, EOC}]]
DirType  == [Slot -> [name : {Key[n] : n \in Name} \cup {Never, Deleted},
                      first : Cluster, size : Nat]]
DataType == [2 .. LastCluster -> [1 .. ClusterSize -> Unit]]
Handle   == [name : Name, first : Cluster, size : Nat, position : Nat]

TypeOK ==
    /\ fat \in FatType /\ dir \in DirType /\ data \in DataType
    /\ pc \in {"prompt", "created", "echo", "write", "failed", "cat", "overrun"}
    /\ file \in Handle /\ kind \in {"word", "space"}
    /\ cluster \in Cluster /\ togo \in Nat /\ left \in Seq(Unit)
    /\ opened \in {0} \cup Slot
    /\ pc \in {"echo", "write", "failed", "cat", "overrun"} => opened \in Slot
    /\ text \in [Slot -> Seq(Unit)] /\ shown \in Seq(Unit)

(* The FATs were never left. *)
Intact == pc # "overrun"

(* A file as the running command sees it: through its handle if it has one. *)
Live(i) == dir[i].name \notin {Never, Deleted}
First(i) == IF i = opened THEN file.first ELSE dir[i].first
Size(i) == IF i = opened THEN file.size ELSE dir[i].size
Chain(i) ==
    IF First(i) = 0 THEN {}
    ELSE {Follow(fat, First(i), k) : k \in 0 .. SearchEnd} \ {EndMark}

(***************************************************************************)
(* Until the search leaves the FATs, the chains of the files end, have a   *)
(* cluster on the volume for every piece of data, and never share one,     *)
(* after any sequence of commands and between any two steps of a write,    *)
(* deleted and overflowed files and duplicate names included.              *)
(***************************************************************************)
ChainsApart ==
    Intact => \A i \in Slot : Live(i) =>
        /\ First(i) # 0 => Follow(fat, First(i), SearchEnd) = EndMark
        /\ Size(i) <= ClusterSize * Cardinality(Chain(i) \cap 2 .. LastCluster)
        /\ \A j \in Slot \ {i} : Live(j) => Chain(i) \cap Chain(j) = {}

(* Until then the two searches of the directory, which end at different     *)
(* places, find the same entry for every name.                              *)
LookupsAgree ==
    Intact => \A n \in Name : LET open   == FoundToOpen(dir, Key[n])
                                  change == FoundToChange(dir, Key[n])
                              IN  /\ (open = {}) = (change = {})
                                  /\ open # {} => Min(open) = Min(change)

(* cat shows exactly what the echo commands have stored in the file since   *)
(* it was created, the parts before a failed write included.                *)
CatShowsAll == [][pc = "cat" /\ pc' = "prompt" => shown = text[opened]]_vars

(* The files as a user of the disk finds them: the titles in the directory, *)
(* and for each the text that following its chain gives.                    *)
Titles == [i \in Slot |-> IF Live(i) THEN dir[i].name ELSE Never]

(* Unit u of cluster c, or nothing where the device refuses to read.        *)
ReadUnit(c, u) == IF OnVolume(c) THEN data[c][u] ELSE -1

OnDisk(i) ==
    [u \in 1 .. Size(i) |->
        ReadUnit(Follow(fat, First(i), (u - 1) \div ClusterSize),
                 ((u - 1) % ClusterSize) + 1)]
Contents == [i \in Slot |-> OnDisk(i)]

Doing ==
    CASE pc = "prompt"            -> "idle"
      [] pc \in {"echo", "write"} -> kind
      [] pc = "cat"               -> "read"
      [] pc = "overrun"           -> "broken"
      [] OTHER                    -> pc

Named == IF pc = "prompt" THEN Never ELSE Key[file.name]

Store == INSTANCE FileStore
    WITH Entries <- RootEntries, Title <- {Key[n] : n \in Name}, NoTitle <- Never,
         title <- Titles, content <- Contents,
         mode <- Doing, named <- Named, open <- opened, rest <- left, answer <- shown

(***************************************************************************)
(* The disk implements FileStore.  The text of a file is on the disk at    *)
(* every moment and not only when cat reads it; a word that is written is  *)
(* added to the file that was named and to no other, completely unless the *)
(* command fails; and cat shows the whole text.  All this until a write    *)
(* breaks the store, which is not before the volume is full (below).       *)
(***************************************************************************)
StoreSpec == Store!Spec

(* A write fails, or breaks the store, only when the volume has no free     *)
(* cluster left, although allocate_cluster does not know where the volume   *)
(* and the FATs end.                                                        *)
FailsOnlyWhenFull ==
    [][(pc \in {"echo", "write"} /\ pc' \in {"failed", "overrun"}) =>
          \A c \in 2 .. LastCluster : Entry(fat', c) # 0]_vars

(***************************************************************************)
(* core/smart_fs.h says of the name kept in the handle: file name in 8.3   *)
(* form, for the update at close.  So what close writes into the directory *)
(* goes to the entry that was opened and to no other file.                 *)
(***************************************************************************)
CloseHitsOpened ==
    [][\A i \in Slot : pc \in {"echo", "failed", "cat"} /\ dir'[i] # dir[i]
                           => i = opened]_vars

(***************************************************************************)
(* DESIGN04.md: behind the two FATs lies the root directory.  So a search  *)
(* for a free entry of the FAT does not come there.                        *)
(***************************************************************************)
SearchEndsWithFats == pc # "overrun"
=============================================================================
