--------------------------------- MODULE FAT --------------------------------
(***************************************************************************)
(* The FAT32 driver of modules/fat/main.c: FatWrite one sector write at a  *)
(* time, with a power failure possible between any two of them, and        *)
(* FatRead of what is then on the disk.                                    *)
(*                                                                         *)
(* The disk is what survives: two copies of the allocation table and the   *)
(* sectors of the clusters.  A sector of data is an abstract value, a      *)
(* directory sector a sequence of slots.  Sizes are counted in sectors.    *)
(***************************************************************************)
EXTENDS Integers, Sequences, FiniteSets, SequencesExt, FiniteSetsExt

CONSTANTS
    ClusterCount,       \* FatClusterCount: the clusters are 2..ClusterCount + 1
    SectorsPerCluster,
    EntriesPerFatSector,  \* BytesPerSector / 4
    EntriesPerSector,   \* BytesPerSector / sizeof(FATDirectory)
    LocMod,             \* a location has 16 bits for the cluster: 2^16
    FirstData,          \* the drive's sector at which cluster 2 begins
    SectorMod,          \* sectors that 32 bits of a byte offset tell apart
    Dirs,               \* first clusters of the directories
    Names,              \* 8.3 names
    Volumes,            \* [fat, data, written] of the volumes one may start from
    MaxSize,            \* bound: sectors of a file
    MaxWrites           \* bound: calls of FatWrite

Clusters == 2..(ClusterCount + 1)
FREE     == 0                   \* the entry of a free cluster
BAD      == ClusterCount + 2    \* 0x0FFFFFF7
EOC      == ClusterCount + 3    \* 0x0FFFFFF8
Entries  == 0..EOC
Offsets  == 0..(SectorsPerCluster - 1)

\* Slots and sectors
END     == [kind |-> "end"]     \* Name[0] = 0
DELETED == [kind |-> "deleted"] \* Name[0] = 0xE5
File(name, first, size) ==
    [kind |-> "file", name |-> name, first |-> first, size |-> size]
Text(id, k) == <<id, k>>        \* sector k of the data of write number id
IsFile(slot) == slot.kind = "file"

ASSUME SizeAssumption ==
    /\ {ClusterCount, SectorsPerCluster, EntriesPerFatSector, EntriesPerSector}
          \subseteq Nat \ {0}
    /\ {MaxSize, MaxWrites} \subseteq Nat
(* A volume ends where its last sector can still be addressed: 4 GiB into  *)
(* the drive.  Beyond that an access goes to a sector near its beginning.  *)
ASSUME DriveAssumption ==
    /\ {FirstData, SectorMod, LocMod} \subseteq Nat
    /\ FirstData + ClusterCount * SectorsPerCluster <= SectorMod
ASSUME DirAssumption == Dirs \subseteq Clusters

----------------------------------------------------------------------------
(* What a table and the data of the clusters mean.                         *)

(* The clusters that `while (cluster < 0x0FFFFFF8)' visits from c on.  The *)
(* walk is cut off after ClusterCount + 1 clusters, when it must have met  *)
(* one twice, and at a number the table has no entry for.                  *)
ChainIn(table, c) ==
    LET walk[i \in 0..ClusterCount] ==
          IF i = 0 THEN <<c>>
          ELSE LET before == walk[i - 1]
                   next   == table[Last(before)]
               IN  IF next \in DOMAIN table THEN Append(before, next) ELSE before
    IN  walk[ClusterCount]

\* The sectors of a chain in order: <<cluster, offset>>.
SectorsOn(chain) ==
    [k \in 1..(Len(chain) * SectorsPerCluster) |->
       <<chain[((k - 1) \div SectorsPerCluster) + 1], (k - 1) % SectorsPerCluster>>]

\* The slots of a directory in order: <<cluster, offset, index>>.
SlotsOn(chain) ==
    LET sectors == SectorsOn(chain)
    IN  [k \in 1..(Len(sectors) * EntriesPerSector) |->
           LET s == sectors[((k - 1) \div EntriesPerSector) + 1]
           IN  <<s[1], s[2], ((k - 1) % EntriesPerSector) + 1>>]

(* FatFirstSectorForCluster and FatSectorToOffset: the sector of the drive *)
(* an access goes to, and which sector of the volume's clusters is there.  *)
OnDrive(s) == (FirstData + (s[1] - 2) * SectorsPerCluster + s[2]) % SectorMod
At(s) == LET n == OnDrive(s) - FirstData
         IN  <<n \div SectorsPerCluster + 2, n % SectorsPerCluster>>

SectorIn(bytes, s) == bytes[At(s)[1]][At(s)[2]]
SlotIn(bytes, l) == SectorIn(bytes, l)[l[3]]

\* The slots in use, as the directories show them.
EntriesIn(table, bytes) ==
    UNION {{SlotIn(bytes, l) : l \in {k \in ToSet(SlotsOn(ChainIn(table, d))) :
                                        IsFile(SlotIn(bytes, k))}} : d \in Dirs}

\* A chain of the table: it visits no cluster twice and ends with the end mark.
IsChain(table, chain, c) ==
    /\ chain \in Seq(Clusters) \ {<<>>}
    /\ chain[1] = c
    /\ IsInjective(chain)
    /\ \A i \in 1..(Len(chain) - 1) : table[chain[i]] = chain[i + 1]
    /\ table[Last(chain)] = EOC

\* A file as a directory has it: the entry, and the data its chain holds.
Holds(table, bytes, e, f) ==
    LET sectors == SectorsOn(ChainIn(table, e.first))
    IN  /\ e.size = f.size /\ e.size <= Len(sectors)
        /\ \A k \in 1..e.size : SectorIn(bytes, sectors[k]) = Text(f.id, k)

Firsts(table, bytes) == {e.first : e \in EntriesIn(table, bytes)}
Visited(table, c)    == ToSet(ChainIn(table, c))

\* Each entry of the directory is that of a file, with its data, and each file
\* has one in front of the end mark.
DirInOrder(table, bytes, files, d) ==
    LET slots == SlotsOn(ChainIn(table, d))
        entry(k) == SlotIn(bytes, slots[k])
    IN  /\ \A k \in DOMAIN slots :
              DOMAIN SectorIn(bytes, slots[k]) = 1..EntriesPerSector
        /\ \A k \in DOMAIN slots : IsFile(entry(k)) =>
              \E f \in files : /\ f.dir = d /\ f.name = entry(k).name
                               /\ Holds(table, bytes, entry(k), f)
        /\ \A f \in files : f.dir = d =>
              \E k \in DOMAIN slots : /\ IsFile(entry(k)) /\ entry(k).name = f.name
                                      /\ \A j \in 1..(k - 1) : entry(j) # END

(* A volume in order, with these files: the chains of directories, files   *)
(* and what is pending are chains, and apart.  The entries of              *)
(* subdirectories are left out: FatWrite leaves them alone.                *)
InOrder(table, bytes, files, pending) ==
    LET heads == Dirs \cup Firsts(table, bytes) \cup pending
    IN  /\ \A c \in heads : IsChain(table, ChainIn(table, c), c)
        /\ Dirs \cap Firsts(table, bytes) = {}
        /\ pending \cap (Dirs \cup Firsts(table, bytes)) = {}
        /\ \A c, d \in heads : \/ c = d \/ {c, d} \subseteq pending
                               \/ Visited(table, c) \cap Visited(table, d) = {}
        /\ \A d \in Dirs : DirInOrder(table, bytes, files, d)

(* The volumes FatMount is given are in order, and the clusters of their   *)
(* directories have numbers that fit in the 16 bits of a location: any     *)
(* volume of fewer clusters, a larger one whose directories were made      *)
(* early.  No directory ever grows.                                        *)
ASSUME VolumeAssumption ==
    \A v \in Volumes :
        /\ v.fat \in [0..(ClusterCount + 1) -> Entries]
        /\ DOMAIN v.data = Clusters
        /\ \A c \in Clusters : DOMAIN v.data[c] = Offsets
        /\ \A f \in v.written : f.dir \in Dirs /\ f.size \in Nat
        /\ InOrder(v.fat, v.data, v.written, {})
        /\ \A d \in Dirs : Visited(v.fat, d) \subseteq 0..(LocMod - 1)
        /\ {c \in Clusters : v.fat[c] \notin {FREE, BAD}} =
              UNION {Visited(v.fat, c) : c \in Dirs \cup Firsts(v.fat, v.data)}

----------------------------------------------------------------------------
VARIABLES
    fat,        \* the first copy of the table: the one that is read
    mirror,     \* the second copy
    data,       \* data[cluster][offset]: a sector
    op,         \* the call of FatWrite in progress, with its local variables
    serial,     \* number of calls so far, which stands for their data
    written,    \* history: the files whose directory entry was written
    torn,       \* history: sectors of the table a power failure left unequal
    leaked      \* history: a call failed or was cut short

vars == <<fat, mirror, data, op, serial, written, torn, leaked>>

Idle == [pc |-> "idle"]

Init ==
    /\ \E v \in Volumes : fat = v.fat /\ mirror = v.fat /\ data = v.data
                          /\ written = v.written
    /\ op = Idle
    /\ serial = 0
    /\ torn = {}
    /\ leaked = FALSE

----------------------------------------------------------------------------
(* Reading the disk.                                                       *)

Chain(c)     == ChainIn(fat, c)
SectorsOf(c) == SectorsOn(Chain(c))
SlotsOf(d)   == SlotsOn(Chain(d))
SlotAt(l)    == SlotIn(data, l)

(* FatLocateInDir: the first entry of that name before the end mark.       *)
Locate(d, name) ==
    LET slots == SlotsOf(d)
        hits  == {k \in DOMAIN slots :
                    LET e == SlotAt(slots[k]) IN e = END \/ (IsFile(e) /\ e.name = name)}
    IN  IF hits = {} THEN END ELSE SlotAt(slots[Min(hits)])

(* FatRead: the first `size' sectors of the chain; NULL is <<>>.           *)
FatRead(d, name) ==
    LET e == Locate(d, name)
        sectors == SectorsOf(e.first)
    IN  IF e = END THEN <<>>
        ELSE [k \in 1..Min({e.size, Len(sectors)}) |-> SectorIn(data, sectors[k])]

FreeClusters == {c \in Clusters : fat[c] = FREE}

\* FatFindFreeCluster: 0 if the disk is full.
FindFreeCluster == IF FreeClusters = {} THEN 0 ELSE Min(FreeClusters)

\* Mutant: the last slot that is not in use.
LastFreeSlot(d) ==
    LET slots == SlotsOf(d)
        free  == {k \in DOMAIN slots : ~IsFile(SlotAt(slots[k]))}
    IN  IF free = {} THEN 0 ELSE Max(free)
\* FatFindFreeEntry: the position of the first slot that is not in use, or 0.
FreeSlot(d) ==
    LET slots == SlotsOf(d)
        free  == {k \in DOMAIN slots : ~IsFile(SlotAt(slots[k]))}
    IN  IF free = {} THEN 0 ELSE Min(free)

----------------------------------------------------------------------------
(* FatSetCluster writes the sector that holds the entry into both copies.  *)

FatSector(c) == c \div EntriesPerFatSector

\* Mutant: the second copy is not written.
MirrorNothing(c) == UNCHANGED <<mirror, torn>>
\* The write of the second copy: all entries of the sector just written.
WriteMirror(c) ==
    /\ mirror' = [x \in DOMAIN mirror |->
                     IF FatSector(x) = FatSector(c) THEN fat[x] ELSE mirror[x]]
    /\ torn' = torn \ {FatSector(c)}

(* FatWrite(path, data, size, vol, Parent); a size of 0 returns -1 at once *)
(* and changes nothing.                                                    *)
FatWrite(d, name, size) ==
    /\ op = Idle
    /\ serial < MaxWrites
    /\ op' = [pc |-> "allocate", dir |-> d, name |-> name, size |-> size,
              id |-> serial + 1, done |-> 0, first |-> 0, prev |-> 0, cluster |-> 0]
    /\ serial' = serial + 1
    /\ UNCHANGED <<fat, mirror, data, written, torn, leaked>>

\* Mutant: the new cluster is left free until it is linked.
AllocateUnmarked ==
    /\ op.pc = "allocate"
    /\ FindFreeCluster # 0
    /\ op' = [op EXCEPT !.pc = "mirror", !.cluster = FindFreeCluster,
                        !.first = IF @ = 0 THEN FindFreeCluster ELSE @]
    /\ UNCHANGED <<fat, mirror, data, serial, written, torn, leaked>>
(* FatAllocateCluster: mark the first free cluster as the end of a chain.  *)
Allocate ==
    /\ op.pc = "allocate"
    /\ FindFreeCluster # 0
    /\ fat' = [fat EXCEPT ![FindFreeCluster] = EOC]
    /\ op' = [op EXCEPT !.pc = "mirror", !.cluster = FindFreeCluster,
                        !.first = IF @ = 0 THEN FindFreeCluster ELSE @]
    /\ UNCHANGED <<mirror, data, serial, written, torn, leaked>>

\* `if (cluster == 0) return 0': what has been allocated stays so.
DiskFull ==
    /\ op.pc = "allocate"
    /\ FindFreeCluster = 0
    /\ op' = Idle
    /\ leaked' = (leaked \/ op.first # 0)
    /\ UNCHANGED <<fat, mirror, data, serial, written, torn>>

AllocateMirror ==
    /\ op.pc = "mirror"
    /\ WriteMirror(op.cluster)
    /\ op' = [op EXCEPT !.pc = IF op.prev # 0 THEN "link" ELSE "data"]
    /\ UNCHANGED <<fat, data, serial, written, leaked>>

\* FatSetCluster(vol, prevCluster, cluster)
Link ==
    /\ op.pc = "link"
    /\ fat' = [fat EXCEPT ![op.prev] = op.cluster]
    /\ op' = [op EXCEPT !.pc = "linkMirror"]
    /\ UNCHANGED <<mirror, data, serial, written, torn, leaked>>

LinkMirror ==
    /\ op.pc = "linkMirror"
    /\ WriteMirror(op.prev)
    /\ op' = [op EXCEPT !.pc = "data"]
    /\ UNCHANGED <<fat, data, serial, written, leaked>>

\* The offset in the cluster of the next sector to write, and where it is.
NextOffset == op.done % SectorsPerCluster
NextPlace == At(<<op.cluster, NextOffset>>)

\* Mutant: every cluster is linked to the first one.
PrevIsFirst ==
    /\ op.pc = "data"
    /\ data' = [data EXCEPT ![NextPlace[1]][NextPlace[2]] = Text(op.id, op.done + 1)]
    /\ op' = [op EXCEPT
                !.done = @ + 1,
                !.pc   = IF op.done + 1 = op.size THEN "entry"
                         ELSE IF NextOffset + 1 < SectorsPerCluster THEN "data" ELSE "allocate",
                !.prev = op.first]
    /\ UNCHANGED <<fat, mirror, serial, written, torn, leaked>>
(* The next sector of the data; then on in this cluster, to the next one,  *)
(* or to the directory.                                                    *)
WriteSector ==
    /\ op.pc = "data"
    /\ data' = [data EXCEPT ![NextPlace[1]][NextPlace[2]] = Text(op.id, op.done + 1)]
    /\ op' = [op EXCEPT
                !.done = @ + 1,
                !.pc   = IF op.done + 1 = op.size THEN "entry"
                         ELSE IF NextOffset + 1 < SectorsPerCluster THEN "data" ELSE "allocate",
                !.prev = op.cluster]
    /\ UNCHANGED <<fat, mirror, serial, written, torn, leaked>>

(* FatWriteDirectoryEntry, at the place FatFindFreeEntry has packed: the   *)
(* cluster is cut to 16 bits, the 8 of sector and index hold any of them.  *)
WriteEntry ==
    /\ op.pc = "entry"
    /\ FreeSlot(op.dir) # 0
    /\ LET l == SlotsOf(op.dir)[FreeSlot(op.dir)]
           s == At(<<l[1] % LocMod, l[2]>>)
       IN  data' = [data EXCEPT ![s[1]][s[2]][l[3]] = File(op.name, op.first, op.size)]
    /\ written' = written \cup
           {[dir |-> op.dir, name |-> op.name, id |-> op.id, size |-> op.size]}
    /\ op' = Idle
    /\ UNCHANGED <<fat, mirror, serial, torn, leaked>>

\* No slot: return -2.  The directory is never extended, the data stays.
DirectoryFull ==
    /\ op.pc = "entry"
    /\ FreeSlot(op.dir) = 0
    /\ op' = Idle
    /\ leaked' = TRUE
    /\ UNCHANGED <<fat, mirror, data, serial, written, torn>>

(* A power failure between two sector writes: the call is forgotten.       *)
PowerFailure ==
    /\ op # Idle
    /\ op' = Idle
    /\ leaked' = (leaked \/ op.first # 0)
    /\ torn' = torn \cup CASE op.pc = "mirror"     -> {FatSector(op.cluster)}
                           [] op.pc = "linkMirror" -> {FatSector(op.prev)}
                           [] OTHER                -> {}
    /\ UNCHANGED <<fat, mirror, data, serial, written>>

Next ==
    \/ \E d \in Dirs, name \in Names, size \in 1..MaxSize : FatWrite(d, name, size)
    \/ Allocate \/ DiskFull \/ AllocateMirror \/ Link \/ LinkMirror
    \/ WriteSector \/ WriteEntry \/ DirectoryFull
    \/ PowerFailure

Spec == Init /\ [][Next]_vars

----------------------------------------------------------------------------
AllEntries == EntriesIn(fat, data)

(* The state stays within its types. *)
TypeOK ==
    /\ fat \in [0..(ClusterCount + 1) -> Entries]
    /\ mirror \in [0..(ClusterCount + 1) -> Entries]
    /\ DOMAIN data = Clusters
    /\ \A c \in Clusters : DOMAIN data[c] = Offsets
    /\ op # Idle =>
          /\ op.pc \in {"allocate", "mirror", "link", "linkMirror", "data", "entry"}
          /\ op.dir \in Dirs /\ op.name \in Names /\ op.size \in 1..MaxSize
          /\ op.done \in 0..op.size
          /\ {op.first, op.prev, op.cluster} \subseteq Clusters \cup {0}
    /\ serial \in 0..MaxWrites
    /\ torn \subseteq {FatSector(c) : c \in Clusters}
    /\ leaked \in BOOLEAN

(* After every sector write, and so after a power failure at any moment:   *)
(* the chain of each file and directory consists of clusters of the disk,  *)
(* visits none twice, ends with the end mark and is long enough.           *)
ChainsEnd ==
    \A c \in Dirs \cup {e.first : e \in AllEntries} :
        LET chain == Chain(c)
        IN  /\ ToSet(chain) \subseteq Clusters
            /\ IsInjective(chain)
            /\ fat[Last(chain)] = EOC
            /\ \A e \in AllEntries :
                  e.first = c => Len(chain) * SectorsPerCluster >= e.size

(* No cluster belongs to two files or directories, or to a file and the    *)
(* write in progress.                                                      *)
NotCrossLinked ==
    LET chain == [c \in Clusters |-> ToSet(Chain(c))]
        heads == Dirs \cup {e.first : e \in AllEntries}
                   \cup (IF op = Idle THEN {} ELSE {op.first, op.cluster} \ {0})
    IN  \A c, d \in heads :
           c = d \/ (op # Idle /\ {c, d} = {op.first, op.cluster})
             \/ chain[c] \cap chain[d] = {}

(* The table is a set of disjoint chains, each ending and long enough, at  *)
(* every moment of FatWrite and after a power failure.                     *)
ChainsSound == TypeOK /\ ChainsEnd /\ NotCrossLinked

(* A write happens entirely or not at all, whenever the power fails: what  *)
(* FatRead finds under a name is the whole data of one completed write of  *)
(* that name, and it finds something if there was one.                     *)
AllOrNothing ==
    \A d \in Dirs, name \in Names :
        LET versions == {f \in written : f.dir = d /\ f.name = name}
        IN  IF versions = {} THEN FatRead(d, name) = <<>>
            ELSE \E f \in versions :
                   FatRead(d, name) = [k \in 1..f.size |-> Text(f.id, k)]

(* Between calls the copies of the table differ only in sectors whose      *)
(* second write a power failure has cut off, and those are repaired when   *)
(* the sector is next written.                                             *)
MirrorsAgree ==
    op = Idle => \A c \in DOMAIN fat : fat[c] = mirror[c] \/ FatSector(c) \in torn

(* As long as every call succeeds no cluster is lost: what the table marks *)
(* as used is in the chain of a file or directory.                         *)
NothingLost ==
    op = Idle /\ ~leaked =>
        {c \in Clusters : fat[c] \notin {FREE, BAD}} =
            UNION {ToSet(Chain(c)) : c \in Dirs \cup {e.first : e \in AllEntries}}
=============================================================================
