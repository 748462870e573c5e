----------------------------- MODULE FATMount -----------------------------
(* The FAT module's Init (modules/fat/main.c): it reads the first 512 bytes*)
(* of every node of /dev but tty0, and where they end in the boot signature*)
(* mounts the volume and reports its geometry.  FAT.tla has the files of a *)
(* mounted volume.  A machine.volumes entry says what a volume was made as,*)
(* for the properties only.                                                *)
EXTENDS ATA

CONSTANTS
    DirEntry,       \* sizeof(FATDirectory), 32
    Max12, Max16,   \* 4085 and 65525
    Offsets         \* The values of an unsigned 32-bit offset.

ASSUME OffsetsAssumption ==
    /\ Offsets \in Nat \ {0} /\ DirEntry \in Nat
    /\ Max12 \in Nat /\ Max16 \in Nat /\ Max12 <= Max16

VARIABLES
    fatAt,          \* The node Init is at, an index of devs; 0 before Init.
    fatStep,        \* "probe", "partitions", "boot" or "report"
    reading,        \* Whether a read of a drive is under way.
    vol,            \* The volume being mounted.
    mounted         \* What was reported.

fatVars == <<fatAt, fatStep, reading, vol, mounted>>

FatTypes == {1, 4, 6, 11, 12, 14}

\* FatParseMBR: the start of the first partition of a FAT type.
FatParseMBR(s) ==
    LET fat == {i \in DOMAIN s.parts : s.parts[i].type \in FatTypes} IN
    IF ~s.magic \/ fat = {} THEN 0
    ELSE s.parts[CHOOSE i \in fat : \A j \in fat : i <= j].lba

FatTotalSectors(b) ==
    IF b.TotalSectorsInVolume # 0 THEN b.TotalSectorsInVolume ELSE b.ExtendedSectorCount

FatSize(b) == IF b.SectorsPerFAT # 0 THEN b.SectorsPerFAT ELSE b.SectorsPerFAT32

\* A bug: the last, incomplete sector of the root directory is forgotten.
FlooredRootDirSize(b) == (b.RootDirectoryEntries * DirEntry) \div b.BytesPerSector

FatRootDirSize(b) ==
    (b.RootDirectoryEntries * DirEntry + (b.BytesPerSector - 1)) \div b.BytesPerSector

FatFirstData(b) == b.ReservedSectors + b.FATCount * FatSize(b) + FatRootDirSize(b)
FatFirstFat(b) == b.ReservedSectors
FatFirstRoot(b) == FatFirstData(b) - FatRootDirSize(b)

FatDataCount(b) ==
    FatTotalSectors(b) - (b.ReservedSectors + b.FATCount * FatSize(b) + FatRootDirSize(b))

FatClusterCount(b) == FatDataCount(b) \div b.SectorsPerCluster

\* The signature is looked for where FAT12/16 and where FAT32 keep it.
FatIdentify(b) ==
    CASE FatClusterCount(b) < Max12 /\ b.Signature16 -> "FAT12"
      [] FatClusterCount(b) \in Max12 .. Max16 - 1 /\ b.Signature16 -> "FAT16"
      [] ~(FatClusterCount(b) < Max16 /\ b.Signature16) /\ b.Signature32 -> "FAT32"
      [] OTHER -> "unknown"

\* The divisions of the geometry, by values no one has looked at.
Divides(b) == b.BytesPerSector # 0 /\ b.SectorsPerCluster # 0

Report(n, b) ==
    [n |-> n, type |-> FatIdentify(b), fat |-> FatFirstFat(b), root |-> FatFirstRoot(b),
     data |-> FatFirstData(b), clusters |-> FatClusterCount(b)]
-----------------------------------------------------------------------------
MountInit ==
    /\ fatAt = 0
    /\ fatStep = "probe"
    /\ reading = FALSE
    /\ vol = [lba |-> 0]
    /\ mounted = {}

Mounting == Going /\ running = "fat"
Node == devs[fatAt]
fatRest == <<machine, devs, typed, ints, uart>>

NextNode == fatAt' = fatAt + 1 /\ fatStep' = "probe" /\ reading' = FALSE

\* The loop over /dev begins; the driver of the keyboard must not be there
\* yet, its read would wait for a key.
FatStart ==
    /\ Mounting /\ fatAt = 0
    /\ fatAt' = 1
    /\ UNCHANGED <<fatStep, reading, vol, mounted, xferVars, running, stopped, fatRest>>

\* tty0 is passed over; null gives zeros, random and PCI's list no signature.
FatPassOver ==
    /\ Mounting /\ fatAt \in DOMAIN devs /\ fatStep = "probe"
    /\ Node.kind \in {"tty", "null", "random", "pci"}
    /\ NextNode
    /\ UNCHANGED <<vol, mounted, xferVars, running, stopped, fatRest>>

\* ReadFrom sets the offset and reads 512 bytes: sector 0 for the probe and
\* for the partition table, then the first sector of the partition.  The
\* product of its number and 512 has 32 bits.
FatRead ==
    /\ Mounting /\ fatAt \in DOMAIN devs /\ Node.kind = "hd"
    /\ fatStep \in {"probe", "partitions", "boot"} /\ ~reading
    /\ StartRead(Node.n, IF fatStep = "boot" THEN vol.lba % Offsets ELSE 0)
    /\ reading' = TRUE
    /\ UNCHANGED <<fatAt, fatStep, vol, mounted, signal, running, stopped, fatRest>>

\* What the read brought decides: no signature, next node; FatMount reads
\* the table again, then the boot record, which nobody checks.
FatGot ==
    /\ Mounting /\ reading /\ xfer.at = "done"
    /\ CASE fatStep = "probe" /\ ~Buffer.magic -> NextNode /\ UNCHANGED vol
         [] fatStep = "probe" /\ Buffer.magic ->
                fatStep' = "partitions" /\ UNCHANGED <<fatAt, vol>>
         [] fatStep = "partitions" ->
                fatStep' = "boot" /\ vol' = [lba |-> FatParseMBR(Buffer)] /\ UNCHANGED fatAt
         [] fatStep = "boot" ->
                fatStep' = "report" /\ vol' = [lba |-> vol.lba, boot |-> Buffer]
                /\ UNCHANGED fatAt
    /\ reading' = FALSE
    /\ UNCHANGED <<mounted, xferVars, running, stopped, fatRest>>

\* The geometry is printed, or its first division ends the process.
FatReport ==
    /\ Mounting /\ fatStep = "report"
    /\ IF Divides(vol.boot)
       THEN mounted' = mounted \union {Report(Node.n, vol.boot)} /\ NextNode
            /\ UNCHANGED stopped
       ELSE stopped' = "divide" /\ UNCHANGED <<fatAt, fatStep, reading, mounted>>
    /\ UNCHANGED <<vol, xferVars, running, fatRest>>

FatReturn ==
    /\ Mounting /\ fatAt = Len(devs) + 1
    /\ Return
    /\ UNCHANGED <<fatVars, xferVars, stopped, fatRest>>

MountNext ==
    \/ FatStart \/ FatPassOver \/ FatRead \/ FatGot \/ FatReport \/ FatReturn
-----------------------------------------------------------------------------
\* External: what the maker of a volume says of it, v, and leaves in its boot
\* record, b.  One field of two has the number of sectors and one the length
\* of a table.  The areas follow one another, the root directory as short and
\* the data as long as sectors and clusters allow, and it is the number of
\* clusters that makes a volume FAT12, FAT16 or FAT32.
IsMade(v, b) ==
    /\ v \in [n : Nat, type : STRING, fat : Nat, root : Nat, data : Nat, clusters : Nat]
    /\ b.BytesPerSector \in Nat \ {0} /\ b.SectorsPerCluster \in Nat \ {0}
    /\ {b.FATCount, b.RootDirectoryEntries} \subseteq Nat
    /\ \E sectors \in Nat \intersect {b.TotalSectorsInVolume, b.ExtendedSectorCount},
          table \in Nat \intersect {b.SectorsPerFAT, b.SectorsPerFAT32} :
        /\ {b.TotalSectorsInVolume, b.ExtendedSectorCount} \subseteq {0, sectors}
        /\ {b.SectorsPerFAT, b.SectorsPerFAT32} \subseteq {0, table}
        /\ v.fat = b.ReservedSectors
        /\ v.root = v.fat + b.FATCount * table
        /\ (v.data - v.root) * b.BytesPerSector - b.RootDirectoryEntries * DirEntry
            \in 0 .. b.BytesPerSector - 1
        /\ sectors - v.data - v.clusters * b.SectorsPerCluster \in 0 .. b.SectorsPerCluster - 1
    /\ \/ v.type = "FAT12" /\ v.clusters < Max12 /\ b.Signature16
       \/ v.type = "FAT16" /\ v.clusters \in Max12 .. Max16 - 1 /\ b.Signature16
       \/ v.type = "FAT32" /\ v.clusters >= Max16 /\ b.Signature32

\* A drive with a boot signature, and where the volume on it begins: in the
\* first partition of a FAT type, or at once where there is none.
HasVolume(slot) ==
    slot.kind \in {"ata", "atapi", "hung"} /\ slot.size > 0 /\ Unit(slot, 0).magic
MadeOn(slot, v) ==
    LET parts == Unit(slot, 0).parts
        fat == {p \in DOMAIN parts : parts[p].type \in FatTypes} IN
    \/ fat = {} /\ IsMade(v, Unit(slot, 0))
    \/ \E p \in fat :
        /\ \A q \in fat : p <= q
        /\ parts[p].lba < Offsets
        /\ parts[p].lba < slot.size * UnitsPerSector(slot.kind)
        /\ IsMade(v, Unit(slot, parts[p].lba))

(* Every volume that was made on a drive of this machine is reported as it *)
(* was made, its areas where the tool that made it put them, and nothing   *)
(* else is reported, once Init is over and no read has failed.             *)
(* (FatParseMBR, FatMount, FatIdentify and the geometry.)                  *)
VolumesAsMade ==
    machine.volumes # {} /\ Going /\ fatAt > Len(devs) => mounted = machine.volumes
=============================================================================
