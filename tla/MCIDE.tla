-------------------------------- MODULE MCIDE -------------------------------
(* Instances of IDE for TLC: a drive with LBA that needs the third mode    *)
(* for its last sectors, the very last of which is beyond the offsets a    *)
(* long can hold; the largest one without LBA, and a CD.                   *)
EXTENDS IDE, TLC

MCDrives ==
    {[type |-> "ata",   lba |-> TRUE,  Size |-> Lba28 + 3],
     [type |-> "ata",   lba |-> FALSE, Size |-> ByteBase * ByteBase * Heads * Spt],
     [type |-> "atapi", lba |-> FALSE, Size |-> 3]}

\* The ends of a track, of the drives, of LBA28 and of a long, inside a sector.
MCSeekOffsets ==
    {Spt * AtaBytes - 1, ByteBase * ByteBase * Heads * Spt * AtaBytes - 3,
     Lba28 * AtaBytes - 3, LongMod - 3}

\* At most one sector suffers from failed accesses of writes.
OneBadSector == Cardinality(suspect) <= 1
=============================================================================
