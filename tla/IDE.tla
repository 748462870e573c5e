--------------------------------- MODULE IDE --------------------------------
(***************************************************************************)
(* A drive of modules/ide/main.c: IDEReadFunction and IDEWriteFunction,    *)
(* which turn byte ranges into sector accesses, and the address that       *)
(* IDEAccess gives the drive.                                              *)
(*                                                                         *)
(* A call is a step per sector access.  In between the drive may fail, be  *)
(* removed, or lose power.  A byte is <<number of the write, position in   *)
(* its buffer>>.  One call runs at a time, as only kmain's process uses    *)
(* the drives.                                                             *)
(***************************************************************************)
EXTENDS Integers, Sequences, FiniteSets, FiniteSetsExt

CONSTANTS
    Drives,         \* [type, lba, Size] of the drives one may find
    AtaBytes,       \* bytes of a sector: 512
    AtapiBytes,     \* bytes of a CD sector: 2048
    LongMod,        \* values of a long: 2^32 on ia32, 2^64 on amd64
    ByteBase,       \* values of a register: 256
    HeadBase,       \* values of the head bits: 16
    Heads,          \* the geometry IDEAccess assumes: 16
    Spt,            \* and 63
    SeekOffsets,    \* where FileOffset is set to
    MaxBytes,       \* bound: bytes of a call
    MaxCalls        \* bound: calls

Lba28 == ByteBase * ByteBase * ByteBase * HeadBase  \* 0x10000000

ASSUME WidthAssumption ==
    /\ {AtaBytes, AtapiBytes, ByteBase, HeadBase, Heads, Spt} \subseteq Nat \ {0}
    /\ Heads <= HeadBase /\ HeadBase <= ByteBase /\ Spt < ByteBase
    /\ AtaBytes <= AtapiBytes
    /\ LongMod \in Nat \ {0} /\ LongMod % AtaBytes = 0 /\ LongMod % AtapiBytes = 0
(* What a drive can address: 28 bits and one more byte with LBA, the       *)
(* cylinders of two registers without.                                     *)
ASSUME DriveAssumption ==
    \A d \in Drives :
        /\ d.type \in {"ata", "atapi"} /\ d.lba \in BOOLEAN
        /\ d.Size \in 0..(ByteBase * ByteBase * ByteBase * ByteBase)
        /\ d.type = "ata" /\ ~d.lba => d.Size <= ByteBase * ByteBase * Heads * Spt

(* An offset is any value of a long, taken as unsigned: a negative one is  *)
(* a large one.  The buffer of a call and the kernel share the memory that *)
(* a long can address, so no buffer comes within a sector of all of it.    *)
ASSUME CallAssumption ==
    /\ SeekOffsets \subseteq 0..(LongMod - 1)
    /\ {MaxBytes, MaxCalls} \subseteq Nat
    /\ MaxBytes + AtapiBytes <= LongMod

VARIABLES
    dev,        \* the IDEDev
    disk,       \* disk[sector][k]: the bytes on the medium
    present,    \* the status register is neither 0 nor 0xFF
    FileOffset, \* of the VNode
    op,         \* the call in progress, with its local variables
    calls,      \* calls so far; the number of a write
    image,      \* history: the bytes as the calls meant them to be
    suspect     \* history: sectors of a failed access of a write

vars == <<dev, disk, present, FileOffset, op, calls, image, suspect>>

Idle == [pc |-> "idle"]
ZERO == <<0, -1>>
SectorBytes == IF dev.type = "atapi" THEN AtapiBytes ELSE AtaBytes
Zeros == [k \in 0..(SectorBytes - 1) |-> ZERO]

Init ==
    /\ dev \in Drives
    /\ disk = [s \in 0..(dev.Size - 1) |->
                  [k \in 0..(SectorBytes - 1) |-> <<0, s * SectorBytes + k>>]]
    /\ present = TRUE
    /\ FileOffset = 0
    /\ op = Idle
    /\ calls = 0
    /\ image = [a \in 0..(dev.Size * SectorBytes - 1) |-> <<0, a>>]
    /\ suspect = {}

----------------------------------------------------------------------------
(* IDEAccess: the registers for a sector, and what the drive makes of them.*)

Digit(n, i) == (n \div (IF i = 0 THEN 1 ELSE IF i = 1 THEN ByteBase
                        ELSE IF i = 2 THEN ByteBase * ByteBase
                        ELSE ByteBase * ByteBase * ByteBase)) % ByteBase

\* Mutant: the head is computed from the sector, not from the start of its track.
ChsFromSector(lba) ==
    LET sect == (lba % Spt) + 1
        cyl  == (lba + 1 - sect) \div (Heads * Spt)
    IN  [mode |-> 0, sect |-> sect, cyl |-> cyl % (ByteBase * ByteBase),
         head |-> ((lba + 1) % (Heads * Spt)) \div Spt]
ChsRegisters(lba) ==
    LET sect == (lba % Spt) + 1
        cyl  == (lba + 1 - sect) \div (Heads * Spt)
    IN  [mode |-> 0, sect |-> sect, cyl |-> cyl % (ByteBase * ByteBase),
         head |-> ((lba + 1 - sect) % (Heads * Spt)) \div Spt]

\* Mutant: > in place of >=.
RegistersPast28(lba) ==
    IF lba > Lba28
    THEN [mode |-> 2, lba_io |-> [i \in 0..3 |-> Digit(lba, i)], head |-> 0]
    ELSE IF dev.lba
    THEN [mode |-> 1, lba_io |-> [i \in 0..3 |-> IF i = 3 THEN 0 ELSE Digit(lba, i)],
          head |-> Digit(lba, 3) % HeadBase]
    ELSE ChsRegisters(lba)
Registers(lba) ==
    IF lba >= Lba28
    THEN [mode |-> 2, lba_io |-> [i \in 0..3 |-> Digit(lba, i)], head |-> 0]
    ELSE IF dev.lba
    THEN [mode |-> 1, lba_io |-> [i \in 0..3 |-> IF i = 3 THEN 0 ELSE Digit(lba, i)],
          head |-> Digit(lba, 3) % HeadBase]
    ELSE ChsRegisters(lba)

\* External: the sector an ATA drive takes the registers for.
Decode(r) ==
    IF r.mode = 0 THEN (r.cyl * Heads + r.head) * Spt + r.sect - 1
    ELSE LET high == IF r.mode = 1 THEN r.head ELSE r.lba_io[3]
         IN  ((high * ByteBase + r.lba_io[2]) * ByteBase + r.lba_io[1]) * ByteBase
               + r.lba_io[0]

\* The sector that is accessed; the packet of IDEAtaPIRead holds all 32 bits.
Accessed(sector) == IF dev.type = "atapi" THEN sector ELSE Decode(Registers(sector))

(* IDEReadSectors of one sector: its bytes; zeros after an error, which    *)
(* the callers see in package[0]; and if the drive has gone 512 zeros,     *)
(* after which the rest of the caller's buffer is what the stack held.     *)
SectorReads(sector) ==
    IF ~present
    THEN {[bytes |-> [k \in 0..(SectorBytes - 1) |->
                         IF k < AtaBytes THEN ZERO ELSE rest], ok |-> FALSE] :
             rest \in {ZERO, <<0, -2>>}}
    ELSE {[bytes |-> disk[Accessed(sector)], ok |-> TRUE],
          [bytes |-> Zeros, ok |-> FALSE]}

----------------------------------------------------------------------------
(* The loop of the two functions.                                          *)

sector == op.current \div SectorBytes
offset_in_sector == op.current % SectorBytes
bytes_this_iter == Min({SectorBytes - offset_in_sector, op.remaining})

Call(kind, n) ==
    [pc |-> kind, start |-> FileOffset, bytes |-> n, current |-> FileOffset,
     remaining |-> n, id |-> calls + 1, dest |-> [i \in {} |-> ZERO],
     failed |-> {}, sector_buffer |-> Zeros]

(* What the loop is left with after this iteration.  A range that runs     *)
(* past the last value of a long goes on at offset 0.                      *)
Advanced ==
    [op EXCEPT !.current = (@ + bytes_this_iter) % LongMod,
               !.remaining = @ - bytes_this_iter]
Finishes == op.remaining = bytes_this_iter
Past(n)  == (FileOffset + n) % LongMod

\* FileOffset is set by ReadFrom and WriteTo of modules/fat and by lseek.
Seek(o) ==
    /\ op.pc \in {"idle", "returned"}
    /\ FileOffset' = o
    /\ op' = Idle
    /\ UNCHANGED <<dev, disk, present, calls, image, suspect>>

(* IDEReadFunction: an absent drive reads as zeros.                        *)
Read(n) ==
    /\ op = Idle
    /\ calls < MaxCalls
    /\ calls' = calls + 1
    /\ IF present
       THEN op' = Call("read", n) /\ UNCHANGED FileOffset
       ELSE /\ op' = [Call("returned", n) EXCEPT
                        !.dest = [i \in 0..(n - 1) |-> ZERO],
                        !.failed = {Past(i) \div SectorBytes : i \in 0..(n - 1)}]
            /\ FileOffset' = Past(n)
    /\ UNCHANGED <<dev, disk, present, image, suspect>>

\* One iteration: beyond the end of the drive there are zeros.
ReadSector ==
    /\ op.pc = "read"
    /\ \E r \in IF sector >= dev.Size THEN {[bytes |-> Zeros, ok |-> TRUE]}
                                      ELSE SectorReads(sector) :
          op' = [Advanced EXCEPT
                   !.pc = IF Finishes THEN "returned" ELSE "read",
                   !.dest = [i \in 0..(op.bytes - op.remaining + bytes_this_iter - 1) |->
                                IF i < op.bytes - op.remaining THEN op.dest[i]
                                ELSE r.bytes[offset_in_sector + i - (op.bytes - op.remaining)]],
                   !.failed = IF r.ok THEN @ ELSE @ \cup {sector}]
    /\ FileOffset' = IF Finishes THEN Past(op.bytes) ELSE FileOffset
    /\ UNCHANGED <<dev, disk, present, calls, image, suspect>>

(* IDEWriteFunction: a write to an absent drive is dropped, and one to a   *)
(* CD returns -1 without moving FileOffset.                                *)
Write(n) ==
    /\ op = Idle
    /\ calls < MaxCalls
    /\ calls' = calls + 1
    /\ IF present /\ dev.type = "ata"
       THEN op' = Call("fetch", n) /\ UNCHANGED FileOffset
       ELSE /\ UNCHANGED op
            /\ FileOffset' = IF present THEN FileOffset ELSE Past(n)
    /\ UNCHANGED <<dev, disk, present, image, suspect>>

\* Mutant: only a write that starts inside a sector reads it first.
FetchAtOffset ==
    /\ op.pc = "fetch"
    /\ IF offset_in_sector = 0
       THEN op' = [op EXCEPT !.pc = "store"] /\ UNCHANGED suspect
       ELSE \E r \in IF sector >= dev.Size THEN {[bytes |-> Zeros, ok |-> TRUE]}
                                           ELSE SectorReads(sector) :
              /\ op' = [op EXCEPT !.pc = "store", !.sector_buffer = r.bytes]
              /\ suspect' = IF r.ok THEN suspect ELSE suspect \cup {sector}
    /\ UNCHANGED <<dev, disk, present, FileOffset, calls, image>>
(* A sector written in part is read first.                                 *)
Fetch ==
    /\ op.pc = "fetch"
    /\ IF offset_in_sector = 0 /\ bytes_this_iter = SectorBytes
       THEN op' = [op EXCEPT !.pc = "store"] /\ UNCHANGED suspect
       ELSE \E r \in IF sector >= dev.Size THEN {[bytes |-> Zeros, ok |-> TRUE]}
                                           ELSE SectorReads(sector) :
              /\ op' = [op EXCEPT !.pc = "store", !.sector_buffer = r.bytes]
              /\ suspect' = IF r.ok THEN suspect ELSE suspect \cup {sector}
    /\ UNCHANGED <<dev, disk, present, FileOffset, calls, image>>

\* The buffer with the bytes of this iteration in place.
Patched ==
    [k \in 0..(SectorBytes - 1) |->
        IF k \in offset_in_sector..(offset_in_sector + bytes_this_iter - 1)
        THEN <<op.id, op.bytes - op.remaining + k - offset_in_sector>>
        ELSE op.sector_buffer[k]]

(* IDEWriteSectors: nothing looks at the status after a write, so a write  *)
(* that failed, or went to a drive that has gone, is one that was done.    *)
Store ==
    /\ op.pc = "store"
    /\ IF sector >= dev.Size THEN UNCHANGED <<disk, image, suspect>>
       ELSE /\ \/ /\ present
                  /\ disk' = [disk EXCEPT ![Accessed(sector)] = Patched]
                  /\ UNCHANGED suspect
               \/ UNCHANGED disk /\ suspect' = suspect \cup {sector}
            /\ image' = [a \in DOMAIN image |->
                  IF a \in op.current..(op.current + bytes_this_iter - 1)
                  THEN <<op.id, op.bytes - op.remaining + a - op.current>>
                  ELSE image[a]]
    /\ op' = IF Finishes THEN Idle ELSE [Advanced EXCEPT !.pc = "fetch"]
    /\ FileOffset' = IF Finishes THEN Past(op.bytes) ELSE FileOffset
    /\ UNCHANGED <<dev, present, calls>>

\* The drive is removed.
Unplug ==
    /\ present
    /\ present' = FALSE
    /\ UNCHANGED <<dev, disk, FileOffset, op, calls, image, suspect>>

\* The machine loses power and boots again.
PowerFailure ==
    /\ op # Idle
    /\ op' = Idle
    /\ FileOffset' = 0
    /\ UNCHANGED <<dev, disk, present, calls, image, suspect>>

Next ==
    \/ \E o \in SeekOffsets : Seek(o)
    \/ \E n \in 1..MaxBytes : Read(n) \/ Write(n)
    \/ ReadSector \/ Fetch \/ Store
    \/ Unplug \/ PowerFailure

Spec == Init /\ [][Next]_vars

----------------------------------------------------------------------------
\* The offset of byte i of the call.
Place(i) == (op.start + i) % LongMod

(* The disk is the flat array of bytes the callers take it for: at every   *)
(* moment, after a power failure too, each byte is the last one written to *)
(* its offset, or the first one, and a partial write keeps its neighbours. *)
(* Only sectors of a failed access are exempt: a failed read before a      *)
(* partial write puts zeros in place of the neighbours.                    *)
DiskIsFlat ==
    \A s \in (0..(dev.Size - 1)) \ suspect : \A k \in 0..(SectorBytes - 1) :
        disk[s][k] = image[s * SectorBytes + k]

(* A read that returned has delivered each byte of its range from its      *)
(* place, zeros beyond the end, and has moved the offset past the range;   *)
(* after the last offset a long can hold comes offset 0.                   *)
(* The bytes of sectors that could not be read are zeros as long as the    *)
(* drive is there.                                                         *)
ReadDelivers ==
    op.pc = "returned" =>
        /\ FileOffset = Place(op.bytes)
        /\ DOMAIN op.dest = 0..(op.bytes - 1)
        /\ \A i \in 0..(op.bytes - 1) :
              LET a == Place(i)
                  s == a \div SectorBytes
              IN  IF s >= dev.Size THEN op.dest[i] = ZERO
                  ELSE IF s \in op.failed THEN present => op.dest[i] = ZERO
                  ELSE op.dest[i] = disk[s][a % SectorBytes]

(* A step writes at most one sector, one of the range of the write in      *)
(* progress, and never one of a CD.                                        *)
OnlyRequested ==
    [][\A s \in DOMAIN disk : disk'[s] # disk[s] =>
          /\ dev.type = "ata"
          /\ \E i \in 0..(op.bytes - 1) : s = Place(i) \div SectorBytes
          /\ \A t \in DOMAIN disk \ {s} : disk'[t] = disk[t]]_vars

(* The state stays within its types. *)
TypeOK ==
    /\ dev \in Drives
    /\ DOMAIN disk = 0..(dev.Size - 1)
    /\ \A s \in DOMAIN disk : DOMAIN disk[s] = 0..(SectorBytes - 1)
    /\ present \in BOOLEAN
    /\ FileOffset \in 0..(LongMod - 1)
    /\ op.pc \in {"idle", "read", "fetch", "store", "returned"}
    /\ op # Idle =>
          /\ op.remaining \in 0..op.bytes
          /\ op.current = Place(op.bytes - op.remaining)
          /\ DOMAIN op.sector_buffer = 0..(SectorBytes - 1)
    /\ calls \in 0..MaxCalls
    /\ DOMAIN image = 0..(dev.Size * SectorBytes - 1)
    /\ suspect \subseteq DOMAIN disk

(* The flat disk again, with the loop's own account of where it is: what   *)
(* IDEWriteFunction has still to do plus what it has done is the range.    *)
DiskSound == TypeOK /\ DiskIsFlat
=============================================================================
