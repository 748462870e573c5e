------------------------------ MODULE IDEProofs -----------------------------
(***************************************************************************)
(* The properties of IDE, for drives of any size within what their         *)
(* registers can address, for any sector size, and for any offset: a range *)
(* that runs past the last value of a long goes on at offset 0.            *)
(*                                                                         *)
(* AddressInverse: the registers IDEAccess writes lead the drive to the    *)
(* sector it was asked for, with the sectors of a track, with 28 bits and  *)
(* with more.  On it rests one invariant of the loop of the two functions: *)
(* Progress (where the loop is), Fetched (the buffer of a write holds its  *)
(* sector, unless it is filled whole) and ReadSoFar (what a read has       *)
(* delivered up to now).                                                   *)
(***************************************************************************)
EXTENDS IDE, TLAPS

Bytes   == Int \X Int
Sectors == 0..(dev.Size - 1)
Buffers == [0..(SectorBytes - 1) -> Bytes]
Longs   == 0..(LongMod - 1)

Fields == {"pc", "start", "bytes", "current", "remaining", "id", "dest", "failed",
           "sector_buffer"}
OpType ==
    /\ DOMAIN op = Fields
    /\ op.pc \in {"read", "fetch", "store", "returned"}
    /\ op.start \in Longs /\ op.bytes \in 1..MaxBytes /\ op.current \in Longs
    /\ op.remaining \in 0..op.bytes
    /\ op.id \in Nat
    /\ op.failed \subseteq Nat
    /\ op.sector_buffer \in Buffers

Types ==
    /\ dev \in Drives
    /\ disk \in [Sectors -> Buffers]
    /\ present \in BOOLEAN
    /\ FileOffset \in Longs
    /\ op = Idle \/ OpType
    /\ calls \in 0..MaxCalls
    /\ DOMAIN image = 0..(dev.Size * SectorBytes - 1)
    /\ suspect \subseteq Sectors

\* The loop has done the bytes before op.current, and whole sectors of them.
Progress ==
    op # Idle =>
        /\ op.current = Place(op.bytes - op.remaining)
        /\ op.pc # "returned" =>
              /\ FileOffset = op.start
              /\ op.remaining # 0
              /\ op.remaining = op.bytes \/ op.current % SectorBytes = 0
              /\ op.pc # "read" => dev.type = "ata"

\* The buffer that Store patches holds the sector, unless it is filled whole.
Fetched ==
    op.pc = "store" /\ sector < dev.Size =>
        \/ offset_in_sector = 0 /\ bytes_this_iter = SectorBytes
        \/ sector \in suspect
        \/ op.sector_buffer = disk[sector]

\* Byte i of the range has been delivered from its place.
InPlace(i) ==
    LET a == Place(i)
        s == a \div SectorBytes
    IN  IF s >= dev.Size THEN op.dest[i] = ZERO
        ELSE IF s \in op.failed THEN present => op.dest[i] = ZERO
        ELSE op.dest[i] = disk[s][a % SectorBytes]

Delivered(n) == DOMAIN op.dest = 0..(n - 1) /\ \A i \in 0..(n - 1) : InPlace(i)

ReadSoFar ==
    /\ op.pc = "read" => /\ Delivered(op.bytes - op.remaining)
                         /\ \A s \in op.failed : \E i \in 0..(op.bytes - op.remaining - 1) :
                               s = Place(i) \div SectorBytes
    /\ op.pc = "returned" => /\ Delivered(op.bytes)
                             /\ FileOffset = Place(op.bytes)

IInv == Types /\ Progress /\ Fetched /\ ReadSoFar /\ DiskIsFlat

----------------------------------------------------------------------------
(* Division.                                                               *)

LEMMA DivMod ==
  ASSUME NEW n \in Nat, NEW d \in Nat \ {0}
  PROVE  /\ n \div d \in Nat
         /\ n % d \in 0..(d - 1)
         /\ n = (n \div d) * d + (n % d)
OBVIOUS

\* A multiple of d that is smaller is smaller by d at least.
LEMMA Multiples ==
  ASSUME NEW p \in Nat, NEW q \in Nat, NEW d \in Nat, p < q
  PROVE  p * d + d <= q * d
<1>1. PICK e \in Nat : q = p + 1 + e
  <2>1. q - p - 1 \in Nat  OBVIOUS
  <2> QED  BY <2>1
<1>2. q * d = p * d + d + e * d  BY <1>1
<1>3. e * d \in Nat  OBVIOUS
<1>4. p * d \in Nat  OBVIOUS
<1> QED  BY <1>2, <1>3, <1>4

LEMMA DivUnique ==
  ASSUME NEW d \in Nat \ {0}, NEW q \in Nat, NEW r \in 0..(d - 1)
  PROVE  (q * d + r) \div d = q /\ (q * d + r) % d = r
<1> DEFINE n == q * d + r
<1> DEFINE p == n \div d
<1>1. n \in Nat  OBVIOUS
<1>2. p \in Nat /\ n % d \in 0..(d - 1) /\ n = p * d + (n % d)
  BY <1>1, DivMod
<1>3. ~(p < q)  BY <1>2, Multiples
<1>4. ~(q < p)  BY <1>2, Multiples
<1>5. p = q  BY <1>2, <1>3, <1>4
<1>6. n % d = r  BY <1>2, <1>5
<1> QED  BY <1>5, <1>6

LEMMA Regroup ==
  ASSUME NEW p \in Nat, NEW c \in Nat, NEW m \in Nat, NEW b \in Nat
  PROVE  (p * c + m) * b = p * (b * c) + m * b
<1>1. (p * c + m) * b = (p * c) * b + m * b  OBVIOUS
<1>2. (p * c) * b = p * (b * c)  OBVIOUS
<1> QED  BY <1>1, <1>2

LEMMA DivDiv ==
  ASSUME NEW n \in Nat, NEW b \in Nat \ {0}, NEW c \in Nat \ {0}
  PROVE  (n \div b) \div c = n \div (b * c)
<1>1. PICK q \in Nat, k \in 0..(b - 1) : n = q * b + k /\ q = n \div b
  BY DivMod
<1>2. PICK p \in Nat, m \in 0..(c - 1) : q = p * c + m /\ p = q \div c
  BY DivMod
<1>3. b * c \in Nat \ {0}  OBVIOUS
<1>4. m * b + b <= c * b  BY Multiples
<1>5. m * b + k \in 0..(b * c - 1)
  <2>1. m * b \in Nat /\ c * b = b * c  OBVIOUS
  <2> QED  BY <1>4, <2>1
<1>6. n = p * (b * c) + (m * b + k)
  <2>0. (p * c + m) * b = p * (b * c) + m * b  BY Regroup
  <2>1. q * b = p * (b * c) + m * b
    <3>1. q = p * c + m  BY <1>2
    <3> QED  BY <2>0, <3>1
  <2>2. p * (b * c) \in Nat /\ m * b \in Nat  OBVIOUS
  <2> QED  BY <1>1, <2>1, <2>2
<1>7. n \div (b * c) = p  BY <1>3, <1>5, <1>6, DivUnique
<1> QED  BY <1>1, <1>2, <1>7

LEMMA DivBelow ==
  ASSUME NEW n \in Nat, NEW d \in Nat \ {0}, NEW q \in Nat, n < q * d
  PROVE  n \div d < q
<1> DEFINE p == n \div d
<1>1. p \in Nat /\ n % d \in 0..(d - 1) /\ n = p * d + (n % d)
  BY DivMod
<1> SUFFICES ~(q <= p)  BY <1>1
<1>2. q = p \/ q < p => q * d <= p * d
  <2>1. q < p => q * d + d <= p * d  BY <1>1, Multiples
  <2> QED  BY <2>1, <1>1
<1> QED  BY <1>1, <1>2

LEMMA DivMonotone ==
  ASSUME NEW m \in Nat, NEW n \in Nat, NEW d \in Nat \ {0}, m <= n
  PROVE  m \div d <= n \div d
<1>1. PICK p \in Nat, k \in 0..(d - 1) : m = p * d + k /\ p = m \div d
  BY DivMod
<1>2. PICK q \in Nat, l \in 0..(d - 1) : n = q * d + l /\ q = n \div d
  BY DivMod
<1>3. q < p => q * d + d <= p * d  BY Multiples
<1>4. p * d \in Nat /\ q * d \in Nat  OBVIOUS
<1>5. ~(q < p)  BY <1>1, <1>2, <1>3, <1>4
<1> QED  BY <1>1, <1>2, <1>5

LEMMA SmallMod ==
  ASSUME NEW n \in Nat, NEW d \in Nat \ {0}, n < d
  PROVE  n % d = n
OBVIOUS

\* Counting on from a number, and from what is left of it.
LEMMA ModStep ==
  ASSUME NEW n \in Nat, NEW k \in Nat, NEW d \in Nat \ {0}
  PROVE  /\ (n + k) % d = ((n % d) + k) % d
         /\ (n % d) + k < d => (n + k) % d = (n % d) + k
<1>1. PICK q \in Nat, r \in 0..(d - 1) : n = q * d + r /\ r = n % d  BY DivMod
<1>2. r + k \in Nat  OBVIOUS
<1>3. PICK p \in Nat, m \in 0..(d - 1) : r + k = p * d + m /\ m = (r + k) % d
  BY <1>2, DivMod
<1>4. q * d \in Nat /\ p * d \in Nat  OBVIOUS
<1>5. PICK c \in Nat : c * d = q * d + p * d
  <2>1. q + p \in Nat /\ (q + p) * d = q * d + p * d  OBVIOUS
  <2> QED  BY <2>1
<1>6. n + k = c * d + m
  <2> DEFINE a == q * d
             b == p * d
             e == c * d
  <2>1. a \in Nat /\ b \in Nat /\ e = a + b  BY <1>4, <1>5
  <2>2. n = a + r /\ r + k = b + m  BY <1>1, <1>3
  <2> HIDE DEF a, b, e
  <2>3. n + k = e + m  BY <2>1, <2>2
  <2> QED  BY <2>3 DEF e
<1>7. (n + k) % d = m  BY <1>6, DivUnique
<1>8. r + k < d => (r + k) % d = r + k  BY <1>2, SmallMod
<1> QED  BY <1>1, <1>3, <1>7, <1>8

\* Numbers less than d apart leave different rests.
LEMMA ModDiffer ==
  ASSUME NEW n \in Nat, NEW m \in Nat, NEW d \in Nat \ {0}, n < m, m - n < d
  PROVE  n % d # m % d
<1> SUFFICES ASSUME n % d = m % d PROVE FALSE
  OBVIOUS
<1>1. PICK a \in Nat, r \in 0..(d - 1) : n = a * d + r /\ r = n % d  BY DivMod
<1>2. PICK b \in Nat : m = b * d + r  BY <1>1, DivMod
<1>3. a * d \in Nat /\ b * d \in Nat  OBVIOUS
<1>4. a < b => a * d + d <= b * d  BY Multiples
<1>5. b < a => b * d + d <= a * d  BY Multiples
<1>6. a = b => a * d = b * d  OBVIOUS
<1> QED  BY <1>1, <1>2, <1>3, <1>4, <1>5, <1>6

----------------------------------------------------------------------------
(* The drive takes the registers for the sector they were made from.       *)

LEMMA Digits ==
  ASSUME NEW n \in Nat
  PROVE  /\ \A i \in 0..3 : Digit(n, i) \in Nat
         /\ n \div (ByteBase * ByteBase * ByteBase) \in Nat
         /\ (((n \div (ByteBase * ByteBase * ByteBase)) * ByteBase
                + Digit(n, 2)) * ByteBase + Digit(n, 1)) * ByteBase + Digit(n, 0) = n
<1> DEFINE B == ByteBase
<1>1. B \in Nat \ {0}  BY WidthAssumption
<1>2. PICK a \in Nat, k \in 0..(B - 1) : n = a * B + k /\ a = n \div B /\ k = n % B
  BY <1>1, DivMod
<1>3. PICK b \in Nat, l \in 0..(B - 1) : a = b * B + l /\ b = a \div B /\ l = a % B
  BY <1>1, DivMod
<1>4. PICK c \in Nat, m \in 0..(B - 1) : b = c * B + m /\ c = b \div B /\ m = b % B
  BY <1>1, DivMod
<1>5. B * B \in Nat \ {0}  BY <1>1
<1>6. n \div (B * B) = b  BY <1>1, <1>2, <1>3, DivDiv
<1>7. n \div (B * B * B) = c
  <2>1. (n \div (B * B)) \div B = n \div ((B * B) * B)  BY <1>1, <1>5, DivDiv
  <2> QED  BY <2>1, <1>4, <1>6
<1>8. Digit(n, 0) = k
  <2>1. n \div 1 = n  OBVIOUS
  <2> QED  BY <1>2, <2>1 DEF Digit
<1>9. Digit(n, 1) = l
  <2>1. (n \div B) % B = l  BY <1>2, <1>3
  <2>2. Digit(n, 1) = (n \div B) % B  BY DEF Digit
  <2> QED  BY <2>1, <2>2
<1>10. Digit(n, 2) = m  BY <1>4, <1>6 DEF Digit
<1>11. Digit(n, 3) = c % B  BY <1>7 DEF Digit
<1>12. c % B \in Nat  BY <1>1, <1>4, DivMod
<1>13. ((c * B + m) * B + l) * B + k = n
  <2>1. c * B + m = b  BY <1>4
  <2>2. b * B + l = a  BY <1>3
  <2>3. a * B + k = n  BY <1>2
  <2> QED  BY <2>1, <2>2, <2>3
<1>14. \A i \in 0..3 : Digit(n, i) \in Nat
  <2>1. {k, l, m} \subseteq Nat  BY <1>1
  <2> QED  BY <2>1, <1>8, <1>9, <1>10, <1>11, <1>12
<1> QED  BY <1>7, <1>8, <1>9, <1>10, <1>13, <1>14

\* Cylinder, head and sector, for a disk of at most 2^16 cylinders.
LEMMA ChsInverse ==
  ASSUME NEW s \in Nat, s < ByteBase * ByteBase * Heads * Spt
  PROVE  Decode(ChsRegisters(s)) = s
<1> DEFINE B2 == ByteBase * ByteBase
<1>1. /\ Heads \in Nat \ {0} /\ Spt \in Nat \ {0} /\ B2 \in Nat \ {0}
      /\ Heads * Spt \in Nat \ {0} /\ Spt * Heads \in Nat \ {0}
      /\ Heads * Spt = Spt * Heads
  BY WidthAssumption
<1>2. PICK t \in Nat, k \in 0..(Spt - 1) : s = t * Spt + k /\ t = s \div Spt /\ k = s % Spt
  BY <1>1, DivMod
<1>3. PICK c \in Nat, h \in 0..(Heads - 1) : t = c * Heads + h /\ c = t \div Heads
  BY <1>1, DivMod
<1>4. s + 1 - ((s % Spt) + 1) = t * Spt  
  <2>1. t * Spt \in Nat  BY <1>1
  <2> QED  BY <1>1, <1>2, <2>1
<1>5. h * Spt \in 0..(Heads * Spt - 1)
  <2>1. h * Spt + Spt <= Heads * Spt  BY <1>1, Multiples
  <2>2. h * Spt \in Nat /\ Heads * Spt \in Nat  BY <1>1
  <2> QED  BY <1>1, <2>1, <2>2
<1>6. t * Spt = c * (Heads * Spt) + h * Spt
  <2>1. (c * Heads + h) * Spt = c * (Spt * Heads) + h * Spt  BY <1>1, Regroup
  <2> QED  BY <1>1, <1>3, <2>1
<1>7. (t * Spt) \div (Heads * Spt) = c /\ (t * Spt) % (Heads * Spt) = h * Spt
  <2>1. /\ (c * (Heads * Spt) + h * Spt) \div (Heads * Spt) = c
        /\ (c * (Heads * Spt) + h * Spt) % (Heads * Spt) = h * Spt
    BY <1>1, <1>5, DivUnique
  <2> QED  BY <1>6, <2>1
<1>8. (h * Spt) \div Spt = h
  <2>1. (h * Spt + 0) \div Spt = h  BY <1>1, DivUnique
  <2>2. h * Spt \in Nat  BY <1>1
  <2> QED  BY <2>1, <2>2
<1>9. c % B2 = c
  <2>1. c < B2
    <3>1. s \div (Spt * Heads) = c
      <4>1. (s \div Spt) \div Heads = s \div (Spt * Heads)  BY <1>1, DivDiv
      <4> QED  BY <1>2, <1>3, <4>1
    <3>2. B2 * Heads * Spt = B2 * (Spt * Heads)  BY <1>1
    <3> QED  BY <1>1, <3>1, <3>2, DivBelow
  <2> QED  BY <1>1, <2>1, SmallMod
<1>10. ChsRegisters(s) = [mode |-> 0, sect |-> k + 1, cyl |-> c, head |-> h]
  BY <1>2, <1>4, <1>7, <1>8, <1>9 DEF ChsRegisters
<1>11. (c * Heads + h) * Spt + (k + 1) - 1 = s
  <2>1. c * Heads + h = t  BY <1>3
  <2>2. t * Spt \in Nat  BY <1>1
  <2> QED  BY <1>2, <2>1, <2>2
<1> QED  BY <1>10, <1>11 DEF Decode

(* IDEAccess addresses the sector it is asked for, in all three modes.     *)
LEMMA AddressInverse ==
  ASSUME dev \in Drives, NEW s \in 0..(dev.Size - 1)
  PROVE  Accessed(s) = s
<1> DEFINE B == ByteBase
           B3 == ByteBase * ByteBase * ByteBase
           top == s \div B3
<1>1. B \in Nat \ {0} /\ HeadBase \in Nat \ {0} /\ HeadBase <= B /\ B3 \in Nat \ {0}
  BY WidthAssumption
<1>2. s \in Nat /\ s < dev.Size /\ dev.Size <= B3 * B /\ dev.Size \in Nat
      /\ dev.type \in {"ata", "atapi"}
  BY DriveAssumption, WidthAssumption
<1>3. top \in Nat /\ Digit(s, 3) = top % B
  <2>1. top \in Nat  BY <1>1, <1>2, DivMod
  <2>2. Digit(s, 3) = top % B  BY DEF Digit
  <2> QED  BY <2>1, <2>2
<1>4. CASE dev.type = "atapi"
  BY <1>4 DEF Accessed
<1>5. CASE dev.type = "ata" /\ s >= Lba28
  <2>1. top < B
    <3>1. B3 * B = B * B3 /\ B3 * B \in Nat  BY <1>1
    <3>2. s < B * B3  BY <1>2, <3>1
    <3> QED  BY <1>1, <1>2, <3>2, DivBelow
  <2>2. Digit(s, 3) = top  BY <1>1, <1>3, <2>1, SmallMod
  <2>3. Registers(s) = [mode |-> 2, lba_io |-> [i \in 0..3 |-> Digit(s, i)], head |-> 0]
    BY <1>5 DEF Registers
  <2>4. Decode(Registers(s)) =
          ((Digit(s, 3) * B + Digit(s, 2)) * B + Digit(s, 1)) * B + Digit(s, 0)
    BY <2>3 DEF Decode
  <2>5. Decode(Registers(s)) = s  BY <1>2, <2>2, <2>4, Digits
  <2> QED  BY <1>5, <2>5 DEF Accessed
<1>6. CASE dev.type = "ata" /\ ~(s >= Lba28) /\ dev.lba
  <2>1. top < HeadBase
    <3>1. Lba28 = HeadBase * B3 /\ Lba28 \in Nat  BY <1>1 DEF Lba28
    <3>2. s < HeadBase * B3  BY <1>2, <1>6, <3>1
    <3> QED  BY <1>1, <1>2, <3>2, DivBelow
  <2>2. Digit(s, 3) = top  BY <1>1, <1>3, <2>1, SmallMod
  <2>3. Digit(s, 3) % HeadBase = top  BY <1>1, <1>3, <2>1, <2>2, SmallMod
  <2>4. Registers(s) = [mode |-> 1, head |-> Digit(s, 3) % HeadBase,
                        lba_io |-> [i \in 0..3 |-> IF i = 3 THEN 0 ELSE Digit(s, i)]]
    BY <1>6 DEF Registers
  <2>5. Decode(Registers(s)) =
          (((Digit(s, 3) % HeadBase) * B + Digit(s, 2)) * B + Digit(s, 1)) * B + Digit(s, 0)
    BY <2>4 DEF Decode
  <2>6. Decode(Registers(s)) = s  BY <1>2, <2>3, <2>5, Digits
  <2> QED  BY <1>6, <2>6 DEF Accessed
<1>7. CASE dev.type = "ata" /\ ~(s >= Lba28) /\ ~dev.lba
  <2>1. dev.Size <= ByteBase * ByteBase * Heads * Spt
    BY <1>7, DriveAssumption
  <2>2. ByteBase * ByteBase * Heads * Spt \in Nat  BY WidthAssumption
  <2>3. s < ByteBase * ByteBase * Heads * Spt  BY <1>2, <2>1, <2>2
  <2>4. Registers(s) = ChsRegisters(s)  BY <1>7 DEF Registers
  <2> QED  BY <1>2, <1>7, <2>3, <2>4, ChsInverse DEF Accessed
<1> QED  BY <1>2, <1>4, <1>5, <1>6, <1>7

----------------------------------------------------------------------------
(* What the loop's own arithmetic means.                                   *)

LEMMA MinOfTwo ==
  ASSUME NEW a \in Nat, NEW b \in Nat
  PROVE  Min({a, b}) = IF a <= b THEN a ELSE b
BY DEF Min

LEMMA BytesOfSector ==
  SectorBytes \in Nat \ {0}
BY WidthAssumption DEF SectorBytes

\* A long can hold whole sectors, and more bytes than a call has.
LEMMA LongFacts ==
  /\ LongMod \in Nat \ {0} /\ MaxBytes \in Nat /\ MaxBytes + SectorBytes <= LongMod
  /\ \E c \in Nat : LongMod = c * SectorBytes
<1>1. /\ LongMod \in Nat \ {0} /\ MaxBytes \in Nat
      /\ MaxBytes + SectorBytes <= LongMod /\ LongMod % SectorBytes = 0
  BY WidthAssumption, CallAssumption DEF SectorBytes
<1>2. SectorBytes \in Nat \ {0}  BY BytesOfSector
<1>3. /\ LongMod \div SectorBytes \in Nat
      /\ LongMod = (LongMod \div SectorBytes) * SectorBytes + (LongMod % SectorBytes)
  BY <1>1, <1>2, DivMod
<1>4. LongMod = (LongMod \div SectorBytes) * SectorBytes
  <2>1. (LongMod \div SectorBytes) * SectorBytes \in Nat  BY <1>2, <1>3
  <2> QED  BY <1>1, <1>3, <2>1
<1> QED  BY <1>1, <1>3, <1>4

LEMMA IdlePc ==
  ASSUME Types
  PROVE  op = Idle <=> op.pc = "idle"
BY DEF Types, OpType, Idle

\* The bytes of an iteration: all in one sector, up to its end or the call's.
LEMMA Iteration ==
  ASSUME Types, Progress, op # Idle, op.pc # "returned"
  PROVE  /\ sector \in Nat
         /\ sector * SectorBytes \in Nat
         /\ offset_in_sector \in 0..(SectorBytes - 1)
         /\ op.current = sector * SectorBytes + offset_in_sector
         /\ bytes_this_iter \in 1..op.remaining
         /\ offset_in_sector + bytes_this_iter <= SectorBytes
         /\ \/ bytes_this_iter = op.remaining
            \/ offset_in_sector + bytes_this_iter = SectorBytes
<1>1. op.current \in Nat /\ op.remaining \in Nat \ {0}
  BY LongFacts DEF Types, OpType, Progress, Longs
<1>2. SectorBytes \in Nat \ {0}  BY BytesOfSector
<1>3. /\ sector \in Nat /\ offset_in_sector \in 0..(SectorBytes - 1)
      /\ op.current = sector * SectorBytes + offset_in_sector
  BY <1>1, <1>2, DivMod DEF sector, offset_in_sector
<1>4. SectorBytes - offset_in_sector \in Nat \ {0}
  BY <1>2, <1>3
<1>5. bytes_this_iter = IF SectorBytes - offset_in_sector <= op.remaining
                        THEN SectorBytes - offset_in_sector ELSE op.remaining
  BY <1>1, <1>4, MinOfTwo DEF bytes_this_iter
<1>6. sector * SectorBytes \in Nat  BY <1>2, <1>3
<1>7. /\ bytes_this_iter \in 1..op.remaining
      /\ offset_in_sector + bytes_this_iter <= SectorBytes
      /\ \/ bytes_this_iter = op.remaining
         \/ offset_in_sector + bytes_this_iter = SectorBytes
  BY <1>1, <1>2, <1>3, <1>4, <1>5
<1> QED  BY <1>3, <1>6, <1>7

(* Where the bytes of an iteration are, that none before them were in the  *)
(* same sector, and where the next iteration begins.                       *)
LEMMA Places ==
  ASSUME Types, Progress, op # Idle, op.pc # "returned",
         NEW done, done = op.bytes - op.remaining
  PROVE  /\ done \in Nat /\ done < op.bytes /\ op.bytes \in Nat
         /\ op.current + bytes_this_iter <= LongMod
         /\ \A k \in 0..(bytes_this_iter - 1) :
               /\ Place(done + k) = op.current + k
               /\ Place(done + k) \div SectorBytes = sector
               /\ Place(done + k) % SectorBytes = offset_in_sector + k
         /\ \A i \in 0..(done - 1) : Place(i) \div SectorBytes # sector
         /\ (op.current + bytes_this_iter) % LongMod = Place(done + bytes_this_iter)
         /\ (op.current + bytes_this_iter) % LongMod \in Longs
         /\ bytes_this_iter # op.remaining =>
               ((op.current + bytes_this_iter) % LongMod) % SectorBytes = 0
<1> DEFINE bti == bytes_this_iter
           ofs == offset_in_sector
           SB  == SectorBytes
           M   == LongMod
           cur == op.current
<1>1. SB \in Nat \ {0} /\ M \in Nat \ {0} /\ MaxBytes \in Nat /\ MaxBytes + SB <= M
  BY BytesOfSector, LongFacts
<1>2. /\ op.start \in Nat /\ op.bytes \in 1..MaxBytes /\ op.remaining \in 1..op.bytes
      /\ cur \in Nat /\ cur < M /\ cur = Place(done)
      /\ done = 0 \/ cur % SB = 0
  BY <1>1 DEF Types, OpType, Progress, Longs
<1>3. done \in Nat /\ done < op.bytes /\ op.bytes \in Nat /\ done < MaxBytes
  BY <1>1, <1>2
<1>4. /\ sector \in Nat /\ sector * SB \in Nat /\ ofs \in 0..(SB - 1)
      /\ cur = sector * SB + ofs
      /\ bti \in 1..op.remaining /\ ofs + bti <= SB
      /\ bti = op.remaining \/ ofs + bti = SB
  BY Iteration
<1> HIDE DEF bti, ofs, SB, M, cur
<1>5. cur = (op.start + done) % M /\ op.start + done \in Nat  BY <1>2, <1>3 DEF Place, M
<1>6. sector * SB + SB <= M
  <2>1. PICK c \in Nat : M = c * SB  BY LongFacts DEF M, SB
  <2>2. c = sector \/ c < sector => c * SB <= sector * SB
    <3>1. c < sector => c * SB + SB <= sector * SB  BY <1>1, <1>4, Multiples
    <3>2. c * SB \in Nat  BY <1>1
    <3> QED  BY <1>1, <1>4, <3>1, <3>2
  <2>3. ~(c * SB <= sector * SB)  BY <1>1, <1>2, <1>4, <2>1
  <2>4. sector < c  BY <1>4, <2>2, <2>3
  <2> QED  BY <1>1, <1>4, <2>1, <2>4, Multiples
<1>7. bti \in Nat \ {0} /\ cur + bti <= M  BY <1>1, <1>2, <1>4, <1>6
<1>8. ASSUME NEW k \in 0..(bti - 1)
      PROVE  /\ Place(done + k) = cur + k
             /\ Place(done + k) \div SB = sector
             /\ Place(done + k) % SB = ofs + k
  <2>1. k \in Nat /\ cur + k < M  BY <1>1, <1>2, <1>7
  <2>2. (op.start + done + k) % M = cur + k  BY <1>1, <1>5, <2>1, ModStep
  <2>3. op.start + (done + k) = op.start + done + k  BY <1>2, <1>3, <2>1
  <2>4. Place(done + k) = cur + k  BY <2>2, <2>3 DEF Place, M
  <2>5. ofs + k \in 0..(SB - 1) /\ cur + k = sector * SB + (ofs + k)
    BY <1>1, <1>4, <1>7
  <2>6. cur + k \in Nat  BY <1>2, <2>1
  <2>7. (cur + k) \div SB = sector /\ (cur + k) % SB = ofs + k
    <3> DEFINE j == ofs + k
               x == cur + k
    <3>1. j \in 0..(SB - 1) /\ x = sector * SB + j  BY <2>5
    <3> HIDE DEF j, x
    <3>2. x \div SB = sector /\ x % SB = j  BY <1>1, <1>4, <3>1, DivUnique
    <3> QED  BY <3>2 DEF j, x
  <2> DEFINE y == Place(done + k)
  <2> HIDE DEF y
  <2>8. y = cur + k  BY <2>4 DEF y
  <2>9. y \div SB = sector /\ y % SB = ofs + k  BY <1>1, <2>6, <2>7, <2>8
  <2> QED  BY <2>8, <2>9 DEF y
<1>9. ASSUME NEW i \in 0..(done - 1), Place(i) \div SB = sector
      PROVE  FALSE
  <2>1. i \in Nat /\ i < done /\ op.start + i \in Nat  BY <1>2, <1>3
  <2>2. ofs = 0 /\ cur = sector * SB
    <3>1. cur % SB = 0  BY <1>2, <1>3, <2>1
    <3>2. ofs = cur % SB  BY DEF ofs, cur, SB, offset_in_sector
    <3> QED  BY <1>4, <3>1, <3>2
  <2> DEFINE x == Place(i)
             k == x % SB
  <2>3. x \in Nat /\ x = (op.start + i) % M  BY <1>1, <2>1, DivMod DEF Place, M
  <2>4. k \in 0..(SB - 1) /\ x = sector * SB + k
    <3> HIDE DEF x
    <3> QED  BY <1>1, <1>9, <2>3, DivMod DEF x
  <2> HIDE DEF x, k
  <2>5. k \in Nat /\ cur + k < M /\ x = cur + k  BY <1>1, <1>2, <1>6, <2>2, <2>4
  <2>6. (op.start + done + k) % M = x  BY <1>1, <1>5, <2>5, ModStep
  <2>7. /\ op.start + i < op.start + done + k
        /\ (op.start + done + k) - (op.start + i) < M
        /\ op.start + done + k \in Nat
    BY <1>1, <1>2, <1>3, <2>1, <2>4, <2>5
  <2> QED  BY <1>1, <2>1, <2>3, <2>6, <2>7, ModDiffer
<1>10. (cur + bti) % M = Place(done + bti) /\ (cur + bti) % M \in 0..(M - 1)
  <2>1. (op.start + done + bti) % M = (cur + bti) % M
    BY <1>1, <1>5, <1>7, ModStep
  <2>2. op.start + (done + bti) = op.start + done + bti  BY <1>2, <1>3, <1>7
  <2>3. cur + bti \in Nat  BY <1>2, <1>7
  <2> QED  BY <1>1, <2>1, <2>2, <2>3, DivMod DEF Place, M
<1>11. ASSUME bti # op.remaining PROVE ((cur + bti) % M) % SB = 0
  <2>1. (sector + 1) * SB = sector * SB + SB  BY <1>1, <1>4
  <2>2. cur + bti = (sector + 1) * SB + 0  BY <1>1, <1>4, <1>7, <1>11, <2>1
  <2>3. (cur + bti) % SB = 0
    <3>1. sector + 1 \in Nat /\ 0 \in 0..(SB - 1)  BY <1>1, <1>4
    <3> QED  BY <1>1, <2>2, <3>1, DivUnique
  <2>4. CASE cur + bti < M
    <3>1. cur + bti \in Nat  BY <1>2, <1>7
    <3> QED  BY <1>1, <2>3, <2>4, <3>1, SmallMod
  <2>5. CASE cur + bti = M
    <3>1. M % M = 0 /\ 0 % SB = 0  BY <1>1
    <3> QED  BY <2>5, <3>1
  <2> QED  BY <1>1, <1>2, <1>7, <2>4, <2>5
<1> QED  BY <1>3, <1>7, <1>8, <1>9, <1>10, <1>11 DEF bti, ofs, SB, M, cur, Longs

\* n bytes from offset o of sector q, and byte k of sector s.
LEMMA InRange ==
  ASSUME NEW d \in Nat \ {0}, NEW q \in Nat, NEW o \in 0..(d - 1), NEW n \in Nat,
         o + n <= d, NEW s \in Nat, NEW k \in 0..(d - 1)
  PROVE  /\ s * d + k \in Nat
         /\ s # q => s * d + k \notin (q * d + o)..(q * d + o + n - 1)
         /\ s = q => (s * d + k \in (q * d + o)..(q * d + o + n - 1)
                        <=> k \in o..(o + n - 1))
<1>1. q * d \in Nat /\ s * d \in Nat  OBVIOUS
<1>2. s < q => s * d + d <= q * d  BY Multiples
<1>3. q < s => q * d + d <= s * d  BY Multiples
<1>4. CASE s < q  BY <1>1, <1>2, <1>4
<1>5. CASE q < s  BY <1>1, <1>3, <1>5
<1>6. CASE s = q
  <2>1. s * d = q * d  BY <1>6
  <2> QED  BY <1>1, <1>6, <2>1
<1> QED  BY <1>4, <1>5, <1>6

\* A byte of a sector of the drive has its place in the history.
LEMMA InImage ==
  ASSUME Types, NEW s \in Sectors, NEW k \in 0..(SectorBytes - 1)
  PROVE  s * SectorBytes + k \in DOMAIN image
<1>1. SectorBytes \in Nat \ {0}  BY BytesOfSector
<1>2. dev.Size \in Nat /\ s \in Nat /\ s < dev.Size
  BY DriveAssumption, WidthAssumption DEF Types, Sectors
<1>3. s * SectorBytes + SectorBytes <= dev.Size * SectorBytes
  BY <1>1, <1>2, Multiples
<1>4. s * SectorBytes \in Nat /\ dev.Size * SectorBytes \in Nat  BY <1>1, <1>2
<1>5. s * SectorBytes + k \in 0..(dev.Size * SectorBytes - 1)
  BY <1>1, <1>3, <1>4
<1> QED  BY <1>5 DEF Types

\* What one access may bring, for the sector that was asked for.
LEMMA ReadBrings ==
  ASSUME Types, NEW s \in Nat,
         NEW r \in IF s >= dev.Size THEN {[bytes |-> Zeros, ok |-> TRUE]}
                                    ELSE SectorReads(s)
  PROVE  /\ r.bytes \in Buffers
         /\ s >= dev.Size => r.ok /\ r.bytes = Zeros
         /\ s < dev.Size /\ r.ok => r.bytes = disk[s]
         /\ s < dev.Size /\ ~r.ok /\ present => r.bytes = Zeros
         /\ \A k \in 0..(SectorBytes - 1) : Zeros[k] = ZERO
<1>1. Zeros \in Buffers /\ \A k \in 0..(SectorBytes - 1) : Zeros[k] = ZERO
  BY DEF Zeros, ZERO, Buffers, Bytes
<1>2. CASE s >= dev.Size  
  <2>1. dev.Size \in Nat  BY DriveAssumption, WidthAssumption DEF Types
  <2> QED BY <1>1, <1>2, <2>1
<1>3. CASE ~(s >= dev.Size)
  <2>1. dev.Size \in Nat  BY DriveAssumption, WidthAssumption DEF Types
  <2>2. s \in Sectors /\ dev \in Drives  BY <1>3, <2>1 DEF Sectors, Types
  <2>3. Accessed(s) = s  BY <2>2, AddressInverse DEF Sectors
  <2>4. disk[s] \in Buffers  BY <2>2 DEF Types
  <2>5. r \in SectorReads(s)  BY <1>3
  <2>6. CASE present
    BY <1>1, <1>3, <2>3, <2>4, <2>5, <2>6 DEF SectorReads
  <2>7. CASE ~present
    <3>1. PICK rest \in {ZERO, <<0, -2>>} :
            r = [bytes |-> [k \in 0..(SectorBytes - 1) |->
                              IF k < AtaBytes THEN ZERO ELSE rest], ok |-> FALSE]
      BY <2>5, <2>7 DEF SectorReads
    <3>2. ZERO \in Bytes /\ rest \in Bytes  BY DEF ZERO, Bytes
    <3>3. r.bytes \in Buffers /\ ~r.ok  BY <3>1, <3>2 DEF Buffers
    <3> QED  BY <1>1, <1>3, <2>7, <3>3
  <2> QED  BY <2>6, <2>7
<1> QED  BY <1>2, <1>3

----------------------------------------------------------------------------
(* The invariant holds at first and after each step.                       *)

LEMMA InitHolds ==
  Init => IInv
<1> SUFFICES ASSUME Init PROVE IInv
  OBVIOUS
<1>1. dev \in Drives /\ dev.Size \in Nat  
  BY DriveAssumption, WidthAssumption DEF Init
<1>2. SectorBytes \in Nat \ {0}  BY BytesOfSector
<1>3. op = Idle /\ op.pc = "idle"  BY DEF Init, Idle
<1>4. disk \in [Sectors -> Buffers]
  <2>1. \A s \in Sectors : \A k \in 0..(SectorBytes - 1) :
          <<0, s * SectorBytes + k>> \in Bytes
    BY <1>1, <1>2 DEF Sectors, Bytes
  <2> QED  BY <2>1 DEF Init, Sectors, Buffers
<1>5. Types
  <2>1. 0 \in Longs  BY LongFacts DEF Longs
  <2> QED  BY <1>1, <1>3, <1>4, <2>1, CallAssumption DEF Init, Types
<1>6. DiskIsFlat
  <2> SUFFICES ASSUME NEW s \in Sectors, NEW k \in 0..(SectorBytes - 1)
               PROVE  disk[s][k] = image[s * SectorBytes + k]
    BY DEF DiskIsFlat, Sectors
  <2>1. s * SectorBytes + k \in DOMAIN image  BY <1>5, InImage
  <2>2. image[s * SectorBytes + k] = <<0, s * SectorBytes + k>>
    BY <2>1 DEF Init
  <2>3. disk[s][k] = <<0, s * SectorBytes + k>>  BY DEF Init, Sectors
  <2> QED  BY <2>2, <2>3
<1>7. Progress /\ Fetched /\ ReadSoFar
  BY <1>3 DEF Progress, Fetched, ReadSoFar
<1> QED  BY <1>5, <1>6, <1>7 DEF IInv

\* A call that begins.
LEMMA CallFields ==
  ASSUME Types, NEW kind \in {"read", "fetch"}, NEW n \in 1..MaxBytes,
         op' = Call(kind, n), UNCHANGED <<dev, FileOffset>>
  PROVE  /\ OpType'
         /\ op'.pc = kind /\ op'.start = FileOffset /\ op'.bytes = n
         /\ op'.current = FileOffset /\ op'.remaining = n
         /\ op'.failed = {} /\ DOMAIN op'.dest = {}
<1>1. n \in Nat \ {0}  BY CallAssumption
<1>2. FileOffset \in Longs /\ calls + 1 \in Nat  BY CallAssumption DEF Types
<1>3. Zeros \in Buffers  BY DEF Zeros, ZERO, Buffers, Bytes
<1>4. SectorBytes' = SectorBytes /\ Buffers' = Buffers
  BY DEF SectorBytes, Buffers
<1>5. DOMAIN op' = Fields  BY DEF Call, Fields
<1>6. /\ op'.pc = kind /\ op'.start = FileOffset /\ op'.bytes = n
      /\ op'.current = FileOffset /\ op'.remaining = n /\ op'.id = calls + 1
      /\ op'.failed = {} /\ op'.dest = [i \in {} |-> ZERO] /\ op'.sector_buffer = Zeros
  BY DEF Call
<1>7. OpType'
  BY <1>1, <1>2, <1>3, <1>4, <1>5, <1>6 DEF OpType
<1> QED  BY <1>6, <1>7

\* A call begins at its first byte.
LEMMA Begins ==
  ASSUME FileOffset \in Longs, op'.start = FileOffset, NEW n \in Nat,
         op'.bytes = n, op'.remaining = n
  PROVE  Place(op.bytes - op.remaining)' = FileOffset
<1>1. LongMod \in Nat \ {0} /\ FileOffset \in Nat /\ FileOffset < LongMod
  BY LongFacts DEF Longs
<1>2. (FileOffset + (n - n)) % LongMod = FileOffset  BY <1>1
<1> QED  BY <1>2 DEF Place

LEMMA SeekStep ==
  ASSUME IInv, NEW o \in SeekOffsets, Seek(o)
  PROVE  IInv'
<1>1. op' = Idle /\ op'.pc = "idle"  BY DEF Seek, Idle
<1>2. UNCHANGED <<dev, disk, present, calls, image, suspect, SectorBytes, Sectors, Buffers>>
  BY DEF Seek, SectorBytes, Sectors, Buffers
<1>3. FileOffset' \in Longs  BY CallAssumption DEF Seek, Longs
<1>4. Types'  BY <1>1, <1>2, <1>3 DEF IInv, Types
<1>5. DiskIsFlat'  BY <1>2 DEF IInv, DiskIsFlat
<1>6. (Progress /\ Fetched /\ ReadSoFar)'  BY <1>1 DEF Progress, Fetched, ReadSoFar
<1> QED  BY <1>4, <1>5, <1>6 DEF IInv

LEMMA PowerFailureStep ==
  ASSUME IInv, PowerFailure
  PROVE  IInv'
<1>1. op' = Idle /\ op'.pc = "idle"  BY DEF PowerFailure, Idle
<1>2. UNCHANGED <<dev, disk, present, calls, image, suspect, SectorBytes, Sectors, Buffers>>
  BY DEF PowerFailure, SectorBytes, Sectors, Buffers
<1>3. FileOffset' \in Longs  BY LongFacts DEF PowerFailure, Longs
<1>4. Types'  BY <1>1, <1>2, <1>3 DEF IInv, Types
<1>5. DiskIsFlat'  BY <1>2 DEF IInv, DiskIsFlat
<1>6. (Progress /\ Fetched /\ ReadSoFar)'  BY <1>1 DEF Progress, Fetched, ReadSoFar
<1> QED  BY <1>4, <1>5, <1>6 DEF IInv

LEMMA UnplugStep ==
  ASSUME IInv, Unplug
  PROVE  IInv'
<1>1. UNCHANGED <<dev, disk, FileOffset, op, calls, image, suspect>> /\ present' = FALSE
  BY DEF Unplug
<1>2. UNCHANGED <<SectorBytes, Sectors, Buffers>>
  BY <1>1 DEF SectorBytes, Sectors, Buffers
<1>3. UNCHANGED <<sector, offset_in_sector, bytes_this_iter>>
  BY <1>1, <1>2 DEF sector, offset_in_sector, bytes_this_iter
<1>4. Types'  BY <1>1, <1>2 DEF IInv, Types, OpType
<1>5. DiskIsFlat'  BY <1>1, <1>2 DEF IInv, DiskIsFlat
<1>6. Progress'  BY <1>1, <1>2 DEF IInv, Progress, Place
<1>7. Fetched'  BY <1>1, <1>2, <1>3 DEF IInv, Fetched
<1>8. \A i : Place(i)' = Place(i) /\ (InPlace(i) => InPlace(i)')
  BY <1>1, <1>2 DEF InPlace, Place
<1>9. ReadSoFar'  BY <1>1, <1>2, <1>8 DEF IInv, ReadSoFar, Delivered
<1> QED  BY <1>4, <1>5, <1>6, <1>7, <1>9 DEF IInv

LEMMA ReadStep ==
  ASSUME IInv, NEW n \in 1..MaxBytes, Read(n)
  PROVE  IInv'
<1>1. /\ UNCHANGED <<dev, disk, present, image, suspect>>
      /\ calls' \in 0..MaxCalls
      /\ n \in Nat \ {0} /\ FileOffset \in Nat /\ FileOffset \in Longs
      /\ \A i \in 0..n : Past(i) \in Longs /\ Past(i) \in Nat
  <2>1. FileOffset \in Longs /\ LongMod \in Nat \ {0}
    BY LongFacts DEF IInv, Types
  <2>2. FileOffset \in Nat /\ n \in Nat \ {0}  BY <2>1, CallAssumption DEF Longs
  <2>3. \A i \in 0..n : Past(i) \in Longs /\ Past(i) \in Nat
    BY <2>1, <2>2, DivMod DEF Past, Longs
  <2> QED  BY <2>1, <2>2, <2>3, CallAssumption DEF Read, IInv, Types
<1>2. UNCHANGED <<SectorBytes, Sectors, Buffers>> /\ SectorBytes \in Nat \ {0}
  BY <1>1, BytesOfSector DEF SectorBytes, Sectors, Buffers
<1>3. DiskIsFlat'  BY <1>1, <1>2 DEF IInv, DiskIsFlat
<1>4. CASE present
  <2>1. op' = Call("read", n) /\ UNCHANGED FileOffset  BY <1>4 DEF Read
  <2>2. /\ OpType'
        /\ op'.pc = "read" /\ op'.start = FileOffset /\ op'.bytes = n
        /\ op'.current = FileOffset /\ op'.remaining = n
        /\ op'.failed = {} /\ DOMAIN op'.dest = {}
    BY <1>1, <2>1, CallFields DEF IInv
  <2>3. Types'  BY <1>1, <1>2, <2>1, <2>2 DEF IInv, Types
  <2>4. Progress' /\ Fetched'
    <3>1. Place(op.bytes - op.remaining)' = FileOffset  BY <1>1, <2>2, Begins
    <3> QED  BY <1>1, <2>1, <2>2, <3>1 DEF Progress, Fetched
  <2>5. ReadSoFar'
    <3>1. (op.bytes - op.remaining)' = 0  BY <1>1, <2>2
    <3>2. Delivered(0)'
      <4>1. 0..(0 - 1) = {}  OBVIOUS
      <4> QED  BY <2>2, <4>1 DEF Delivered
    <3> QED  BY <2>2, <3>1, <3>2 DEF ReadSoFar
  <2> QED  BY <1>3, <2>3, <2>4, <2>5 DEF IInv
<1>5. CASE ~present
  <2>1. /\ op' = [Call("returned", n) EXCEPT
                    !.dest = [i \in 0..(n - 1) |-> ZERO],
                    !.failed = {Past(i) \div SectorBytes : i \in 0..(n - 1)}]
        /\ FileOffset' = Past(n)
    BY <1>5 DEF Read
  <2>2. /\ DOMAIN op' = Fields
        /\ op'.pc = "returned" /\ op'.start = FileOffset /\ op'.bytes = n
        /\ op'.current = FileOffset /\ op'.remaining = n /\ op'.id = calls + 1
        /\ op'.dest = [i \in 0..(n - 1) |-> ZERO] /\ op'.sector_buffer = Zeros
        /\ op'.failed = {Past(i) \div SectorBytes : i \in 0..(n - 1)}
    BY <2>1 DEF Call, Fields
  <2>3. Zeros \in Buffers  BY DEF Zeros, ZERO, Buffers, Bytes
  <2>4. op'.failed \subseteq Nat
    <3>1. \A i \in 0..(n - 1) : Past(i) \div SectorBytes \in Nat
      <4>1. \A i \in 0..(n - 1) : i \in 0..n  BY <1>1
      <4> QED  BY <1>1, <1>2, <4>1, DivMod
    <3> QED  BY <2>2, <3>1
  <2>5. OpType'
    <3>1. calls + 1 \in Nat  BY CallAssumption DEF IInv, Types
    <3> QED  BY <1>1, <1>2, <2>2, <2>3, <2>4, <3>1 DEF OpType
  <2>6. Types'
    <3>1. FileOffset' \in Longs  BY <1>1, <2>1
    <3> QED  BY <1>1, <1>2, <2>5, <3>1 DEF IInv, Types
  <2>7. Progress' /\ Fetched'
    <3>1. Place(op.bytes - op.remaining)' = FileOffset  BY <1>1, <2>2, Begins
    <3> QED  BY <1>1, <2>2, <3>1 DEF Progress, Fetched
  <2>7a. \A i : Place(i)' = Past(i)  BY <2>2 DEF Place, Past
  <2>8. \A i \in 0..(n - 1) : InPlace(i)'
    <3> SUFFICES ASSUME NEW i \in 0..(n - 1) PROVE InPlace(i)'
      OBVIOUS
    <3>1. op'.dest[i] = ZERO /\ ~present'  BY <1>1, <1>5, <2>2
    <3>2. Past(i) \div SectorBytes \in op'.failed  BY <2>2
    <3> QED  BY <1>1, <1>2, <2>2, <2>7a, <3>1, <3>2 DEF InPlace
  <2>9. ReadSoFar'
    BY <2>1, <2>2, <2>7a, <2>8 DEF ReadSoFar, Delivered
  <2> QED  BY <1>3, <2>6, <2>7, <2>9 DEF IInv
<1> QED  BY <1>4, <1>5

LEMMA PastLong ==
  ASSUME FileOffset \in Longs, NEW n \in Nat
  PROVE  Past(n) \in Longs
<1>1. LongMod \in Nat \ {0} /\ FileOffset + n \in Nat  BY LongFacts DEF Longs
<1> QED  BY <1>1, DivMod DEF Past, Longs

LEMMA ReadSectorStep ==
  ASSUME IInv, ReadSector
  PROVE  IInv'
<1> DEFINE done == op.bytes - op.remaining
           bti  == bytes_this_iter
           ofs  == offset_in_sector
           SB   == SectorBytes
<1>1. /\ UNCHANGED <<dev, disk, present, calls, image, suspect>>
      /\ op.pc = "read"
      /\ FileOffset' = IF Finishes THEN Past(op.bytes) ELSE FileOffset
  BY DEF ReadSector
<1>2. UNCHANGED <<SectorBytes, Sectors, Buffers>> /\ SB \in Nat \ {0}
  BY <1>1, BytesOfSector DEF SectorBytes, Sectors, Buffers
<1>3. op # Idle /\ OpType /\ Types /\ Progress
  BY <1>1, IdlePc DEF IInv, Types
<1>4. /\ sector \in Nat /\ sector * SB \in Nat /\ ofs \in 0..(SB - 1)
      /\ op.current = sector * SB + ofs
      /\ bti \in 1..op.remaining /\ ofs + bti <= SB
      /\ bti = op.remaining \/ ofs + bti = SB
  BY <1>1, <1>3, Iteration
<1>5. /\ op.start \in Longs /\ op.bytes \in 1..MaxBytes /\ op.current \in Longs
      /\ op.remaining \in 1..op.bytes /\ op.failed \subseteq Nat
      /\ FileOffset = op.start /\ MaxBytes \in Nat /\ op.bytes \in Nat
  BY <1>1, <1>3, LongFacts DEF OpType, Progress
<1>5a. /\ done \in Nat /\ done < op.bytes
       /\ \A k \in 0..(bti - 1) : /\ Place(done + k) \div SB = sector
                                   /\ Place(done + k) % SB = ofs + k
       /\ \A i \in 0..(done - 1) : Place(i) \div SB # sector
       /\ (op.current + bti) % LongMod = Place(done + bti)
       /\ (op.current + bti) % LongMod \in Longs
       /\ bti # op.remaining => ((op.current + bti) % LongMod) % SB = 0
  BY <1>1, <1>3, Places
<1>6. PICK r \in IF sector >= dev.Size THEN {[bytes |-> Zeros, ok |-> TRUE]}
                                       ELSE SectorReads(sector) :
        op' = [Advanced EXCEPT
                 !.pc = IF Finishes THEN "returned" ELSE "read",
                 !.dest = [i \in 0..(done + bti - 1) |->
                              IF i < done THEN op.dest[i]
                              ELSE r.bytes[ofs + i - done]],
                 !.failed = IF r.ok THEN @ ELSE @ \cup {sector}]
  BY DEF ReadSector
<1>7. /\ r.bytes \in Buffers
      /\ sector >= dev.Size => r.ok /\ r.bytes = Zeros
      /\ sector < dev.Size /\ r.ok => r.bytes = disk[sector]
      /\ sector < dev.Size /\ ~r.ok /\ present => r.bytes = Zeros
      /\ \A k \in 0..(SB - 1) : Zeros[k] = ZERO
  BY <1>3, <1>4, ReadBrings
<1>8. /\ DOMAIN op' = Fields
      /\ op'.pc = IF Finishes THEN "returned" ELSE "read"
      /\ op'.start = op.start /\ op'.bytes = op.bytes /\ op'.id = op.id
      /\ op'.sector_buffer = op.sector_buffer
      /\ op'.current = (op.current + bti) % LongMod
      /\ op'.remaining = op.remaining - bti
      /\ op'.dest = [i \in 0..(done + bti - 1) |->
                        IF i < done THEN op.dest[i] ELSE r.bytes[ofs + i - done]]
      /\ op'.failed = IF r.ok THEN op.failed ELSE op.failed \cup {sector}
  BY <1>3, <1>6 DEF Advanced, OpType, Fields
<1> HIDE DEF done, bti, ofs, SB
<1>8a. done = op.bytes - op.remaining  BY DEF done
<1>8b. op'.remaining \in 0..op.bytes /\ bti \in Nat \ {0}
  <2>1. bti \in 1..op.remaining /\ op.remaining \in 1..op.bytes /\ op.bytes \in Nat
    BY <1>4, <1>5
  <2> QED  BY <1>8, <2>1
<1>8c. \A i : Place(i)' = Place(i)  BY <1>8 DEF Place
<1>9. OpType'
  <2>1. op'.pc \in {"read", "returned"}  BY <1>8
  <2>2. op'.failed \subseteq Nat  BY <1>4, <1>5, <1>8
  <2>3. op'.id \in Nat /\ op'.sector_buffer \in Buffers'  BY <1>2, <1>3, <1>8 DEF OpType
  <2> QED  BY <1>5, <1>8, <1>5a, <1>8b, <2>1, <2>2, <2>3 DEF OpType
<1>10. Types'
  <2>1. FileOffset' \in Longs  BY <1>1, <1>3, <1>5, PastLong DEF Types
  <2> QED  BY <1>1, <1>2, <1>9, <2>1 DEF IInv, Types
<1>11. DiskIsFlat'  BY <1>1, <1>2 DEF IInv, DiskIsFlat
<1>12. Finishes <=> op.remaining = bti  BY DEF Finishes, bti
<1>13. (op.bytes - op.remaining)' = done + bti
  <2>1. (op.bytes - op.remaining)' = op'.bytes - op'.remaining  OBVIOUS
  <2>2. bti \in Nat /\ op.remaining \in Nat /\ op.bytes \in Nat  BY <1>4, <1>5
  <2> QED  BY <1>8, <1>8a, <2>1, <2>2
<1>14. Progress'
  <2>1. op'.current = Place(op.bytes - op.remaining)'  BY <1>8, <1>13, <1>5a, <1>8c
  <2>2. op'.pc # "returned" => ~Finishes /\ op'.pc = "read"  BY <1>8
  <2>3. ~Finishes => FileOffset' = op'.start /\ op'.remaining # 0
    BY <1>1, <1>4, <1>5, <1>8, <1>12
  <2>4. ~Finishes => op'.current % SB = 0  BY <1>8, <1>12, <1>5a
  <2>5. SectorBytes' = SB  BY <1>2 DEF SB
  <2> QED  BY <2>1, <2>2, <2>3, <2>4, <2>5 DEF Progress
<1>15. Fetched'  BY <1>8 DEF Fetched
<1>17. \A i \in 0..(done + bti - 1) : InPlace(i)'
  <2> SUFFICES ASSUME NEW i \in 0..(done + bti - 1) PROVE InPlace(i)'
    OBVIOUS
  <2> DEFINE a == Place(i)
             s == a \div SB
  <2>1. i \in Nat /\ i < done + bti  BY <1>5a, <1>8b
  <2>2. InPlace(i)' <=>
          IF s >= dev.Size THEN op'.dest[i] = ZERO
          ELSE IF s \in op'.failed THEN present => op'.dest[i] = ZERO
          ELSE op'.dest[i] = disk[s][a % SB]
    BY <1>1, <1>2, <1>8c DEF InPlace, SB
  <2>3. op'.dest[i] = IF i < done THEN op.dest[i] ELSE r.bytes[ofs + i - done]
    BY <1>8
  <2>4. \A f \in op.failed : \E j \in 0..(done - 1) : f = Place(j) \div SB
    BY <1>1, <1>8a DEF IInv, ReadSoFar, SB
  <2>5. CASE i < done
    <3>0. i \in 0..(done - 1)  BY <1>5a, <2>1, <2>5
    <3>1. InPlace(i)
      BY <1>1, <1>8a, <3>0 DEF IInv, ReadSoFar, Delivered
    <3>2. s # sector  BY <1>5a, <3>0
    <3>3. s \in op'.failed <=> s \in op.failed  BY <1>8, <3>2
    <3>4. op'.dest[i] = op.dest[i]  BY <2>3, <2>5
    <3> QED  BY <2>2, <3>1, <3>3, <3>4 DEF InPlace, SB
  <2>6. CASE ~(i < done)
    <3> DEFINE k == ofs + i - done
    <3>1. i - done \in 0..(bti - 1) /\ done + (i - done) = i
          /\ k = ofs + (i - done) /\ k \in 0..(SB - 1)
      BY <1>2, <1>4, <1>5a, <1>8b, <2>1, <2>6
    <3>3. s = sector /\ a % SB = k
      <4>1. /\ Place(done + (i - done)) \div SB = sector
            /\ Place(done + (i - done)) % SB = ofs + (i - done)
        BY <1>5a, <3>1
      <4> QED  BY <3>1, <4>1
    <3>4. op'.dest[i] = r.bytes[k]  BY <2>3, <2>6
    <3>5. sector \in op'.failed => ~r.ok
      <4>1. sector \notin op.failed  BY <1>5a, <2>4
      <4> QED  BY <1>8, <4>1
    <3>6. ~r.ok => sector \in op'.failed  BY <1>8
    <3>7. dev.Size \in Nat
      BY <1>3, DriveAssumption, WidthAssumption DEF Types
    <3>8. CASE sector >= dev.Size
      BY <1>7, <2>2, <3>1, <3>3, <3>4, <3>8
    <3>9. CASE ~(sector >= dev.Size)
      <4>1. sector < dev.Size  BY <1>4, <3>7, <3>9
      <4>2. CASE r.ok
        BY <1>7, <2>2, <3>3, <3>4, <3>5, <3>9, <4>1, <4>2
      <4>3. CASE ~r.ok
        BY <1>7, <2>2, <3>1, <3>3, <3>4, <3>6, <3>9, <4>1, <4>3
      <4> QED  BY <4>2, <4>3
    <3> QED  BY <3>8, <3>9
  <2> QED  BY <2>5, <2>6
<1>18. ReadSoFar'
  <2>1. DOMAIN op'.dest = 0..(done + bti - 1)  BY <1>8
  <2>2. CASE Finishes
    <3>1. done + bti = op'.bytes  BY <1>4, <1>5, <1>8, <1>12, <1>8a, <2>2
    <3>2. op'.pc = "returned"  BY <1>8, <2>2
    <3>3. FileOffset' = Place(op.bytes)'  BY <1>1, <1>5, <1>8, <2>2 DEF Past, Place
    <3>4. Delivered(op.bytes)'
      <4>1. done \in Nat /\ bti \in Nat  BY <1>5a, <1>8b
      <4>2. DOMAIN op'.dest = 0..(op'.bytes - 1)  BY <2>1, <3>1, <4>1
      <4>3. \A i \in 0..(op'.bytes - 1) : InPlace(i)'  BY <1>17, <3>1, <4>1
      <4> QED  BY <4>2, <4>3 DEF Delivered
    <3> QED  BY <3>2, <3>3, <3>4 DEF ReadSoFar
  <2>3. CASE ~Finishes
    <3>1. op'.pc = "read"  BY <1>8, <2>3
    <3>2. \A f \in op'.failed : \E i \in 0..(done + bti - 1) : f = Place(i) \div SB
      <4> SUFFICES ASSUME NEW f \in op'.failed
                   PROVE  \E i \in 0..(done + bti - 1) : f = Place(i) \div SB
        OBVIOUS
      <4>1. CASE f \in op.failed
        <5>1. PICK i \in 0..(done - 1) : f = Place(i) \div SB
          BY <1>1, <1>8a, <4>1 DEF IInv, ReadSoFar, SB
        <5>2. i \in 0..(done + bti - 1)  BY <1>5a, <1>8b
        <5> QED  BY <5>1, <5>2
      <4>2. CASE f = sector
        <5>1. 0 \in 0..(bti - 1) /\ done + 0 = done /\ done \in 0..(done + bti - 1)
          BY <1>5a, <1>8b
        <5>2. Place(done + 0) \div SB = sector  BY <1>5a, <5>1
        <5> QED  BY <4>2, <5>1, <5>2
      <4> QED  BY <1>8, <4>1, <4>2
    <3>3. Delivered(op.bytes - op.remaining)'
      <4>1. done \in Nat /\ bti \in Nat  BY <1>5a, <1>8b
      <4>2. op'.bytes - op'.remaining = done + bti  BY <1>13
      <4>3. DOMAIN op'.dest = 0..(op'.bytes - op'.remaining - 1)
        BY <2>1, <4>1, <4>2
      <4>4. \A i \in 0..(op'.bytes - op'.remaining - 1) : InPlace(i)'
        BY <1>17, <4>1, <4>2
      <4> QED  BY <4>3, <4>4 DEF Delivered
    <3>4. \A f \in op'.failed : \E i \in 0..(op'.bytes - op'.remaining - 1) :
             f = Place(i)' \div SectorBytes'
      <4>1. op'.bytes - op'.remaining = done + bti /\ done \in Nat /\ bti \in Nat
        BY <1>13, <1>5a, <1>8b
      <4>2. SectorBytes' = SB  BY <1>2 DEF SB
      <4> QED  BY <1>8c, <3>2, <4>1, <4>2
    <3> QED  BY <3>1, <3>3, <3>4 DEF ReadSoFar
  <2> QED  BY <2>2, <2>3
<1> QED  BY <1>10, <1>11, <1>14, <1>15, <1>18 DEF IInv

LEMMA WriteStep ==
  ASSUME IInv, NEW n \in 1..MaxBytes, Write(n)
  PROVE  IInv'
<1>1. /\ UNCHANGED <<dev, disk, present, image, suspect>>
      /\ calls' \in 0..MaxCalls
      /\ n \in Nat \ {0} /\ FileOffset \in Longs
      /\ op = Idle
  BY CallAssumption DEF Write, IInv, Types
<1>2. UNCHANGED <<SectorBytes, Sectors, Buffers>> /\ SectorBytes \in Nat \ {0}
  BY <1>1, BytesOfSector DEF SectorBytes, Sectors, Buffers
<1>3. DiskIsFlat'  BY <1>1, <1>2 DEF IInv, DiskIsFlat
<1>4. CASE present /\ dev.type = "ata"
  <2>1. op' = Call("fetch", n) /\ UNCHANGED FileOffset  BY <1>4 DEF Write
  <2>2. /\ OpType'
        /\ op'.pc = "fetch" /\ op'.start = FileOffset /\ op'.bytes = n
        /\ op'.current = FileOffset /\ op'.remaining = n
    BY <1>1, <2>1, CallFields DEF IInv
  <2>3. Types'  BY <1>1, <1>2, <2>1, <2>2 DEF IInv, Types
  <2>4. Place(op.bytes - op.remaining)' = FileOffset  BY <1>1, <2>2, Begins
  <2>5. Progress' /\ Fetched' /\ ReadSoFar'
    BY <1>1, <1>4, <2>1, <2>2, <2>4 DEF Progress, Fetched, ReadSoFar
  <2> QED  BY <1>3, <2>3, <2>5 DEF IInv
<1>5. CASE ~(present /\ dev.type = "ata")
  <2>1. op' = Idle /\ op'.pc = "idle"  BY <1>1, <1>5 DEF Write, Idle
  <2>2. FileOffset' \in Longs  BY <1>1, <1>5, PastLong DEF Write
  <2>3. Types'  BY <1>1, <1>2, <2>1, <2>2 DEF IInv, Types
  <2>4. Progress' /\ Fetched' /\ ReadSoFar'
    BY <2>1 DEF Progress, Fetched, ReadSoFar
  <2> QED  BY <1>3, <2>3, <2>4 DEF IInv
<1> QED  BY <1>4, <1>5

LEMMA FetchStep ==
  ASSUME IInv, Fetch
  PROVE  IInv'
<1>1. /\ UNCHANGED <<dev, disk, present, FileOffset, calls, image>>
      /\ op.pc = "fetch"
  BY DEF Fetch
<1>2. UNCHANGED <<SectorBytes, Sectors, Buffers>>
  BY <1>1 DEF SectorBytes, Sectors, Buffers
<1>3. op # Idle /\ OpType /\ Types /\ Progress
  BY <1>1, IdlePc DEF IInv, Types
<1>4. sector \in Nat /\ dev.Size \in Nat
  BY <1>1, <1>3, Iteration, DriveAssumption, WidthAssumption DEF Types
<1>5. /\ DOMAIN op' = Fields /\ op'.pc = "store" /\ op'.sector_buffer \in Buffers
      /\ op'.start = op.start /\ op'.bytes = op.bytes /\ op'.current = op.current
      /\ op'.remaining = op.remaining /\ op'.id = op.id /\ op'.failed = op.failed
      /\ suspect \subseteq suspect' /\ suspect' \subseteq Sectors
      /\ sector < dev.Size =>
            \/ offset_in_sector = 0 /\ bytes_this_iter = SectorBytes
            \/ sector \in suspect'
            \/ op'.sector_buffer = disk[sector]
  <2>1. CASE offset_in_sector = 0 /\ bytes_this_iter = SectorBytes
    BY <1>3, <2>1 DEF Fetch, OpType, Fields, Types
  <2>2. CASE ~(offset_in_sector = 0 /\ bytes_this_iter = SectorBytes)
    <3>1. PICK r \in IF sector >= dev.Size THEN {[bytes |-> Zeros, ok |-> TRUE]}
                                           ELSE SectorReads(sector) :
            /\ op' = [op EXCEPT !.pc = "store", !.sector_buffer = r.bytes]
            /\ suspect' = IF r.ok THEN suspect ELSE suspect \cup {sector}
      BY <2>2 DEF Fetch
    <3>2. /\ r.bytes \in Buffers
          /\ sector >= dev.Size => r.ok
          /\ sector < dev.Size /\ r.ok => r.bytes = disk[sector]
      BY <1>3, <1>4, ReadBrings
    <3>3. /\ DOMAIN op' = Fields /\ op'.pc = "store" /\ op'.sector_buffer = r.bytes
          /\ op'.start = op.start /\ op'.bytes = op.bytes /\ op'.current = op.current
          /\ op'.remaining = op.remaining /\ op'.id = op.id /\ op'.failed = op.failed
      BY <1>3, <3>1 DEF OpType, Fields
    <3>4. suspect \subseteq suspect' /\ suspect' \subseteq Sectors
      BY <1>3, <1>4, <3>1, <3>2 DEF Types, Sectors
    <3>5. sector < dev.Size => sector \in suspect' \/ op'.sector_buffer = disk[sector]
      BY <3>1, <3>2, <3>3
    <3> QED  BY <3>2, <3>3, <3>4, <3>5
  <2> QED  BY <2>1, <2>2
<1>6. UNCHANGED <<sector, offset_in_sector, bytes_this_iter>>
  BY <1>2, <1>5 DEF sector, offset_in_sector, bytes_this_iter
<1>7. OpType'  BY <1>2, <1>3, <1>5 DEF OpType
<1>8. Types'  BY <1>1, <1>2, <1>3, <1>5, <1>7 DEF Types
<1>9. DiskIsFlat'
  BY <1>1, <1>2, <1>5 DEF IInv, DiskIsFlat
<1>10. Progress'
  <2>1. op.pc # "returned" /\ op.pc # "read"  BY <1>1
  <2>2. Place(op.bytes - op.remaining)' = Place(op.bytes - op.remaining)
    BY <1>5 DEF Place
  <2> QED  BY <1>1, <1>2, <1>3, <1>5, <2>1, <2>2 DEF Progress
<1>11. Fetched'  BY <1>1, <1>2, <1>5, <1>6 DEF Fetched
<1>12. ReadSoFar'  BY <1>5 DEF ReadSoFar
<1> QED  BY <1>8, <1>9, <1>10, <1>11, <1>12 DEF IInv

LEMMA StoreStep ==
  ASSUME IInv, Store
  PROVE  IInv'
<1> DEFINE bti == bytes_this_iter
           ofs == offset_in_sector
           SB  == SectorBytes
<1>1. /\ UNCHANGED <<dev, present, calls>>
      /\ op.pc = "store"
      /\ op' = IF Finishes THEN Idle ELSE [Advanced EXCEPT !.pc = "fetch"]
      /\ FileOffset' = IF Finishes THEN Past(op.bytes) ELSE FileOffset
  BY DEF Store
<1>2. UNCHANGED <<SectorBytes, Sectors, Buffers>> /\ SB \in Nat \ {0}
  BY <1>1, BytesOfSector DEF SectorBytes, Sectors, Buffers
<1>3. op # Idle /\ OpType /\ Types /\ Progress
  BY <1>1, IdlePc DEF IInv, Types
<1>4. /\ sector \in Nat /\ sector * SB \in Nat /\ ofs \in 0..(SB - 1)
      /\ op.current = sector * SB + ofs
      /\ bti \in 1..op.remaining /\ ofs + bti <= SB
      /\ bti = op.remaining \/ ofs + bti = SB
      /\ bti \in Nat
  BY <1>1, <1>3, Iteration
<1>5. /\ op.start \in Longs /\ op.bytes \in 1..MaxBytes /\ op.bytes \in Nat
      /\ op.current \in Nat /\ op.remaining \in 1..op.bytes /\ op.id \in Nat
      /\ FileOffset = op.start
  BY <1>1, <1>3, LongFacts DEF OpType, Progress, Longs
<1>5a. /\ (op.current + bti) % LongMod = Place(op.bytes - op.remaining + bti)
       /\ (op.current + bti) % LongMod \in Longs
       /\ bti # op.remaining => ((op.current + bti) % LongMod) % SB = 0
  BY <1>1, <1>3, Places
<1>6. Finishes <=> op.remaining = bti  BY DEF Finishes
<1>7. /\ suspect \subseteq suspect' /\ suspect' \subseteq Sectors
      /\ DOMAIN image' = DOMAIN image
      /\ disk' \in [Sectors -> Buffers]
      /\ DiskIsFlat'
  <2>1. CASE sector >= dev.Size
    <3>1. UNCHANGED <<disk, image, suspect>>  BY <2>1 DEF Store
    <3> QED  BY <1>1, <1>2, <1>3, <3>1 DEF Types, IInv, DiskIsFlat
  <2>2. CASE ~(sector >= dev.Size)
    <3>1. image' = [a \in DOMAIN image |->
                  IF a \in op.current..(op.current + bti - 1)
                  THEN <<op.id, op.bytes - op.remaining + a - op.current>>
                  ELSE image[a]]
      BY <2>2 DEF Store
    <3>2. dev.Size \in Nat /\ sector \in Sectors
      <4>1. dev.Size \in Nat  BY <1>3, DriveAssumption, WidthAssumption DEF Types
      <4> QED  BY <1>4, <2>2, <4>1 DEF Sectors
    <3>3. \A s \in Sectors, k \in 0..(SB - 1) :
            image'[s * SB + k] =
              IF s = sector /\ k \in ofs..(ofs + bti - 1)
              THEN <<op.id, op.bytes - op.remaining + (s * SB + k) - op.current>> ELSE image[s * SB + k]
      <4> SUFFICES ASSUME NEW s \in Sectors, NEW k \in 0..(SB - 1)
                   PROVE  image'[s * SB + k] =
                            IF s = sector /\ k \in ofs..(ofs + bti - 1)
                            THEN <<op.id, op.bytes - op.remaining + (s * SB + k) - op.current>>
                            ELSE image[s * SB + k]
        OBVIOUS
      <4>1. s * SB + k \in DOMAIN image  BY <1>3, InImage
      <4>2. s \in Nat  BY <3>2 DEF Sectors
      <4>3. s * SB + k \in op.current..(op.current + bti - 1)
              <=> s = sector /\ k \in ofs..(ofs + bti - 1)
        <5>1. /\ s # sector => s * SB + k \notin
                    (sector * SB + ofs)..(sector * SB + ofs + bti - 1)
              /\ s = sector => (s * SB + k \in
                    (sector * SB + ofs)..(sector * SB + ofs + bti - 1)
                      <=> k \in ofs..(ofs + bti - 1))
          BY <1>2, <1>4, <4>2, InRange
        <5> QED  BY <1>4, <5>1
      <4>4. image'[s * SB + k] =
              IF s * SB + k \in op.current..(op.current + bti - 1)
              THEN <<op.id, op.bytes - op.remaining + (s * SB + k) - op.current>> ELSE image[s * SB + k]
        <5>1. \A a \in DOMAIN image : image'[a] =
                IF a \in op.current..(op.current + bti - 1)
                THEN <<op.id, op.bytes - op.remaining + a - op.current>>
                ELSE image[a]
          BY <3>1
        <5> QED  BY <4>1, <5>1, Zenon
      <4> QED  BY <4>3, <4>4, Zenon
    <3>4. CASE /\ present
               /\ disk' = [disk EXCEPT ![Accessed(sector)] = Patched]
               /\ UNCHANGED suspect
      <4>1. Accessed(sector) = sector
        BY <1>3, <3>2, AddressInverse DEF Types, Sectors
      <4>2. Patched \in Buffers
        <5>1. \A k \in 0..(SB - 1) :
                /\ <<op.id, op.bytes - op.remaining + k - ofs>> \in Bytes
                /\ op.sector_buffer[k] \in Bytes
          <6> SUFFICES ASSUME NEW k \in 0..(SB - 1)
                       PROVE  /\ <<op.id, op.bytes - op.remaining + k - ofs>> \in Bytes
                              /\ op.sector_buffer[k] \in Bytes
            OBVIOUS
          <6>1. op.id \in Int /\ op.bytes \in Int /\ op.remaining \in Int /\ ofs \in Int
                /\ k \in Int
            BY <1>2, <1>4, <1>5
          <6>2. op.bytes - op.remaining + k - ofs \in Int  BY <6>1
          <6>3. op.sector_buffer[k] \in Bytes  BY <1>3 DEF OpType, Buffers
          <6> QED  BY <6>1, <6>2, <6>3 DEF Bytes
        <5> QED  BY <5>1 DEF Patched, Buffers
      <4>3. /\ disk' \in [Sectors -> Buffers]
            /\ disk'[sector] = Patched
            /\ \A s \in Sectors \ {sector} : disk'[s] = disk[s]
        BY <1>3, <3>2, <3>4, <4>1, <4>2 DEF Types
      <4>4. DiskIsFlat'
        <5> SUFFICES ASSUME NEW s \in Sectors \ suspect, NEW k \in 0..(SB - 1)
                     PROVE  disk'[s][k] = image'[s * SB + k]
          BY <1>1, <1>2, <3>4 DEF DiskIsFlat, Sectors
        <5>1. disk[s][k] = image[s * SB + k]  BY DEF IInv, DiskIsFlat, Sectors
        <5>2. CASE s # sector
          <6>1. disk'[s] = disk[s]  BY <4>3, <5>2
          <6>2. image'[s * SB + k] = image[s * SB + k]  BY <3>3, <5>2
          <6> QED  BY <5>1, <6>1, <6>2
        <5>3. CASE s = sector /\ k \in ofs..(ofs + bti - 1)
          <6>1. disk'[s][k] = <<op.id, op.bytes - op.remaining + k - ofs>>
            BY <4>3, <5>3 DEF Patched
          <6>2. image'[s * SB + k] = <<op.id, op.bytes - op.remaining + (s * SB + k) - op.current>>
            BY <3>3, <5>3
          <6>3. op.bytes - op.remaining + (s * SB + k) - op.current =
                  op.bytes - op.remaining + k - ofs
            <7>1. k \in Nat  BY <1>2
            <7>2. s * SB = sector * SB  BY <5>3
            <7> QED  BY <1>4, <1>5, <7>1, <7>2
          <6> QED  BY <6>1, <6>2, <6>3
        <5>4. CASE s = sector /\ k \notin ofs..(ofs + bti - 1)
          <6>1. disk'[s][k] = op.sector_buffer[k]  BY <4>3, <5>4 DEF Patched
          <6>2. image'[s * SB + k] = image[s * SB + k]  BY <3>3, <5>4
          <6>3. ~(ofs = 0 /\ bti = SB)  BY <1>2, <5>4
          <6>4. op.sector_buffer = disk[sector]
            BY <1>1, <3>2, <5>4, <6>3 DEF IInv, Fetched, Sectors
          <6> QED  BY <5>1, <5>4, <6>1, <6>2, <6>4
        <5> QED  BY <5>2, <5>3, <5>4
      <4> QED  BY <1>3, <3>1, <3>4, <4>3, <4>4 DEF Types
    <3>5. CASE UNCHANGED disk /\ suspect' = suspect \cup {sector}
      <4>1. DiskIsFlat'
        <5> SUFFICES ASSUME NEW s \in Sectors \ suspect', NEW k \in 0..(SB - 1)
                     PROVE  disk'[s][k] = image'[s * SB + k]
          BY <1>1, <1>2 DEF DiskIsFlat, Sectors
        <5>1. disk[s][k] = image[s * SB + k] /\ s # sector
          BY <3>5 DEF IInv, DiskIsFlat, Sectors
        <5> QED  BY <3>3, <3>5, <5>1
      <4> QED  BY <1>3, <3>1, <3>2, <3>5, <4>1 DEF Types
    <3> QED  BY <2>2, <3>4, <3>5 DEF Store
  <2> QED  BY <2>1, <2>2
<1>8. CASE Finishes
  <2>1. op' = Idle /\ op'.pc = "idle" /\ FileOffset' \in Longs
    BY <1>1, <1>5, <1>8, PastLong DEF Idle
  <2>2. Types'  BY <1>1, <1>2, <1>3, <1>7, <2>1 DEF Types
  <2>3. Progress' /\ Fetched' /\ ReadSoFar'
    BY <2>1 DEF Progress, Fetched, ReadSoFar
  <2> QED  BY <1>7, <2>2, <2>3 DEF IInv
<1>9. CASE ~Finishes
  <2>1. /\ DOMAIN op' = Fields /\ op'.pc = "fetch"
        /\ op'.start = op.start /\ op'.bytes = op.bytes /\ op'.id = op.id
        /\ op'.sector_buffer = op.sector_buffer /\ op'.failed = op.failed
        /\ op'.current = (op.current + bti) % LongMod
        /\ op'.remaining = op.remaining - bti
    BY <1>1, <1>3, <1>9 DEF Advanced, OpType, Fields
  <2>2. op'.remaining \in 1..op.bytes /\ op'.current \in Longs
    <3>1. bti \in 1..op.remaining /\ bti # op.remaining /\ op.remaining \in 1..op.bytes
          /\ op.bytes \in Nat
      BY <1>4, <1>5, <1>6, <1>9
    <3>2. op.remaining - bti \in 1..op.bytes
      <4> HIDE DEF bti
      <4> QED  BY <3>1
    <3> QED  BY <1>5a, <2>1, <3>2
  <2>3. OpType'  BY <1>2, <1>3, <1>5, <2>1, <2>2 DEF OpType
  <2>4. FileOffset' = op.start  BY <1>1, <1>5, <1>9
  <2>5. Types'  BY <1>1, <1>2, <1>3, <1>5, <1>7, <2>3, <2>4 DEF Types
  <2>6. op'.current % SB = 0  BY <1>6, <1>9, <1>5a, <2>1
  <2>7. dev'.type = "ata"  BY <1>1, <1>3 DEF Progress
  <2>8. op'.current = Place(op.bytes - op.remaining)'
    <3>1. op'.bytes - op'.remaining = op.bytes - op.remaining + bti
      BY <1>4, <1>5, <2>1
    <3> QED  BY <1>5a, <2>1, <3>1 DEF Place
  <2>9. Progress'  BY <1>2, <2>1, <2>2, <2>4, <2>6, <2>7, <2>8 DEF Progress
  <2>10. Fetched' /\ ReadSoFar'  BY <2>1 DEF Fetched, ReadSoFar
  <2> QED  BY <1>7, <2>5, <2>9, <2>10 DEF IInv
<1> QED  BY <1>8, <1>9

----------------------------------------------------------------------------
(* The theorems.                                                           *)

LEMMA NextStep ==
  ASSUME IInv, [Next]_vars
  PROVE  IInv'
<1>1. CASE UNCHANGED vars
  <2>1. UNCHANGED <<dev, disk, present, FileOffset, op, calls, image, suspect>>
    BY <1>1 DEF vars
  <2>2. UNCHANGED <<SectorBytes, Sectors, Buffers>>
    BY <2>1 DEF SectorBytes, Sectors, Buffers
  <2>3. UNCHANGED <<sector, offset_in_sector, bytes_this_iter>>
    BY <2>1, <2>2 DEF sector, offset_in_sector, bytes_this_iter
  <2>4. Types' /\ DiskIsFlat'
    BY <2>1, <2>2 DEF IInv, Types, OpType, DiskIsFlat
  <2>5. \A i : Place(i)' = Place(i) /\ (InPlace(i) => InPlace(i)')
    BY <2>1, <2>2 DEF InPlace, Place
  <2>6. Progress' /\ Fetched'
    BY <2>1, <2>2, <2>3, <2>5 DEF IInv, Progress, Fetched
  <2>7. ReadSoFar'  BY <2>1, <2>2, <2>5 DEF IInv, ReadSoFar, Delivered
  <2> QED  BY <2>4, <2>6, <2>7 DEF IInv
<1>2. CASE Next
  BY <1>2, SeekStep, ReadStep, WriteStep, ReadSectorStep, FetchStep, StoreStep,
     UnplugStep, PowerFailureStep DEF Next
<1> QED  BY <1>1, <1>2

LEMMA IInvHolds == Spec => []IInv
<1>1. Init => IInv  BY InitHolds
<1>2. IInv /\ [Next]_vars => IInv'  BY NextStep
<1> QED  BY <1>1, <1>2, PTL DEF Spec

(* TypeOK and DiskIsFlat: whatever calls are made, whichever accesses fail *)
(* and whenever the power does, a sector that no access failed on holds    *)
(* the bytes last written to its offsets by IDEWriteFunction.              *)
THEOREM DiskCorrect == Spec => []DiskSound
<1>1. IInv => DiskSound
  <2> SUFFICES ASSUME IInv PROVE DiskSound
    OBVIOUS
  <2>1. TypeOK
    <3>1. op.pc \in {"idle", "read", "fetch", "store", "returned"}
      BY IdlePc DEF IInv, Types, OpType
    <3>2. op # Idle => /\ op.remaining \in 0..op.bytes
                       /\ op.current = Place(op.bytes - op.remaining)
                       /\ DOMAIN op.sector_buffer = 0..(SectorBytes - 1)
      BY DEF IInv, Types, OpType, Progress, Buffers
    <3>3. DOMAIN disk = Sectors /\ \A s \in Sectors : DOMAIN disk[s] = 0..(SectorBytes - 1)
      BY DEF IInv, Types, Buffers
    <3> QED  BY <3>1, <3>2, <3>3 DEF IInv, Types, TypeOK, Sectors, Longs
  <2> QED  BY <2>1 DEF IInv, DiskSound
<1> QED  BY <1>1, IInvHolds, PTL

(* What IDEReadFunction has put in the caller's buffer when it returns is, *)
(* byte for byte, what the drive holds in that range, for any offset a     *)
(* long can hold; past the last one the range goes on at offset 0.         *)
THEOREM ReadCorrect == Spec => []ReadDelivers
<1>1. IInv => ReadDelivers
  BY DEF IInv, ReadSoFar, Delivered, InPlace, ReadDelivers
<1> QED  BY <1>1, IInvHolds, PTL

(* A step of the driver writes one sector at most, the one it asked the    *)
(* drive for, in the range of the call.                                    *)
THEOREM WriteCorrect == Spec => OnlyRequested
<1> DEFINE Asked(s) ==
        /\ dev.type = "ata"
        /\ \E i \in 0..(op.bytes - 1) : s = Place(i) \div SectorBytes
        /\ \A t \in DOMAIN disk \ {s} : disk'[t] = disk[t]
    StepOk == \A s \in DOMAIN disk : disk'[s] # disk[s] => Asked(s)
<1>1. ASSUME IInv, [Next]_vars PROVE StepOk
  <2>1. CASE UNCHANGED disk  BY <2>1
  <2>2. CASE Store /\ ~UNCHANGED disk
    <3>1. /\ op.pc = "store"
          /\ ~(sector >= dev.Size)
          /\ disk' = [disk EXCEPT ![Accessed(sector)] = Patched]
      BY <2>2 DEF Store
    <3>2. op # Idle /\ OpType /\ Types /\ Progress
      BY <1>1, <3>1, IdlePc DEF IInv, Types
    <3>3. /\ sector \in Nat /\ dev.type = "ata" /\ dev \in Drives
      BY <3>1, <3>2, Iteration DEF Progress, Types
    <3>4. sector \in 0..(dev.Size - 1)
      <4>1. dev.Size \in Nat  BY <3>3, DriveAssumption, WidthAssumption
      <4> QED  BY <3>1, <3>3, <4>1
    <3>5. Accessed(sector) = sector  BY <3>3, <3>4, AddressInverse
    <3>6. \A s \in DOMAIN disk \ {sector} : disk'[s] = disk[s]
      BY <3>1, <3>5
    <3>7. \E i \in 0..(op.bytes - 1) : sector = Place(i) \div SectorBytes
      <4> DEFINE done == op.bytes - op.remaining
      <4>1. op.current = Place(done)  BY <3>2 DEF Progress
      <4>2. done \in 0..(op.bytes - 1)
        <5>1. done \in Nat /\ done < op.bytes /\ op.bytes \in Nat
          BY <3>1, <3>2, Places
        <5> QED  BY <5>1
      <4> QED  BY <4>1, <4>2 DEF sector
    <3> QED  BY <3>3, <3>6, <3>7
  <2>3. UNCHANGED disk \/ Store
    BY <1>1 DEF Next, vars, Seek, Read, Write, ReadSector, Fetch, Unplug, PowerFailure
  <2> QED  BY <2>1, <2>2, <2>3
<1>2. IInv /\ [Next]_vars => [StepOk]_vars  BY <1>1
<1> QED  BY <1>2, IInvHolds, PTL DEF Spec, OnlyRequested

=============================================================================
