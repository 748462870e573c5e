------------------------------ MODULE VFDProofs -----------------------------
(***************************************************************************)
(* The three properties of VFD, for any processes, VNodes and files.       *)
(*                                                                         *)
(* All rest on one invariant of the time before two opens overlap: one     *)
(* open at most is in progress (OneOpens), the counter is above every      *)
(* number in use but the one just given (NumbersBelow), and a VNode has    *)
(* one owner at most, a descriptor or a call in progress (OwnedOnce).      *)
(***************************************************************************)
EXTENDS VFD, SequenceTheorems, WellFoundedInduction, TLAPS

\* No number is given twice: opens are far fewer than the 2^32 numbers.
NoFdWrap == MaxFd < FdMod

\* A program between the first and the last step of a call knows its VNode.
Busy == \A p \in Procs : pc[p] # "run" => node[p] \in VNodes
TInv == TypeOK /\ Busy

OneOpens == \A p, q \in Procs : pc[p] \in Opening /\ pc[q] \in Opening => p = q

\* While p's open is between the new descriptor and Current++.
Counting(p) == pc[p] \in {"load", "store"}

Counter ==
    /\ Current <= MaxFd
    /\ \A p \in Procs : pc[p] \in Opening => Current < MaxFd
    /\ \A p \in Procs : pc[p] = "store" => count[p] = Current

\* Numbers in use are below the counter, but for the last one just given.
NumbersBelow ==
    \A p \in Procs : \A i \in DOMAIN files[p] :
        IF Counting(p) /\ i = Len(files[p]) THEN files[p][i].FileIndex = Current
        ELSE files[p][i].FileIndex < Current

\* The descriptor being numbered is the last one of its list.
LastIsNew ==
    \A p \in Procs : Counting(p) =>
        /\ files[p] # <<>>
        /\ files[p][Len(files[p])].Reference = node[p]

Ascend ==
    \A p \in Procs : \A i, j \in DOMAIN files[p] :
        i < j => files[p][i].FileIndex < files[p][j].FileIndex
Distinct ==
    \A p, q \in Procs : p # q =>
        \A i \in DOMAIN files[p], j \in DOMAIN files[q] :
            files[p][i].FileIndex # files[q][j].FileIndex

\* What open returned is in the list, under that number.
HandlesListed ==
    \A p \in Procs : \A h \in handles[p] : \E i \in DOMAIN files[p] :
        files[p][i].FileIndex = h[1] /\ files[p][i].Reference = h[2]

\* A call that owns its VNode while no descriptor refers to it.
Between(p, n) == node[p] = n /\ pc[p] \in {"entry", "clear"}
Refers(p, n) == \E i \in DOMAIN files[p] : files[p][i].Reference = n

Owns(p, n) == Refers(p, n) \/ Between(p, n)

FlagExact == \A n \in VNodes : n \in opened <=> \E p \in Procs : Owns(p, n)

OwnedOnce ==
    /\ \A p \in Procs : \A i, j \in DOMAIN files[p] :
          files[p][i].Reference = files[p][j].Reference => i = j
    /\ \A p, q \in Procs : \A n \in VNodes : Owns(p, n) /\ Owns(q, n) => p = q
    /\ \A p \in Procs : \A n \in VNodes : ~(Refers(p, n) /\ Between(p, n))
    /\ \A p \in Procs : pc[p] = "flag" => node[p] \notin opened

Core == /\ OneOpens /\ Counter
        /\ NumbersBelow /\ LastIsNew /\ Ascend /\ Distinct /\ HandlesListed
        /\ FlagExact /\ OwnedOnce

IInv == TInv /\ (~overlap => Core)

----------------------------------------------------------------------------
\* Min of a non-empty set of naturals is in it.
LEMMA MinInSet ==
  ASSUME NEW I \in SUBSET Nat, I # {}
  PROVE  Min(I) \in I
<1> DEFINE R == OpToRel(<, Nat)
<1>1. PICK x \in I : \A y \in I : ~(<<y, x>> \in R)
  BY NatLessThanWellFounded, WFMin
<1>2. \A y, z \in Nat : y < z => <<y, z>> \in R
  BY DEF OpToRel
<1> HIDE DEF R
<1>3. \A y \in I : ~(y < x)
  BY <1>1, <1>2
<1>4. \A y \in I : x <= y
  BY <1>3
<1> QED BY <1>4 DEF Min

\* What a counter that does not wrap stores.
LEMMA SmallMod == ASSUME NEW c \in Nat, NEW d \in Nat, c < d PROVE c % d = c
  OBVIOUS

\* Removing an element closes the gap it leaves.
LEMMA RemoveAtFacts ==
  ASSUME NEW S, NEW s \in Seq(S), NEW i \in 1..Len(s)
  PROVE  /\ RemoveAt(s, i) \in Seq(S)
         /\ DOMAIN RemoveAt(s, i) = 1..(Len(s) - 1)
         /\ \A j \in 1..(Len(s) - 1) :
               RemoveAt(s, i)[j] = s[IF j < i THEN j ELSE j + 1]
<1> DEFINE a == SubSeq(s, 1, i - 1)
           b == SubSeq(s, i + 1, Len(s))
<1>1. Len(s) \in Nat /\ i \in Nat
  BY LenProperties
<1>2. /\ a \in Seq(S) /\ Len(a) = i - 1
      /\ \A j \in 1..(i - 1) : a[j] = s[j]
  <2>1. \A j \in 1..(i - 1) : s[j] \in S
    BY <1>1, ElementOfSeq
  <2>2. \A j \in 1..(i - 1) - 1 + 1 : a[j] = s[1 + j - 1]
    BY <1>1, <2>1, SubSeqProperties
  <2>3. a \in Seq(S) /\ Len(a) = IF 1 <= i - 1 THEN (i - 1) - 1 + 1 ELSE 0
    BY <1>1, <2>1, SubSeqProperties
  <2> QED BY <1>1, <2>2, <2>3
<1>3. /\ b \in Seq(S) /\ Len(b) = Len(s) - i
      /\ \A j \in 1..(Len(s) - i) : b[j] = s[i + j]
  <2>1. \A j \in (i + 1)..Len(s) : s[j] \in S
    BY <1>1, ElementOfSeq
  <2>2. \A j \in 1..(Len(s) - (i + 1) + 1) : b[j] = s[(i + 1) + j - 1]
    BY <1>1, <2>1, SubSeqProperties
  <2>3. b \in Seq(S) /\ Len(b) = IF i + 1 <= Len(s) THEN Len(s) - (i + 1) + 1 ELSE 0
    BY <1>1, <2>1, SubSeqProperties
  <2> QED BY <1>1, <2>2, <2>3
<1> HIDE DEF a, b
<1>4. /\ a \o b \in Seq(S)
      /\ Len(a \o b) = Len(s) - 1
      /\ \A j \in 1..(Len(s) - 1) :
            (a \o b)[j] = IF j <= i - 1 THEN a[j] ELSE b[j - (i - 1)]
  <2>1. Len(a) + Len(b) = Len(s) - 1
    BY <1>1, <1>2, <1>3
  <2>2. /\ a \o b \in Seq(S)
        /\ Len(a \o b) = Len(a) + Len(b)
        /\ \A j \in 1..(Len(a) + Len(b)) :
              (a \o b)[j] = IF j <= Len(a) THEN a[j] ELSE b[j - Len(a)]
    BY <1>2, <1>3, ConcatProperties
  <2> QED BY <1>2, <2>1, <2>2
<1>5. DOMAIN (a \o b) = 1..(Len(s) - 1)
  BY <1>4, LenProperties
<1>6. ASSUME NEW j \in 1..(Len(s) - 1)
      PROVE  (a \o b)[j] = s[IF j < i THEN j ELSE j + 1]
  BY <1>1, <1>2, <1>3, <1>4
<1> QED BY <1>4, <1>5, <1>6 DEF RemoveAt, a, b

\* findb returns a position with the number asked for, if there is one.
LEMMA FindFacts ==
  ASSUME TypeOK, NEW p \in Procs, NEW fd
  PROVE  /\ Find(p, fd) # 0 =>
               Find(p, fd) \in DOMAIN files[p] /\ files[p][Find(p, fd)].FileIndex = fd
         /\ (\E i \in DOMAIN files[p] : files[p][i].FileIndex = fd) => Find(p, fd) # 0
<1> DEFINE I == {i \in 1..Len(files[p]) : files[p][i].FileIndex = fd}
<1>1. files[p] \in Seq(_FileDescriptor)
  BY DEF TypeOK
<1>2. DOMAIN files[p] = 1..Len(files[p]) /\ Len(files[p]) \in Nat
  BY <1>1, LenProperties
<1>3. Find(p, fd) = IF I # {} THEN Min(I) ELSE 0
  BY DEF Find, SelectInSeq
<1>4. I \in SUBSET Nat
  BY <1>2
<1> HIDE DEF I
<1>5. I # {} => Min(I) \in I
  BY <1>4, MinInSet
<1> USE DEF I
<1> QED BY <1>2, <1>3, <1>5

\* What the types say of one list.
LEMMA ListFacts ==
  ASSUME TypeOK, NEW p \in Procs
  PROVE  /\ files[p] \in Seq(_FileDescriptor)
         /\ Len(files[p]) \in Nat
         /\ DOMAIN files[p] = 1..Len(files[p])
         /\ \A i \in DOMAIN files[p] :
               files[p][i].Reference \in VNodes /\ files[p][i].FileIndex \in Nat
<1>1. files[p] \in Seq(_FileDescriptor)
  BY DEF TypeOK
<1>2. Len(files[p]) \in Nat /\ DOMAIN files[p] = 1..Len(files[p])
  BY <1>1, LenProperties
<1>3. \A i \in 1..Len(files[p]) : files[p][i] \in _FileDescriptor
  BY <1>1, ElementOfSeq
<1> QED BY <1>1, <1>2, <1>3, FdAssumption DEF _FileDescriptor

----------------------------------------------------------------------------
LEMMA TypeStep ==
  ASSUME TInv, [Next]_vars
  PROVE  TInv'
<1> USE DEF TInv, Busy
<1>1. CASE UNCHANGED vars
  BY <1>1 DEF vars, TypeOK
<1> SUFFICES ASSUME NEW p \in Procs, Step(p) PROVE TInv'
  BY <1>1 DEF Next
<1>2. ASSUME NEW n \in VNodes, Open(p, n) PROVE TInv'
  BY <1>2 DEF Open, Goto, TypeOK, Points, Opening
<1>3. CASE SetFlag(p)
  BY <1>3 DEF SetFlag, Goto, TypeOK, Points, Opening
<1>4. CASE AppendEntry(p)
  <2> DEFINE d == [Reference |-> node[p], FileIndex |-> Current]
  <2>1. d \in _FileDescriptor
    BY <1>4 DEF AppendEntry, TypeOK, _FileDescriptor
  <2>2. Append(files[p], d) \in Seq(_FileDescriptor)
    BY <2>1, ListFacts, AppendProperties
  <2>3. files' \in [Procs -> Seq(_FileDescriptor)]
    BY <1>4, <2>2 DEF AppendEntry, TypeOK
  <2> QED BY <1>4, <2>3 DEF AppendEntry, Goto, TypeOK, Points, Opening
<1>5. CASE LoadCount(p)
  BY <1>5 DEF LoadCount, Goto, TypeOK, Points, Opening
<1>6. CASE StoreCount(p)
  <2>1. count[p] \in 0..(FdMod - 1) /\ node[p] \in VNodes
    BY <1>6 DEF StoreCount, TypeOK
  <2>2. (count[p] + 1) % FdMod \in 0..(FdMod - 1)
    BY <2>1, FdAssumption
  <2>3. handles' \in [Procs -> SUBSET ((0..(FdMod - 1)) \X VNodes)]
    BY <1>6, <2>1 DEF StoreCount, TypeOK
  <2> QED BY <1>6, <2>2, <2>3 DEF StoreCount, Goto, TypeOK, Points, Opening
<1>7. ASSUME NEW h \in handles[p], Close(p, h) PROVE TInv'
  <2> DEFINE i == Find(p, h[1])
  <2>1. handles' \in [Procs -> SUBSET ((0..(FdMod - 1)) \X VNodes)]
    BY <1>7 DEF Close, TypeOK
  <2>2. CASE i = 0
    BY <1>7, <2>1, <2>2 DEF Close, TypeOK
  <2>3. CASE i # 0
    <3>1. i \in 1..Len(files[p]) /\ files[p][i].Reference \in VNodes
      BY <2>3, FindFacts, ListFacts
    <3>2. RemoveAt(files[p], i) \in Seq(_FileDescriptor)
      BY <3>1, ListFacts, RemoveAtFacts
    <3>3. /\ files' = [files EXCEPT ![p] = RemoveAt(files[p], i)]
          /\ node' = [node EXCEPT ![p] = files[p][i].Reference]
          /\ pc' = [pc EXCEPT ![p] = "clear"]
          /\ UNCHANGED <<opened, Current, count, overlap, panicked>>
      BY <1>7, <2>3 DEF Close, Goto
    <3> HIDE DEF i
    <3>4. files' \in [Procs -> Seq(_FileDescriptor)]
      BY <3>2, <3>3 DEF TypeOK
    <3> QED BY <2>1, <3>1, <3>3, <3>4 DEF TypeOK, Points, Opening
  <2> QED BY <2>2, <2>3
<1>8. CASE ClearFlag(p)
  BY <1>8 DEF ClearFlag, Goto, TypeOK, Points, Opening
<1>9. CASE Exit(p)
  <2>1. files' \in [Procs -> Seq(_FileDescriptor)]
    BY <1>9, EmptySeq DEF Exit, TypeOK
  <2> QED BY <1>9, <2>1 DEF Exit, TypeOK
<1> QED BY <1>2, <1>3, <1>4, <1>5, <1>6, <1>7, <1>8, <1>9 DEF Step

----------------------------------------------------------------------------
LEMMA InitIInv == ASSUME Init PROVE IInv
<1> USE DEF Init
<1>1. TInv
  <2>1. files \in [Procs -> Seq(_FileDescriptor)]
    BY EmptySeq
  <2>2. 0 \in 0..(FdMod - 1)
    BY FdAssumption
  <2> QED BY <2>1, <2>2 DEF TInv, TypeOK, Busy, Points
<1>2. OneOpens /\ Counter
  BY FdAssumption DEF OneOpens, Counter, Opening
<1>3. NumbersBelow /\ LastIsNew /\ Ascend /\ Distinct /\ HandlesListed
  BY DEF NumbersBelow, LastIsNew, Ascend, Distinct, HandlesListed, Counting
<1>4. FlagExact /\ OwnedOnce
  BY DEF FlagExact, OwnedOnce, Owns, Refers, Between
<1> QED BY <1>1, <1>2, <1>3, <1>4 DEF IInv, Core

\* The check at vfd.c:70 has found the VNode closed, and no open is in progress.
LEMMA OpenCore ==
  ASSUME TInv, Core, NEW p \in Procs, NEW n \in VNodes, Open(p, n), ~overlap'
  PROVE  Core'
<1> USE DEF TInv, TypeOK, Core
<1>1. /\ pc[p] = "run" /\ Current < MaxFd
      /\ \A q \in Procs : pc[q] \notin Opening
      /\ UNCHANGED <<opened, files, Current, count, handles>>
      /\ node' = [node EXCEPT ![p] = n]
      /\ \/ n \in opened /\ pc' = pc
         \/ n \notin opened /\ pc' = [pc EXCEPT ![p] = "flag"]
  BY DEF Open, Goto
<1>2. OneOpens' /\ Counter'
  BY <1>1 DEF OneOpens, Counter, Opening
<1>3. NumbersBelow' /\ LastIsNew'
  BY <1>1 DEF NumbersBelow, LastIsNew, Counting, Opening
<1>4. Ascend' /\ Distinct' /\ HandlesListed'
  BY <1>1 DEF Ascend, Distinct, HandlesListed
<1>5. \A q \in Procs, m \in VNodes : Refers(q, m)' = Refers(q, m) /\ Between(q, m)' = Between(q, m)
  BY <1>1 DEF Refers, Between
<1>6. FlagExact'
  BY <1>1, <1>5 DEF FlagExact, Owns
<1>7. OwnedOnce'
  BY <1>1, <1>5 DEF OwnedOnce, Owns, Opening
<1> QED BY <1>2, <1>3, <1>4, <1>6, <1>7

\* The flag makes the opener the owner of a VNode that had none.
LEMMA SetFlagCore ==
  ASSUME TInv, Core, NEW p \in Procs, SetFlag(p)
  PROVE  Core'
<1> USE DEF TInv, TypeOK, Core
<1>1. /\ pc[p] = "flag" /\ pc' = [pc EXCEPT ![p] = "entry"]
      /\ opened' = opened \cup {node[p]}
      /\ UNCHANGED <<files, Current, node, count, handles>>
  BY DEF SetFlag, Goto
<1>2. node[p] \in VNodes /\ node[p] \notin opened
  BY <1>1 DEF Busy, OwnedOnce
<1>3. OneOpens' /\ Counter'
  BY <1>1 DEF OneOpens, Counter, Opening
<1>4. NumbersBelow' /\ LastIsNew'
  BY <1>1 DEF NumbersBelow, LastIsNew, Counting
<1>5. Ascend' /\ Distinct' /\ HandlesListed'
  BY <1>1 DEF Ascend, Distinct, HandlesListed
<1>6. \A q \in Procs, m \in VNodes :
         /\ Refers(q, m)' = Refers(q, m)
         /\ Between(q, m)' <=> Between(q, m) \/ (q = p /\ m = node[p])
         /\ Owns(q, m)' <=> Owns(q, m) \/ (q = p /\ m = node[p])
  BY <1>1 DEF Refers, Between, Owns
<1>7. \A q \in Procs : ~Owns(q, node[p])
  BY <1>2 DEF FlagExact
<1>8. FlagExact'
  <2> SUFFICES ASSUME NEW m \in VNodes
               PROVE  m \in opened' <=> \E q \in Procs : Owns(q, m)'
    BY DEF FlagExact
  <2>1. m \in opened <=> \E q \in Procs : Owns(q, m)
    BY DEF FlagExact
  <2> QED BY <1>1, <1>6, <2>1
<1>9. OwnedOnce'
  <2>1. \A q \in Procs : pc'[q] # "flag"
    BY <1>1 DEF OneOpens, Opening
  <2>2. \A q, r \in Procs : \A m \in VNodes : Owns(q, m)' /\ Owns(r, m)' => q = r
    BY <1>6, <1>7 DEF OwnedOnce
  <2>3. \A q \in Procs : \A m \in VNodes : ~(Refers(q, m)' /\ Between(q, m)')
    BY <1>6, <1>7 DEF OwnedOnce, Owns
  <2> QED BY <1>1, <2>1, <2>2, <2>3 DEF OwnedOnce
<1> QED BY <1>3, <1>4, <1>5, <1>8, <1>9

\* The descriptor takes over from the call what the call owned, and a number
\* above all others.
LEMMA AppendEntryCore ==
  ASSUME TInv, Core, NEW p \in Procs, AppendEntry(p)
  PROVE  Core'
<1> USE DEF TInv, TypeOK, Core
<1> DEFINE d == [Reference |-> node[p], FileIndex |-> Current]
           len == Len(files[p])
<1>1. /\ pc[p] = "entry" /\ pc' = [pc EXCEPT ![p] = "load"]
      /\ files' = [files EXCEPT ![p] = Append(files[p], d)]
      /\ UNCHANGED <<opened, Current, node, count, handles>>
  BY DEF AppendEntry, Goto
<1>2. node[p] \in VNodes /\ Current \in Nat /\ d \in _FileDescriptor
  BY <1>1, FdAssumption DEF Busy, _FileDescriptor
<1>3. /\ len \in Nat /\ DOMAIN files[p] = 1..len
      /\ DOMAIN files'[p] = 1..(len + 1) /\ Len(files'[p]) = len + 1
      /\ \A i \in 1..len : files'[p][i] = files[p][i]
      /\ files'[p][len + 1] = d
  <2>1. files'[p] = Append(files[p], d)
    BY <1>1
  <2>2. /\ files[p] \in Seq(_FileDescriptor) /\ len \in Nat
        /\ DOMAIN files[p] = 1..len
    BY ListFacts
  <2>3. /\ files'[p] \in Seq(_FileDescriptor) /\ Len(files'[p]) = len + 1
        /\ \A i \in 1..len : files'[p][i] = files[p][i]
        /\ files'[p][len + 1] = d
    BY <1>2, <2>1, <2>2, AppendProperties
  <2>4. DOMAIN files'[p] = 1..(len + 1)
    BY <2>3, LenProperties
  <2> QED BY <2>2, <2>3, <2>4
<1>4. \A q \in Procs : q # p => files'[q] = files[q] /\ pc[q] \notin Opening
  BY <1>1 DEF OneOpens, Opening
<1>5. \A q \in Procs : \A i \in DOMAIN files[q] :
         files[q][i].FileIndex < Current /\ files[q][i].FileIndex \in Nat
  BY <1>1, <1>4, ListFacts DEF NumbersBelow, Counting, Opening
<1> HIDE DEF d, len
<1>6. d.Reference = node[p] /\ d.FileIndex = Current
  BY DEF d
<1>7. OneOpens' /\ Counter'
  BY <1>1 DEF OneOpens, Counter, Opening
<1>8. NumbersBelow' /\ LastIsNew'
  <2>1. ASSUME NEW q \in Procs, q # p
        PROVE  ~Counting(q)' /\ \A i \in DOMAIN files'[q] : files'[q][i].FileIndex < Current'
    BY <1>1, <1>4, <1>5, <2>1 DEF Counting, Opening
  <2>2. \A i \in DOMAIN files'[p] :
           IF i = Len(files'[p]) THEN files'[p][i].FileIndex = Current'
                                 ELSE files'[p][i].FileIndex < Current'
    BY <1>1, <1>3, <1>5, <1>6
  <2>3. files'[p] # <<>> /\ files'[p][Len(files'[p])].Reference = node'[p]
    <3>1. Len(files'[p]) # 0
      BY <1>3
    <3>2. files'[p] # <<>>
      BY <3>1, EmptySeq
    <3> QED BY <1>1, <1>3, <1>6, <3>2
  <2>4. Counting(p)'
    BY <1>1 DEF Counting
  <2> QED BY <2>1, <2>2, <2>3, <2>4 DEF NumbersBelow, LastIsNew
<1>9. Ascend'
  <2>1. \A i, j \in 1..(len + 1) : i < j =>
           files'[p][i].FileIndex < files'[p][j].FileIndex
    <3>1. ASSUME NEW i \in 1..(len + 1), NEW j \in 1..(len + 1), i < j
          PROVE  files'[p][i].FileIndex < files'[p][j].FileIndex
      <4>1. i \in 1..len /\ (j \in 1..len \/ j = len + 1)
        BY <1>3, <3>1
      <4>2. CASE j \in 1..len
        BY <1>3, <3>1, <4>1, <4>2 DEF Ascend
      <4>3. CASE j = len + 1
        BY <1>3, <1>5, <1>6, <4>1, <4>3
      <4> QED BY <4>1, <4>2, <4>3
    <3> QED BY <3>1
  <2> QED BY <1>3, <1>4, <2>1 DEF Ascend
<1>10. Distinct'
  <2>1. ASSUME NEW q \in Procs, q # p, NEW i \in DOMAIN files'[p], NEW j \in DOMAIN files'[q]
        PROVE  files'[p][i].FileIndex # files'[q][j].FileIndex
    <3>1. files'[q] = files[q] /\ files[q][j].FileIndex < Current
      BY <1>4, <1>5, <2>1
    <3>2. i \in 1..len \/ i = len + 1
      BY <1>3
    <3>3. CASE i \in 1..len
      <4>1. i \in DOMAIN files[p] /\ files'[p][i] = files[p][i] /\ j \in DOMAIN files[q]
        BY <1>3, <3>1, <3>3
      <4> QED BY <2>1, <3>1, <4>1 DEF Distinct
    <3>4. CASE i = len + 1
      BY <1>2, <1>3, <1>5, <1>6, <3>1, <3>4
    <3> QED BY <3>2, <3>3, <3>4
  <2>2. ASSUME NEW q \in Procs, NEW r \in Procs, q # r, q # p, r # p
        PROVE  \A i \in DOMAIN files'[q], j \in DOMAIN files'[r] :
                  files'[q][i].FileIndex # files'[r][j].FileIndex
    BY <1>4, <2>2 DEF Distinct
  <2> SUFFICES ASSUME NEW q \in Procs, NEW r \in Procs, q # r,
                      NEW i \in DOMAIN files'[q], NEW j \in DOMAIN files'[r]
               PROVE  files'[q][i].FileIndex # files'[r][j].FileIndex
    BY DEF Distinct
  <2> QED BY <2>1, <2>2
<1>11. HandlesListed'
  <2> SUFFICES ASSUME NEW q \in Procs, NEW h \in handles[q]
               PROVE  \E i \in DOMAIN files'[q] :
                         files'[q][i].FileIndex = h[1] /\ files'[q][i].Reference = h[2]
    BY <1>1 DEF HandlesListed
  <2>1. PICK i \in DOMAIN files[q] :
           files[q][i].FileIndex = h[1] /\ files[q][i].Reference = h[2]
    BY DEF HandlesListed
  <2>2. i \in DOMAIN files'[q] /\ files'[q][i] = files[q][i]
    <3>1. CASE q = p
      <4>1. i \in 1..len
        BY <1>3, <3>1
      <4> QED BY <1>3, <3>1, <4>1
    <3> QED BY <1>4, <3>1
  <2> QED BY <2>1, <2>2
<1>12. \A q \in Procs, m \in VNodes :
         /\ Refers(q, m)' <=> Refers(q, m) \/ (q = p /\ m = node[p])
         /\ Between(q, m)' <=> Between(q, m) /\ q # p
         /\ Owns(q, m)' <=> Owns(q, m)
  <2>1. \A q \in Procs, m \in VNodes : q # p =>
           (Refers(q, m)' <=> Refers(q, m)) /\ (Between(q, m)' <=> Between(q, m))
    BY <1>1, <1>4 DEF Refers, Between
  <2>2. \A m \in VNodes : Refers(p, m)' <=> Refers(p, m) \/ m = node[p]
    <3> SUFFICES ASSUME NEW m \in VNodes
                 PROVE  (\E i \in 1..(len + 1) : files'[p][i].Reference = m)
                           <=> (\E i \in 1..len : files[p][i].Reference = m) \/ m = node[p]
      BY <1>3 DEF Refers
    <3>1. \A i \in 1..(len + 1) : i \in 1..len \/ i = len + 1
      BY <1>3
    <3>2. \A i \in 1..len : i \in 1..(len + 1)
      BY <1>3
    <3>3. len + 1 \in 1..(len + 1)
      BY <1>3
    <3> QED BY <1>3, <1>6, <3>1, <3>2, <3>3
  <2>3. \A m \in VNodes : ~Between(p, m)' /\ (Between(p, m) <=> m = node[p])
    BY <1>1 DEF Between
  <2> QED BY <2>1, <2>2, <2>3 DEF Owns
<1>13. FlagExact'
  BY <1>1, <1>12 DEF FlagExact
<1>14. OwnedOnce'
  <2>1. ~Refers(p, node[p])
    BY <1>1, <1>2 DEF OwnedOnce, Between
  <2>2. ASSUME NEW i \in 1..(len + 1), NEW j \in 1..(len + 1),
               files'[p][i].Reference = files'[p][j].Reference
        PROVE  i = j
    <3>1. \A k \in 1..len : files[p][k].Reference # node[p]
      BY <1>3, <2>1 DEF Refers
    <3>2. CASE i \in 1..len /\ j \in 1..len
      BY <1>3, <2>2, <3>2 DEF OwnedOnce
    <3> QED BY <1>3, <1>6, <2>2, <3>1, <3>2
  <2>3. \A q \in Procs : \A i, j \in DOMAIN files'[q] :
           files'[q][i].Reference = files'[q][j].Reference => i = j
    BY <1>3, <1>4, <2>2 DEF OwnedOnce
  <2>4. \A q, r \in Procs : \A m \in VNodes : Owns(q, m)' /\ Owns(r, m)' => q = r
    BY <1>12 DEF OwnedOnce
  <2>5. \A q \in Procs : \A m \in VNodes : ~(Refers(q, m)' /\ Between(q, m)')
    BY <1>12 DEF OwnedOnce
  <2>6. \A q \in Procs : pc'[q] = "flag" => node'[q] \notin opened'
    BY <1>1 DEF OwnedOnce
  <2> QED BY <2>3, <2>4, <2>5, <2>6 DEF OwnedOnce
<1> QED BY <1>7, <1>8, <1>9, <1>10, <1>11, <1>13, <1>14

LEMMA LoadCountCore ==
  ASSUME TInv, Core, NEW p \in Procs, LoadCount(p)
  PROVE  Core'
<1> USE DEF TInv, TypeOK, Core
<1>1. /\ pc[p] = "load" /\ pc' = [pc EXCEPT ![p] = "store"]
      /\ count' = [count EXCEPT ![p] = Current]
      /\ UNCHANGED <<opened, files, Current, node, handles>>
  BY DEF LoadCount, Goto
<1>2. OneOpens' /\ Counter'
  BY <1>1 DEF OneOpens, Counter, Opening
<1>3. \A q \in Procs : Counting(q)' <=> Counting(q)
  BY <1>1 DEF Counting
<1>4. NumbersBelow' /\ LastIsNew'
  BY <1>1, <1>3 DEF NumbersBelow, LastIsNew
<1>5. Ascend' /\ Distinct' /\ HandlesListed'
  BY <1>1 DEF Ascend, Distinct, HandlesListed
<1>6. \A q \in Procs, m \in VNodes :
         /\ Refers(q, m)' <=> Refers(q, m)
         /\ Between(q, m)' <=> Between(q, m)
         /\ Owns(q, m)' <=> Owns(q, m)
  BY <1>1 DEF Refers, Between, Owns
<1>7. FlagExact'
  BY <1>1, <1>6 DEF FlagExact
<1>8. OwnedOnce'
  BY <1>1, <1>6 DEF OwnedOnce
<1> QED BY <1>2, <1>4, <1>5, <1>7, <1>8

\* return Current++: no other open has moved the counter, so the number
\* returned is the one in the descriptor.
LEMMA StoreCountCore ==
  ASSUME NoFdWrap, TInv, Core, NEW p \in Procs, StoreCount(p)
  PROVE  Core'
<1> USE DEF TInv, TypeOK, Core
<1>1. /\ pc[p] = "store" /\ pc' = [pc EXCEPT ![p] = "run"]
      /\ Current' = (count[p] + 1) % FdMod
      /\ handles' = [handles EXCEPT ![p] = @ \cup {<<count[p], node[p]>>}]
      /\ UNCHANGED <<opened, files, node, count>>
  BY DEF StoreCount, Goto
<1>2. Current \in Nat /\ Current' = Current + 1 /\ Current' <= MaxFd /\ count[p] = Current
  <2>1. count[p] = Current /\ Current < MaxFd /\ Current \in Nat
    BY <1>1, FdAssumption DEF Counter, Opening
  <2>2. Current + 1 \in 0..(FdMod - 1)
    BY <2>1, FdAssumption DEF NoFdWrap
  <2>3. (Current + 1) % FdMod = Current + 1
    <3>1. Current + 1 \in Nat /\ FdMod \in Nat /\ Current + 1 < FdMod
      BY <2>1, <2>2, FdAssumption
    <3> QED BY <3>1, SmallMod
  <2> QED BY <1>1, <2>1, <2>3, FdAssumption
<1>3. \A q \in Procs : ~Counting(q)' /\ pc'[q] \notin Opening
  BY <1>1 DEF OneOpens, Opening, Counting
<1>4. OneOpens' /\ Counter'
  BY <1>2, <1>3 DEF OneOpens, Counter, Opening
<1>5. NumbersBelow' /\ LastIsNew'
  <2>1. \A q \in Procs : \A i \in DOMAIN files[q] :
           files[q][i].FileIndex <= Current /\ files[q][i].FileIndex \in Nat
    BY <1>2, ListFacts DEF NumbersBelow
  <2>2. \A q \in Procs : \A i \in DOMAIN files[q] : files[q][i].FileIndex < Current'
    BY <1>2, <2>1
  <2> QED BY <1>1, <1>3, <2>2 DEF NumbersBelow, LastIsNew
<1>6. Ascend' /\ Distinct'
  BY <1>1 DEF Ascend, Distinct
<1>7. HandlesListed'
  <2>1. /\ Len(files[p]) \in DOMAIN files[p]
        /\ files[p][Len(files[p])].FileIndex = Current
        /\ files[p][Len(files[p])].Reference = node[p]
    <3>1. Counting(p) /\ files[p] # <<>>
      BY <1>1 DEF Counting, LastIsNew
    <3>2. Len(files[p]) \in DOMAIN files[p]
      BY <3>1, ListFacts, EmptySeq
    <3> QED BY <3>1, <3>2 DEF NumbersBelow, LastIsNew
  <2> SUFFICES ASSUME NEW q \in Procs, NEW h \in handles'[q]
               PROVE  \E i \in DOMAIN files[q] :
                         files[q][i].FileIndex = h[1] /\ files[q][i].Reference = h[2]
    BY <1>1 DEF HandlesListed
  <2>2. CASE h \in handles[q]
    BY <2>2 DEF HandlesListed
  <2>3. CASE h \notin handles[q]
    <3>1. q = p /\ h = <<count[p], node[p]>>
      BY <1>1, <2>3
    <3> QED BY <1>2, <2>1, <3>1
  <2> QED BY <2>2, <2>3
<1>8. \A q \in Procs, m \in VNodes :
         /\ Refers(q, m)' <=> Refers(q, m)
         /\ Between(q, m)' <=> Between(q, m)
         /\ Owns(q, m)' <=> Owns(q, m)
  BY <1>1 DEF Refers, Between, Owns
<1>9. FlagExact'
  BY <1>1, <1>8 DEF FlagExact
<1>10. OwnedOnce'
  BY <1>1, <1>8 DEF OwnedOnce
<1> QED BY <1>4, <1>5, <1>6, <1>7, <1>9, <1>10

\* findb has found the descriptor of the handle; the call takes its VNode over.
LEMMA CloseCore ==
  ASSUME TInv, Core, NEW p \in Procs, NEW h \in handles[p], Close(p, h)
  PROVE  Core'
<1> USE DEF TInv, TypeOK, Core
<1> DEFINE i == Find(p, h[1])
           f == RemoveAt(files[p], i)
           n == files[p][i].Reference
           old(j) == IF j < i THEN j ELSE j + 1
<1>1. /\ i \in 1..Len(files[p]) /\ files[p][i].FileIndex = h[1] /\ i # 0
      /\ n \in VNodes
  <2>1. \E j \in DOMAIN files[p] : files[p][j].FileIndex = h[1]
    BY DEF HandlesListed
  <2> QED BY <2>1, FindFacts, ListFacts
<1>2. /\ pc[p] = "run" /\ pc' = [pc EXCEPT ![p] = "clear"]
      /\ files' = [files EXCEPT ![p] = f]
      /\ node' = [node EXCEPT ![p] = n]
      /\ handles' = [handles EXCEPT ![p] = @ \ {h}]
      /\ UNCHANGED <<opened, Current, count>>
  BY <1>1 DEF Close, Goto
<1>3. /\ Len(files[p]) \in Nat /\ DOMAIN files[p] = 1..Len(files[p])
      /\ DOMAIN f = 1..(Len(files[p]) - 1)
      /\ \A j \in DOMAIN f : old(j) \in DOMAIN files[p] /\ old(j) # i /\ f[j] = files[p][old(j)]
      /\ \A j, k \in DOMAIN f : j < k => old(j) < old(k)
      /\ \A k \in DOMAIN files[p] : k # i => \E j \in DOMAIN f : old(j) = k
  <2>1. /\ files[p] \in Seq(_FileDescriptor) /\ Len(files[p]) \in Nat
        /\ DOMAIN files[p] = 1..Len(files[p])
    BY ListFacts
  <2>2. /\ DOMAIN f = 1..(Len(files[p]) - 1)
        /\ \A j \in 1..(Len(files[p]) - 1) : f[j] = files[p][old(j)]
    BY <1>1, <2>1, RemoveAtFacts
  <2> HIDE DEF i, f
  <2>3. ASSUME NEW k \in DOMAIN files[p], k # i PROVE \E j \in DOMAIN f : old(j) = k
    <3>1. CASE k < i
      BY <1>1, <2>1, <2>2, <3>1
    <3>2. CASE k > i
      <4>1. k - 1 \in DOMAIN f /\ old(k - 1) = k
        BY <1>1, <2>1, <2>2, <3>2
      <4> QED BY <4>1
    <3> QED BY <1>1, <2>1, <2>3, <3>1, <3>2
  <2> QED BY <1>1, <2>1, <2>2, <2>3
<1> HIDE DEF i, f, n, old
<1>4. \A q \in Procs : q # p => files'[q] = files[q] /\ pc'[q] = pc[q] /\ node'[q] = node[q]
  BY <1>2
<1>5. files'[p] = f
  BY <1>2
<1>6. OneOpens' /\ Counter'
  BY <1>2 DEF OneOpens, Counter, Opening
<1>7. NumbersBelow' /\ LastIsNew'
  <2>1. ~Counting(p) /\ ~Counting(p)'
    BY <1>2 DEF Counting
  <2>2. \A j \in DOMAIN f : f[j].FileIndex < Current
    BY <1>3, <2>1 DEF NumbersBelow
  <2>3. \A q \in Procs : q # p => (Counting(q)' <=> Counting(q))
    BY <1>4 DEF Counting
  <2> QED BY <1>2, <1>4, <1>5, <2>1, <2>2, <2>3 DEF NumbersBelow, LastIsNew
<1>8. Ascend'
  <2>1. \A j, k \in DOMAIN f : j < k => f[j].FileIndex < f[k].FileIndex
    BY <1>3 DEF Ascend
  <2> QED BY <1>4, <1>5, <2>1 DEF Ascend
<1>9. \A q \in Procs : \A j \in DOMAIN files'[q] :
         \E k \in DOMAIN files[q] : files'[q][j] = files[q][k]
  <2>1. \A j \in DOMAIN f : \E k \in DOMAIN files[p] : f[j] = files[p][k]
    BY <1>3
  <2> SUFFICES ASSUME NEW q \in Procs, NEW j \in DOMAIN files'[q]
               PROVE  \E k \in DOMAIN files[q] : files'[q][j] = files[q][k]
    OBVIOUS
  <2>2. CASE q = p
    BY <1>5, <2>1, <2>2
  <2>3. CASE q # p
    BY <1>4, <2>3
  <2> QED BY <2>2, <2>3
<1>10. Distinct'
  <2> SUFFICES ASSUME NEW q \in Procs, NEW r \in Procs, q # r,
                      NEW j \in DOMAIN files'[q], NEW k \in DOMAIN files'[r]
               PROVE  files'[q][j].FileIndex # files'[r][k].FileIndex
    BY DEF Distinct
  <2>1. PICK a \in DOMAIN files[q] : files'[q][j] = files[q][a]
    BY <1>9
  <2>2. PICK b \in DOMAIN files[r] : files'[r][k] = files[r][b]
    BY <1>9
  <2> QED BY <2>1, <2>2 DEF Distinct
<1>11. HandlesListed'
  <2>1. ASSUME NEW g \in handles'[p]
        PROVE  \E j \in DOMAIN f : f[j].FileIndex = g[1] /\ f[j].Reference = g[2]
    <3>1. g \in handles[p] /\ g # h
      BY <1>2
    <3>2. PICK k \in DOMAIN files[p] : files[p][k].FileIndex = g[1] /\ files[p][k].Reference = g[2]
      BY <3>1 DEF HandlesListed
    <3>3. PICK m \in DOMAIN files[p] : files[p][m].FileIndex = h[1] /\ files[p][m].Reference = h[2]
      BY DEF HandlesListed
    <3>4. m = i
      <4>1. files[p][m].FileIndex = files[p][i].FileIndex /\ files[p][m].FileIndex \in Nat
        BY <1>1, <3>3, ListFacts
      <4>2. i \in DOMAIN files[p] /\ m \in Nat /\ i \in Nat
        BY <1>1, <1>3
      <4>3. m < i => files[p][m].FileIndex < files[p][i].FileIndex
        BY <4>2 DEF Ascend
      <4>4. i < m => files[p][i].FileIndex < files[p][m].FileIndex
        BY <4>2 DEF Ascend
      <4>5. ~(m < i) /\ ~(i < m)
        BY <4>1, <4>3, <4>4
      <4> QED BY <4>2, <4>5
    <3>5. k # i
      <4>1. g = <<g[1], g[2]>> /\ h = <<h[1], h[2]>>
        BY <3>1
      <4> QED BY <3>1, <3>2, <3>3, <3>4, <4>1
    <3>6. PICK j \in DOMAIN f : old(j) = k
      BY <1>3, <3>5
    <3> QED BY <1>3, <3>2, <3>6
  <2>2. \A q \in Procs : q # p => handles'[q] = handles[q]
    BY <1>2
  <2> SUFFICES ASSUME NEW q \in Procs, NEW g \in handles'[q]
               PROVE  \E j \in DOMAIN files'[q] :
                         files'[q][j].FileIndex = g[1] /\ files'[q][j].Reference = g[2]
    BY DEF HandlesListed
  <2>3. CASE q = p
    BY <1>5, <2>1, <2>3
  <2>4. CASE q # p
    <3>1. g \in handles[q] /\ files'[q] = files[q]
      BY <1>4, <2>2, <2>4
    <3> QED BY <3>1 DEF HandlesListed
  <2> QED BY <2>3, <2>4
<1>12. /\ \A j \in DOMAIN f : f[j].Reference # n
       /\ \A m \in VNodes : Refers(p, m)' <=> Refers(p, m) /\ m # n
       /\ Refers(p, n)
  <2>1. \A j \in DOMAIN f : f[j].Reference # n
    <3> SUFFICES ASSUME NEW j \in DOMAIN f, f[j].Reference = n PROVE FALSE
      OBVIOUS
    <3>1. /\ old(j) \in DOMAIN files[p] /\ old(j) # i /\ i \in DOMAIN files[p]
          /\ files[p][old(j)].Reference = files[p][i].Reference
      BY <1>1, <1>3 DEF n
    <3> QED BY <3>1 DEF OwnedOnce
  <2>2. Refers(p, n)
    BY <1>1, <1>3 DEF Refers, n
  <2>3. ASSUME NEW m \in VNodes PROVE Refers(p, m)' <=> Refers(p, m) /\ m # n
    <3>1. ASSUME NEW k \in DOMAIN files[p], files[p][k].Reference # n
          PROVE  \E j \in DOMAIN f : f[j] = files[p][k]
      <4>1. k # i
        BY <3>1 DEF n
      <4> QED BY <1>3, <4>1
    <3> QED BY <1>3, <1>5, <2>1, <3>1 DEF Refers
  <2> QED BY <2>1, <2>2, <2>3
<1>13. \A q \in Procs, m \in VNodes :
          /\ q # p => (Refers(q, m)' <=> Refers(q, m)) /\ (Between(q, m)' <=> Between(q, m))
          /\ Between(p, m)' <=> m = n
          /\ ~Between(p, m)
          /\ Owns(q, m)' <=> Owns(q, m)
  <2>1. \A q \in Procs, m \in VNodes : q # p =>
           (Refers(q, m)' <=> Refers(q, m)) /\ (Between(q, m)' <=> Between(q, m))
    BY <1>4 DEF Refers, Between
  <2>2. \A m \in VNodes : (Between(p, m)' <=> m = n) /\ ~Between(p, m)
    BY <1>2 DEF Between
  <2> QED BY <1>12, <2>1, <2>2 DEF Owns
<1>14. FlagExact'
  BY <1>2, <1>13 DEF FlagExact
<1>15. OwnedOnce'
  <2>1. \A j, k \in DOMAIN f : f[j].Reference = f[k].Reference => j = k
    <3> SUFFICES ASSUME NEW j \in DOMAIN f, NEW k \in DOMAIN f,
                        f[j].Reference = f[k].Reference
                 PROVE  j = k
      OBVIOUS
    <3>1. old(j) = old(k)
      <4>1. /\ old(j) \in DOMAIN files[p] /\ old(k) \in DOMAIN files[p]
            /\ files[p][old(j)].Reference = files[p][old(k)].Reference
        BY <1>3
      <4> QED BY <4>1 DEF OwnedOnce
    <3>2. j \in Nat /\ k \in Nat /\ ~(j < k) /\ ~(k < j)
      <4>1. j \in Nat /\ k \in Nat /\ old(j) \in Nat
        BY <1>3
      <4>2. (j < k => old(j) < old(k)) /\ (k < j => old(k) < old(j))
        BY <1>3
      <4> QED BY <3>1, <4>1, <4>2
    <3> QED BY <3>2
  <2>2. \A q \in Procs : \A j, k \in DOMAIN files'[q] :
           files'[q][j].Reference = files'[q][k].Reference => j = k
    <3> SUFFICES ASSUME NEW q \in Procs,
                        NEW j \in DOMAIN files'[q], NEW k \in DOMAIN files'[q],
                        files'[q][j].Reference = files'[q][k].Reference
                 PROVE  j = k
      OBVIOUS
    <3>1. CASE q = p
      BY <1>5, <2>1, <3>1
    <3>2. CASE q # p
      BY <1>4, <3>2 DEF OwnedOnce
    <3> QED BY <3>1, <3>2
  <2>3. \A q, r \in Procs : \A m \in VNodes : Owns(q, m)' /\ Owns(r, m)' => q = r
    BY <1>13 DEF OwnedOnce
  <2>4. \A q \in Procs : \A m \in VNodes : ~(Refers(q, m)' /\ Between(q, m)')
    <3> SUFFICES ASSUME NEW q \in Procs, NEW m \in VNodes, Refers(q, m)', Between(q, m)'
                 PROVE  FALSE
      OBVIOUS
    <3>1. CASE q = p
      BY <1>12, <1>13, <3>1
    <3>2. CASE q # p
      <4>1. Refers(q, m) /\ Between(q, m)
        BY <1>13, <3>2
      <4> QED BY <4>1 DEF OwnedOnce
    <3> QED BY <3>1, <3>2
  <2>5. \A q \in Procs : pc'[q] = "flag" => node'[q] \notin opened'
    BY <1>2 DEF OwnedOnce
  <2> QED BY <2>2, <2>3, <2>4, <2>5 DEF OwnedOnce
<1> QED BY <1>6, <1>7, <1>8, <1>10, <1>11, <1>14, <1>15

\* The close that has unlinked a descriptor is the only owner of its VNode.
LEMMA ClearFlagCore ==
  ASSUME TInv, Core, NEW p \in Procs, ClearFlag(p)
  PROVE  Core'
<1> USE DEF TInv, TypeOK, Core
<1> DEFINE n == node[p]
<1>1. /\ pc[p] = "clear" /\ pc' = [pc EXCEPT ![p] = "run"]
      /\ opened' = opened \ {n}
      /\ UNCHANGED <<files, Current, node, count, handles>>
  BY DEF ClearFlag, Goto
<1>2. n \in VNodes /\ Between(p, n)
  BY <1>1 DEF Busy, Between
<1>3. OneOpens' /\ Counter'
  BY <1>1 DEF OneOpens, Counter, Opening
<1>4. \A q \in Procs : Counting(q)' <=> Counting(q)
  BY <1>1 DEF Counting
<1>5. NumbersBelow' /\ LastIsNew'
  BY <1>1, <1>4 DEF NumbersBelow, LastIsNew
<1>6. Ascend' /\ Distinct' /\ HandlesListed'
  BY <1>1 DEF Ascend, Distinct, HandlesListed
<1>7. \A q \in Procs, m \in VNodes :
         /\ Refers(q, m)' <=> Refers(q, m)
         /\ Between(q, m)' <=> Between(q, m) /\ q # p
  BY <1>1 DEF Refers, Between
<1>8. \A q \in Procs, m \in VNodes : Owns(q, m)' <=> Owns(q, m) /\ m # n
  <2>1. \A q \in Procs : Owns(q, n) => q = p
    BY <1>2 DEF OwnedOnce, Owns
  <2>2. ~Refers(p, n)
    BY <1>2 DEF OwnedOnce
  <2>3. \A m \in VNodes : Between(p, m) => m = n
    BY DEF Between
  <2> HIDE DEF n
  <2> QED BY <1>7, <2>1, <2>2, <2>3 DEF Owns
<1> HIDE DEF n
<1>9. FlagExact'
  BY <1>1, <1>8 DEF FlagExact
<1>10. OwnedOnce'
  <2>1. \A q, r \in Procs : \A m \in VNodes : Owns(q, m)' /\ Owns(r, m)' => q = r
    BY <1>8 DEF OwnedOnce
  <2>2. \A q \in Procs : \A m \in VNodes : ~(Refers(q, m)' /\ Between(q, m)')
    BY <1>7 DEF OwnedOnce
  <2>3. \A q \in Procs : pc'[q] = "flag" => node'[q] \notin opened'
    BY <1>1 DEF OwnedOnce
  <2>4. \A q \in Procs : \A i, j \in DOMAIN files'[q] :
           files'[q][i].Reference = files'[q][j].Reference => i = j
    BY <1>1 DEF OwnedOnce
  <2> QED BY <2>1, <2>2, <2>3, <2>4 DEF OwnedOnce
<1> QED BY <1>3, <1>5, <1>6, <1>9, <1>10

\* SchedulerExit clears the flags of what it closes, and of nothing else.
LEMMA ExitCore ==
  ASSUME TInv, Core, NEW p \in Procs, Exit(p)
  PROVE  Core'
<1> USE DEF TInv, TypeOK, Core
<1>1. /\ pc[p] = "run"
      /\ opened' = opened \ {d.Reference : d \in ToSet(files[p])}
      /\ files' = [files EXCEPT ![p] = <<>>]
      /\ handles' = [handles EXCEPT ![p] = {}]
      /\ UNCHANGED <<Current, pc, node, count>>
  BY DEF Exit
<1>2. files'[p] = <<>> /\ DOMAIN files'[p] = {} /\ handles'[p] = {}
  BY <1>1
<1>3. \A q \in Procs : q # p => files'[q] = files[q] /\ handles'[q] = handles[q]
  BY <1>1
<1>4. \A n \in VNodes : n \in opened' <=> n \in opened /\ ~Refers(p, n)
  BY <1>1 DEF Refers, ToSet
<1>5. OneOpens' /\ Counter'
  BY <1>1 DEF OneOpens, Counter
<1>6. \A q \in Procs : (Counting(q)' <=> Counting(q)) /\ ~Counting(p)
  BY <1>1 DEF Counting
<1>7. NumbersBelow' /\ LastIsNew'
  BY <1>1, <1>2, <1>3, <1>6 DEF NumbersBelow, LastIsNew
<1>8. Ascend' /\ Distinct' /\ HandlesListed'
  <2>1. Ascend'
    BY <1>2, <1>3 DEF Ascend
  <2>2. Distinct'
    <3> SUFFICES ASSUME NEW q \in Procs, NEW r \in Procs, q # r,
                        NEW i \in DOMAIN files'[q], NEW j \in DOMAIN files'[r]
                 PROVE  files'[q][i].FileIndex # files'[r][j].FileIndex
      BY DEF Distinct
    <3>1. files'[q] = files[q] /\ files'[r] = files[r]
      BY <1>2, <1>3
    <3> QED BY <3>1 DEF Distinct
  <2>3. HandlesListed'
    <3> SUFFICES ASSUME NEW q \in Procs, NEW h \in handles'[q]
                 PROVE  \E i \in DOMAIN files'[q] :
                           files'[q][i].FileIndex = h[1] /\ files'[q][i].Reference = h[2]
      BY DEF HandlesListed
    <3>1. h \in handles[q] /\ files'[q] = files[q]
      BY <1>2, <1>3
    <3> QED BY <3>1 DEF HandlesListed
  <2> QED BY <2>1, <2>2, <2>3
<1>9. \A q \in Procs, n \in VNodes :
         /\ Refers(q, n)' <=> Refers(q, n) /\ q # p
         /\ Between(q, n)' <=> Between(q, n)
         /\ ~Between(p, n)
         /\ Owns(q, n)' <=> Owns(q, n) /\ q # p
  BY <1>1, <1>2, <1>3 DEF Refers, Between, Owns
<1>10. FlagExact'
  <2> SUFFICES ASSUME NEW n \in VNodes
               PROVE  n \in opened' <=> \E q \in Procs : Owns(q, n)'
    BY DEF FlagExact
  <2>1. n \in opened <=> \E q \in Procs : Owns(q, n)
    BY DEF FlagExact
  <2>2. \A q \in Procs : Owns(q, n) /\ Owns(p, n) => q = p
    BY DEF OwnedOnce
  <2>3. Owns(p, n) <=> Refers(p, n)
    BY <1>9 DEF Owns
  <2> QED BY <1>4, <1>9, <2>1, <2>2, <2>3
<1>11. OwnedOnce'
  <2>1. \A q \in Procs : \A i, j \in DOMAIN files'[q] :
           files'[q][i].Reference = files'[q][j].Reference => i = j
    BY <1>2, <1>3 DEF OwnedOnce
  <2>2. \A q, r \in Procs : \A m \in VNodes : Owns(q, m)' /\ Owns(r, m)' => q = r
    BY <1>9 DEF OwnedOnce
  <2>3. \A q \in Procs : \A m \in VNodes : ~(Refers(q, m)' /\ Between(q, m)')
    BY <1>9 DEF OwnedOnce
  <2>4. \A q \in Procs : pc'[q] = "flag" => node'[q] \notin opened'
    BY <1>1 DEF OwnedOnce
  <2> QED BY <2>1, <2>2, <2>3, <2>4 DEF OwnedOnce
<1> QED BY <1>5, <1>7, <1>8, <1>10, <1>11

LEMMA StepIInv ==
  ASSUME NoFdWrap, IInv, [Next]_vars
  PROVE  IInv'
<1>1. TInv /\ TInv'
  BY TypeStep DEF IInv
<1> SUFFICES ASSUME ~overlap' PROVE Core'
  BY <1>1 DEF IInv
<1>2. overlap => overlap'
  BY DEF Next, vars, Step, Open, SetFlag, AppendEntry, LoadCount, StoreCount, Close,
         ClearFlag, Exit
<1>3. Core
  BY <1>2 DEF IInv
<1>4. CASE UNCHANGED vars
  BY <1>3, <1>4 DEF vars, Core, OneOpens, Counter, NumbersBelow, LastIsNew, Ascend, Distinct,
                    HandlesListed, FlagExact, OwnedOnce, Owns, Refers, Between, Counting
<1> SUFFICES ASSUME NEW p \in Procs, Step(p) PROVE Core'
  BY <1>4 DEF Next
<1> QED BY <1>1, <1>3, OpenCore, SetFlagCore, AppendEntryCore, LoadCountCore, StoreCountCore,
           CloseCore, ClearFlagCore, ExitCore DEF Step

----------------------------------------------------------------------------
LEMMA IInvHolds == ASSUME NoFdWrap PROVE Spec => []IInv
  BY InitIInv, StepIInv, PTL DEF Spec

\* As long as opens do not overlap, a VNode carries VFS_OPENED exactly while
\* somebody can still close it (open, close: vfd.c:58-92; core.c:131-137).
THEOREM FlagsCorrect == ASSUME NoFdWrap PROVE Spec => []FlagsSound
<1>1. ASSUME IInv PROVE FlagsSound
  <2>1. TypeOK
    BY <1>1 DEF IInv, TInv
  <2>2. ASSUME ~overlap, NEW n \in VNodes
        PROVE  n \in opened <=> References(n) # {}
                                 \/ \E p \in Procs : node[p] = n /\ pc[p] \in {"entry", "clear"}
    <3>1. n \in opened <=> \E p \in Procs : Refers(p, n) \/ Between(p, n)
      BY <1>1, <2>2 DEF IInv, Core, FlagExact, Owns
    <3>2. References(n) # {} <=> \E p \in Procs : Refers(p, n)
      <4>1. ASSUME NEW p \in Procs, NEW i \in DOMAIN files[p], files[p][i].Reference = n
            PROVE  <<p, i>> \in References(n)
        BY <4>1 DEF References
      <4>2. ASSUME NEW r \in References(n) PROVE \E p \in Procs : Refers(p, n)
        BY DEF References, Refers
      <4> QED BY <4>1, <4>2 DEF Refers
    <3> QED BY <3>1, <3>2 DEF Between
  <2> QED BY <2>1, <2>2 DEF FlagsSound, FlagMeansOpen
<1> QED BY IInvHolds, <1>1, PTL

\* The counter that all processes share gives every open file a number of
\* its own, and later opens higher ones (CreateEntry, vfd.c:36-54).
THEOREM NumbersCorrect == ASSUME NoFdWrap PROVE Spec => []NumbersAscend
<1>1. ASSUME IInv PROVE NumbersAscend
  <2> SUFFICES ASSUME ~overlap
               PROVE  /\ \A p, q \in Procs : \A i \in DOMAIN files[p], j \in DOMAIN files[q] :
                            <<p, i>> # <<q, j>> => files[p][i].FileIndex # files[q][j].FileIndex
                      /\ Ascend
    BY DEF NumbersAscend, Ascend
  <2>1. Ascend /\ Distinct /\ TypeOK
    BY <1>1 DEF IInv, TInv, Core
  <2>2. ASSUME NEW p \in Procs, NEW i \in DOMAIN files[p], NEW j \in DOMAIN files[p], i # j
        PROVE  files[p][i].FileIndex # files[p][j].FileIndex
    <3>1. /\ i \in Nat /\ j \in Nat
          /\ files[p][i].FileIndex \in Nat /\ files[p][j].FileIndex \in Nat
      BY <2>1, ListFacts
    <3>2. i < j => files[p][i].FileIndex < files[p][j].FileIndex
      BY <2>1 DEF Ascend
    <3>3. j < i => files[p][j].FileIndex < files[p][i].FileIndex
      BY <2>1 DEF Ascend
    <3> QED BY <2>2, <3>1, <3>2, <3>3
  <2> QED BY <2>1, <2>2 DEF Distinct
<1> QED BY IInvHolds, <1>1, PTL

\* What open returned finds the VNode that was opened until it is closed,
\* whatever is opened, closed or exits meanwhile (findb, vfd.c:9-32).
THEOREM HandlesCorrect == ASSUME NoFdWrap PROVE Spec => []HandlesResolve
<1>1. ASSUME IInv PROVE HandlesResolve
  <2> SUFFICES ASSUME ~overlap, NEW p \in Procs, NEW h \in handles[p]
               PROVE  Find(p, h[1]) # 0 /\ files[p][Find(p, h[1])].Reference = h[2]
    BY DEF HandlesResolve
  <2>1. Ascend /\ HandlesListed /\ TypeOK
    BY <1>1 DEF IInv, TInv, Core
  <2>2. PICK i \in DOMAIN files[p] : files[p][i].FileIndex = h[1] /\ files[p][i].Reference = h[2]
    BY <2>1 DEF HandlesListed
  <2>3. PICK j \in DOMAIN files[p] : j = Find(p, h[1]) /\ j # 0 /\ files[p][j].FileIndex = h[1]
    BY <2>1, <2>2, FindFacts, ListFacts
  <2>4. i \in Nat /\ j \in Nat /\ files[p][i].FileIndex \in Nat
    BY <2>1, ListFacts
  <2>5. i < j => files[p][i].FileIndex < files[p][j].FileIndex
    BY <2>1 DEF Ascend
  <2>6. j < i => files[p][j].FileIndex < files[p][i].FileIndex
    BY <2>1 DEF Ascend
  <2>7. i = j
    BY <2>2, <2>3, <2>4, <2>5, <2>6
  <2> QED BY <2>2, <2>3, <2>7
<1> QED BY IInvHolds, <1>1, PTL
=============================================================================
