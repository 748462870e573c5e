------------------------------ MODULE FATProofs -----------------------------
(***************************************************************************)
(* The properties of FAT, for tables, directories and files of any size,   *)
(* starting from any volumes that are in order, end within the first 4 GiB *)
(* of the drive and have directories in clusters below 2^16.               *)
(*                                                                         *)
(* IInv is inductive: the volume stays in order (InOrder, of the files     *)
(* written so far), the call in progress has a chain of its own that is    *)
(* linked and filled as far as `op' says (InProgress), and until a call    *)
(* fails what is marked as used is in some chain (AllUsed).                *)
(*                                                                         *)
(* ChainIn is a recursive function.  ChainFollowed gives its value without *)
(* induction: a sequence of clusters with the properties of a chain is cut *)
(* to the walk the recursion defines, and a first difference to any other  *)
(* walk cannot exist.  Afterwards the proofs speak of IsChain only.        *)
(* OrderFrame and OrderNewEntry carry InOrder over a step: either nothing  *)
(* of the files and directories is touched, or one entry is written.       *)
(***************************************************************************)
EXTENDS FAT, SequenceTheorems, FiniteSetTheorems, WellFoundedInduction, TLAPS

Table == [0..(ClusterCount + 1) -> Entries]

\* The clusters of the call in progress.
Pending == IF op.pc = "idle" THEN {} ELSE {op.first, op.cluster} \ {0}

Fields == {"pc", "dir", "name", "size", "id", "done", "first", "prev", "cluster"}
OpType ==
    /\ DOMAIN op = Fields
    /\ op.pc \in {"allocate", "mirror", "link", "linkMirror", "data", "entry"}
    /\ op.dir \in Dirs /\ op.name \in Names /\ op.size \in 1..MaxSize
    /\ op.done \in 0..op.size
    /\ {op.first, op.prev, op.cluster} \subseteq Clusters \cup {0}

Types ==
    /\ fat \in Table /\ mirror \in Table
    /\ DOMAIN data = Clusters
    /\ \A c \in Clusters : DOMAIN data[c] = Offsets
    /\ op = Idle \/ OpType
    /\ serial \in 0..MaxWrites
    /\ \A f \in written : f.dir \in Dirs /\ f.size \in Nat
    /\ torn \subseteq {FatSector(c) : c \in Clusters}
    /\ leaked \in BOOLEAN

\* The cluster just allocated is not yet linked to the others.
Apart == op.pc \in {"mirror", "link"} /\ op.prev # 0

\* What the call has written, in clusters and in sectors.
Written(chain) ==
    /\ \A k \in 1..op.done : SectorIn(data, SectorsOn(chain)[k]) = Text(op.id, k)
    /\ CASE op.pc \in {"allocate", "link"} -> op.done = Len(chain) * SectorsPerCluster
         [] op.pc = "mirror" -> op.done = IF Apart THEN Len(chain) * SectorsPerCluster ELSE 0
         [] op.pc = "linkMirror" -> op.done = (Len(chain) - 1) * SectorsPerCluster
         [] op.pc = "data" -> op.done \in (Len(chain) - 1) * SectorsPerCluster..
                                             Len(chain) * SectorsPerCluster - 1
         [] op.pc = "entry" -> op.done <= Len(chain) * SectorsPerCluster

InProgress ==
    op.pc # "idle" =>
        /\ IF op.pc = "entry" THEN op.done = op.size ELSE op.done < op.size
        /\ op.first = 0 => op.pc = "allocate" /\ op.prev = 0 /\ op.cluster = 0 /\ op.done = 0
        /\ op.pc = "link" => op.prev # 0
        /\ op.pc = "linkMirror" => op.prev # 0
        /\ op.first # 0 =>
              LET chain == Chain(op.first)
              IN  /\ op.cluster # 0 /\ fat[op.cluster] = EOC
                  /\ Written(chain)
                  /\ op.pc = "allocate" => op.prev = op.cluster
                  /\ op.pc = "mirror" /\ op.prev = 0 => op.cluster = op.first
                  /\ IF Apart THEN op.prev = Last(chain) /\ op.cluster \notin ToSet(chain)
                     ELSE op.cluster = Last(chain)

Heads == Dirs \cup Firsts(fat, data) \cup Pending

\* No cluster marked as used is outside the chains.
AllUsed == {c \in Clusters : fat[c] \notin {FREE, BAD}} = UNION {Visited(fat, c) : c \in Heads}

\* The copies agree, but for the sector being written and those torn before.
Copies ==
    \A c \in DOMAIN fat :
        \/ fat[c] = mirror[c]
        \/ FatSector(c) \in torn
        \/ op.pc = "mirror" /\ FatSector(c) = FatSector(op.cluster)
        \/ op.pc = "linkMirror" /\ FatSector(c) = FatSector(op.prev)

\* A location can name every cluster of a directory.
DirsLow == \A d \in Dirs : Visited(fat, d) \subseteq 0..(LocMod - 1)

IInv ==
    /\ Types
    /\ InOrder(fat, data, written, Pending)
    /\ InProgress
    /\ ~leaked => AllUsed
    /\ Copies
    /\ DirsLow

----------------------------------------------------------------------------
(* Chains.                                                                 *)

\* Min of a non-empty set of naturals is in it, and below the others.
LEMMA MinOfNats ==
  ASSUME NEW I \in SUBSET Nat, I # {}
  PROVE  Min(I) \in I /\ \A y \in I : Min(I) <= y
<1> DEFINE R == OpToRel(<, Nat)
<1>1. PICK x \in I : \A y \in I : ~(<<y, x>> \in R)
  BY NatLessThanWellFounded, WFMin
<1>2. \A y, z \in Nat : y < z => <<y, z>> \in R
  BY DEF OpToRel
<1> HIDE DEF R
<1>3. \A y \in I : ~(y < x)
  BY <1>1, <1>2
<1>4. \A y \in I : x <= y
  BY <1>3
<1> QED BY <1>4 DEF Min

LEMMA Numbers ==
  /\ ClusterCount \in Nat \ {0} /\ SectorsPerCluster \in Nat \ {0}
  /\ EntriesPerFatSector \in Nat \ {0} /\ EntriesPerSector \in Nat \ {0}
  /\ Clusters \subseteq Nat \ {0, 1} /\ Clusters \subseteq 0..(ClusterCount + 1)
  /\ Clusters \subseteq Entries /\ {FREE, BAD, EOC} \subseteq Entries
  /\ EOC \notin 0..(ClusterCount + 1) /\ BAD \notin 0..(ClusterCount + 1)
  /\ EOC # BAD /\ FREE \notin Clusters /\ FREE # EOC /\ FREE # BAD
  /\ EOC \notin Clusters /\ BAD \notin Clusters
BY SizeAssumption DEF Clusters, Entries, FREE, BAD, EOC

LEMMA ChainParts ==
  ASSUME NEW t, NEW p, NEW c, IsChain(t, p, c)
  PROVE  /\ p \in Seq(Clusters) /\ Len(p) \in Nat \ {0} /\ DOMAIN p = 1..Len(p)
         /\ \A i \in 1..Len(p) : p[i] \in Clusters
         /\ \A i, j \in 1..Len(p) : p[i] = p[j] => i = j
         /\ p[1] = c /\ c \in Clusters
         /\ \A i \in 1..(Len(p) - 1) : t[p[i]] = p[i + 1]
         /\ t[p[Len(p)]] = EOC
         /\ Last(p) = p[Len(p)]
<1>1. p \in Seq(Clusters) /\ p # <<>>  BY DEF IsChain
<1>2. Len(p) \in Nat \ {0} /\ DOMAIN p = 1..Len(p)
  BY <1>1, LenProperties, EmptySeq
<1>3. \A i \in 1..Len(p) : p[i] \in Clusters  BY <1>1, ElementOfSeq
<1>4. p[1] \in Clusters  BY <1>2, <1>3
<1>5. \A i, j \in 1..Len(p) : p[i] = p[j] => i = j
  BY <1>2 DEF IsChain, IsInjective
<1> QED  BY <1>1, <1>2, <1>3, <1>4, <1>5 DEF IsChain, Last

\* A chain visits no cluster twice, so it is no longer than the disk.
LEMMA ChainShort ==
  ASSUME NEW t, NEW p, NEW c, IsChain(t, p, c)
  PROVE  Len(p) <= ClusterCount
<1>1. /\ Len(p) \in Nat \ {0} /\ DOMAIN p = 1..Len(p)
      /\ p \in Seq(Clusters)
      /\ \A i, j \in 1..Len(p) : p[i] = p[j] => i = j
  BY ChainParts
<1>2. p \in [1..Len(p) -> Clusters]  BY <1>1, LenProperties
<1>3. IsFiniteSet(1..Len(p)) /\ Cardinality(1..Len(p)) = Len(p)
  BY <1>1, FS_Interval
<1>4. IsFiniteSet(Clusters) /\ Cardinality(Clusters) = ClusterCount
  <2>1. ClusterCount \in Nat \ {0}  BY Numbers
  <2> QED  BY <2>1, FS_Interval DEF Clusters
<1>5. ~(Cardinality(Clusters) < Cardinality(1..Len(p)))
  <2> SUFFICES ASSUME Cardinality(Clusters) < Cardinality(1..Len(p)) PROVE FALSE
    OBVIOUS
  <2>1. \E x, y \in 1..Len(p) : x # y /\ p[x] = p[y]
    BY <1>2, <1>3, <1>4, FS_PigeonHole
  <2> QED  BY <1>1, <2>1
<1>6. ClusterCount \in Nat  BY Numbers
<1> QED  BY <1>1, <1>3, <1>4, <1>5, <1>6

(* Following the table from c on gives the chain and nothing else.         *)
LEMMA ChainFollowed ==
  ASSUME NEW t \in Table, NEW p, NEW c, IsChain(t, p, c)
  PROVE  ChainIn(t, c) = p
<1> DEFINE n == Len(p)
           Cut(i) == SubSeq(p, 1, IF i < n THEN i + 1 ELSE n)
           WalkOf(w) == w = [i \in 0..ClusterCount |->
                               IF i = 0 THEN <<c>>
                               ELSE LET before == w[i - 1]
                                        next   == t[Last(before)]
                                    IN  IF next \in DOMAIN t
                                        THEN Append(before, next) ELSE before]
           W == [i \in 0..ClusterCount |-> Cut(i)]
<1>1. /\ p \in Seq(Clusters) /\ n \in Nat \ {0}
      /\ \A i \in 1..n : p[i] \in Clusters
      /\ p[1] = c /\ \A i \in 1..(n - 1) : t[p[i]] = p[i + 1]
      /\ t[p[n]] = EOC
  BY ChainParts
<1>2. n <= ClusterCount /\ ClusterCount \in Nat  BY ChainShort, Numbers
<1>3. DOMAIN t = 0..(ClusterCount + 1)  BY DEF Table
<1>4. \A m \in 1..n : /\ SubSeq(p, 1, m) \in Seq(Clusters)
                      /\ Len(SubSeq(p, 1, m)) = m
                      /\ \A i \in 1..m : SubSeq(p, 1, m)[i] = p[i]
  <2> SUFFICES ASSUME NEW m \in 1..n
               PROVE  /\ SubSeq(p, 1, m) \in Seq(Clusters)
                      /\ Len(SubSeq(p, 1, m)) = m
                      /\ \A i \in 1..m : SubSeq(p, 1, m)[i] = p[i]
    OBVIOUS
  <2>1. m \in Nat /\ 1 <= m /\ \A i \in 1..m : p[i] \in Clusters  BY <1>1
  <2>2. /\ SubSeq(p, 1, m) \in Seq(Clusters)
        /\ Len(SubSeq(p, 1, m)) = IF 1 <= m THEN m - 1 + 1 ELSE 0
        /\ \A i \in 1..(m - 1 + 1) : SubSeq(p, 1, m)[i] = p[1 + i - 1]
    BY <2>1, SubSeqProperties
  <2> QED  BY <2>1, <2>2
<1>5. Cut(0) = <<c>>
  <2>1. Cut(0) = SubSeq(p, 1, 1)
    <3>1. (IF 0 < n THEN 0 + 1 ELSE n) = 1  BY <1>1
    <3> QED  BY <3>1
  <2>2. <<c>> \in Seq(Clusters) /\ Len(<<c>>) = 1 /\ <<c>>[1] = c
    BY <1>1
  <2>3. 1 \in 1..n  BY <1>1
  <2>4. SubSeq(p, 1, 1) \in Seq(Clusters) /\ Len(SubSeq(p, 1, 1)) = 1
        /\ SubSeq(p, 1, 1)[1] = c
    BY <1>1, <1>4, <2>3
  <2>5. SubSeq(p, 1, 1) = <<c>>
    <3>1. \A i \in 1..Len(SubSeq(p, 1, 1)) : SubSeq(p, 1, 1)[i] = <<c>>[i]
      BY <2>2, <2>4
    <3>2. Len(SubSeq(p, 1, 1)) = Len(<<c>>)  BY <2>2, <2>4
    <3> HIDE DEF Cut
    <3> QED  BY <2>2, <2>4, <3>1, <3>2, SeqEqual
  <2> QED  BY <2>1, <2>5
<1>6. \A i \in 1..ClusterCount :
        Cut(i) = IF t[Last(Cut(i - 1))] \in DOMAIN t
                 THEN Append(Cut(i - 1), t[Last(Cut(i - 1))]) ELSE Cut(i - 1)
  <2> SUFFICES ASSUME NEW i \in 1..ClusterCount
               PROVE  Cut(i) = IF t[Last(Cut(i - 1))] \in DOMAIN t
                               THEN Append(Cut(i - 1), t[Last(Cut(i - 1))])
                               ELSE Cut(i - 1)
    OBVIOUS
  <2>1. CASE i < n
    <3>1. Cut(i - 1) = SubSeq(p, 1, i) /\ Cut(i) = SubSeq(p, 1, i + 1)
      <4>1. (IF i - 1 < n THEN i - 1 + 1 ELSE n) = i  BY <1>1, <1>2, <2>1
      <4>2. (IF i < n THEN i + 1 ELSE n) = i + 1  BY <2>1
      <4> QED  BY <4>1, <4>2
    <3>2. i \in 1..n /\ i + 1 \in 1..n /\ i \in 1..(n - 1)  BY <1>1, <1>2, <2>1
    <3>3. Last(SubSeq(p, 1, i)) = p[i]  BY <1>4, <3>2 DEF Last
    <3>4. t[p[i]] = p[i + 1] /\ p[i + 1] \in DOMAIN t /\ p[i + 1] \in Clusters
      BY <1>1, <1>3, <3>2, Numbers
    <3>5. Append(SubSeq(p, 1, i), p[i + 1]) = SubSeq(p, 1, i + 1)
      <4>1. SubSeq(p, 1, i + 1) = SubSeq(p, 1, i + 1 - 1) \o <<p[i + 1]>>
        BY <1>1, <3>2, SubSeqRecursiveSecond
      <4>2. i + 1 - 1 = i  OBVIOUS
      <4>3. Append(SubSeq(p, 1, i), p[i + 1]) = SubSeq(p, 1, i) \o <<p[i + 1]>>
        BY <1>4, <3>2, <3>4, AppendIsConcat
      <4> QED  BY <4>1, <4>2, <4>3
    <3> QED  BY <3>1, <3>3, <3>4, <3>5
  <2>2. CASE ~(i < n)
    <3>1. Cut(i - 1) = p /\ Cut(i) = p
      <4>1. (IF i - 1 < n THEN i - 1 + 1 ELSE n) = n  BY <1>1, <1>2, <2>2
      <4>2. (IF i < n THEN i + 1 ELSE n) = n  BY <2>2
      <4>3. SubSeq(p, 1, n) = p  BY <1>1, SubSeqFull
      <4> QED  BY <4>1, <4>2, <4>3
    <3>2. t[Last(p)] \notin DOMAIN t  BY <1>1, <1>3, Numbers DEF Last
    <3> QED  BY <3>1, <3>2
  <2> QED  BY <2>1, <2>2
<1> HIDE DEF Cut
<1>7. WalkOf(W)
  <2>1. \A i \in 0..ClusterCount :
          Cut(i) = IF i = 0 THEN <<c>>
                   ELSE IF t[Last(W[i - 1])] \in DOMAIN t
                        THEN Append(W[i - 1], t[Last(W[i - 1])]) ELSE W[i - 1]
    <3> SUFFICES ASSUME NEW i \in 0..ClusterCount, i # 0
                 PROVE  Cut(i) = IF t[Last(W[i - 1])] \in DOMAIN t
                        THEN Append(W[i - 1], t[Last(W[i - 1])]) ELSE W[i - 1]
      BY <1>5
    <3>1. i - 1 \in 0..ClusterCount /\ i \in 1..ClusterCount  BY <1>2
    <3>2. W[i - 1] = Cut(i - 1)  BY <3>1
    <3> QED  BY <1>6, <3>1, <3>2
  <2> QED  BY <2>1
<1>8. ASSUME NEW w, WalkOf(w)
      PROVE  w[ClusterCount] = Cut(ClusterCount)
  <2> DEFINE Wrong == {i \in 0..ClusterCount : w[i] # Cut(i)}
  <2>1. \A i \in 0..ClusterCount :
          w[i] = IF i = 0 THEN <<c>>
                 ELSE IF t[Last(w[i - 1])] \in DOMAIN t
                      THEN Append(w[i - 1], t[Last(w[i - 1])]) ELSE w[i - 1]
    BY <1>8
  <2>2. Wrong = {}
    <3> SUFFICES ASSUME Wrong # {} PROVE FALSE
      OBVIOUS
    <3>1. Wrong \subseteq Nat  OBVIOUS
    <3>2. PICK i \in Wrong : \A j \in Wrong : i <= j
      BY <3>1, MinOfNats
    <3>3. i \in 0..ClusterCount /\ w[i] # Cut(i)  OBVIOUS
    <3>4. i # 0  BY <1>5, <2>1, <3>3
    <3>5. i - 1 \in 0..ClusterCount /\ ~(i <= i - 1) /\ i \in 1..ClusterCount
      <4> HIDE DEF Wrong
      <4> QED  BY <1>2, <3>3, <3>4
    <3>6. w[i - 1] = Cut(i - 1)  BY <3>2, <3>5
    <3> QED  BY <1>6, <2>1, <3>3, <3>4, <3>5, <3>6
  <2>3. ClusterCount \in 0..ClusterCount  BY <1>2
  <2> QED  BY <2>2, <2>3
<1>9. ChainIn(t, c) = (CHOOSE w : WalkOf(w))[ClusterCount]
  BY DEF ChainIn
<1>10. WalkOf(CHOOSE w : WalkOf(w))  
  <2> HIDE DEF WalkOf
  <2> QED  BY <1>7
<1>11. ChainIn(t, c) = Cut(ClusterCount)
  <2> HIDE DEF WalkOf
  <2> QED BY <1>8, <1>9, <1>10
<1>12. Cut(ClusterCount) = p
  <2>1. (IF ClusterCount < n THEN ClusterCount + 1 ELSE n) = n  BY <1>1, <1>2
  <2>2. SubSeq(p, 1, n) = p  BY <1>1, SubSeqFull
  <2> QED  BY <2>1, <2>2 DEF Cut
<1> QED  BY <1>11, <1>12

LEMMA ChainKept ==
  ASSUME NEW t, NEW u \in Table, NEW p, NEW c, IsChain(t, p, c),
         \A x \in ToSet(p) : u[x] = t[x]
  PROVE  IsChain(u, p, c) /\ ChainIn(u, c) = p
<1>1. /\ Len(p) \in Nat \ {0} /\ DOMAIN p = 1..Len(p)
      /\ \A i \in 1..(Len(p) - 1) : t[p[i]] = p[i + 1]
      /\ t[p[Len(p)]] = EOC /\ Last(p) = p[Len(p)]
  BY ChainParts
<1>2. \A i \in 1..Len(p) : u[p[i]] = t[p[i]]  BY <1>1 DEF ToSet
<1>3. \A i \in 1..(Len(p) - 1) : u[p[i]] = p[i + 1]  BY <1>1, <1>2
<1>4. u[Last(p)] = EOC  BY <1>1, <1>2
<1>5. IsChain(u, p, c)  BY <1>3, <1>4 DEF IsChain
<1> QED  BY <1>5, ChainFollowed

LEMMA ChainAlone ==
  ASSUME NEW t \in Table, NEW c \in Clusters, t[c] = EOC
  PROVE  IsChain(t, <<c>>, c) /\ ChainIn(t, c) = <<c>>
<1>1. <<c>> \in Seq(Clusters) /\ <<c>> # <<>> /\ Len(<<c>>) = 1 /\ <<c>>[1] = c
      /\ DOMAIN <<c>> = 1..1
  OBVIOUS
<1>2. IsInjective(<<c>>)  BY <1>1 DEF IsInjective
<1>3. \A i \in 1..(Len(<<c>>) - 1) : t[<<c>>[i]] = <<c>>[i + 1]  BY <1>1
<1>4. t[Last(<<c>>)] = EOC  BY <1>1 DEF Last
<1>5. IsChain(t, <<c>>, c)  BY <1>1, <1>2, <1>3, <1>4 DEF IsChain
<1> QED  BY <1>5, ChainFollowed

LEMMA InChain ==
  ASSUME NEW t, NEW p, NEW c, IsChain(t, p, c)
  PROVE  /\ ToSet(p) = {p[i] : i \in 1..Len(p)}
         /\ c \in ToSet(p) /\ Last(p) \in ToSet(p)
         /\ ToSet(p) \subseteq Clusters
         /\ \A x \in ToSet(p) : t[x] \in Clusters \cup {EOC}
<1>1. /\ Len(p) \in Nat \ {0} /\ DOMAIN p = 1..Len(p)
      /\ \A i \in 1..Len(p) : p[i] \in Clusters
      /\ \A i \in 1..(Len(p) - 1) : t[p[i]] = p[i + 1]
      /\ t[p[Len(p)]] = EOC /\ Last(p) = p[Len(p)] /\ p[1] = c
  BY ChainParts
<1>2. ToSet(p) = {p[i] : i \in 1..Len(p)}  BY <1>1 DEF ToSet
<1>3. \A i \in 1..Len(p) : t[p[i]] \in Clusters \cup {EOC}
  <2> SUFFICES ASSUME NEW i \in 1..Len(p) PROVE t[p[i]] \in Clusters \cup {EOC}
    OBVIOUS
  <2>1. CASE i = Len(p)  BY <1>1, <2>1
  <2>2. CASE i # Len(p)
    <3>0. Len(p) \in Nat /\ i \in Nat /\ i <= Len(p) /\ i >= 1  BY <1>1
    <3>1. i \in 1..(Len(p) - 1) /\ i + 1 \in 1..Len(p)  BY <2>2, <3>0
    <3> QED  BY <1>1, <3>1
  <2> QED  BY <2>1, <2>2
<1>4. 1 \in 1..Len(p) /\ Len(p) \in 1..Len(p)  BY <1>1
<1> QED  BY <1>1, <1>2, <1>3, <1>4

\* The table u is t with the cluster x linked to the end of the chain p.
Linked(t, p, c, x, u) ==
    /\ t \in Table /\ u \in Table /\ IsChain(t, p, c)
    /\ x \in Clusters /\ x \notin ToSet(p) /\ t[x] = EOC
    /\ u[Last(p)] = x /\ \A y \in Clusters \ {Last(p)} : u[y] = t[y]

LEMMA ChainLinked ==
  ASSUME NEW t, NEW p, NEW c, NEW x, NEW u, Linked(t, p, c, x, u)
  PROVE  IsChain(u, Append(p, x), c) /\ ChainIn(u, c) = Append(p, x)
<1> DEFINE n == Len(p)
           q == Append(p, x)
<1>0. /\ t \in Table /\ u \in Table /\ IsChain(t, p, c)
      /\ x \in Clusters /\ x \notin ToSet(p) /\ t[x] = EOC
      /\ u[Last(p)] = x /\ \A y \in Clusters \ {Last(p)} : u[y] = t[y]
  BY DEF Linked
<1>1. /\ p \in Seq(Clusters) /\ n \in Nat \ {0}
      /\ \A i \in 1..n : p[i] \in Clusters
      /\ \A i, j \in 1..n : p[i] = p[j] => i = j
      /\ \A i \in 1..(n - 1) : t[p[i]] = p[i + 1]
      /\ t[p[n]] = EOC /\ Last(p) = p[n] /\ p[1] = c
  BY <1>0, ChainParts
<1>2. /\ q \in Seq(Clusters) /\ q # <<>> /\ Len(q) = n + 1
      /\ \A i \in 1..n : q[i] = p[i]
      /\ q[n + 1] = x
  BY <1>0, <1>1, AppendProperties
<1>3. DOMAIN q = 1..(n + 1)  BY <1>2, LenProperties
<1>4. u \in Table /\ u[p[n]] = x /\ \A y \in Clusters \ {p[n]} : u[y] = t[y]
  BY <1>0, <1>1
<1>5. \A i \in 1..n : p[i] # x  BY <1>0, InChain
<1>6. q[1] = c
  <2>1. 1 \in 1..n  BY <1>1
  <2> QED  BY <1>1, <1>2, <2>1
<1>7. IsInjective(q)
  <2> SUFFICES ASSUME NEW i \in 1..(n + 1), NEW j \in 1..(n + 1), q[i] = q[j]
               PROVE  i = j
    BY <1>3 DEF IsInjective
  <2>1. CASE i = n + 1 \/ j = n + 1
    <3>1. i # n + 1 => i \in 1..n  BY <1>1
    <3>2. j # n + 1 => j \in 1..n  BY <1>1
    <3> QED  BY <1>2, <1>5, <2>1, <3>1, <3>2
  <2>2. CASE i # n + 1 /\ j # n + 1
    <3>1. i \in 1..n /\ j \in 1..n  BY <1>1, <2>2
    <3> QED  BY <1>1, <1>2, <3>1
  <2> QED  BY <2>1, <2>2
<1>8. \A i \in 1..(Len(q) - 1) : u[q[i]] = q[i + 1]
  <2> SUFFICES ASSUME NEW i \in 1..n PROVE u[q[i]] = q[i + 1]
    BY <1>1, <1>2
  <2>1. CASE i = n  BY <1>1, <1>2, <1>4, <2>1
  <2>2. CASE i # n
    <3>1. i \in 1..(n - 1) /\ i + 1 \in 1..n /\ n \in 1..n  BY <1>1, <2>2
    <3>2. p[i] # p[n]  BY <1>1, <2>2, <3>1
    <3> QED  BY <1>1, <1>2, <1>4, <3>1, <3>2
  <2> QED  BY <2>1, <2>2
<1>9. u[Last(q)] = EOC
  <2>1. Last(q) = x  BY <1>2 DEF Last
  <2>2. n \in 1..n  BY <1>1
  <2> QED  BY <1>0, <1>4, <1>5, <2>1, <2>2
<1>10. IsChain(u, q, c)  BY <1>2, <1>6, <1>7, <1>8, <1>9 DEF IsChain
<1> QED  BY <1>4, <1>10, ChainFollowed

----------------------------------------------------------------------------
(* Sectors and slots.                                                      *)

LEMMA LenOfFunction ==
  ASSUME NEW S, NEW n \in Nat, NEW f \in [1..n -> S]
  PROVE  f \in Seq(S) /\ Len(f) = n
<1>1. f \in Seq(S)  BY SeqDef
<1>2. Len(f) \in Nat /\ DOMAIN f = 1..Len(f)  BY <1>1, LenProperties
<1>3. 1..n = 1..Len(f)  BY <1>2
<1> QED  BY <1>1, <1>2, <1>3

\* Place k of n groups of d.
LEMMA Grouped ==
  ASSUME NEW n \in Nat, NEW d \in Nat \ {0}, NEW k \in 1..(n * d)
  PROVE  /\ (k - 1) \div d \in 0..(n - 1) /\ ((k - 1) \div d) + 1 \in 1..n
         /\ (k - 1) % d \in 0..(d - 1)
         /\ k = ((k - 1) \div d) * d + ((k - 1) % d) + 1
<1> DEFINE m == k - 1
           q == m \div d
<1>1. n * d \in Nat /\ k \in Nat /\ m \in Nat /\ m < n * d  OBVIOUS
<1>2. q \in Nat /\ m % d \in 0..(d - 1) /\ m = q * d + (m % d)
  BY <1>1
<1>3. q < n
  <2> SUFFICES ASSUME n <= q PROVE FALSE
    BY <1>2
  <2>1. PICK e \in Nat : q = n + e
    <3>1. q - n \in Nat /\ q = n + (q - n)  BY <1>2
    <3> QED  BY <3>1
  <2>2. q * d = n * d + e * d /\ e * d \in Nat  BY <2>1
  <2> QED  BY <1>1, <1>2, <2>2
<1> QED  BY <1>1, <1>2, <1>3

LEMMA DivFacts ==
  ASSUME NEW d \in Nat \ {0}, NEW q \in Nat, NEW r \in 0..(d - 1)
  PROVE  (q * d + r) \div d = q /\ (q * d + r) % d = r
<1> DEFINE n == q * d + r
           p == n \div d
<1>1. n \in Nat  OBVIOUS
<1>2. p \in Nat /\ n % d \in 0..(d - 1) /\ n = p * d + (n % d)
  BY <1>1
<1>3. ~(p < q)
  <2> SUFFICES ASSUME p < q PROVE FALSE
    OBVIOUS
  <2>1. PICK e \in Nat : q = p + 1 + e
    <3>1. q - p - 1 \in Nat /\ q = p + 1 + (q - p - 1)  BY <1>2
    <3> QED  BY <3>1
  <2>2. q * d = p * d + d + e * d /\ e * d \in Nat  BY <1>2, <2>1
  <2> QED  BY <1>2, <2>2
<1>4. ~(q < p)
  <2> SUFFICES ASSUME q < p PROVE FALSE
    OBVIOUS
  <2>1. PICK e \in Nat : p = q + 1 + e
    <3>1. p - q - 1 \in Nat /\ p = q + 1 + (p - q - 1)  BY <1>2
    <3> QED  BY <3>1
  <2>2. p * d = q * d + d + e * d /\ e * d \in Nat  BY <1>2, <2>1
  <2> QED  BY <1>2, <2>2
<1>5. p = q  BY <1>2, <1>3, <1>4
<1>6. n % d = r  BY <1>2, <1>5
<1> QED  BY <1>5, <1>6

(* No byte offset of the volume wraps: an access goes to its own sector.   *)
LEMMA AtIs ==
  ASSUME NEW s, s[1] \in Clusters, s[2] \in Offsets
  PROVE  At(s)[1] = s[1] /\ At(s)[2] = s[2]
<1> DEFINE S == SectorsPerCluster
           q == s[1] - 2
           r == s[2]
           n == q * S + r
<1>1. /\ S \in Nat \ {0} /\ q \in Nat /\ r \in 0..(S - 1) /\ r \in Nat /\ n \in Nat
      /\ ClusterCount - 1 - q \in Nat /\ s[1] = q + 2
  BY SizeAssumption DEF Clusters, Offsets
<1>2. /\ FirstData \in Nat /\ SectorMod \in Nat /\ ClusterCount * S \in Nat
      /\ FirstData + ClusterCount * S <= SectorMod
  BY SizeAssumption, DriveAssumption
<1>3. n < ClusterCount * S
  <2> HIDE DEF S, q, r
  <2>1. PICK e \in Nat : ClusterCount = q + 1 + e
    <3>1. ClusterCount = q + 1 + (ClusterCount - 1 - q)  BY <1>1, SizeAssumption
    <3> QED  BY <1>1, <3>1
  <2>2. ClusterCount * S = q * S + S + e * S /\ e * S \in Nat /\ q * S \in Nat
    BY <1>1, <2>1
  <2> QED  BY <1>1, <2>2
<1>4. OnDrive(s) = FirstData + n
  <2>1. OnDrive(s) = (FirstData + n) % SectorMod
    <3>1. q * S \in Int /\ r \in Int  BY <1>1
    <3>2. FirstData + q * S + r = FirstData + n  BY <1>2, <3>1
    <3> QED  BY <3>2 DEF OnDrive
  <2> HIDE DEF n, S
  <2>2. FirstData + n \in 0..(SectorMod - 1)  BY <1>1, <1>2, <1>3
  <2> QED  BY <1>2, <2>1, <2>2
<1>5. n \div S = q /\ n % S = r
  <2> HIDE DEF S, q, r
  <2> QED  BY <1>1, DivFacts
<1>6. OnDrive(s) - FirstData = n  BY <1>1, <1>2, <1>4
<1>7. At(s) = <<q + 2, r>>  BY <1>5, <1>6 DEF At
<1> QED  BY <1>1, <1>7

LEMMA SectorInIs ==
  ASSUME NEW b, NEW s, s[1] \in Clusters, s[2] \in Offsets
  PROVE  SectorIn(b, s) = b[s[1]][s[2]]
BY AtIs DEF SectorIn

LEMMA SlotInIs ==
  ASSUME NEW b, NEW l, l[1] \in Clusters, l[2] \in Offsets
  PROVE  SlotIn(b, l) = b[l[1]][l[2]][l[3]]
BY SectorInIs DEF SlotIn

LEMMA SectorsFacts ==
  ASSUME NEW p \in Seq(Clusters)
  PROVE  /\ SectorsOn(p) \in Seq(Clusters \X Offsets)
         /\ Len(SectorsOn(p)) = Len(p) * SectorsPerCluster
         /\ DOMAIN SectorsOn(p) = 1..(Len(p) * SectorsPerCluster)
         /\ \A k \in 1..(Len(p) * SectorsPerCluster) :
              /\ SectorsOn(p)[k] = <<p[((k - 1) \div SectorsPerCluster) + 1],
                                     (k - 1) % SectorsPerCluster>>
              /\ ((k - 1) \div SectorsPerCluster) + 1 \in 1..Len(p)
              /\ p[((k - 1) \div SectorsPerCluster) + 1] \in ToSet(p)
              /\ (k - 1) % SectorsPerCluster \in Offsets
<1> DEFINE S == SectorsPerCluster
           m == Len(p) * S
<1>1. Len(p) \in Nat /\ S \in Nat \ {0} /\ m \in Nat /\ DOMAIN p = 1..Len(p)
  BY Numbers, LenProperties
<1>2. \A k \in 1..m : /\ ((k - 1) \div S) + 1 \in 1..Len(p)
                      /\ (k - 1) % S \in Offsets
  BY <1>1, Grouped DEF Offsets
<1>3. \A k \in 1..m : /\ p[((k - 1) \div S) + 1] \in ToSet(p)
                      /\ p[((k - 1) \div S) + 1] \in Clusters
  BY <1>1, <1>2, ElementOfSeq DEF ToSet
<1>4. SectorsOn(p) = [k \in 1..m |-> <<p[((k - 1) \div S) + 1], (k - 1) % S>>]
  BY DEF SectorsOn
<1> HIDE DEF m, S
<1>5. \A k \in 1..m : SectorsOn(p)[k] = <<p[((k - 1) \div S) + 1], (k - 1) % S>>
  BY <1>4
<1>6. SectorsOn(p) \in [1..m -> Clusters \X Offsets]
  BY <1>2, <1>3, <1>4
<1>7. SectorsOn(p) \in Seq(Clusters \X Offsets) /\ Len(SectorsOn(p)) = m
  BY <1>1, <1>6, LenOfFunction
<1> QED  BY <1>2, <1>3, <1>4, <1>5, <1>7 DEF m, S

LEMMA SectorsDiffer ==
  ASSUME NEW p \in Seq(Clusters), IsInjective(p),
         NEW j \in 1..(Len(p) * SectorsPerCluster),
         NEW k \in 1..(Len(p) * SectorsPerCluster),
         SectorsOn(p)[j] = SectorsOn(p)[k]
  PROVE  j = k
<1> DEFINE S == SectorsPerCluster
           a(x) == (x - 1) \div S
           b(x) == (x - 1) % S
<1>1. SectorsOn(p)[j] = <<p[a(j) + 1], b(j)>> /\ SectorsOn(p)[k] = <<p[a(k) + 1], b(k)>>
  BY SectorsFacts
<1>2. Len(p) \in Nat /\ S \in Nat \ {0} /\ DOMAIN p = 1..Len(p)
  BY Numbers, LenProperties
<1>3. /\ a(j) + 1 \in 1..Len(p) /\ a(k) + 1 \in 1..Len(p)
      /\ a(j) \in 0..(Len(p) - 1) /\ a(k) \in 0..(Len(p) - 1)
      /\ j = a(j) * S + b(j) + 1 /\ k = a(k) * S + b(k) + 1
  BY <1>2, Grouped
<1> HIDE DEF a, b
<1>4. p[a(j) + 1] = p[a(k) + 1] /\ b(j) = b(k)
  <2>1. <<p[a(j) + 1], b(j)>> = <<p[a(k) + 1], b(k)>>  BY <1>1, Zenon
  <2>2. \A u, v, x, y : <<u, v>> = <<x, y>> => u = x /\ v = y  OBVIOUS
  <2> QED  BY <2>1, <2>2, Zenon
<1>5. a(j) + 1 = a(k) + 1  BY <1>2, <1>3, <1>4 DEF IsInjective
<1>6. a(j) = a(k)  BY <1>3, <1>5
<1> QED  BY <1>3, <1>4, <1>6

\* A chain that grows keeps its sectors.
LEMMA SectorsAppend ==
  ASSUME NEW p \in Seq(Clusters), NEW x \in Clusters,
         NEW k \in 1..(Len(p) * SectorsPerCluster)
  PROVE  SectorsOn(Append(p, x))[k] = SectorsOn(p)[k]
<1> DEFINE S == SectorsPerCluster
           i == ((k - 1) \div S) + 1
<1>1. Len(p) \in Nat /\ S \in Nat \ {0}
  BY Numbers, LenProperties
<1>2. /\ Append(p, x) \in Seq(Clusters) /\ Len(Append(p, x)) = Len(p) + 1
      /\ \A j \in 1..Len(p) : Append(p, x)[j] = p[j]
  BY AppendProperties
<1>3. SectorsOn(p)[k] = <<p[i], (k - 1) % S>> /\ i \in 1..Len(p)
  BY SectorsFacts
<1>4. k \in 1..((Len(p) + 1) * S)
  <2>1. (Len(p) + 1) * S = Len(p) * S + S /\ Len(p) * S \in Nat  BY <1>1
  <2> QED  BY <1>1, <2>1
<1>5. SectorsOn(Append(p, x))[k] = <<Append(p, x)[i], (k - 1) % S>>
  BY <1>2, <1>4, SectorsFacts
<1> QED  BY <1>2, <1>3, <1>5

\* A sector of the last cluster.
LEMMA SectorOfLast ==
  ASSUME NEW p \in Seq(Clusters), Len(p) \in Nat \ {0}, NEW n \in Nat,
         (Len(p) - 1) * SectorsPerCluster <= n, n < Len(p) * SectorsPerCluster
  PROVE  /\ n + 1 \in 1..(Len(p) * SectorsPerCluster)
         /\ SectorsOn(p)[n + 1] = <<Last(p), n % SectorsPerCluster>>
<1> DEFINE S == SectorsPerCluster
           q == Len(p) - 1
           r == n - q * S
<1>1. S \in Nat \ {0} /\ q \in Nat /\ q * S \in Nat /\ Len(p) * S = q * S + S
  BY Numbers
<1>2. r \in 0..(S - 1) /\ n = q * S + r  BY <1>1
<1>3. (q * S + r) \div S = q /\ (q * S + r) % S = r
  <2> HIDE DEF q, r, S
  <2> QED BY <1>1, <1>2, DivFacts
<1>4. n \div S = q  BY <1>2, <1>3
<1>5. n + 1 \in 1..(Len(p) * S)  BY <1>1
<1>6. SectorsOn(p)[n + 1] = <<p[((n + 1 - 1) \div S) + 1], (n + 1 - 1) % S>>
  BY <1>5, SectorsFacts
<1>7. n + 1 - 1 = n /\ q + 1 = Len(p)  BY <1>1
<1> QED  BY <1>4, <1>5, <1>6, <1>7 DEF Last

LEMMA SlotsFacts ==
  ASSUME NEW p \in Seq(Clusters)
  PROVE  /\ DOMAIN SlotsOn(p) = 1..(Len(SectorsOn(p)) * EntriesPerSector)
         /\ DOMAIN SlotsOn(p) \subseteq Nat \ {0}
         /\ \A k \in DOMAIN SlotsOn(p), j \in Nat \ {0} : j <= k => j \in DOMAIN SlotsOn(p)
         /\ \A k \in DOMAIN SlotsOn(p) :
              LET i == ((k - 1) \div EntriesPerSector) + 1
              IN  /\ i \in 1..Len(SectorsOn(p))
                  /\ SlotsOn(p)[k] = <<SectorsOn(p)[i][1], SectorsOn(p)[i][2],
                                       ((k - 1) % EntriesPerSector) + 1>>
         /\ \A k \in DOMAIN SlotsOn(p) :
              /\ SlotsOn(p)[k][1] \in ToSet(p)
              /\ SlotsOn(p)[k][2] \in Offsets
              /\ SlotsOn(p)[k][3] \in 1..EntriesPerSector
              /\ SlotsOn(p)[k] = <<SlotsOn(p)[k][1], SlotsOn(p)[k][2], SlotsOn(p)[k][3]>>
<1> DEFINE E == EntriesPerSector
           s == SectorsOn(p)
           m == Len(s) * E
           i(k) == ((k - 1) \div E) + 1
<1>1. /\ Len(s) \in Nat /\ E \in Nat \ {0} /\ m \in Nat /\ DOMAIN s = 1..Len(s)
      /\ \A n \in 1..Len(s) : s[n][1] \in ToSet(p) /\ s[n][2] \in Offsets
  <2>1. Len(p) \in Nat /\ SectorsPerCluster \in Nat  BY Numbers, LenProperties
  <2>2. Len(p) * SectorsPerCluster \in Nat  BY <2>1
  <2>3. Len(s) = Len(p) * SectorsPerCluster /\ DOMAIN s = 1..Len(s)  BY SectorsFacts
  <2>4. \A n \in 1..Len(s) : s[n][1] \in ToSet(p) /\ s[n][2] \in Offsets
    BY <2>3, SectorsFacts
  <2>5. E \in Nat \ {0} /\ Len(s) * E \in Nat  BY <2>2, <2>3, Numbers
  <2> QED  BY <2>2, <2>3, <2>4, <2>5
<1>2. SlotsOn(p) = [k \in 1..m |-> <<s[i(k)][1], s[i(k)][2], ((k - 1) % E) + 1>>]
  BY DEF SlotsOn
<1>3. \A k \in 1..m : i(k) \in 1..Len(s) /\ ((k - 1) % E) + 1 \in 1..E
  <2> SUFFICES ASSUME NEW k \in 1..m
               PROVE  i(k) \in 1..Len(s) /\ ((k - 1) % E) + 1 \in 1..E
    OBVIOUS
  <2>1. i(k) \in 1..Len(s) /\ (k - 1) % E \in 0..(E - 1)  BY <1>1, Grouped
  <2>2. \A x \in 0..(E - 1) : x + 1 \in 1..E  BY <1>1
  <2> QED  BY <2>1, <2>2
<1> HIDE DEF m, i, s, E
<1>4. \A k \in 1..m : /\ SlotsOn(p)[k][1] = s[i(k)][1]
                      /\ SlotsOn(p)[k][2] = s[i(k)][2]
                      /\ SlotsOn(p)[k][3] = ((k - 1) % E) + 1
                      /\ SlotsOn(p)[k] = <<s[i(k)][1], s[i(k)][2], ((k - 1) % E) + 1>>
  BY <1>2
<1>5. DOMAIN SlotsOn(p) = 1..m  BY <1>2
<1>6. \A k \in 1..m : /\ SlotsOn(p)[k][1] \in ToSet(p)
                      /\ SlotsOn(p)[k][2] \in Offsets
                      /\ SlotsOn(p)[k][3] \in 1..E
  BY <1>1, <1>3, <1>4
<1>7. \A k \in 1..m, j \in Nat \ {0} : j <= k => j \in 1..m  BY <1>1
<1>8. 1..m \subseteq Nat \ {0}  BY <1>1
<1>9. \A k \in 1..m :
         SlotsOn(p)[k] = <<SlotsOn(p)[k][1], SlotsOn(p)[k][2], SlotsOn(p)[k][3]>>
  BY <1>4, Zenon
<1> QED  BY <1>3, <1>4, <1>5, <1>6, <1>7, <1>8, <1>9 DEF m, i, s, E

LEMMA SlotsDiffer ==
  ASSUME NEW p \in Seq(Clusters), IsInjective(p),
         NEW j \in DOMAIN SlotsOn(p), NEW k \in DOMAIN SlotsOn(p),
         SlotsOn(p)[j] = SlotsOn(p)[k]
  PROVE  j = k
<1> DEFINE E == EntriesPerSector
           s == SectorsOn(p)
           a(x) == (x - 1) \div E
           b(x) == (x - 1) % E
<1>1. Len(s) \in Nat /\ E \in Nat \ {0} /\ Len(s) = Len(p) * SectorsPerCluster
      /\ s \in Seq(Clusters \X Offsets)
  <2>1. s \in Seq(Clusters \X Offsets) /\ Len(s) = Len(p) * SectorsPerCluster
    BY SectorsFacts
  <2>2. Len(s) \in Nat  BY <2>1, LenProperties
  <2> QED  BY <2>1, <2>2, Numbers
<1>2. j \in 1..(Len(s) * E) /\ k \in 1..(Len(s) * E)  BY SlotsFacts
<1>3. /\ a(j) + 1 \in 1..Len(s) /\ a(k) + 1 \in 1..Len(s)
      /\ a(j) \in 0..(Len(s) - 1) /\ a(k) \in 0..(Len(s) - 1)
      /\ b(j) \in Int /\ b(k) \in Int
      /\ j = a(j) * E + b(j) + 1 /\ k = a(k) * E + b(k) + 1
  <2>1. /\ a(j) + 1 \in 1..Len(s) /\ a(j) \in 0..(Len(s) - 1)
        /\ b(j) \in 0..(E - 1) /\ j = a(j) * E + b(j) + 1
    BY <1>1, <1>2, Grouped
  <2>2. /\ a(k) + 1 \in 1..Len(s) /\ a(k) \in 0..(Len(s) - 1)
        /\ b(k) \in 0..(E - 1) /\ k = a(k) * E + b(k) + 1
    BY <1>1, <1>2, Grouped
  <2>3. 0..(E - 1) \subseteq Int  OBVIOUS
  <2> HIDE DEF a, b, s, E
  <2> QED  BY <2>1, <2>2, <2>3
<1>4. /\ SlotsOn(p)[j] = <<s[a(j) + 1][1], s[a(j) + 1][2], b(j) + 1>>
      /\ SlotsOn(p)[k] = <<s[a(k) + 1][1], s[a(k) + 1][2], b(k) + 1>>
  BY SlotsFacts
<1> HIDE DEF a, b, s, E
<1>5. <<s[a(j) + 1][1], s[a(j) + 1][2], b(j) + 1>> =
      <<s[a(k) + 1][1], s[a(k) + 1][2], b(k) + 1>>
  BY <1>4, Zenon
<1>6. \A u, v, w, x, y, z : <<u, v, w>> = <<x, y, z>> => u = x /\ v = y /\ w = z
  OBVIOUS
<1>7. s[a(j) + 1][1] = s[a(k) + 1][1] /\ s[a(j) + 1][2] = s[a(k) + 1][2]
      /\ b(j) + 1 = b(k) + 1
  BY <1>5, <1>6, Zenon
<1>8. \A n \in 1..Len(s) : s[n] = <<s[n][1], s[n][2]>>
  <2>1. \A n \in 1..Len(s) : s[n] \in Clusters \X Offsets
    BY <1>1, ElementOfSeq
  <2> QED  BY <2>1
<1>9. s[a(j) + 1] = s[a(k) + 1]
  <2>1. s[a(j) + 1] = <<s[a(j) + 1][1], s[a(j) + 1][2]>>  BY <1>3, <1>8, Zenon
  <2>2. s[a(k) + 1] = <<s[a(k) + 1][1], s[a(k) + 1][2]>>  BY <1>3, <1>8, Zenon
  <2> QED  BY <1>7, <2>1, <2>2, Zenon
<1>10. a(j) + 1 = a(k) + 1
  <2>1. a(j) + 1 \in 1..(Len(p) * SectorsPerCluster)
        /\ a(k) + 1 \in 1..(Len(p) * SectorsPerCluster)
    BY <1>1, <1>3
  <2> QED  BY <1>9, <2>1, SectorsDiffer DEF s
<1>11. a(j) = a(k)  BY <1>3, <1>10
<1>12. b(j) = b(k)  BY <1>3, <1>7
<1> QED  BY <1>3, <1>11, <1>12

----------------------------------------------------------------------------
(* A volume in order stays so.                                             *)

Base(t, b) == Dirs \cup Firsts(t, b)
FilesTyped(w) == \A f \in w : f.dir \in Dirs /\ f.size \in Nat

LEMMA EntryIs ==
  ASSUME NEW t, NEW b, NEW e
  PROVE  e \in EntriesIn(t, b) <=>
            \E d \in Dirs : \E k \in DOMAIN SlotsOn(ChainIn(t, d)) :
               e = SlotIn(b, SlotsOn(ChainIn(t, d))[k]) /\ IsFile(e)
BY DEF EntriesIn, ToSet

LEMMA EntriesAre ==
  ASSUME NEW t, NEW b
  PROVE  \A e : e \in EntriesIn(t, b) <=>
            \E d \in Dirs : \E k \in DOMAIN SlotsOn(ChainIn(t, d)) :
               e = SlotIn(b, SlotsOn(ChainIn(t, d))[k]) /\ IsFile(e)
BY EntryIs

\* The slots of a directory in order, and where they are.
LEMMA DirSlots ==
  ASSUME NEW t, NEW b, NEW w, NEW q, InOrder(t, b, w, q), NEW d \in Dirs
  PROVE  /\ IsChain(t, ChainIn(t, d), d)
         /\ ChainIn(t, d) \in Seq(Clusters) /\ IsInjective(ChainIn(t, d))
         /\ \A k \in DOMAIN SlotsOn(ChainIn(t, d)) :
               /\ SlotsOn(ChainIn(t, d))[k][1] \in Visited(t, d)
               /\ SlotsOn(ChainIn(t, d))[k][1] \in Clusters
               /\ SlotsOn(ChainIn(t, d))[k][2] \in Offsets
<1>1. IsChain(t, ChainIn(t, d), d)  BY DEF InOrder
<1>2. ChainIn(t, d) \in Seq(Clusters) /\ IsInjective(ChainIn(t, d))
  BY <1>1 DEF IsChain
<1>3. Visited(t, d) \subseteq Clusters  BY <1>1, InChain DEF Visited
<1> QED  BY <1>1, <1>2, <1>3, SlotsFacts DEF Visited

\* Nothing of the files and directories is touched; other clusters are pending.
Spared(t, b, u, b2, q2) ==
    /\ \A c \in Base(t, b) : \A x \in Visited(t, c) : u[x] = t[x] /\ b2[x] = b[x]
    /\ \A c \in q2 : IsChain(u, ChainIn(u, c), c)
    /\ q2 \cap Base(t, b) = {}
    /\ \A c \in q2, d \in Base(t, b) : Visited(u, c) \cap Visited(t, d) = {}

LEMMA OrderFrame ==
  ASSUME NEW t \in Table, NEW b, NEW u \in Table, NEW b2, NEW w, NEW q, NEW q2,
         FilesTyped(w), InOrder(t, b, w, q), Spared(t, b, u, b2, q2)
  PROVE  /\ InOrder(u, b2, w, q2)
         /\ EntriesIn(u, b2) = EntriesIn(t, b)
         /\ \A c \in Base(t, b) : ChainIn(u, c) = ChainIn(t, c)
<1>0. /\ \A c \in Base(t, b) : \A x \in Visited(t, c) : u[x] = t[x] /\ b2[x] = b[x]
      /\ \A c \in q2 : IsChain(u, ChainIn(u, c), c)
      /\ q2 \cap Base(t, b) = {}
      /\ \A c \in q2, d \in Base(t, b) : Visited(u, c) \cap Visited(t, d) = {}
  BY DEF Spared
<1>1. \A c \in Base(t, b) : IsChain(t, ChainIn(t, c), c)
  BY DEF InOrder, Base
<1>2. \A c \in Base(t, b) : IsChain(u, ChainIn(t, c), c) /\ ChainIn(u, c) = ChainIn(t, c)
  BY <1>0, <1>1, ChainKept DEF Visited
<1>3. \A c \in Base(t, b) : Visited(u, c) = Visited(t, c)
  BY <1>2 DEF Visited
<1>4. \A d \in Dirs : \A k \in DOMAIN SlotsOn(ChainIn(t, d)) :
         /\ SectorIn(b2, SlotsOn(ChainIn(t, d))[k]) = SectorIn(b, SlotsOn(ChainIn(t, d))[k])
         /\ SlotIn(b2, SlotsOn(ChainIn(t, d))[k]) = SlotIn(b, SlotsOn(ChainIn(t, d))[k])
  <2> SUFFICES ASSUME NEW d \in Dirs, NEW k \in DOMAIN SlotsOn(ChainIn(t, d)),
                      NEW l, l = SlotsOn(ChainIn(t, d))[k]
               PROVE  SectorIn(b2, l) = SectorIn(b, l)
    BY DEF SlotIn
  <2>1. l[1] \in Visited(t, d) /\ l[1] \in Clusters /\ l[2] \in Offsets
    BY DirSlots
  <2>2. b2[l[1]] = b[l[1]]  BY <1>0, <2>1 DEF Base
  <2> QED  BY <2>1, <2>2, SectorInIs
<1>5. \A d \in Dirs : ChainIn(u, d) = ChainIn(t, d)  BY <1>2 DEF Base
<1>6. EntriesIn(u, b2) = EntriesIn(t, b)
  <2>1. \A e : e \in EntriesIn(u, b2) <=> e \in EntriesIn(t, b)
    BY <1>4, <1>5, EntryIs
  <2> QED  BY <2>1
<1>7. Firsts(u, b2) = Firsts(t, b)  BY <1>6 DEF Firsts
<1>8. \A e \in EntriesIn(t, b), f \in w : Holds(t, b, e, f) => Holds(u, b2, e, f)
  <2> SUFFICES ASSUME NEW e \in EntriesIn(t, b), NEW f \in w, Holds(t, b, e, f)
               PROVE  Holds(u, b2, e, f)
    OBVIOUS
  <2> DEFINE p == ChainIn(t, e.first)
             s == SectorsOn(p)
  <2>1. e.first \in Base(t, b)  BY DEF Base, Firsts
  <2>2. ChainIn(u, e.first) = p /\ p \in Seq(Clusters)
    BY <1>1, <1>2, <2>1 DEF IsChain
  <2>3. e.size = f.size /\ e.size <= Len(s) /\ f.size \in Nat
        /\ \A k \in 1..e.size : SectorIn(b, s[k]) = Text(f.id, k)
    BY DEF Holds, FilesTyped
  <2>4. Len(p) * SectorsPerCluster \in Nat /\ Len(s) = Len(p) * SectorsPerCluster
    BY <2>2, Numbers, LenProperties, SectorsFacts
  <2>5. \A k \in 1..Len(s) : /\ s[k][1] \in Visited(t, e.first)
                             /\ s[k][1] \in Clusters /\ s[k][2] \in Offsets
    <3>1. Visited(t, e.first) \subseteq Clusters  BY <1>1, <2>1, InChain DEF Visited
    <3>2. Visited(t, e.first) = ToSet(p)  BY DEF Visited
    <3> HIDE DEF p
    <3>3. \A k \in 1..(Len(p) * SectorsPerCluster) :
             SectorsOn(p)[k][1] \in ToSet(p) /\ SectorsOn(p)[k][2] \in Offsets
      BY <2>2, SectorsFacts
    <3> QED  BY <2>4, <3>1, <3>2, <3>3
  <2>6. \A k \in 1..e.size : k \in 1..Len(s)  BY <2>3, <2>4
  <2>7. ASSUME NEW k \in 1..e.size PROVE SectorIn(b2, s[k]) = SectorIn(b, s[k])
    <3> DEFINE x == s[k]
    <3>1. x[1] \in Visited(t, e.first) /\ x[1] \in Clusters /\ x[2] \in Offsets
      BY <2>5, <2>6
    <3> HIDE DEF x
    <3>2. b2[x[1]] = b[x[1]]  BY <1>0, <2>1, <3>1
    <3>3. SectorIn(b2, x) = SectorIn(b, x)  BY <3>1, <3>2, SectorInIs
    <3> QED  BY <3>3 DEF x
  <2> QED  BY <2>2, <2>3, <2>7 DEF Holds
<1>9. \A d \in Dirs : DirInOrder(u, b2, w, d)
  <2> SUFFICES ASSUME NEW d \in Dirs PROVE DirInOrder(u, b2, w, d)
    OBVIOUS
  <2> DEFINE slots == SlotsOn(ChainIn(t, d))
  <2>1. DirInOrder(t, b, w, d)  BY DEF InOrder
  <2>2. SlotsOn(ChainIn(u, d)) = slots  BY <1>5
  <2>3. \A k \in DOMAIN slots : IsFile(SlotIn(b, slots[k])) => SlotIn(b, slots[k]) \in EntriesIn(t, b)
    BY EntryIs
  <2>4. \A k \in DOMAIN slots : DOMAIN SectorIn(b2, slots[k]) = 1..EntriesPerSector
    BY <1>4, <2>1 DEF DirInOrder
  <2>5. \A k \in DOMAIN slots : IsFile(SlotIn(b2, slots[k])) =>
           \E f \in w : /\ f.dir = d /\ f.name = SlotIn(b2, slots[k]).name
                        /\ Holds(u, b2, SlotIn(b2, slots[k]), f)
    <3> SUFFICES ASSUME NEW k \in DOMAIN slots, IsFile(SlotIn(b2, slots[k]))
                 PROVE  \E f \in w : /\ f.dir = d /\ f.name = SlotIn(b2, slots[k]).name
                                     /\ Holds(u, b2, SlotIn(b2, slots[k]), f)
      OBVIOUS
    <3>1. SlotIn(b2, slots[k]) = SlotIn(b, slots[k])  BY <1>4
    <3>2. PICK f \in w : /\ f.dir = d /\ f.name = SlotIn(b, slots[k]).name
                         /\ Holds(t, b, SlotIn(b, slots[k]), f)
      BY <2>1, <3>1 DEF DirInOrder
    <3>3. Holds(u, b2, SlotIn(b, slots[k]), f)  BY <1>8, <2>3, <3>1, <3>2
    <3> QED  BY <3>1, <3>2, <3>3
  <2>6. \A f \in w : f.dir = d =>
          \E k \in DOMAIN slots :
             /\ IsFile(SlotIn(b2, slots[k])) /\ SlotIn(b2, slots[k]).name = f.name
             /\ \A j \in 1..(k - 1) : SlotIn(b2, slots[j]) # END
    <3> SUFFICES ASSUME NEW f \in w, f.dir = d
                 PROVE  \E k \in DOMAIN slots :
                    /\ IsFile(SlotIn(b2, slots[k])) /\ SlotIn(b2, slots[k]).name = f.name
                    /\ \A j \in 1..(k - 1) : SlotIn(b2, slots[j]) # END
      OBVIOUS
    <3>1. PICK k \in DOMAIN slots :
             /\ IsFile(SlotIn(b, slots[k])) /\ SlotIn(b, slots[k]).name = f.name
             /\ \A j \in 1..(k - 1) : SlotIn(b, slots[j]) # END
      BY <2>1 DEF DirInOrder
    <3>2. \A j \in 1..(k - 1) : j \in DOMAIN slots
      <4>1. ChainIn(t, d) \in Seq(Clusters)  BY DirSlots
      <4>2. k \in Nat \ {0} /\ \A j \in Nat \ {0} : j <= k => j \in DOMAIN slots
        BY <4>1, SlotsFacts
      <4>3. \A j \in 1..(k - 1) : j \in Nat \ {0} /\ j <= k  BY <4>2
      <4> QED  BY <4>2, <4>3
    <3>3. \A j \in 1..(k - 1) : SlotIn(b2, slots[j]) # END  BY <1>4, <3>1, <3>2
    <3>4. SlotIn(b2, slots[k]) = SlotIn(b, slots[k])  BY <1>4
    <3> QED  BY <3>1, <3>3, <3>4
  <2> QED  BY <2>2, <2>4, <2>5, <2>6 DEF DirInOrder
<1>10. \A c \in Base(t, b) \cup q2 : IsChain(u, ChainIn(u, c), c)  BY <1>0, <1>2
<1>11. \A c, d \in Base(t, b) \cup q2 : \/ c = d \/ {c, d} \subseteq q2
                                       \/ Visited(u, c) \cap Visited(u, d) = {}
  <2> SUFFICES ASSUME NEW c \in Base(t, b) \cup q2, NEW d \in Base(t, b) \cup q2,
                      c # d, ~({c, d} \subseteq q2)
               PROVE  Visited(u, c) \cap Visited(u, d) = {}
    OBVIOUS
  <2>1. CASE c \in Base(t, b) /\ d \in Base(t, b)
    <3>1. ~({c, d} \subseteq q)  BY <2>1 DEF InOrder, Base
    <3>2. Visited(t, c) \cap Visited(t, d) = {}  BY <2>1, <3>1 DEF InOrder, Base
    <3> QED  BY <1>3, <2>1, <3>2
  <2>2. CASE c \in q2 /\ d \in Base(t, b)  BY <1>0, <1>3, <2>2
  <2>3. CASE c \in Base(t, b) /\ d \in q2  BY <1>0, <1>3, <2>3
  <2> QED  BY <2>1, <2>2, <2>3
<1>12. Dirs \cap Firsts(t, b) = {}  BY DEF InOrder
<1>13. InOrder(u, b2, w, q2)
  BY <1>0, <1>7, <1>9, <1>10, <1>11, <1>12 DEF InOrder, Base
<1> QED  BY <1>2, <1>6, <1>13

LEMMA OrderShrink ==
  ASSUME NEW t, NEW b, NEW w, NEW q, InOrder(t, b, w, q), NEW q2 \in SUBSET q
  PROVE  InOrder(t, b, w, q2)
<1> DEFINE B == Dirs \cup Firsts(t, b)
<1>1. /\ \A c \in B \cup q : IsChain(t, ChainIn(t, c), c)
      /\ Dirs \cap Firsts(t, b) = {} /\ q \cap B = {}
      /\ \A c, d \in B \cup q : \/ c = d \/ {c, d} \subseteq q
                                \/ Visited(t, c) \cap Visited(t, d) = {}
      /\ \A d \in Dirs : DirInOrder(t, b, w, d)
  BY DEF InOrder
<1> HIDE DEF B
<1>2. \A c, d \in B \cup q2 : \/ c = d \/ {c, d} \subseteq q2
                              \/ Visited(t, c) \cap Visited(t, d) = {}
  BY <1>1
<1>3. /\ \A c \in B \cup q2 : IsChain(t, ChainIn(t, c), c)
      /\ q2 \cap B = {}
  BY <1>1
<1> QED  BY <1>1, <1>2, <1>3 DEF InOrder, B

\* Data that differ in one slot, which now holds e.
SlotSet(b, b2, l, e) ==
    /\ SlotIn(b2, l) = e
    /\ \A c \in Clusters \ {l[1]} : b2[c] = b[c]
    /\ \A c \in Clusters, n \in Offsets : DOMAIN b2[c][n] = DOMAIN b[c][n]
    /\ \A c \in Clusters, n \in Offsets : \A j \in DOMAIN b[c][n] :
          ~(c = l[1] /\ n = l[2] /\ j = l[3]) => b2[c][n][j] = b[c][n][j]

LEMMA SlotWritten ==
  ASSUME NEW b, DOMAIN b = Clusters, \A c \in Clusters : DOMAIN b[c] = Offsets,
         NEW l, l[1] \in Clusters, l[2] \in Offsets, l[3] \in DOMAIN b[l[1]][l[2]], NEW e,
         NEW b2, b2 = [b EXCEPT ![l[1]][l[2]][l[3]] = e]
  PROVE  /\ DOMAIN b2 = Clusters /\ \A c \in Clusters : DOMAIN b2[c] = Offsets
         /\ SlotSet(b, b2, l, e)
<1> DEFINE x == l[1]
           o == l[2]
           i == l[3]
           g == [b[x][o] EXCEPT ![i] = e]
           h == [b[x] EXCEPT ![o] = g]
<1>1. DOMAIN g = DOMAIN b[x][o] /\ g[i] = e
      /\ \A j \in DOMAIN b[x][o] : j # i => g[j] = b[x][o][j]
  OBVIOUS
<1>2. DOMAIN h = Offsets /\ h[o] = g /\ \A n \in Offsets : n # o => h[n] = b[x][n]
  <2> HIDE DEF g
  <2> QED  OBVIOUS
<1>3. b2 = [b EXCEPT ![x] = h]  OBVIOUS
<1> HIDE DEF g, h
<1>4. DOMAIN b2 = Clusters /\ b2[x] = h /\ \A c \in Clusters : c # x => b2[c] = b[c]
  BY <1>3
<1>5. SlotIn(b2, l) = e
  <2>1. b2[l[1]][l[2]][l[3]] = e  BY <1>1, <1>2, <1>4
  <2>2. SlotIn(b2, l) = b2[l[1]][l[2]][l[3]]  BY SlotInIs
  <2> QED  BY <2>1, <2>2
<1> QED  BY <1>1, <1>2, <1>4, <1>5 DEF SlotSet

\* Slot k of the directory is the first that is not in use.
FirstUnused(t, b, d, k) ==
    /\ k \in DOMAIN SlotsOn(ChainIn(t, d))
    /\ ~IsFile(SlotIn(b, SlotsOn(ChainIn(t, d))[k]))
    /\ \A j \in 1..(k - 1) : IsFile(SlotIn(b, SlotsOn(ChainIn(t, d))[j]))

\* The entry e is that of the file f, whose chain is pending.
EntryFor(t, b, q, d, e, f) ==
    /\ f.dir = d /\ f.size \in Nat
    /\ IsFile(e) /\ e.name = f.name /\ e.first \in q /\ Holds(t, b, e, f)

\* The data b2 are b with that entry in that slot.
EntryAdded(t, b, w, q, d, k, e, f, b2) ==
    /\ InOrder(t, b, w, q) /\ FilesTyped(w)
    /\ d \in Dirs /\ FirstUnused(t, b, d, k) /\ EntryFor(t, b, q, d, e, f)
    /\ SlotSet(b, b2, SlotsOn(ChainIn(t, d))[k], e)

LEMMA OrderNewEntry ==
  ASSUME NEW t, NEW b, NEW w, NEW q, NEW d, NEW k, NEW e, NEW f, NEW b2,
         EntryAdded(t, b, w, q, d, k, e, f, b2)
  PROVE  /\ InOrder(t, b2, w \cup {f}, {})
         /\ EntriesIn(t, b2) = EntriesIn(t, b) \cup {e}
<1> DEFINE S(c) == SlotsOn(ChainIn(t, c))
           l == SlotsOn(ChainIn(t, d))[k]
<1>0. /\ k \in DOMAIN S(d) /\ ~IsFile(SlotIn(b, l))
      /\ \A j \in 1..(k - 1) : IsFile(SlotIn(b, S(d)[j]))
      /\ f.dir = d /\ f.size \in Nat
      /\ IsFile(e) /\ e.name = f.name /\ e.first \in q /\ Holds(t, b, e, f)
      /\ InOrder(t, b, w, q) /\ FilesTyped(w) /\ d \in Dirs /\ SlotSet(b, b2, l, e)
  BY DEF FirstUnused, EntryFor, EntryAdded
<1>1. /\ \A c \in Dirs \cup Firsts(t, b) \cup q : IsChain(t, ChainIn(t, c), c)
      /\ Dirs \cap Firsts(t, b) = {}
      /\ q \cap (Dirs \cup Firsts(t, b)) = {}
      /\ \A c \in Dirs \cup Firsts(t, b) \cup q, x \in Dirs \cup Firsts(t, b) \cup q :
            \/ c = x \/ {c, x} \subseteq q \/ Visited(t, c) \cap Visited(t, x) = {}
      /\ \A c \in Dirs : DirInOrder(t, b, w, c)
  BY <1>0 DEF InOrder
<1>2. \A c \in Dirs : /\ ChainIn(t, c) \in Seq(Clusters) /\ IsInjective(ChainIn(t, c))
                      /\ Visited(t, c) \subseteq Clusters
  BY <1>0, <1>1, DirSlots, InChain DEF Visited
<1>3. \A c \in Dirs : \A j \in DOMAIN S(c) :
         /\ S(c)[j] = <<S(c)[j][1], S(c)[j][2], S(c)[j][3]>>
         /\ S(c)[j][1] \in Visited(t, c) /\ S(c)[j][1] \in Clusters
         /\ S(c)[j][2] \in Offsets
         /\ S(c)[j][3] \in DOMAIN b[S(c)[j][1]][S(c)[j][2]]
         /\ DOMAIN b[S(c)[j][1]][S(c)[j][2]] = 1..EntriesPerSector
  <2> SUFFICES ASSUME NEW c \in Dirs, NEW j \in DOMAIN S(c)
               PROVE  /\ S(c)[j] = <<S(c)[j][1], S(c)[j][2], S(c)[j][3]>>
                      /\ S(c)[j][1] \in Visited(t, c) /\ S(c)[j][1] \in Clusters
                      /\ S(c)[j][2] \in Offsets
                      /\ S(c)[j][3] \in DOMAIN b[S(c)[j][1]][S(c)[j][2]]
                      /\ DOMAIN b[S(c)[j][1]][S(c)[j][2]] = 1..EntriesPerSector
    OBVIOUS
  <2>1. S(c)[j][1] \in Visited(t, c) /\ S(c)[j][2] \in Offsets
        /\ S(c)[j][3] \in 1..EntriesPerSector
    BY <1>2, SlotsFacts DEF Visited
  <2>2. DOMAIN b[S(c)[j][1]][S(c)[j][2]] = 1..EntriesPerSector
    <3>1. DOMAIN SectorIn(b, S(c)[j]) = 1..EntriesPerSector  BY <1>1 DEF DirInOrder
    <3> HIDE DEF S
    <3> QED  BY <1>2, <2>1, <3>1, SectorInIs
  <2>3. S(c)[j] = <<S(c)[j][1], S(c)[j][2], S(c)[j][3]>>
    BY <1>2, SlotsFacts
  <2> QED  BY <1>2, <2>1, <2>2, <2>3
<1>4. /\ l[1] \in Clusters /\ l[1] \in Visited(t, d) /\ l[2] \in Offsets
      /\ l[3] \in DOMAIN b[l[1]][l[2]] /\ l = <<l[1], l[2], l[3]>>
  BY <1>0, <1>3, Zenon
<1>5. /\ SlotIn(b2, l) = e
      /\ \A c \in Clusters \ {l[1]} : b2[c] = b[c]
      /\ \A c \in Clusters, n \in Offsets : DOMAIN b2[c][n] = DOMAIN b[c][n]
      /\ \A c \in Clusters, n \in Offsets : \A j \in DOMAIN b[c][n] :
            ~(c = l[1] /\ n = l[2] /\ j = l[3]) => b2[c][n][j] = b[c][n][j]
  BY <1>0 DEF SlotSet
<1>6. \A c \in Dirs : \A j \in DOMAIN S(c) :
         ~(c = d /\ j = k) => SlotIn(b2, S(c)[j]) = SlotIn(b, S(c)[j])
  <2> SUFFICES ASSUME NEW c \in Dirs, NEW j \in DOMAIN S(c), ~(c = d /\ j = k)
               PROVE  SlotIn(b2, S(c)[j]) = SlotIn(b, S(c)[j])
    OBVIOUS
  <2>1. CASE c # d
    <3>1. Visited(t, c) \cap Visited(t, d) = {}  BY <1>0, <1>1, <2>1
    <3>2. S(c)[j][1] # l[1] /\ S(c)[j][1] \in Clusters /\ S(c)[j][2] \in Offsets
      BY <1>3, <1>4, <3>1
    <3> HIDE DEF S, l
    <3> QED  BY <1>5, <3>2, SlotInIs
  <2>2. CASE c = d
    <3>1. S(c)[j] # l  BY <1>0, <1>2, <2>2, SlotsDiffer
    <3>2. ~(S(c)[j][1] = l[1] /\ S(c)[j][2] = l[2] /\ S(c)[j][3] = l[3])
      BY <1>3, <1>4, <3>1, Zenon
    <3>3. /\ S(c)[j][1] \in Clusters /\ S(c)[j][2] \in Offsets
          /\ S(c)[j][3] \in DOMAIN b[S(c)[j][1]][S(c)[j][2]]
      BY <1>3
    <3> HIDE DEF S, l
    <3> QED  BY <1>5, <3>2, <3>3, SlotInIs
  <2> QED  BY <2>1, <2>2
<1>7. S(d)[k] = l /\ k \in DOMAIN S(d)  BY <1>0
<1> HIDE DEF S, l
<1>8. \A x : x \in EntriesIn(t, b) <=>
               \E c \in Dirs : \E j \in DOMAIN S(c) : x = SlotIn(b, S(c)[j]) /\ IsFile(x)
  BY EntryIs DEF S
<1>9. \A x : x \in EntriesIn(t, b2) <=>
               \E c \in Dirs : \E j \in DOMAIN S(c) : x = SlotIn(b2, S(c)[j]) /\ IsFile(x)
  BY EntriesAre DEF S
<1>10. EntriesIn(t, b2) = EntriesIn(t, b) \cup {e}
  <2>1. ASSUME NEW x \in EntriesIn(t, b2) PROVE x \in EntriesIn(t, b) \cup {e}
    <3>0. PICK c \in Dirs : \E j \in DOMAIN S(c) : x = SlotIn(b2, S(c)[j]) /\ IsFile(x)
      BY <1>9
    <3>1. PICK j \in DOMAIN S(c) : x = SlotIn(b2, S(c)[j]) /\ IsFile(x)
      BY <3>0
    <3>2. CASE c = d /\ j = k  BY <1>0, <1>5, <1>7, <3>1, <3>2
    <3>3. CASE ~(c = d /\ j = k)  BY <1>6, <1>8, <3>1, <3>3
    <3> QED  BY <1>0, <3>2, <3>3
  <2>2. e \in EntriesIn(t, b2)  BY <1>0, <1>5, <1>7, <1>9
  <2>3. ASSUME NEW x \in EntriesIn(t, b) PROVE x \in EntriesIn(t, b2)
    <3>0. PICK c \in Dirs : \E j \in DOMAIN S(c) : x = SlotIn(b, S(c)[j]) /\ IsFile(x)
      BY <1>8
    <3>1. PICK j \in DOMAIN S(c) : x = SlotIn(b, S(c)[j]) /\ IsFile(x)
      BY <3>0
    <3>2. ~(c = d /\ j = k)  BY <1>0, <1>7, <3>1
    <3> QED  BY <1>6, <1>9, <3>1, <3>2
  <2> QED  BY <2>1, <2>2, <2>3
<1>11. Firsts(t, b2) = Firsts(t, b) \cup {e.first}  BY <1>10 DEF Firsts
<1>12. \A x \in EntriesIn(t, b) \cup {e}, g \in w \cup {f} :
          Holds(t, b, x, g) => Holds(t, b2, x, g)
  <2> SUFFICES ASSUME NEW x \in EntriesIn(t, b) \cup {e}, NEW g \in w \cup {f},
                      Holds(t, b, x, g)
               PROVE  Holds(t, b2, x, g)
    OBVIOUS
  <2> DEFINE p == ChainIn(t, x.first)
             s == SectorsOn(p)
  <2>1. x.first \in Firsts(t, b) \cup q  BY <1>0 DEF Firsts
  <2>2. p \in Seq(Clusters) /\ Visited(t, x.first) \subseteq Clusters
    <3>1. IsChain(t, p, x.first)  BY <1>1, <2>1
    <3>2. p \in Seq(Clusters)  BY <3>1 DEF IsChain
    <3>3. ToSet(p) \subseteq Clusters  BY <3>1, InChain
    <3> QED  BY <3>2, <3>3 DEF Visited
  <2>3. Visited(t, x.first) \cap Visited(t, d) = {}  BY <1>0, <1>1, <2>1
  <2>4. x.size = g.size /\ x.size <= Len(s) /\ g.size \in Nat
        /\ \A j \in 1..x.size : SectorIn(b, s[j]) = Text(g.id, j)
    BY <1>0 DEF Holds, FilesTyped
  <2>5. Len(p) * SectorsPerCluster \in Nat /\ Len(s) = Len(p) * SectorsPerCluster
    BY <2>2, Numbers, LenProperties, SectorsFacts
  <2>6. \A j \in 1..Len(s) : s[j][1] \in Visited(t, x.first) /\ s[j][2] \in Offsets
    <3>1. Visited(t, x.first) = ToSet(p)  BY DEF Visited
    <3> HIDE DEF p
    <3>2. \A j \in 1..(Len(p) * SectorsPerCluster) :
             SectorsOn(p)[j][1] \in ToSet(p) /\ SectorsOn(p)[j][2] \in Offsets
      BY <2>2, SectorsFacts
    <3> QED  BY <2>5, <3>1, <3>2
  <2>7. \A j \in 1..x.size : j \in 1..Len(s)  BY <2>4, <2>5
  <2>8. \A j \in 1..x.size : s[j][1] \in Clusters \ {l[1]} /\ s[j][2] \in Offsets
    BY <1>4, <2>2, <2>3, <2>6, <2>7
  <2>9. ASSUME NEW j \in 1..x.size PROVE SectorIn(b2, s[j]) = SectorIn(b, s[j])
    <3> DEFINE y == s[j]
    <3>1. y[1] \in Clusters \ {l[1]} /\ y[2] \in Offsets  BY <2>8
    <3> HIDE DEF y
    <3>2. SectorIn(b2, y) = SectorIn(b, y)  BY <1>5, <3>1, SectorInIs
    <3> QED  BY <3>2 DEF y
  <2> QED  BY <2>4, <2>9 DEF Holds
<1>13. \A c \in Dirs : DirInOrder(t, b2, w \cup {f}, c)
  <2> SUFFICES ASSUME NEW c \in Dirs PROVE DirInOrder(t, b2, w \cup {f}, c)
    OBVIOUS
  <2>1. /\ \A j \in DOMAIN S(c) : IsFile(SlotIn(b, S(c)[j])) =>
              \E g \in w : /\ g.dir = c /\ g.name = SlotIn(b, S(c)[j]).name
                           /\ Holds(t, b, SlotIn(b, S(c)[j]), g)
        /\ \A g \in w : g.dir = c =>
              \E j \in DOMAIN S(c) : /\ IsFile(SlotIn(b, S(c)[j]))
                                     /\ SlotIn(b, S(c)[j]).name = g.name
                                     /\ \A i \in 1..(j - 1) : SlotIn(b, S(c)[i]) # END
    BY <1>1 DEF DirInOrder, S
  <2>2. \A j \in DOMAIN S(c) : DOMAIN SectorIn(b2, S(c)[j]) = 1..EntriesPerSector
    <3> SUFFICES ASSUME NEW j \in DOMAIN S(c), NEW y, y = S(c)[j]
                 PROVE  DOMAIN SectorIn(b2, y) = 1..EntriesPerSector
      OBVIOUS
    <3>1. /\ y[1] \in Clusters /\ y[2] \in Offsets
          /\ DOMAIN b[y[1]][y[2]] = 1..EntriesPerSector
      BY <1>3 DEF S
    <3>2. DOMAIN b2[y[1]][y[2]] = DOMAIN b[y[1]][y[2]]  BY <1>5, <3>1
    <3> QED  BY <3>1, <3>2, SectorInIs
  <2>3. ASSUME NEW j \in DOMAIN S(c), IsFile(SlotIn(b2, S(c)[j]))
        PROVE  \E g \in w \cup {f} : /\ g.dir = c /\ g.name = SlotIn(b2, S(c)[j]).name
                                     /\ Holds(t, b2, SlotIn(b2, S(c)[j]), g)
    <3>1. CASE c = d /\ j = k
      <4>1. SlotIn(b2, S(c)[j]) = e  BY <1>0, <1>5, <1>7, <3>1
      <4>2. Holds(t, b2, e, f)  BY <1>0, <1>12
      <4> QED  BY <1>0, <3>1, <4>1, <4>2
    <3>2. CASE ~(c = d /\ j = k)
      <4>1. SlotIn(b2, S(c)[j]) = SlotIn(b, S(c)[j])  BY <1>6, <3>2
      <4>2. PICK g \in w : /\ g.dir = c /\ g.name = SlotIn(b, S(c)[j]).name
                           /\ Holds(t, b, SlotIn(b, S(c)[j]), g)
        BY <2>1, <2>3, <4>1
      <4>3. SlotIn(b, S(c)[j]) \in EntriesIn(t, b)  BY <1>8, <2>3, <4>1
      <4>4. Holds(t, b2, SlotIn(b, S(c)[j]), g)  BY <1>12, <4>2, <4>3
      <4> QED  BY <4>1, <4>2, <4>4
    <3> QED  BY <3>1, <3>2
  <2>4. \A j \in DOMAIN S(c), i \in Nat \ {0} : i <= j => i \in DOMAIN S(c)
    BY <1>0, <1>2, SlotsFacts DEF S
  <2>5. DOMAIN S(c) \subseteq Nat \ {0} /\ DOMAIN S(d) \subseteq Nat \ {0}
    BY <1>0, <1>2, SlotsFacts DEF S
  <2>6. \A x : IsFile(x) => x # END  BY DEF IsFile, END
  <2>7. ASSUME NEW g \in w, g.dir = c
        PROVE  \E j \in DOMAIN S(c) : /\ IsFile(SlotIn(b2, S(c)[j]))
                                      /\ SlotIn(b2, S(c)[j]).name = g.name
                                      /\ \A i \in 1..(j - 1) : SlotIn(b2, S(c)[i]) # END
    <3>1. PICK j \in DOMAIN S(c) : /\ IsFile(SlotIn(b, S(c)[j]))
                                   /\ SlotIn(b, S(c)[j]).name = g.name
                                   /\ \A i \in 1..(j - 1) : SlotIn(b, S(c)[i]) # END
      BY <2>1, <2>7
    <3>2. ~(c = d /\ j = k)  BY <1>0, <1>7, <3>1
    <3>3. SlotIn(b2, S(c)[j]) = SlotIn(b, S(c)[j])  BY <1>6, <3>2
    <3>4. ASSUME NEW i \in 1..(j - 1) PROVE SlotIn(b2, S(c)[i]) # END
      <4>1. i \in Nat \ {0} /\ i <= j  BY <2>5
      <4>2. i \in DOMAIN S(c)  BY <2>4, <4>1
      <4>3. CASE c = d /\ i = k  BY <1>0, <1>5, <1>7, <2>6, <4>3
      <4>4. CASE ~(c = d /\ i = k)
        <5>1. SlotIn(b2, S(c)[i]) = SlotIn(b, S(c)[i])  BY <1>6, <4>2, <4>4
        <5> QED  BY <3>1, <5>1
      <4> QED  BY <4>3, <4>4
    <3> QED  BY <3>1, <3>3, <3>4
  <2>8. ASSUME f.dir = c
        PROVE  \E j \in DOMAIN S(c) : /\ IsFile(SlotIn(b2, S(c)[j]))
                                      /\ SlotIn(b2, S(c)[j]).name = f.name
                                      /\ \A i \in 1..(j - 1) : SlotIn(b2, S(c)[i]) # END
    <3>1. c = d  BY <1>0, <2>8
    <3>2. k \in DOMAIN S(c) /\ SlotIn(b2, S(c)[k]) = e  BY <1>5, <1>7, <3>1
    <3>3. ASSUME NEW i \in 1..(k - 1) PROVE SlotIn(b2, S(c)[i]) # END
      <4>1. i \in Nat \ {0} /\ i <= k /\ i # k  BY <2>5, <3>2
      <4>2. i \in DOMAIN S(c)  BY <2>4, <3>2, <4>1
      <4>3. SlotIn(b2, S(c)[i]) = SlotIn(b, S(c)[i])  BY <1>6, <4>1, <4>2
      <4>4. IsFile(SlotIn(b, S(c)[i]))  BY <1>0, <3>1 DEF S
      <4> QED  BY <2>6, <4>3, <4>4
    <3> QED  BY <1>0, <3>2, <3>3
  <2> QED  BY <2>2, <2>3, <2>7, <2>8 DEF DirInOrder, S
<1>14. InOrder(t, b2, w \cup {f}, {})
  <2>1. \A c \in Dirs \cup Firsts(t, b2) : IsChain(t, ChainIn(t, c), c)
    BY <1>0, <1>1, <1>11
  <2>2. Dirs \cap Firsts(t, b2) = {}  BY <1>0, <1>1, <1>11
  <2>3. \A c, x \in Dirs \cup Firsts(t, b2) :
            c = x \/ Visited(t, c) \cap Visited(t, x) = {}
    BY <1>0, <1>1, <1>11
  <2>4. Dirs \cup Firsts(t, b2) \cup {} = Dirs \cup Firsts(t, b2)  OBVIOUS
  <2>5. {} \cap (Dirs \cup Firsts(t, b2)) = {}  OBVIOUS
  <2>6. \A c, x \in Dirs \cup Firsts(t, b2) :
            c = x \/ {c, x} \subseteq {} \/ Visited(t, c) \cap Visited(t, x) = {}
    BY <2>3, Zenon
  <2> QED  BY <1>13, <2>1, <2>2, <2>4, <2>5, <2>6, Zenon DEF InOrder
<1> QED  BY <1>10, <1>14


----------------------------------------------------------------------------
(* The invariant.                                                          *)

LEMMA HeadsFacts ==
  ASSUME IInv
  PROVE  /\ Heads = Base(fat, data) \cup Pending
         /\ Pending \cap Base(fat, data) = {}
         /\ fat \in Table /\ DOMAIN fat = 0..(ClusterCount + 1) /\ FilesTyped(written)
         /\ \A c \in Heads : /\ IsChain(fat, Chain(c), c)
                             /\ Visited(fat, c) = ToSet(Chain(c))
                             /\ Visited(fat, c) \subseteq Clusters
                             /\ c \in Visited(fat, c) /\ c \in Clusters
                             /\ \A x \in Visited(fat, c) : fat[x] \notin {FREE, BAD}
         /\ \A c \in Base(fat, data), d \in Pending :
               Visited(fat, c) \cap Visited(fat, d) = {}
<1>1. /\ fat \in Table /\ FilesTyped(written) /\ InOrder(fat, data, written, Pending)
  BY DEF IInv, Types, FilesTyped
<1>2. Heads = Base(fat, data) \cup Pending  BY DEF Heads, Base
<1>3. /\ \A c \in Heads : IsChain(fat, Chain(c), c)
      /\ Pending \cap Base(fat, data) = {}
      /\ \A c, d \in Heads : \/ c = d \/ {c, d} \subseteq Pending
                             \/ Visited(fat, c) \cap Visited(fat, d) = {}
  BY <1>1, <1>2 DEF InOrder, Heads, Base, Chain
<1>4. ASSUME NEW c \in Heads
      PROVE  /\ Visited(fat, c) = ToSet(Chain(c))
             /\ Visited(fat, c) \subseteq Clusters
             /\ c \in Visited(fat, c) /\ c \in Clusters
             /\ \A x \in Visited(fat, c) : fat[x] \notin {FREE, BAD}
  <2>1. Visited(fat, c) = ToSet(Chain(c))  BY DEF Visited, Chain
  <2>2. IsChain(fat, Chain(c), c)  BY <1>3
  <2>3. \A x \in Clusters \cup {EOC} : x \notin {FREE, BAD}  BY Numbers
  <2> QED  BY <2>1, <2>2, <2>3, InChain
<1>5. DOMAIN fat = 0..(ClusterCount + 1)  BY <1>1 DEF Table
<1>6. \A c \in Base(fat, data), d \in Pending : Visited(fat, c) \cap Visited(fat, d) = {}
  BY <1>2, <1>3
<1> QED  BY <1>1, <1>2, <1>3, <1>4, <1>5, <1>6

\* A chain of one cluster visits that cluster and no other.
LEMMA VisitedAlone ==
  ASSUME NEW t \in Table, NEW x \in Clusters, t[x] = EOC
  PROVE  Visited(t, x) = {x}
<1>1. ChainIn(t, x) = <<x>>  BY ChainAlone
<1> QED  BY <1>1 DEF Visited, ToSet

LEMMA Started == Init => IInv
<1> SUFFICES ASSUME Init PROVE IInv
  OBVIOUS
<1>1. PICK v \in Volumes : fat = v.fat /\ mirror = v.fat /\ data = v.data /\ written = v.written
  BY DEF Init
<1>2. op = Idle /\ op.pc = "idle" /\ serial = 0 /\ torn = {} /\ leaked = FALSE
  BY DEF Init, Idle
<1>3. Pending = {}  BY <1>2 DEF Pending
<1>4. /\ fat \in Table /\ mirror \in Table /\ DOMAIN data = Clusters
      /\ \A c \in Clusters : DOMAIN data[c] = Offsets
      /\ \A f \in written : f.dir \in Dirs /\ f.size \in Nat
      /\ InOrder(fat, data, written, {})
      /\ {c \in Clusters : fat[c] \notin {FREE, BAD}} =
            UNION {Visited(fat, c) : c \in Dirs \cup Firsts(fat, data)}
      /\ DirsLow
  BY <1>1, VolumeAssumption DEF Table, DirsLow
<1>5. Types
  <2>1. 0 \in 0..MaxWrites  BY SizeAssumption
  <2> QED  BY <1>2, <1>4, <2>1 DEF Types
<1>6. InProgress  BY <1>2 DEF InProgress
<1>7. AllUsed  BY <1>3, <1>4 DEF AllUsed, Heads
<1>8. Copies  BY <1>1 DEF Copies
<1> QED  BY <1>3, <1>4, <1>5, <1>6, <1>7, <1>8 DEF IInv

LEMMA StepFatWrite ==
  ASSUME IInv, NEW d \in Dirs, NEW name \in Names, NEW size \in 1..MaxSize,
         FatWrite(d, name, size)
  PROVE  IInv'
<1>1. /\ op = Idle /\ op.pc = "idle" /\ op'.pc = "allocate" /\ op'.size = size
      /\ op'.done = 0 /\ op'.first = 0 /\ op'.prev = 0 /\ op'.cluster = 0
      /\ UNCHANGED <<fat, mirror, data, written, torn, leaked>>
  BY DEF FatWrite, Idle
<1>2. Pending = {} /\ Pending' = {}  BY <1>1 DEF Pending
<1>3. InOrder(fat, data, written, Pending)'  BY <1>1, <1>2 DEF IInv
<1>4. Types'
  <2>1. OpType'
    <3>1. DOMAIN op' = Fields /\ op'.dir = d /\ op'.name = name
      BY DEF FatWrite, Fields
    <3>2. 0 \in 0..size  OBVIOUS
    <3> QED  BY <1>1, <3>1, <3>2 DEF OpType
  <2>2. serial' \in 0..MaxWrites
    BY SizeAssumption DEF IInv, Types, FatWrite
  <2> QED  BY <1>1, <2>1, <2>2 DEF IInv, Types
<1>5. InProgress'  BY <1>1 DEF InProgress
<1>6. (~leaked => AllUsed)'  BY <1>1, <1>2 DEF IInv, AllUsed, Heads
<1>7. Copies'  BY <1>1 DEF IInv, Copies
<1>8. DirsLow'  BY <1>1 DEF IInv, DirsLow, Visited
<1> QED  BY <1>3, <1>4, <1>5, <1>6, <1>7, <1>8 DEF IInv

\* A call ends without an entry.
LEMMA StepGivenUp ==
  ASSUME IInv, DiskFull \/ DirectoryFull \/ PowerFailure
  PROVE  IInv'
<1>1. /\ op'.pc = "idle" /\ op' = Idle /\ UNCHANGED <<fat, mirror, data, serial, written>>
      /\ leaked' \in BOOLEAN
  <2>1. leaked \in BOOLEAN  BY DEF IInv, Types
  <2>2. op' = Idle /\ UNCHANGED <<fat, mirror, data, serial, written>>
    BY DEF DiskFull, DirectoryFull, PowerFailure
  <2>3. leaked' = (leaked \/ op.first # 0) \/ leaked' = TRUE
    BY DEF DiskFull, DirectoryFull, PowerFailure
  <2> QED  BY <2>1, <2>2, <2>3 DEF Idle
<1>2. OpType
  <2>1. op # Idle  BY DEF DiskFull, DirectoryFull, PowerFailure, Idle
  <2> QED  BY <2>1 DEF IInv, Types
<1>3. Pending' = {}  BY <1>1 DEF Pending
<1>4. InOrder(fat, data, written, Pending)'
  <2>1. InOrder(fat, data, written, {})  BY OrderShrink DEF IInv
  <2> QED  BY <1>1, <1>3, <2>1
<1>5. (~leaked => AllUsed)'
  <2> SUFFICES ASSUME ~leaked' PROVE AllUsed'
    OBVIOUS
  <2>1. ~leaked /\ op.first = 0
    BY DEF DiskFull, DirectoryFull, PowerFailure, IInv, Types
  <2>2. op.pc # "idle"  BY <1>2 DEF OpType
  <2>3. op.cluster = 0  BY <2>1, <2>2 DEF IInv, InProgress
  <2>4. Pending = {}  BY <2>1, <2>3 DEF Pending
  <2> QED  BY <1>1, <1>3, <2>1, <2>4 DEF IInv, AllUsed, Heads
<1>6. torn' \subseteq {FatSector(c) : c \in Clusters}
  <2>1. torn \subseteq {FatSector(c) : c \in Clusters}  BY DEF IInv, Types
  <2>2. CASE DiskFull \/ DirectoryFull  BY <2>1, <2>2 DEF DiskFull, DirectoryFull
  <2>3. CASE PowerFailure /\ op.pc = "mirror"
    <3>1. op.first # 0 /\ op.cluster # 0
      BY <1>2, <2>3 DEF IInv, InProgress, OpType
    <3>2. op.cluster \in Clusters  BY <1>2, <3>1 DEF OpType
    <3>3. torn' = torn \cup {FatSector(op.cluster)}  BY <2>3 DEF PowerFailure
    <3> QED  BY <2>1, <3>2, <3>3
  <2>4. CASE PowerFailure /\ op.pc = "linkMirror"
    <3>1. op.prev # 0  BY <1>2, <2>4 DEF IInv, InProgress, OpType
    <3>2. op.prev \in Clusters  BY <1>2, <3>1 DEF OpType
    <3>3. torn' = torn \cup {FatSector(op.prev)}  BY <2>4 DEF PowerFailure
    <3> QED  BY <2>1, <3>2, <3>3
  <2>5. CASE PowerFailure /\ op.pc # "mirror" /\ op.pc # "linkMirror"
    BY <2>1, <2>5 DEF PowerFailure
  <2> QED  BY <2>2, <2>3, <2>4, <2>5
<1>7. Types'  BY <1>1, <1>6 DEF IInv, Types
<1>8. InProgress'  BY <1>1 DEF InProgress
<1>9. Copies'
  <2> SUFFICES ASSUME NEW c \in DOMAIN fat
               PROVE  fat[c] = mirror[c] \/ FatSector(c) \in torn'
    BY <1>1 DEF Copies
  <2>1. CASE DiskFull \/ DirectoryFull
    BY <2>1 DEF DiskFull, DirectoryFull, IInv, Copies
  <2>2. CASE PowerFailure
    BY <2>2 DEF PowerFailure, IInv, Copies
  <2> QED  BY <2>1, <2>2
<1>10. DirsLow'  BY <1>1 DEF IInv, DirsLow, Visited
<1> QED  BY <1>4, <1>5, <1>7, <1>8, <1>9, <1>10 DEF IInv

\* The first free cluster belongs to no file, directory or call.
LEMMA FreeFacts ==
  ASSUME IInv, NEW x, x = FindFreeCluster, x # 0
  PROVE  /\ x \in Clusters /\ fat[x] = FREE
         /\ \A c \in Heads : x \notin Visited(fat, c) /\ x # c
<1>1. FreeClusters \subseteq Nat /\ FreeClusters # {}
  BY Numbers DEF FreeClusters, FindFreeCluster
<1>2. x \in FreeClusters  BY <1>1, MinOfNats DEF FindFreeCluster
<1>3. x \in Clusters /\ fat[x] = FREE  BY <1>2 DEF FreeClusters
<1> QED  BY <1>3, HeadsFacts

LEMMA StepAllocate ==
  ASSUME IInv, Allocate
  PROVE  IInv'
<1> DEFINE x == FindFreeCluster
           f == IF op.first = 0 THEN x ELSE op.first
           B == Base(fat, data)
<1>1. /\ op.pc = "allocate" /\ x # 0 /\ fat' = [fat EXCEPT ![x] = EOC]
      /\ op' = [op EXCEPT !.pc = "mirror", !.cluster = x, !.first = f]
      /\ UNCHANGED <<mirror, data, serial, written, torn, leaked>>
  BY DEF Allocate
<1>2. OpType  BY <1>1 DEF IInv, Types, Idle
<1>3. /\ x \in Clusters /\ fat[x] = FREE
      /\ \A c \in Heads : x \notin Visited(fat, c) /\ x # c
  BY <1>1, FreeFacts
<1> HIDE DEF x
<1>4. /\ op'.pc = "mirror" /\ op'.cluster = x /\ op'.first = f /\ op'.prev = op.prev
      /\ op'.done = op.done /\ op'.size = op.size /\ op'.id = op.id /\ op'.dir = op.dir
      /\ op'.name = op.name /\ DOMAIN op' = Fields
  BY <1>1, <1>2 DEF OpType, Fields
<1>5. /\ fat \in Table /\ fat' \in Table /\ x \in DOMAIN fat /\ DOMAIN fat' = DOMAIN fat
      /\ fat'[x] = EOC /\ \A c \in DOMAIN fat : c # x => fat'[c] = fat[c]
  <2>1. fat \in Table /\ DOMAIN fat = 0..(ClusterCount + 1)  BY HeadsFacts
  <2>2. x \in DOMAIN fat /\ EOC \in Entries  BY <1>3, <2>1, Numbers
  <2>3. fat' \in Table  BY <1>1, <2>1, <2>2 DEF Table
  <2> QED  BY <1>1, <2>1, <2>2, <2>3
<1>6. /\ op.done < op.size
      /\ op.first = 0 => op.prev = 0 /\ op.cluster = 0 /\ op.done = 0
      /\ op.first # 0 =>
           /\ op.cluster # 0 /\ fat[op.cluster] = EOC /\ op.prev = op.cluster
           /\ Written(Chain(op.first)) /\ op.done = Len(Chain(op.first)) * SectorsPerCluster
           /\ op.cluster = Last(Chain(op.first))
  <2>1. /\ op.done < op.size
        /\ op.first = 0 => op.prev = 0 /\ op.cluster = 0 /\ op.done = 0
    BY <1>1 DEF IInv, InProgress
  <2>2. ~Apart  BY <1>1 DEF Apart
  <2>3. op.first # 0 =>
           /\ op.cluster # 0 /\ fat[op.cluster] = EOC /\ op.prev = op.cluster
           /\ Written(Chain(op.first))
           /\ op.cluster = Last(Chain(op.first))
    BY <1>1, <2>2 DEF IInv, InProgress
  <2>4. op.first # 0 => op.done = Len(Chain(op.first)) * SectorsPerCluster
    BY <1>1, <2>3 DEF Written
  <2> QED  BY <2>1, <2>3, <2>4
<1>7. Pending = {op.first, op.cluster} \ {0} /\ Pending' = {f, x}
  BY <1>1, <1>3, <1>4, <1>6, Numbers DEF Pending
<1>8. IsChain(fat', <<x>>, x) /\ ChainIn(fat', x) = <<x>> /\ Visited(fat', x) = {x}
  <2>1. IsChain(fat', <<x>>, x) /\ ChainIn(fat', x) = <<x>>
    BY <1>3, <1>5, ChainAlone
  <2> QED  BY <2>1 DEF Visited, ToSet
<1>9. op.first # 0 => /\ op.first \in Heads /\ op.first \in Pending
                      /\ IsChain(fat', Chain(op.first), op.first)
                      /\ ChainIn(fat', op.first) = Chain(op.first)
                      /\ Visited(fat', op.first) = Visited(fat, op.first)
  <2> SUFFICES ASSUME op.first # 0
               PROVE  /\ op.first \in Heads /\ op.first \in Pending
                      /\ IsChain(fat', Chain(op.first), op.first)
                      /\ ChainIn(fat', op.first) = Chain(op.first)
                      /\ Visited(fat', op.first) = Visited(fat, op.first)
    OBVIOUS
  <2>1. op.first \in Heads /\ op.first \in Pending  BY <1>7 DEF Heads
  <2>2. /\ IsChain(fat, Chain(op.first), op.first)
        /\ ToSet(Chain(op.first)) = Visited(fat, op.first)
        /\ Visited(fat, op.first) \subseteq Clusters
    BY <2>1, HeadsFacts
  <2>3. \A c \in ToSet(Chain(op.first)) : fat'[c] = fat[c]
    <3>1. Clusters \subseteq DOMAIN fat  BY HeadsFacts, Numbers
    <3> QED  BY <1>3, <1>5, <2>1, <2>2, <3>1
  <2>4. IsChain(fat', Chain(op.first), op.first) /\ ChainIn(fat', op.first) = Chain(op.first)
    BY <1>5, <2>2, <2>3, ChainKept
  <2> QED  BY <2>1, <2>4 DEF Visited, Chain
<1>10. /\ \A c \in {f, x} : IsChain(fat', ChainIn(fat', c), c)
       /\ {f, x} \cap B = {}
       /\ \A c \in {f, x}, d \in B : Visited(fat', c) \cap Visited(fat, d) = {}
  <2>1. \A d \in B : x \notin Visited(fat, d) /\ x # d
    BY <1>3, HeadsFacts
  <2>2. IsChain(fat', ChainIn(fat', x), x) /\ x \notin B
        /\ \A d \in B : Visited(fat', x) \cap Visited(fat, d) = {}
    BY <1>8, <2>1
  <2>3. op.first # 0 => /\ IsChain(fat', ChainIn(fat', op.first), op.first)
                        /\ op.first \notin B
                        /\ \A d \in B : Visited(fat', op.first) \cap Visited(fat, d) = {}
    BY <1>9, HeadsFacts
  <2> QED  BY <2>2, <2>3
<1>11. /\ InOrder(fat', data, written, {f, x})
       /\ EntriesIn(fat', data) = EntriesIn(fat, data)
       /\ \A c \in B : ChainIn(fat', c) = ChainIn(fat, c)
  <2>1. \A c \in Base(fat, data) : \A y \in Visited(fat, c) :
           fat'[y] = fat[y] /\ data[y] = data[y]
    BY <1>3, <1>5, HeadsFacts, Numbers
  <2>2. FilesTyped(written) /\ InOrder(fat, data, written, Pending)
    BY HeadsFacts DEF IInv
  <2>3. {f, x} \cap Base(fat, data) = {}  BY <1>10
  <2>4. \A c \in {f, x}, d \in Base(fat, data) : Visited(fat', c) \cap Visited(fat, d) = {}
    BY <1>10
  <2>5. Spared(fat, data, fat', data, {f, x})
    BY <1>10, <2>1, <2>3, <2>4 DEF Spared
  <2> HIDE DEF f
  <2> QED  BY <1>5, <2>2, <2>5, OrderFrame
<1>12. InOrder(fat, data, written, Pending)'  BY <1>1, <1>7, <1>11
<1>13. Types'
  <2>1. OpType'
    <3>1. f \in Clusters  BY <1>2, <1>3 DEF OpType
    <3> QED  BY <1>2, <1>3, <1>4, <3>1 DEF OpType
  <2> QED  BY <1>1, <1>5, <2>1 DEF IInv, Types, Table
<1>14. InProgress'
  <2>1. f # 0 /\ x # 0  BY <1>1
  <2>2. Apart' <=> op.prev # 0  BY <1>4 DEF Apart
  <2>3. CASE op.first = 0
    <3>1. Chain(op.first)' = <<x>> /\ ~Apart' /\ op'.first = x /\ op'.prev = 0 /\ op'.done = 0
      BY <1>4, <1>6, <1>8, <2>2, <2>3 DEF Chain
    <3>2. Last(<<x>>) = x  BY DEF Last
    <3>3. Written(Chain(op.first))'
      BY <1>4, <3>1 DEF Written
    <3> QED  BY <1>4, <1>5, <1>6, <2>1, <3>1, <3>2, <3>3 DEF InProgress
  <2>4. CASE op.first # 0
    <3>1. /\ Chain(op.first)' = Chain(op.first) /\ op'.first = op.first
          /\ op'.prev = op.cluster /\ op'.prev # 0 /\ Apart'
      BY <1>4, <1>6, <1>9, <2>2, <2>4 DEF Chain
    <3>2. x \notin ToSet(Chain(op.first))  BY <1>3, <1>9, <2>4, HeadsFacts
    <3>3. Written(Chain(op.first))'
      <4>1. \A k \in 1..op.done : SectorIn(data, SectorsOn(Chain(op.first))[k]) = Text(op.id, k)
        BY <1>6, <2>4 DEF Written
      <4> QED  BY <1>1, <1>4, <1>6, <2>4, <3>1, <4>1 DEF Written
    <3> QED  BY <1>4, <1>5, <1>6, <2>1, <2>4, <3>1, <3>2, <3>3 DEF InProgress
  <2> QED  BY <2>3, <2>4
<1>15. (~leaked => AllUsed)'
  <2> SUFFICES ASSUME ~leaked PROVE AllUsed'
    BY <1>1
  <2>1. AllUsed  BY DEF IInv
  <2>2. {c \in Clusters : fat'[c] \notin {FREE, BAD}} =
        {c \in Clusters : fat[c] \notin {FREE, BAD}} \cup {x}
    BY <1>3, <1>5, HeadsFacts, Numbers
  <2>3. \A c \in B : Visited(fat', c) = Visited(fat, c)  BY <1>11 DEF Visited
  <2>4. Heads' = B \cup {f, x}
    <3>1. Firsts(fat', data) = Firsts(fat, data)  BY <1>11 DEF Firsts
    <3> QED  BY <1>1, <1>7, <3>1 DEF Heads, Base
  <2>5. UNION {Visited(fat', c) : c \in Heads'} =
        (UNION {Visited(fat, c) : c \in B}) \cup Visited(fat', f) \cup {x}
    BY <1>8, <2>3, <2>4
  <2>6. CASE op.first = 0
    <3>1. Pending = {}  BY <1>6, <1>7, <2>6
    <3>2. Heads = B  BY <3>1, HeadsFacts
    <3> QED  BY <1>8, <2>1, <2>2, <2>5, <2>6, <3>2 DEF AllUsed
  <2>7. CASE op.first # 0
    <3>1. op.first \in Clusters /\ op.cluster \in Clusters  BY <1>2, <1>6, <2>7 DEF OpType
    <3>2. Heads = B \cup {op.first, op.cluster}
      <4>1. {op.first, op.cluster} \ {0} = {op.first, op.cluster}  BY <1>6, <2>7
      <4> QED  BY <1>7, <4>1, HeadsFacts
    <3>3. UNION {Visited(fat, c) : c \in Heads} =
          (UNION {Visited(fat, c) : c \in B}) \cup Visited(fat, op.first) \cup {op.cluster}
      <4>1. Visited(fat, op.cluster) = {op.cluster}
        BY <1>5, <1>6, <2>7, <3>1, VisitedAlone
      <4> QED  BY <3>2, <4>1
    <3>4. op.cluster \in Visited(fat, op.first)
      <4>1. /\ IsChain(fat, Chain(op.first), op.first)
            /\ Visited(fat, op.first) = ToSet(Chain(op.first))
        BY <1>9, <2>7, HeadsFacts
      <4> QED  BY <1>6, <2>7, <4>1, InChain
    <3>5. Visited(fat', f) = Visited(fat, op.first)  BY <1>9, <2>7
    <3> QED  BY <2>1, <2>2, <2>5, <3>3, <3>4, <3>5 DEF AllUsed
  <2> QED  BY <2>6, <2>7
<1>16. Copies'
  <2>1. \A c \in DOMAIN fat : fat[c] = mirror[c] \/ FatSector(c) \in torn
    BY <1>1 DEF IInv, Copies
  <2> QED  BY <1>1, <1>4, <1>5, <2>1 DEF Copies
<1>17. DirsLow'  BY <1>11 DEF IInv, DirsLow, Visited, Base
<1> QED  BY <1>12, <1>13, <1>14, <1>15, <1>16, <1>17 DEF IInv

\* The chain of a call that has a cluster.
LEMMA Busy ==
  ASSUME IInv, op.pc \notin {"idle", "allocate"}
  PROVE  /\ OpType /\ op.first \in Clusters /\ op.cluster \in Clusters
         /\ op.first # 0 /\ op.cluster # 0 /\ fat[op.cluster] = EOC
         /\ Pending = {op.first, op.cluster} /\ op.first \in Heads /\ op.cluster \in Heads
         /\ IsChain(fat, Chain(op.first), op.first) /\ ChainIn(fat, op.first) = Chain(op.first)
         /\ IsChain(fat, ChainIn(fat, op.cluster), op.cluster)
         /\ Visited(fat, op.first) = ToSet(Chain(op.first))
         /\ Written(Chain(op.first))
         /\ IF Apart
            THEN op.prev = Last(Chain(op.first)) /\ op.cluster \notin ToSet(Chain(op.first))
            ELSE op.cluster = Last(Chain(op.first))
         /\ Visited(fat, op.cluster) = {op.cluster}
         /\ \A c \in Base(fat, data) :
               Visited(fat, c) \cap (Visited(fat, op.first) \cup {op.cluster}) = {}
         /\ UNION {Visited(fat, c) : c \in Heads} =
            (UNION {Visited(fat, c) : c \in Base(fat, data)})
               \cup Visited(fat, op.first) \cup {op.cluster}
<1>1. OpType  BY DEF IInv, Types, Idle
<1>2. op.first # 0 /\ op.first \in Clusters
  BY <1>1 DEF IInv, InProgress, OpType
<1>3. /\ op.cluster # 0 /\ fat[op.cluster] = EOC /\ Written(Chain(op.first))
      /\ IF Apart
         THEN op.prev = Last(Chain(op.first)) /\ op.cluster \notin ToSet(Chain(op.first))
         ELSE op.cluster = Last(Chain(op.first))
  BY <1>2 DEF IInv, InProgress
<1>4. op.cluster \in Clusters  BY <1>1, <1>3 DEF OpType
<1>5. Pending = {op.first, op.cluster} /\ Pending = {op.first, op.cluster} \ {0}
  BY <1>2, <1>3 DEF Pending
<1>6. op.first \in Heads /\ op.cluster \in Heads  BY <1>5 DEF Heads
<1>7. /\ IsChain(fat, Chain(op.first), op.first) /\ ChainIn(fat, op.first) = Chain(op.first)
      /\ IsChain(fat, ChainIn(fat, op.cluster), op.cluster)
      /\ Visited(fat, op.first) = ToSet(Chain(op.first))
  BY <1>6, HeadsFacts DEF Chain
<1>8. fat \in Table /\ Heads = Base(fat, data) \cup Pending  BY HeadsFacts
<1>9. Visited(fat, op.cluster) = {op.cluster}  BY <1>3, <1>4, <1>8, VisitedAlone
<1>10. \A c \in Base(fat, data) :
          Visited(fat, c) \cap (Visited(fat, op.first) \cup {op.cluster}) = {}
  BY <1>5, <1>9, HeadsFacts
<1>11. UNION {Visited(fat, c) : c \in Heads} =
       (UNION {Visited(fat, c) : c \in Base(fat, data)})
          \cup Visited(fat, op.first) \cup {op.cluster}
  <2>1. Heads = Base(fat, data) \cup {op.first, op.cluster}  BY <1>5, <1>8
  <2> QED  BY <1>9, <2>1
<1> QED  BY <1>1, <1>2, <1>3, <1>4, <1>5, <1>6, <1>7, <1>9, <1>10, <1>11

\* Both copies of a sector of the table agree after the second write.
LEMMA MirrorWritten ==
  ASSUME Types, NEW c \in Clusters, WriteMirror(c), UNCHANGED fat,
         \A x \in DOMAIN fat : \/ fat[x] = mirror[x] \/ FatSector(x) \in torn
                               \/ FatSector(x) = FatSector(c)
  PROVE  /\ mirror' \in Table /\ torn' \subseteq {FatSector(x) : x \in Clusters}
         /\ \A x \in DOMAIN fat : fat'[x] = mirror'[x] \/ FatSector(x) \in torn'
<1>1. /\ fat \in Table /\ mirror \in Table
      /\ DOMAIN mirror = 0..(ClusterCount + 1) /\ DOMAIN fat = 0..(ClusterCount + 1)
      /\ torn \subseteq {FatSector(x) : x \in Clusters}
  BY DEF Types, Table
<1>2. mirror' = [x \in 0..(ClusterCount + 1) |->
                   IF FatSector(x) = FatSector(c) THEN fat[x] ELSE mirror[x]]
      /\ torn' = torn \ {FatSector(c)}
  BY <1>1 DEF WriteMirror
<1>3. mirror' \in Table  BY <1>1, <1>2 DEF Table
<1>4. \A x \in DOMAIN fat : fat[x] = mirror'[x] \/ FatSector(x) \in torn'
  BY <1>1, <1>2
<1> QED  BY <1>1, <1>2, <1>3, <1>4

LEMMA StepMirror ==
  ASSUME IInv, AllocateMirror \/ LinkMirror
  PROVE  IInv'
<1>1. /\ op.pc \in {"mirror", "linkMirror"}
      /\ op'.pc = IF op.pc = "mirror" /\ op.prev # 0 THEN "link" ELSE "data"
      /\ WriteMirror(IF op.pc = "mirror" THEN op.cluster ELSE op.prev)
      /\ op' = [op EXCEPT !.pc = op'.pc]
      /\ UNCHANGED <<fat, data, serial, written, leaked>>
  <2>1. OpType  BY DEF IInv, Types, Idle, AllocateMirror, LinkMirror
  <2>2. CASE AllocateMirror  BY <2>1, <2>2 DEF AllocateMirror, OpType, Fields
  <2>3. CASE LinkMirror  BY <2>1, <2>3 DEF LinkMirror, OpType, Fields
  <2> QED  BY <2>2, <2>3
<1>2. /\ OpType /\ op.first \in Clusters /\ op.cluster \in Clusters
      /\ op.first # 0 /\ op.cluster # 0 /\ fat[op.cluster] = EOC
      /\ IsChain(fat, Chain(op.first), op.first)
      /\ Written(Chain(op.first))
      /\ IF Apart
         THEN op.prev = Last(Chain(op.first)) /\ op.cluster \notin ToSet(Chain(op.first))
         ELSE op.cluster = Last(Chain(op.first))
  BY <1>1, Busy
<1>3. /\ op'.cluster = op.cluster /\ op'.first = op.first /\ op'.prev = op.prev
      /\ op'.done = op.done /\ op'.size = op.size /\ op'.id = op.id /\ op'.dir = op.dir
      /\ op'.name = op.name /\ DOMAIN op' = Fields
  BY <1>1, <1>2 DEF OpType, Fields
<1>4. /\ op.done < op.size
      /\ op.pc = "mirror" /\ op.prev = 0 => op.cluster = op.first
      /\ op.pc = "linkMirror" => op.prev # 0
  BY <1>1, <1>2 DEF IInv, InProgress
<1>5. Pending' = Pending  BY <1>1, <1>3 DEF Pending
<1>6. InOrder(fat, data, written, Pending)'  BY <1>1, <1>5 DEF IInv
<1>7. /\ mirror' \in Table /\ torn' \subseteq {FatSector(x) : x \in Clusters}
      /\ \A x \in DOMAIN fat : fat'[x] = mirror'[x] \/ FatSector(x) \in torn'
  <2> DEFINE c == IF op.pc = "mirror" THEN op.cluster ELSE op.prev
  <2>1. c \in Clusters  BY <1>1, <1>2, <1>4 DEF OpType
  <2>2. \A x \in DOMAIN fat : \/ fat[x] = mirror[x] \/ FatSector(x) \in torn
                              \/ FatSector(x) = FatSector(c)
    BY <1>1 DEF IInv, Copies
  <2>3. Types /\ WriteMirror(c) /\ UNCHANGED fat  BY <1>1 DEF IInv
  <2> HIDE DEF c
  <2> QED  BY <2>1, <2>2, <2>3, MirrorWritten
<1>8. Types'
  <2>1. OpType'  BY <1>1, <1>2, <1>3 DEF OpType
  <2> QED  BY <1>1, <1>7, <2>1 DEF IInv, Types
<1>9. (~leaked => AllUsed)'  BY <1>1, <1>5 DEF IInv, AllUsed, Heads
<1>10. Copies'  BY <1>1, <1>7 DEF Copies
<1>11. InProgress'
  <2> DEFINE p == Chain(op.first)
  <2>1. Chain(op.first)' = p  BY <1>1, <1>3 DEF Chain
  <2>2. Len(p) \in Nat \ {0} /\ Last(p) = p[Len(p)] /\ p[1] = op.first
        /\ \A i, j \in 1..Len(p) : p[i] = p[j] => i = j
    BY <1>2, ChainParts
  <2>3. Apart' <=> Apart  BY <1>1, <1>3 DEF Apart
  <2>4. \A k \in 1..op.done : SectorIn(data, SectorsOn(p)[k]) = Text(op.id, k)
    BY <1>2 DEF Written
  <2>5. CASE op'.pc = "link"
    <3>1. op.pc = "mirror" /\ op.prev # 0 /\ Apart  BY <1>1, <2>5 DEF Apart
    <3>2. op.done = Len(p) * SectorsPerCluster  BY <1>2, <3>1 DEF Written
    <3>3. Written(Chain(op.first))'
      BY <1>1, <1>3, <2>1, <2>4, <2>5, <3>2 DEF Written
    <3> QED  BY <1>1, <1>2, <1>3, <1>4, <2>1, <2>3, <2>5, <3>1, <3>3 DEF InProgress
  <2>6. CASE op'.pc = "data"
    <3>1. ~Apart  BY <1>1, <2>6 DEF Apart
    <3>2. op.done = (Len(p) - 1) * SectorsPerCluster
      <4>1. CASE op.pc = "linkMirror"  BY <1>2, <4>1 DEF Written
      <4>2. CASE op.pc = "mirror"
        <5>1. op.prev = 0  BY <1>1, <2>6, <4>2
        <5>2. op.done = 0  BY <1>2, <3>1, <4>2 DEF Written
        <5>3. p[1] = p[Len(p)]  BY <1>2, <1>4, <2>2, <3>1, <4>2, <5>1
        <5>4. Len(p) = 1
          <6>1. 1 \in 1..Len(p) /\ Len(p) \in 1..Len(p)  BY <2>2
          <6> HIDE DEF p
          <6> QED  BY <2>2, <5>3, <6>1
        <5>5. (Len(p) - 1) * SectorsPerCluster = 0  BY <5>4, Numbers
        <5> QED  BY <5>2, <5>5
      <4> QED  BY <1>1, <4>1, <4>2
    <3>3. op.done \in (Len(p) - 1) * SectorsPerCluster..Len(p) * SectorsPerCluster - 1
      <4>1. /\ SectorsPerCluster \in Nat \ {0} /\ Len(p) - 1 \in Nat
            /\ Len(p) * SectorsPerCluster = (Len(p) - 1) * SectorsPerCluster + SectorsPerCluster
            /\ (Len(p) - 1) * SectorsPerCluster \in Nat
        BY <2>2, Numbers
      <4> QED  BY <3>2, <4>1
    <3>4. Written(Chain(op.first))'
      BY <1>1, <1>3, <2>1, <2>4, <2>6, <3>3 DEF Written
    <3>5. ~Apart' /\ op.cluster = Last(p)  BY <1>2, <2>3, <3>1
    <3> HIDE DEF p
    <3> QED  BY <1>1, <1>2, <1>3, <1>4, <2>1, <2>6, <3>4, <3>5 DEF InProgress
  <2> QED  BY <1>1, <2>5, <2>6
<1>12. DirsLow'  BY <1>1 DEF IInv, DirsLow, Visited
<1> QED  BY <1>6, <1>8, <1>9, <1>10, <1>11, <1>12 DEF IInv

LEMMA StepLink ==
  ASSUME IInv, Link
  PROVE  IInv'
<1> DEFINE p == Chain(op.first)
           q == Append(p, op.cluster)
           B == Base(fat, data)
<1>1. /\ op.pc = "link" /\ fat' = [fat EXCEPT ![op.prev] = op.cluster]
      /\ op' = [op EXCEPT !.pc = "linkMirror"]
      /\ UNCHANGED <<mirror, data, serial, written, torn, leaked>>
  BY DEF Link
<1>2. op.done < op.size /\ op.prev # 0  BY <1>1 DEF IInv, InProgress
<1>3. Apart  BY <1>1, <1>2 DEF Apart
<1>4. /\ OpType /\ op.first \in Clusters /\ op.cluster \in Clusters
      /\ op.first # 0 /\ op.cluster # 0 /\ fat[op.cluster] = EOC
      /\ Pending = {op.first, op.cluster}
      /\ IsChain(fat, p, op.first)
      /\ Visited(fat, op.first) = ToSet(p)
      /\ op.prev = Last(p) /\ op.cluster \notin ToSet(p)
      /\ Written(p) /\ op.done = Len(p) * SectorsPerCluster
      /\ \A c \in B : Visited(fat, c) \cap (Visited(fat, op.first) \cup {op.cluster}) = {}
      /\ UNION {Visited(fat, c) : c \in Heads} =
            (UNION {Visited(fat, c) : c \in B}) \cup Visited(fat, op.first) \cup {op.cluster}
  <2>1. Written(p) /\ op.prev = Last(p) /\ op.cluster \notin ToSet(p)
    BY <1>1, <1>3, Busy
  <2>2. op.done = Len(p) * SectorsPerCluster  BY <1>1, <2>1 DEF Written
  <2> QED  BY <1>1, <2>1, <2>2, Busy
<1>5. /\ op'.pc = "linkMirror" /\ op'.cluster = op.cluster /\ op'.first = op.first
      /\ op'.prev = op.prev /\ op'.done = op.done /\ op'.size = op.size /\ op'.id = op.id
      /\ op'.dir = op.dir /\ op'.name = op.name /\ DOMAIN op' = Fields
  BY <1>1, <1>4 DEF OpType, Fields
<1>6. op.prev \in ToSet(p) /\ op.prev \in Clusters  BY <1>4, InChain
<1>7. /\ fat \in Table /\ fat' \in Table /\ DOMAIN fat' = DOMAIN fat
      /\ DOMAIN fat = 0..(ClusterCount + 1)
      /\ fat'[op.prev] = op.cluster /\ \A c \in DOMAIN fat : c # op.prev => fat'[c] = fat[c]
  <2>1. fat \in Table /\ DOMAIN fat = 0..(ClusterCount + 1)  BY HeadsFacts
  <2>2. op.prev \in DOMAIN fat /\ op.cluster \in Entries  BY <1>4, <1>6, <2>1, Numbers
  <2>3. fat' \in Table  BY <1>1, <2>1, <2>2 DEF Table
  <2> QED  BY <1>1, <2>1, <2>2, <2>3
<1>8. IsChain(fat', q, op.first) /\ ChainIn(fat', op.first) = q
  <2> HIDE DEF p
  <2>1. fat'[Last(p)] = op.cluster /\ \A y \in Clusters \ {Last(p)} : fat'[y] = fat[y]
    BY <1>4, <1>7, Numbers
  <2>2. op.cluster \in Clusters /\ op.cluster \notin ToSet(p) /\ fat[op.cluster] = EOC
    BY <1>4
  <2>3. IsChain(fat, p, op.first)  BY <1>4
  <2>4. Linked(fat, p, op.first, op.cluster, fat')  BY <1>7, <2>1, <2>2, <2>3 DEF Linked
  <2> QED  BY <2>4, ChainLinked DEF q
<1>9. fat'[op.cluster] = EOC  BY <1>4, <1>6, <1>7, Numbers
<1>10. /\ IsChain(fat', ChainIn(fat', op.cluster), op.cluster)
       /\ Visited(fat', op.cluster) = {op.cluster}
  <2>1. IsChain(fat', <<op.cluster>>, op.cluster) /\ ChainIn(fat', op.cluster) = <<op.cluster>>
    BY <1>4, <1>7, <1>9, ChainAlone
  <2> QED  BY <2>1 DEF Visited, ToSet
<1>11. /\ Len(p) \in Nat \ {0} /\ Last(q) = op.cluster /\ Len(q) = Len(p) + 1
       /\ p \in Seq(Clusters)
       /\ Visited(fat', op.first) = Visited(fat, op.first) \cup {op.cluster}
  <2>1. p \in Seq(Clusters) /\ Len(p) \in Nat \ {0} /\ DOMAIN p = 1..Len(p)
    BY <1>4, ChainParts
  <2>2. /\ q \in Seq(Clusters) /\ Len(q) = Len(p) + 1
        /\ \A i \in 1..Len(p) : q[i] = p[i]
        /\ q[Len(p) + 1] = op.cluster
    BY <1>4, <2>1, AppendProperties
  <2>3. DOMAIN q = 1..(Len(p) + 1)  BY <2>2, LenProperties
  <2>4. ToSet(q) = ToSet(p) \cup {op.cluster}
    <3> HIDE DEF p, q
    <3>1. 1..(Len(p) + 1) = 1..Len(p) \cup {Len(p) + 1}  BY <2>1
    <3> QED  BY <2>1, <2>2, <2>3, <3>1 DEF ToSet
  <2>5. Visited(fat', op.first) = ToSet(q)  BY <1>8 DEF Visited
  <2> QED  BY <1>4, <2>1, <2>2, <2>4, <2>5 DEF Last
<1> HIDE DEF p, q
<1>12. /\ InOrder(fat', data, written, {op.first, op.cluster})
       /\ EntriesIn(fat', data) = EntriesIn(fat, data)
       /\ \A c \in B : ChainIn(fat', c) = ChainIn(fat, c)
  <2>1. \A c \in B : \A y \in Visited(fat, c) : fat'[y] = fat[y] /\ data[y] = data[y]
    <3>1. \A c \in B : Visited(fat, c) \subseteq Clusters  BY HeadsFacts
    <3> QED  BY <1>4, <1>6, <1>7, <3>1, Numbers
  <2>2. \A c \in {op.first, op.cluster} : IsChain(fat', ChainIn(fat', c), c)
    BY <1>8, <1>10
  <2>3. {op.first, op.cluster} \cap B = {}  BY <1>4, HeadsFacts
  <2>4. \A c \in {op.first, op.cluster}, d \in B : Visited(fat', c) \cap Visited(fat, d) = {}
    BY <1>4, <1>10, <1>11
  <2>5. Spared(fat, data, fat', data, {op.first, op.cluster})
    BY <2>1, <2>2, <2>3, <2>4 DEF Spared
  <2>6. FilesTyped(written) /\ InOrder(fat, data, written, Pending)
    BY HeadsFacts DEF IInv
  <2> QED  BY <1>7, <2>5, <2>6, OrderFrame
<1>13. Pending' = {op.first, op.cluster}
  BY <1>4, <1>5 DEF Pending
<1>14. InOrder(fat, data, written, Pending)'  BY <1>1, <1>12, <1>13
<1>15. Types'
  <2>1. OpType'  BY <1>4, <1>5 DEF OpType
  <2> QED  BY <1>1, <1>7, <2>1 DEF IInv, Types, Table
<1>16. InProgress'
  <2>1. Chain(op.first)' = q  BY <1>5, <1>8 DEF Chain
  <2>2. ~Apart'  BY <1>5 DEF Apart
  <2>3. \A k \in 1..op.done : SectorIn(data, SectorsOn(q)[k]) = Text(op.id, k)
    <3>1. \A k \in 1..op.done : SectorIn(data, SectorsOn(p)[k]) = Text(op.id, k)
      BY <1>4 DEF Written
    <3>2. \A k \in 1..op.done : SectorsOn(q)[k] = SectorsOn(p)[k]
      BY <1>4, <1>11, SectorsAppend DEF q
    <3> QED  BY <3>1, <3>2
  <2>4. op.done = (Len(q) - 1) * SectorsPerCluster
    <3>1. Len(q) - 1 = Len(p)  BY <1>11
    <3> QED  BY <1>4, <3>1
  <2>5. Written(Chain(op.first))'
    BY <1>1, <1>5, <2>1, <2>3, <2>4 DEF Written
  <2> QED  BY <1>2, <1>4, <1>5, <1>9, <1>11, <2>1, <2>2, <2>5 DEF InProgress
<1>17. (~leaked => AllUsed)'
  <2> SUFFICES ASSUME ~leaked PROVE AllUsed'
    BY <1>1
  <2>1. AllUsed  BY DEF IInv
  <2>2. {c \in Clusters : fat'[c] \notin {FREE, BAD}} =
        {c \in Clusters : fat[c] \notin {FREE, BAD}}
    <3>1. fat[op.prev] = EOC  BY <1>4 DEF IsChain
    <3>2. fat[op.prev] \notin {FREE, BAD} /\ fat'[op.prev] \notin {FREE, BAD}
      BY <1>4, <1>7, <3>1, Numbers
    <3> QED  BY <1>7, <3>2, Numbers
  <2>3. \A c \in B : Visited(fat', c) = Visited(fat, c)  BY <1>12 DEF Visited
  <2>4. Heads' = B \cup {op.first, op.cluster}
    <3>1. Firsts(fat', data) = Firsts(fat, data)  BY <1>12 DEF Firsts
    <3> QED  BY <1>1, <1>13, <3>1 DEF Heads, Base
  <2>5. UNION {Visited(fat', c) : c \in Heads'} =
        (UNION {Visited(fat, c) : c \in B}) \cup Visited(fat, op.first) \cup {op.cluster}
    BY <1>10, <1>11, <2>3, <2>4
  <2> QED  BY <1>4, <2>1, <2>2, <2>5 DEF AllUsed
<1>18. Copies'
  <2>1. \A c \in DOMAIN fat : fat[c] = mirror[c] \/ FatSector(c) \in torn
    BY <1>1 DEF IInv, Copies
  <2> QED  BY <1>1, <1>5, <1>7, <2>1 DEF Copies
<1>19. DirsLow'  BY <1>12 DEF IInv, DirsLow, Visited, Base
<1> QED  BY <1>14, <1>15, <1>16, <1>17, <1>18, <1>19 DEF IInv

\* The data after one sector has been written.
LEMMA SectorWritten ==
  ASSUME NEW b, DOMAIN b = Clusters, \A c \in Clusters : DOMAIN b[c] = Offsets,
         NEW x \in Clusters, NEW o \in Offsets, NEW e,
         NEW b2, b2 = [b EXCEPT ![x][o] = e]
  PROVE  /\ DOMAIN b2 = Clusters /\ \A c \in Clusters : DOMAIN b2[c] = Offsets
         /\ b2[x][o] = e
         /\ \A c \in Clusters : c # x => b2[c] = b[c]
         /\ \A c \in Clusters, n \in Offsets : ~(c = x /\ n = o) => b2[c][n] = b[c][n]
<1> DEFINE h == [b[x] EXCEPT ![o] = e]
<1>1. DOMAIN h = Offsets /\ h[o] = e /\ \A n \in Offsets : n # o => h[n] = b[x][n]
  OBVIOUS
<1>2. b2 = [b EXCEPT ![x] = h]  OBVIOUS
<1> HIDE DEF h
<1>3. DOMAIN b2 = Clusters /\ b2[x] = h /\ \A c \in Clusters : c # x => b2[c] = b[c]
  BY <1>2
<1> QED  BY <1>1, <1>3

\* Where the next sector of a call goes, and whether it is the last of its cluster.
LEMMA NextSector ==
  ASSUME NEW m \in Nat \ {0}, NEW S \in Nat \ {0}, NEW n \in (m - 1) * S..m * S - 1
  PROVE  /\ n \in Nat /\ (m - 1) * S <= n /\ n < m * S
         /\ (n % S) + 1 < S => n + 1 \in (m - 1) * S..m * S - 1
         /\ ~((n % S) + 1 < S) => n + 1 = m * S
         /\ n % S \in 0..(S - 1)
<1> DEFINE q == m - 1
           r == n - q * S
<1>1. q \in Nat /\ q * S \in Nat /\ m * S = q * S + S  OBVIOUS
<1>2. n \in Nat /\ r \in 0..(S - 1) /\ n = q * S + r  BY <1>1
<1>3. n % S = r
  <2> HIDE DEF q, r
  <2>1. (q * S + r) % S = r  BY <1>1, <1>2, DivFacts
  <2> QED  BY <1>2, <2>1
<1> QED  BY <1>1, <1>2, <1>3

LEMMA StepWriteSector ==
  ASSUME IInv, WriteSector
  PROVE  IInv'
<1> DEFINE p == Chain(op.first)
           B == Base(fat, data)
           o == op.done % SectorsPerCluster
           S == SectorsPerCluster
           pc == IF op.done + 1 = op.size THEN "entry"
                 ELSE IF o + 1 < S THEN "data" ELSE "allocate"
           text == Text(op.id, op.done + 1)
<1>1. /\ op.pc = "data"
      /\ data' = [data EXCEPT ![NextPlace[1]][NextPlace[2]] = text]
      /\ op' = [op EXCEPT !.done = @ + 1, !.pc = pc, !.prev = op.cluster]
      /\ UNCHANGED <<fat, mirror, serial, written, torn, leaked>>
  BY DEF WriteSector, NextOffset
<1>2. op.done < op.size  BY <1>1 DEF IInv, InProgress
<1>3. /\ OpType /\ op.first \in Clusters /\ op.cluster \in Clusters
      /\ op.first # 0 /\ op.cluster # 0 /\ fat[op.cluster] = EOC
      /\ Pending = {op.first, op.cluster} /\ op.first \in Heads
      /\ IsChain(fat, p, op.first) /\ IsChain(fat, ChainIn(fat, op.first), op.first)
      /\ IsChain(fat, ChainIn(fat, op.cluster), op.cluster)
      /\ Visited(fat, op.first) = ToSet(p) /\ Visited(fat, op.cluster) = {op.cluster}
      /\ op.cluster = Last(p)
      /\ \A c \in B : Visited(fat, c) \cap (Visited(fat, op.first) \cup {op.cluster}) = {}
  <2>1. ~Apart  BY <1>1 DEF Apart
  <2> QED  BY <1>1, <2>1, Busy
<1>4. /\ \A k \in 1..op.done : SectorIn(data, SectorsOn(p)[k]) = Text(op.id, k)
      /\ op.done \in (Len(p) - 1) * S..Len(p) * S - 1
  <2>1. Written(p)  BY <1>1, Busy
  <2> QED  BY <1>1, <2>1 DEF Written
<1>5. S \in Nat \ {0} /\ Len(p) \in Nat \ {0} /\ p \in Seq(Clusters) /\ IsInjective(p)
  BY <1>3, Numbers, ChainParts DEF IsChain
<1>6. /\ op.done \in Nat /\ (Len(p) - 1) * S <= op.done /\ op.done < Len(p) * S
      /\ o + 1 < S => op.done + 1 \in (Len(p) - 1) * S..Len(p) * S - 1
      /\ ~(o + 1 < S) => op.done + 1 = Len(p) * S
      /\ o \in Offsets
  <2> HIDE DEF p, S
  <2>1. S = SectorsPerCluster  BY DEF S
  <2> QED  BY <1>4, <1>5, <2>1, NextSector DEF Offsets
<1>7. /\ op.done + 1 \in 1..(Len(p) * S)
      /\ SectorsOn(p)[op.done + 1] = <<op.cluster, o>>
  BY <1>3, <1>5, <1>6, SectorOfLast
<1> HIDE DEF p, o, S, pc, text
<1>8. /\ op'.cluster = op.cluster /\ op'.first = op.first /\ op'.prev = op.cluster
      /\ op'.done = op.done + 1 /\ op'.size = op.size /\ op'.id = op.id
      /\ op'.dir = op.dir /\ op'.name = op.name /\ DOMAIN op' = Fields /\ op'.pc = pc
  BY <1>1, <1>3 DEF OpType, Fields
<1>9. /\ DOMAIN data' = Clusters /\ \A c \in Clusters : DOMAIN data'[c] = Offsets
      /\ data'[op.cluster][o] = text
      /\ \A c \in Clusters : c # op.cluster => data'[c] = data[c]
      /\ \A c \in Clusters, n \in Offsets :
            ~(c = op.cluster /\ n = o) => data'[c][n] = data[c][n]
  <2>1. DOMAIN data = Clusters /\ \A c \in Clusters : DOMAIN data[c] = Offsets
    BY DEF IInv, Types
  <2>2. NextPlace[1] = op.cluster /\ NextPlace[2] = o
    <3> DEFINE x == <<op.cluster, o>>
    <3>1. x[1] = op.cluster /\ x[2] = o  OBVIOUS
    <3>2. NextPlace = At(x)  BY DEF NextPlace, NextOffset, o
    <3> HIDE DEF x
    <3> QED  BY <1>3, <1>6, <3>1, <3>2, AtIs
  <2>3. data' = [data EXCEPT ![op.cluster][o] = text]  BY <1>1, <2>2
  <2> QED  BY <1>3, <1>6, <2>1, <2>3, SectorWritten
<1>10. op'.pc # "idle" /\ Pending' = Pending
  <2>1. op'.pc # "idle"  BY <1>8 DEF pc
  <2> QED  BY <1>1, <1>8, <2>1 DEF Pending
<1>11. /\ InOrder(fat, data', written, Pending)
       /\ EntriesIn(fat, data') = EntriesIn(fat, data)
  <2>1. \A c \in B : \A y \in Visited(fat, c) : fat[y] = fat[y] /\ data'[y] = data[y]
    <3>1. \A c \in B : Visited(fat, c) \subseteq Clusters  BY HeadsFacts
    <3> QED  BY <1>3, <1>9, <3>1
  <2>2. \A c \in Pending : IsChain(fat, ChainIn(fat, c), c)  BY <1>3
  <2>3. Pending \cap B = {}  BY HeadsFacts
  <2>4. \A c \in Pending, d \in B : Visited(fat, c) \cap Visited(fat, d) = {}
    BY HeadsFacts
  <2>5. Spared(fat, data, fat, data', Pending)
    BY <2>1, <2>2, <2>3, <2>4 DEF Spared
  <2>6. fat \in Table /\ FilesTyped(written) /\ InOrder(fat, data, written, Pending)
    BY HeadsFacts DEF IInv
  <2> QED  BY <2>5, <2>6, OrderFrame
<1>12. InOrder(fat, data, written, Pending)'  BY <1>1, <1>10, <1>11
<1>13. Types'
  <2>1. OpType'
    <3>1. op.done + 1 \in 0..op.size  BY <1>2, <1>3, <1>6 DEF OpType
    <3>2. pc \in {"allocate", "data", "entry"}  BY DEF pc
    <3> QED  BY <1>3, <1>8, <3>1, <3>2 DEF OpType
  <2> QED  BY <1>1, <1>9, <2>1 DEF IInv, Types
<1>14. InProgress'
  <2>1. Chain(op.first)' = p  BY <1>1, <1>8 DEF Chain, p
  <2>2. \A k \in 1..(op.done + 1) : SectorIn(data', SectorsOn(p)[k]) = Text(op.id, k)
    <3> SUFFICES ASSUME NEW k \in 1..(op.done + 1)
                 PROVE  SectorIn(data', SectorsOn(p)[k]) = Text(op.id, k)
      OBVIOUS
    <3>1. CASE k = op.done + 1
      <4>1. SectorIn(data', SectorsOn(p)[k]) = data'[op.cluster][o]
        <5> DEFINE x == <<op.cluster, o>>
        <5>1. x[1] = op.cluster /\ x[2] = o /\ SectorsOn(p)[k] = x  BY <1>7, <3>1
        <5> HIDE DEF x
        <5> QED  BY <1>3, <1>6, <5>1, SectorInIs
      <4> QED  BY <1>9, <3>1, <4>1 DEF text
    <3>2. CASE k # op.done + 1
      <4>1. k \in 1..op.done  BY <1>6, <3>2
      <4>2. k \in 1..(Len(p) * S)  
        <5>1. Len(p) * S \in Nat  BY <1>5
        <5> QED  BY <1>6, <4>1, <5>1
      <4>3. SectorsOn(p)[k] # SectorsOn(p)[op.done + 1]
        BY <1>5, <1>7, <3>2, <4>2, SectorsDiffer DEF S
      <4>4. /\ SectorsOn(p)[k] = <<SectorsOn(p)[k][1], SectorsOn(p)[k][2]>>
            /\ SectorsOn(p)[k][1] \in Clusters /\ SectorsOn(p)[k][2] \in Offsets
        <5>1. SectorsOn(p)[k] \in Clusters \X Offsets
          BY <1>5, <4>2, SectorsFacts, ElementOfSeq DEF S
        <5> QED  BY <5>1
      <4>5. ~(SectorsOn(p)[k][1] = op.cluster /\ SectorsOn(p)[k][2] = o)
        BY <1>7, <4>3, <4>4, Zenon
      <4>6. SectorIn(data', SectorsOn(p)[k]) = SectorIn(data, SectorsOn(p)[k])
        BY <1>9, <4>4, <4>5, SectorInIs
      <4> QED  BY <1>4, <4>1, <4>6
    <3> QED  BY <3>1, <3>2
  <2>3. /\ (pc = "entry" => op.done + 1 = op.size /\ op.done + 1 <= Len(p) * S)
        /\ (pc = "data" => op.done + 1 \in (Len(p) - 1) * S..Len(p) * S - 1)
        /\ (pc = "allocate" => op.done + 1 = Len(p) * S)
        /\ (pc # "entry" => op.done + 1 < op.size)
        /\ pc \in {"entry", "data", "allocate"}
    <3>1. op.size \in Nat /\ Len(p) * S \in Nat
      BY <1>3, <1>5, SizeAssumption DEF OpType
    <3> QED  BY <1>2, <1>6, <3>1 DEF pc
  <2>4. Written(Chain(op.first))'
    BY <1>8, <2>1, <2>2, <2>3 DEF Written, S
  <2>5. ~Apart'  BY <1>8, <2>3 DEF Apart
  <2> QED  BY <1>1, <1>3, <1>8, <2>1, <2>3, <2>4, <2>5 DEF InProgress
<1>15. (~leaked => AllUsed)'
  <2>1. Heads' = Heads
    <3>1. Firsts(fat, data') = Firsts(fat, data)  BY <1>11 DEF Firsts
    <3> QED  BY <1>1, <1>10, <3>1 DEF Heads
  <2> QED  BY <1>1, <2>1 DEF IInv, AllUsed
<1>16. Copies'
  <2>1. \A c \in DOMAIN fat : fat[c] = mirror[c] \/ FatSector(c) \in torn
    BY <1>1 DEF IInv, Copies
  <2> QED  BY <1>1, <2>1 DEF Copies
<1>17. DirsLow'  BY <1>1 DEF IInv, DirsLow, Visited
<1> QED  BY <1>12, <1>13, <1>14, <1>15, <1>16, <1>17 DEF IInv

LEMMA StepWriteEntry ==
  ASSUME IInv, WriteEntry
  PROVE  IInv'
<1> DEFINE p == Chain(op.first)
           d == op.dir
           k == FreeSlot(op.dir)
           slots == SlotsOn(ChainIn(fat, d))
           l == slots[k]
           s == At(<<l[1] % LocMod, l[2]>>)
           e == File(op.name, op.first, op.size)
           f == [dir |-> op.dir, name |-> op.name, id |-> op.id, size |-> op.size]
           B == Base(fat, data)
<1>1. /\ op.pc = "entry" /\ k # 0 /\ op' = Idle
      /\ data' = [data EXCEPT ![s[1]][s[2]][l[3]] = e]
      /\ written' = written \cup {f}
      /\ UNCHANGED <<fat, mirror, serial, torn, leaked>>
  BY DEF WriteEntry, SlotsOf, Chain
<1>2. op.done = op.size  BY <1>1 DEF IInv, InProgress
<1>3. /\ OpType /\ op.first \in Clusters /\ op.cluster \in Clusters
      /\ op.first # 0 /\ op.cluster # 0 /\ fat[op.cluster] = EOC
      /\ Pending = {op.first, op.cluster} /\ op.first \in Heads
      /\ IsChain(fat, p, op.first)
      /\ Visited(fat, op.first) = ToSet(p)
      /\ op.cluster = Last(p) /\ Written(p)
      /\ UNION {Visited(fat, c) : c \in Heads} =
            (UNION {Visited(fat, c) : c \in B}) \cup Visited(fat, op.first) \cup {op.cluster}
  <2>1. ~Apart  BY <1>1 DEF Apart
  <2> QED  BY <1>1, <2>1, Busy
<1>4. d \in Dirs /\ op.size \in Nat /\ op.name \in Names
  BY <1>3, SizeAssumption DEF OpType
<1>5. /\ fat \in Table /\ FilesTyped(written) /\ InOrder(fat, data, written, Pending)
      /\ DOMAIN data = Clusters /\ \A c \in Clusters : DOMAIN data[c] = Offsets
      /\ op.first \in Pending
  BY <1>3, HeadsFacts DEF IInv, Types
<1>6. /\ ChainIn(fat, d) \in Seq(Clusters)
      /\ Visited(fat, d) = ToSet(ChainIn(fat, d)) /\ Visited(fat, d) \subseteq Clusters
      /\ DirInOrder(fat, data, written, d)
  <2>1. d \in Heads  BY <1>4 DEF Heads
  <2> QED  BY <1>4, <1>5, <2>1, DirSlots, HeadsFacts DEF InOrder, Visited
<1>7. /\ k \in DOMAIN slots /\ ~IsFile(SlotIn(data, l))
      /\ \A j \in 1..(k - 1) : IsFile(SlotIn(data, slots[j]))
  <2> DEFINE free == {j \in DOMAIN slots : ~IsFile(SlotIn(data, slots[j]))}
  <2>1. k = IF free = {} THEN 0 ELSE Min(free)
    BY DEF FreeSlot, SlotsOf, SlotAt, Chain
  <2>2. /\ DOMAIN slots \subseteq Nat \ {0}
        /\ \A i \in DOMAIN slots, j \in Nat \ {0} : j <= i => j \in DOMAIN slots
    BY <1>6, SlotsFacts
  <2>3. free # {} /\ free \in SUBSET Nat  BY <1>1, <2>1, <2>2
  <2>4. k \in free /\ \A j \in free : k <= j
    <3> HIDE DEF free, k
    <3> QED  BY <2>1, <2>3, MinOfNats
  <2> HIDE DEF k, slots
  <2>5. k \in DOMAIN slots /\ k \in Nat \ {0}  BY <2>2, <2>4
  <2>6. ASSUME NEW j \in 1..(k - 1) PROVE IsFile(SlotIn(data, slots[j]))
    <3>1. j \in Nat \ {0} /\ j <= k /\ ~(k <= j)  BY <2>5
    <3>2. j \in DOMAIN slots  BY <2>2, <2>5, <3>1
    <3> QED  BY <2>4, <3>1, <3>2
  <2> QED  BY <2>4, <2>5, <2>6
<1> HIDE DEF s
<1>8. /\ l[1] \in Visited(fat, d) /\ l[1] \in Clusters /\ l[2] \in Offsets
      /\ l[3] \in DOMAIN data[l[1]][l[2]]
  <2>1. /\ l[1] \in ToSet(ChainIn(fat, d)) /\ l[2] \in Offsets
        /\ l[3] \in 1..EntriesPerSector
    <3> HIDE DEF k, d
    <3> QED  BY <1>6, <1>7, SlotsFacts
  <2>2. DOMAIN SectorIn(data, l) = 1..EntriesPerSector
    <3> HIDE DEF k, d
    <3> QED  BY <1>6, <1>7 DEF DirInOrder
  <2> HIDE DEF l
  <2> QED  BY <1>6, <2>1, <2>2, SectorInIs
<1>9. s[1] = l[1] /\ s[2] = l[2]
  <2>1. l[1] \in 0..(LocMod - 1)  BY <1>4, <1>8 DEF IInv, DirsLow
  <2> HIDE DEF l
  <2>2. l[1] % LocMod = l[1]
    <3>1. LocMod \in Nat  BY DriveAssumption
    <3> QED  BY <2>1, <3>1
  <2> DEFINE x == <<l[1] % LocMod, l[2]>>
  <2>3. x[1] = l[1] /\ x[2] = l[2]  BY <2>2
  <2> HIDE DEF x
  <2>4. At(x)[1] = l[1] /\ At(x)[2] = l[2]  BY <1>8, <2>3, AtIs
  <2> QED  BY <2>4 DEF x, s
<1>10. IsFile(e) /\ e.name = f.name /\ e.first = op.first /\ e.size = op.size
       /\ f.dir = d /\ f.size = op.size /\ f.id = op.id
  BY DEF File, IsFile
<1>11. Holds(fat, data, e, f)
  <2>1. ChainIn(fat, e.first) = p  BY <1>10 DEF Chain
  <2>2. p \in Seq(Clusters) /\ Len(p) \in Nat  BY <1>3, ChainParts
  <2>3. /\ \A j \in 1..op.done : SectorIn(data, SectorsOn(p)[j]) = Text(op.id, j)
        /\ op.done <= Len(p) * SectorsPerCluster
    BY <1>1, <1>3 DEF Written
  <2>4. Len(SectorsOn(p)) = Len(p) * SectorsPerCluster  BY <2>2, SectorsFacts
  <2> HIDE DEF p, e, f
  <2> QED  BY <1>2, <1>10, <2>1, <2>3, <2>4 DEF Holds
<1> HIDE DEF k, e, f
<1>12. /\ DOMAIN data' = Clusters /\ \A c \in Clusters : DOMAIN data'[c] = Offsets
       /\ SlotSet(data, data', l, e)
  <2>1. data' = [data EXCEPT ![l[1]][l[2]][l[3]] = e]  BY <1>1, <1>9
  <2> HIDE DEF l
  <2> QED  BY <1>5, <1>8, <2>1, SlotWritten
<1>13. /\ InOrder(fat, data', written \cup {f}, {})
       /\ EntriesIn(fat, data') = EntriesIn(fat, data) \cup {e}
  <2>1. e.first \in Pending /\ f.size \in Nat  BY <1>4, <1>5, <1>10
  <2>2. EntryFor(fat, data, Pending, d, e, f)  BY <1>10, <1>11, <2>1 DEF EntryFor
  <2>3. FirstUnused(fat, data, d, k)  BY <1>7 DEF FirstUnused
  <2>4. EntryAdded(fat, data, written, Pending, d, k, e, f, data')
    BY <1>4, <1>5, <1>12, <2>2, <2>3 DEF EntryAdded
  <2> HIDE DEF d
  <2> QED  BY <2>4, OrderNewEntry
<1>14. Pending' = {} /\ op'.pc = "idle"  BY <1>1 DEF Pending, Idle
<1>15. InOrder(fat, data, written, Pending)'  BY <1>1, <1>13, <1>14
<1>16. Types'
  <2>1. \A g \in written' : g.dir \in Dirs /\ g.size \in Nat
    BY <1>1, <1>4, <1>5, <1>10 DEF FilesTyped
  <2> QED  BY <1>1, <1>12, <2>1 DEF IInv, Types
<1>17. InProgress'  BY <1>14 DEF InProgress
<1>18. (~leaked => AllUsed)'
  <2>1. Firsts(fat, data') = Firsts(fat, data) \cup {op.first}
    BY <1>10, <1>13 DEF Firsts
  <2>2. Heads' = B \cup {op.first}  BY <1>1, <1>14, <2>1 DEF Heads, Base
  <2>3. op.cluster \in Visited(fat, op.first)  BY <1>3, InChain
  <2>4. UNION {Visited(fat, c) : c \in Heads'} = UNION {Visited(fat, c) : c \in Heads}
    BY <1>3, <2>2, <2>3
  <2> QED  BY <1>1, <2>4 DEF IInv, AllUsed
<1>19. Copies'
  <2>1. \A c \in DOMAIN fat : fat[c] = mirror[c] \/ FatSector(c) \in torn
    BY <1>1 DEF IInv, Copies
  <2> QED  BY <1>1, <2>1 DEF Copies
<1>20. DirsLow'  BY <1>1 DEF IInv, DirsLow, Visited
<1> QED  BY <1>15, <1>16, <1>17, <1>18, <1>19, <1>20 DEF IInv

LEMMA Invariant == Spec => []IInv
<1>1. IInv /\ [Next]_vars => IInv'
  <2> SUFFICES ASSUME IInv, [Next]_vars PROVE IInv'
    OBVIOUS
  <2>1. CASE \E d \in Dirs, name \in Names, size \in 1..MaxSize : FatWrite(d, name, size)
    BY <2>1, StepFatWrite
  <2>2. CASE Allocate  BY <2>2, StepAllocate
  <2>3. CASE DiskFull \/ DirectoryFull \/ PowerFailure  BY <2>3, StepGivenUp
  <2>4. CASE AllocateMirror \/ LinkMirror  BY <2>4, StepMirror
  <2>5. CASE Link  BY <2>5, StepLink
  <2>6. CASE WriteSector  BY <2>6, StepWriteSector
  <2>7. CASE WriteEntry  BY <2>7, StepWriteEntry
  <2>8. CASE UNCHANGED vars
    <3>1. UNCHANGED <<fat, mirror, data, op, serial, written, torn, leaked>>
      BY <2>8 DEF vars
    <3>2. Pending' = Pending /\ Types' /\ (InProgress' <=> InProgress) /\ Heads' = Heads
      BY <3>1 DEF Pending, Types, OpType, InProgress, Heads, Chain, Written, Apart, IInv
    <3>3. (AllUsed' <=> AllUsed) /\ (Copies' <=> Copies) /\ (DirsLow' <=> DirsLow)
      BY <3>1, <3>2 DEF AllUsed, Copies, DirsLow
    <3> QED  BY <3>1, <3>2, <3>3 DEF IInv
  <2> QED  BY <2>1, <2>2, <2>3, <2>4, <2>5, <2>6, <2>7, <2>8 DEF Next
<1> QED  BY Started, <1>1, PTL DEF Spec

----------------------------------------------------------------------------
(* What the invariant implies.                                             *)

\* An entry on the disk is that of a file, whose data its chain holds.
LEMMA EntryHolds ==
  ASSUME IInv, NEW e \in AllEntries
  PROVE  e.first \in Base(fat, data) /\ \E f \in written : Holds(fat, data, e, f)
<1>1. PICK d \in Dirs : \E k \in DOMAIN SlotsOn(ChainIn(fat, d)) :
         e = SlotIn(data, SlotsOn(ChainIn(fat, d))[k]) /\ IsFile(e)
  BY EntryIs DEF AllEntries
<1>2. DirInOrder(fat, data, written, d)  BY DEF IInv, InOrder
<1>3. \E f \in written : Holds(fat, data, e, f)  BY <1>1, <1>2 DEF DirInOrder
<1>4. e.first \in Base(fat, data)  BY DEF Base, Firsts, AllEntries
<1> QED  BY <1>3, <1>4

LEMMA ImpliesChainsEnd == IInv => ChainsEnd
<1> SUFFICES ASSUME IInv, NEW c \in Dirs \cup {e.first : e \in AllEntries}
             PROVE  /\ ToSet(Chain(c)) \subseteq Clusters
                    /\ IsInjective(Chain(c))
                    /\ fat[Last(Chain(c))] = EOC
                    /\ \A e \in AllEntries :
                         e.first = c => Len(Chain(c)) * SectorsPerCluster >= e.size
  BY DEF ChainsEnd
<1>1. c \in Heads  BY DEF Heads, Firsts, AllEntries
<1>2. IsChain(fat, Chain(c), c) /\ ToSet(Chain(c)) \subseteq Clusters
  BY <1>1, HeadsFacts
<1>3. IsInjective(Chain(c)) /\ fat[Last(Chain(c))] = EOC /\ Chain(c) \in Seq(Clusters)
  BY <1>2 DEF IsChain
<1>4. Len(SectorsOn(Chain(c))) = Len(Chain(c)) * SectorsPerCluster
      /\ Len(Chain(c)) * SectorsPerCluster \in Nat
  BY <1>3, Numbers, LenProperties, SectorsFacts
<1>5. ASSUME NEW e \in AllEntries, e.first = c
      PROVE  Len(Chain(c)) * SectorsPerCluster >= e.size
  <2>1. PICK f \in written : Holds(fat, data, e, f)  BY EntryHolds
  <2>2. e.size = f.size /\ f.size \in Nat /\ e.size <= Len(SectorsOn(Chain(c)))
    BY <1>5, <2>1 DEF Holds, Chain, IInv, Types
  <2> QED  BY <1>4, <2>2
<1> QED  BY <1>2, <1>3, <1>5

LEMMA ImpliesNotCrossLinked == IInv => NotCrossLinked
<1> SUFFICES ASSUME IInv PROVE NotCrossLinked
  OBVIOUS
<1> DEFINE chain == [c \in Clusters |-> ToSet(Chain(c))]
           heads == Dirs \cup {e.first : e \in AllEntries}
                      \cup (IF op = Idle THEN {} ELSE {op.first, op.cluster} \ {0})
<1>1. (op = Idle) <=> (op.pc = "idle")
  BY DEF IInv, Types, OpType, Idle
<1>2. heads = Heads /\ Pending = IF op = Idle THEN {} ELSE {op.first, op.cluster} \ {0}
  BY <1>1 DEF Heads, Firsts, AllEntries, Pending
<1>3. \A c, d \in Heads : \/ c = d \/ {c, d} \subseteq Pending
                          \/ Visited(fat, c) \cap Visited(fat, d) = {}
  BY DEF IInv, InOrder, Heads
<1>4. \A c \in Heads : chain[c] = Visited(fat, c)
  BY HeadsFacts
<1> HIDE DEF chain, heads
<1>5. ASSUME NEW c \in Heads, NEW d \in Heads
      PROVE  c = d \/ (op # Idle /\ {c, d} = {op.first, op.cluster})
               \/ chain[c] \cap chain[d] = {}
  <2> SUFFICES ASSUME c # d, {c, d} \subseteq Pending
               PROVE  op # Idle /\ {c, d} = {op.first, op.cluster}
    BY <1>3, <1>4
  <2>1. op # Idle  BY <1>2
  <2>2. {c, d} \subseteq {op.first, op.cluster}  BY <1>2, <2>1
  <2> QED  BY <2>1, <2>2
<1> QED  BY <1>2, <1>5 DEF NotCrossLinked, heads, chain

LEMMA ImpliesTypeOK == IInv => TypeOK
BY DEF IInv, Types, TypeOK, OpType, Table

\* The first entry of a name is that of a file of that name.
LEMMA Located ==
  ASSUME IInv, NEW d \in Dirs, NEW name
  PROVE  /\ (\E f \in written : f.dir = d /\ f.name = name) => Locate(d, name) # END
         /\ Locate(d, name) # END =>
               \E f \in written : /\ f.dir = d /\ f.name = name
                                  /\ Holds(fat, data, Locate(d, name), f)
<1> DEFINE slots == SlotsOn(ChainIn(fat, d))
           entry(k) == SlotIn(data, slots[k])
           hits == {k \in DOMAIN slots :
                      entry(k) = END \/ (IsFile(entry(k)) /\ entry(k).name = name)}
<1>1. Locate(d, name) = IF hits = {} THEN END ELSE entry(Min(hits))
  BY DEF Locate, SlotsOf, SlotAt, Chain
<1>2. /\ \A k \in DOMAIN slots : IsFile(entry(k)) =>
           \E f \in written : /\ f.dir = d /\ f.name = entry(k).name
                              /\ Holds(fat, data, entry(k), f)
      /\ \A f \in written : f.dir = d =>
           \E k \in DOMAIN slots : /\ IsFile(entry(k)) /\ entry(k).name = f.name
                                   /\ \A j \in 1..(k - 1) : entry(j) # END
  <2>1. DirInOrder(fat, data, written, d)  BY DEF IInv, InOrder
  <2> QED  BY <2>1 DEF DirInOrder
<1>3. DOMAIN slots \subseteq Nat \ {0}
  <2>1. ChainIn(fat, d) \in Seq(Clusters)  BY DirSlots DEF IInv
  <2> QED  BY <2>1, SlotsFacts
<1>4. \A x : IsFile(x) => x # END  BY DEF IsFile, END
<1> HIDE DEF slots, entry
<1>5. hits # {} => Min(hits) \in hits /\ \A y \in hits : Min(hits) <= y
  <2>1. hits \in SUBSET Nat  BY <1>3
  <2> HIDE DEF hits
  <2> QED  BY <2>1, MinOfNats
<1>6. ASSUME NEW f \in written, f.dir = d, f.name = name PROVE Locate(d, name) # END
  <2>1. PICK k \in DOMAIN slots : /\ IsFile(entry(k)) /\ entry(k).name = f.name
                                  /\ \A j \in 1..(k - 1) : entry(j) # END
    BY <1>2, <1>6
  <2>2. k \in hits  BY <1>6, <2>1
  <2>3. Min(hits) \in hits /\ Min(hits) <= k  BY <1>5, <2>2
  <2>4. Min(hits) \in DOMAIN slots /\ Min(hits) \in Nat \ {0} /\ k \in Nat \ {0}
    BY <1>3, <2>3
  <2>5. Locate(d, name) = entry(Min(hits))  BY <1>1, <2>2
  <2>6. CASE Min(hits) = k  BY <1>4, <2>1, <2>5, <2>6
  <2>7. CASE Min(hits) # k
    <3> DEFINE m == Min(hits)
    <3>1. m \in Nat \ {0} /\ m <= k /\ m # k /\ k \in Nat  BY <2>3, <2>4, <2>7
    <3> HIDE DEF m
    <3>2. m \in 1..(k - 1)  BY <3>1
    <3> QED  BY <2>1, <2>5, <3>2 DEF m
  <2> QED  BY <2>6, <2>7
<1>7. ASSUME Locate(d, name) # END
      PROVE  \E f \in written : /\ f.dir = d /\ f.name = name
                                /\ Holds(fat, data, Locate(d, name), f)
  <2>1. hits # {} /\ Locate(d, name) = entry(Min(hits))  BY <1>1, <1>7
  <2>2. Min(hits) \in hits  BY <1>5, <2>1
  <2>3. /\ Min(hits) \in DOMAIN slots /\ IsFile(entry(Min(hits)))
        /\ entry(Min(hits)).name = name
    BY <1>7, <2>1, <2>2
  <2> QED  BY <1>2, <2>1, <2>3
<1> QED  BY <1>6, <1>7

LEMMA ImpliesAllOrNothing == IInv => AllOrNothing
<1> SUFFICES ASSUME IInv, NEW d \in Dirs, NEW name \in Names
             PROVE  LET versions == {f \in written : f.dir = d /\ f.name = name}
                    IN  IF versions = {} THEN FatRead(d, name) = <<>>
                        ELSE \E f \in versions :
                               FatRead(d, name) = [k \in 1..f.size |-> Text(f.id, k)]
  BY DEF AllOrNothing
<1> DEFINE versions == {f \in written : f.dir = d /\ f.name = name}
           e == Locate(d, name)
           sectors == SectorsOf(e.first)
<1>1. FatRead(d, name) =
        IF e = END THEN <<>>
        ELSE [k \in 1..Min({e.size, Len(sectors)}) |-> SectorIn(data, sectors[k])]
  BY DEF FatRead
<1>2. CASE versions = {}
  <2>1. e = END
    <3> HIDE DEF e
    <3> QED  BY <1>2, Located DEF e
  <2> QED  BY <1>1, <1>2, <2>1
<1>3. CASE versions # {}
  <2>1. e # END  BY <1>3, Located
  <2>2. PICK f \in versions : Holds(fat, data, e, f)  BY <2>1, Located
  <2>3. /\ e.size = f.size /\ f.size \in Nat /\ e.size <= Len(sectors)
        /\ \A k \in 1..e.size : SectorIn(data, sectors[k]) = Text(f.id, k)
    BY <2>2 DEF Holds, SectorsOf, Chain, IInv, Types
  <2>4. Len(sectors) \in Nat
    <3>1. e.first \in Heads
      <4>1. e \in AllEntries
        <5> DEFINE slots == SlotsOf(d)
                   hits == {k \in DOMAIN slots :
                       SlotAt(slots[k]) = END
                         \/ (IsFile(SlotAt(slots[k])) /\ SlotAt(slots[k]).name = name)}
        <5>1. e = IF hits = {} THEN END ELSE SlotAt(slots[Min(hits)])
          BY DEF Locate
        <5>2. hits # {} /\ e = SlotAt(slots[Min(hits)])  BY <2>1, <5>1
        <5>3. hits \in SUBSET Nat
          <6>1. ChainIn(fat, d) \in Seq(Clusters)  BY DirSlots DEF IInv
          <6>2. DOMAIN SlotsOn(ChainIn(fat, d)) \subseteq Nat \ {0}  BY <6>1, SlotsFacts
          <6> QED  BY <6>2 DEF SlotsOf, Chain
        <5>4. Min(hits) \in hits
          <6> HIDE DEF hits
          <6> QED  BY <5>2, <5>3, MinOfNats
        <5>5. Min(hits) \in DOMAIN slots /\ IsFile(e)  BY <2>1, <5>2, <5>4
        <5> QED  BY <5>2, <5>5, EntryIs DEF AllEntries, SlotsOf, SlotAt, Chain
      <4> QED  BY <4>1 DEF Heads, Firsts, AllEntries
    <3>2. Chain(e.first) \in Seq(Clusters)  BY <3>1, HeadsFacts DEF IsChain
    <3>3. sectors \in Seq(Clusters \X Offsets)  BY <3>2, SectorsFacts DEF SectorsOf
    <3> QED  BY <3>3, LenProperties
  <2> HIDE DEF e, sectors
  <2>5. Min({e.size, Len(sectors)}) = f.size
    <3>1. {e.size, Len(sectors)} \in SUBSET Nat /\ {e.size, Len(sectors)} # {}
      BY <2>3, <2>4
    <3>2. /\ Min({e.size, Len(sectors)}) \in {e.size, Len(sectors)}
          /\ \A y \in {e.size, Len(sectors)} : Min({e.size, Len(sectors)}) <= y
      BY <3>1, MinOfNats
    <3> QED  BY <2>3, <2>4, <3>2
  <2>6. FatRead(d, name) = [k \in 1..f.size |-> SectorIn(data, sectors[k])]
    BY <1>1, <2>1, <2>5
  <2>7. FatRead(d, name) = [k \in 1..f.size |-> Text(f.id, k)]
    BY <2>3, <2>6
  <2> QED  BY <1>3, <2>7
<1> QED  BY <1>2, <1>3

(* After every sector write of FatWrite, and so after a power failure at   *)
(* any moment, each chain ends, is long enough and shares no cluster.      *)
(* This and the next three are for volumes that end within the drive's     *)
(* first 4 GiB, with their directories in clusters below 2^16.             *)
THEOREM ChainsCorrect == Spec => []ChainsSound
BY Invariant, ImpliesTypeOK, ImpliesChainsEnd, ImpliesNotCrossLinked, PTL DEF ChainsSound

(* What FatRead finds under a name, whenever the power has failed, is the  *)
(* whole data of one completed FatWrite of that name.                      *)
THEOREM WritesAtomic == Spec => []AllOrNothing
BY Invariant, ImpliesAllOrNothing, PTL

(* Between calls the two copies of the table, which FatSetCluster writes   *)
(* one after the other, differ in torn sectors only.                       *)
THEOREM MirrorsCorrect == Spec => []MirrorsAgree
<1>1. IInv => MirrorsAgree
  BY DEF IInv, Copies, MirrorsAgree, Idle
<1> QED  BY Invariant, <1>1, PTL

(* As long as no call of FatWrite fails or is cut short, every cluster     *)
(* marked as used is in a chain.                                           *)
THEOREM UsedAreChained == Spec => []NothingLost
<1>1. IInv => NothingLost
  <2> SUFFICES ASSUME IInv, op = Idle, ~leaked
               PROVE  {c \in Clusters : fat[c] \notin {FREE, BAD}} =
                         UNION {ToSet(Chain(c)) : c \in Dirs \cup {e.first : e \in AllEntries}}
    BY DEF NothingLost
  <2>1. Heads = Dirs \cup {e.first : e \in AllEntries}
    BY DEF Heads, Firsts, AllEntries, Pending, Idle
  <2>2. \A c \in Heads : Visited(fat, c) = ToSet(Chain(c))  BY HeadsFacts
  <2>3. AllUsed  BY DEF IInv
  <2> QED  BY <2>1, <2>2, <2>3 DEF AllUsed
<1> QED  BY Invariant, <1>1, PTL

=============================================================================
