----------------------------- MODULE VTreeProofs ----------------------------
(***************************************************************************)
(* The properties of VTree, for any number of VNodes.                      *)
(*                                                                         *)
(* IInv says that the pointers of every directory are those of a sequence  *)
(* of its nodes (ListOf); a step keeps a sequence, puts a node before it   *)
(* or takes one out (Kept, Added, Removed).  PInv says that every node     *)
(* has a line of directories up to the root, and a name of its own among   *)
(* its siblings.                                                           *)
(*                                                                         *)
(* Walk, Subtree, Up and FoldLeft are recursive functions.  What they      *)
(* compute is shown with least counterexamples: a sequence as in IInv or   *)
(* PInv gives the values of Walk and Up, Saturates says that Subtree is    *)
(* closed after as many steps as there are nodes, and FoldSteps that       *)
(* RelativeFind takes one component after the other.                       *)
(***************************************************************************)
EXTENDS VTree, SequenceTheorems, FiniteSetTheorems, WellFoundedInduction, TLAPS

N == Cardinality(Nodes)

\* s lists the nodes of dir as the pointers do.
ListOf(F, X, P, D, dir, s) ==
    /\ s \in Seq(Nodes)
    /\ \A i, j \in 1..Len(s) : s[i] = s[j] => i = j
    /\ {s[i] : i \in 1..Len(s)} = {n \in Nodes : D[n] = dir}
    /\ F[dir] = IF Len(s) = 0 THEN NULL ELSE s[1]
    /\ \A i \in 1..Len(s) : X[s[i]] = IF i < Len(s) THEN s[i + 1] ELSE NULL
    /\ \A i \in 1..Len(s) : P[s[i]] = IF i = 1 THEN NULL ELSE s[i - 1]

List(dir, s) == ListOf(first, next, previous, directory, dir, s)

\* /proc and /proc/self are registered together and stay.
Fixed ==
    /\ directory[Root] = NULL
    /\ directory[Proc] \in {NULL, Root}
    /\ directory[Self] = IF directory[Proc] = NULL THEN NULL ELSE Proc
    /\ directory[Proc] = NULL =>
          first[Self] = NULL /\ next[Self] = NULL /\ previous[Self] = NULL

IInv ==
    /\ TypeOK
    /\ parent = [n \in Nodes |-> NULL]
    /\ Fixed
    /\ \A n \in Nodes : directory[n] \in Registered \cup {NULL}
    /\ \A dir \in Registered \cup {Proc, Self} : \E s : List(dir, s)

----------------------------------------------------------------------------
LEMMA NodeFacts ==
  /\ {Root, Proc, Self} \subseteq Nodes /\ Others \subseteq Nodes
  /\ Root # Proc /\ Root # Self /\ Proc # Self
  /\ Others \cap {Root, Proc, Self} = {}
  /\ NULL \notin Nodes /\ PANIC \notin Nodes /\ PANIC # NULL
  /\ NULL \notin Names \cup {"proc", "self"}
  /\ IsFiniteSet(Nodes) /\ N \in Nat
<1>1. IsFiniteSet({Root, Proc, Self})
  <2>1. IsFiniteSet({Root} \cup {Proc})  BY FS_Singleton, FS_AddElement
  <2>2. IsFiniteSet(({Root} \cup {Proc}) \cup {Self})  BY <2>1, FS_AddElement
  <2>3. {Root, Proc, Self} = ({Root} \cup {Proc}) \cup {Self}  OBVIOUS
  <2> QED  BY <2>2, <2>3
<1>2. IsFiniteSet(Nodes)  BY <1>1, FS_Union, NodesAssumption DEF Nodes
<1>3. N \in Nat  BY <1>2, FS_CardinalityType DEF N
<1>4. Root # Proc /\ Root # Self /\ Proc # Self
  <2>1. \A x, y : Cardinality({x, y}) # 3
    <3> TAKE x, y
    <3>1. IsFiniteSet({x}) /\ Cardinality({x}) = 1  BY FS_Singleton
    <3>2. Cardinality({x} \cup {y}) \in {1, 2}  BY <3>1, FS_AddElement
    <3>3. {x} \cup {y} = {x, y}  OBVIOUS
    <3> QED  BY <3>2, <3>3
  <2>2. ASSUME Root = Proc \/ Root = Self \/ Proc = Self PROVE FALSE
    <3>1. {Root, Proc, Self} = {Root, Self} \/ {Root, Proc, Self} = {Root, Proc}
      BY <2>2
    <3> QED  BY <2>1, <3>1, NodesAssumption
  <2> QED  BY <2>2
<1> QED  BY <1>2, <1>3, <1>4, NodesAssumption, NamesAssumption DEF Nodes

LEMMA LeastNatural ==
  ASSUME NEW I \in SUBSET Nat, I # {}
  PROVE  \E x \in I : \A y \in I : x <= y
<1> DEFINE R == OpToRel(<, Nat)
<1>1. PICK x \in I : \A y \in I : ~(<<y, x>> \in R)
  BY NatLessThanWellFounded, WFMin
<1>2. \A y, z \in Nat : y < z => <<y, z>> \in R
  BY DEF OpToRel
<1> HIDE DEF R
<1>3. \A y \in I : ~(y < x)
  BY <1>1, <1>2
<1> QED BY <1>3

\* The steps of a recursive function can be taken any number of times.
StepsOf(T, step, A, M, w) ==
    w \in [0..M -> T] /\ w[0] = A /\ \A k \in 1..M : w[k] = step[w[k - 1]]

LEMMA StepsExist ==
  ASSUME NEW T, NEW step \in [T -> T], NEW A \in T, NEW M \in Nat
  PROVE  \E w : StepsOf(T, step, A, M, w)
<1> DEFINE Good(m, w) == w \in [0..m -> T] /\ w[0] = A /\ \A k \in 1..m : w[k] = step[w[k - 1]]
           Bad == {m \in Nat : ~\E w : Good(m, w)}
<1>1. \E w : Good(0, w)
  <2>1. Good(0, [k \in 0..0 |-> A])  OBVIOUS
  <2> QED  BY <2>1
<1>2. ASSUME NEW m \in Nat, NEW w, Good(m, w)
      PROVE  \E v : Good(m + 1, v)
  <2> DEFINE v == [k \in 0..(m + 1) |-> IF k = m + 1 THEN step[w[m]] ELSE w[k]]
  <2>1. v \in [0..(m + 1) -> T]
    <3>1. w \in [0..m -> T] /\ m \in 0..m  BY <1>2
    <3>2. \A k \in 0..(m + 1) : k = m + 1 \/ k \in 0..m  OBVIOUS
    <3> QED  BY <3>1, <3>2
  <2>2. v[0] = A  BY <1>2
  <2>3. ASSUME NEW k \in 1..(m + 1) PROVE v[k] = step[v[k - 1]]
    <3>1. k - 1 \in 0..m /\ k - 1 \in 0..(m + 1) /\ k \in 0..(m + 1) /\ k - 1 # m + 1  OBVIOUS
    <3>2. v[k - 1] = w[k - 1]  BY <3>1
    <3>3. CASE k = m + 1
      <4>1. k - 1 = m  BY <3>3
      <4>2. v[k] = step[w[m]]  BY <3>1, <3>3
      <4> QED  BY <3>2, <4>1, <4>2
    <3>4. CASE k # m + 1
      <4>1. k \in 1..m  BY <3>4
      <4>2. v[k] = w[k]  BY <3>1, <3>4
      <4> QED  BY <1>2, <3>2, <4>1, <4>2
    <3> QED  BY <3>3, <3>4
  <2> HIDE DEF v
  <2>4. Good(m + 1, v)  BY <2>1, <2>2, <2>3
  <2> QED  BY <2>4
<1> HIDE DEF Good
<1>3. Bad = {}
  <2> SUFFICES ASSUME Bad # {} PROVE FALSE  OBVIOUS
  <2>1. Bad \subseteq Nat  OBVIOUS
  <2>2. PICK m \in Bad : \A y \in Bad : m <= y  BY <2>1, LeastNatural
  <2>3. m # 0 /\ m \in Nat /\ ~\E w : Good(m, w)  BY <1>1
  <2>4. m - 1 \in Nat /\ ~(m <= m - 1)  BY <2>3
  <2>5. m - 1 \notin Bad
    <3> HIDE DEF Bad
    <3> QED  BY <2>2, <2>4
  <2>6. PICK w : Good(m - 1, w)  BY <2>4, <2>5
  <2>7. \E v : Good((m - 1) + 1, v)  BY <1>2, <2>4, <2>6
  <2>8. (m - 1) + 1 = m  BY <2>3
  <2> QED  BY <2>3, <2>7, <2>8
<1>4. PICK w : Good(M, w)  BY <1>3
<1> QED  BY <1>4 DEF Good, StepsOf
----------------------------------------------------------------------------
\* The walk along Next visits the list and then stays at the end.
LEMMA ListLength ==
  ASSUME NEW s, NEW dir, List(dir, s)
  PROVE  /\ Len(s) \in 0..N
         /\ \A i \in 1..Len(s) : s[i] \in Nodes
<1>1. s \in Seq(Nodes) /\ Len(s) \in Nat /\ \A i \in 1..Len(s) : s[i] \in Nodes
  BY DEF List, ListOf
<1>2. \A i, j \in 1..Len(s) : s[i] = s[j] => i = j  BY DEF List, ListOf
<1>3. Len(s) <= N
  <2> SUFFICES ASSUME ~(Len(s) <= N) PROVE FALSE  OBVIOUS
  <2>1. Cardinality(1..Len(s)) = Len(s) /\ IsFiniteSet(1..Len(s))
    <3>1. ASSUME NEW m \in Nat PROVE Cardinality(1..m) = m /\ IsFiniteSet(1..m)
      BY FS_Interval
    <3> QED  BY <1>1, <3>1
  <2>2. Cardinality(Nodes) < Cardinality(1..Len(s)) /\ IsFiniteSet(Nodes)
    BY <1>1, <2>1, NodeFacts DEF N
  <2>3. s \in [1..Len(s) -> Nodes]  BY <1>1
  <2>4. \E x, y \in 1..Len(s) : x # y /\ s[x] = s[y]
    BY <2>1, <2>2, <2>3, FS_PigeonHole
  <2> QED  BY <1>2, <2>4
<1> QED  BY <1>1, <1>3, NodeFacts

LEMMA WalkFollowed ==
  ASSUME NEW dir \in Nodes, NEW s, List(dir, s)
  PROVE  /\ DOMAIN Walk(dir) = 0..N
         /\ \A i \in 0..N : Walk(dir)[i] = IF i < Len(s) THEN s[i + 1] ELSE NULL
<1> DEFINE At(i) == IF i < Len(s) THEN s[i + 1] ELSE NULL
           IsWalk(w) == w = [i \in 0..N |-> IF i = 0 THEN first[dir]
                                            ELSE IF w[i - 1] = NULL THEN NULL
                                            ELSE next[w[i - 1]]]
           W == [i \in 0..N |-> At(i)]
<1>1. N \in Nat /\ Len(s) \in 0..N /\ NULL \notin Nodes /\ \A i \in 1..Len(s) : s[i] \in Nodes
  BY NodeFacts, ListLength
<1>2. At(0) = first[dir]  BY <1>1 DEF List, ListOf
<1>3. ASSUME NEW i \in 1..N
      PROVE  At(i) = IF At(i - 1) = NULL THEN NULL ELSE next[At(i - 1)]
  <2>1. CASE i - 1 < Len(s)
    <3>1. i \in 1..Len(s) /\ (i - 1) + 1 = i  BY <1>1, <2>1
    <3>2. At(i - 1) = s[i] /\ s[i] # NULL  BY <1>1, <2>1, <3>1
    <3>3. next[s[i]] = IF i < Len(s) THEN s[i + 1] ELSE NULL  BY <3>1 DEF List, ListOf
    <3> QED  BY <3>2, <3>3
  <2>2. CASE ~(i - 1 < Len(s))
    <3>1. ~(i < Len(s))  BY <1>1, <2>2
    <3> QED  BY <2>2, <3>1
  <2> QED  BY <2>1, <2>2
<1> HIDE DEF At
<1>4. IsWalk(W)
  <2>1. \A i \in 0..N : At(i) = IF i = 0 THEN first[dir]
                                ELSE IF W[i - 1] = NULL THEN NULL ELSE next[W[i - 1]]
    <3> SUFFICES ASSUME NEW i \in 0..N, i # 0
                 PROVE  At(i) = IF W[i - 1] = NULL THEN NULL ELSE next[W[i - 1]]
      BY <1>2
    <3>1. i - 1 \in 0..N /\ i \in 1..N  BY <1>1
    <3>2. W[i - 1] = At(i - 1)  BY <3>1
    <3> QED  BY <1>3, <3>1, <3>2
  <2> QED  BY <2>1
<1>5. ASSUME NEW w, IsWalk(w)
      PROVE  DOMAIN w = 0..N /\ \A i \in 0..N : w[i] = At(i)
  <2> DEFINE Wrong == {i \in 0..N : w[i] # At(i)}
  <2>1. \A i \in 0..N : w[i] = IF i = 0 THEN first[dir]
                               ELSE IF w[i - 1] = NULL THEN NULL ELSE next[w[i - 1]]
    BY <1>5
  <2>2. Wrong = {}
    <3> SUFFICES ASSUME Wrong # {} PROVE FALSE  OBVIOUS
    <3>1. Wrong \subseteq Nat  OBVIOUS
    <3>2. PICK i \in Wrong : \A j \in Wrong : i <= j  BY <3>1, LeastNatural
    <3>3. i \in 0..N /\ w[i] # At(i)  OBVIOUS
    <3>4. i # 0  BY <1>2, <2>1, <3>3
    <3>5. i - 1 \in 0..N /\ ~(i <= i - 1) /\ i \in 1..N
      <4> HIDE DEF Wrong
      <4> QED  BY <1>1, <3>3, <3>4
    <3>6. w[i - 1] = At(i - 1)  BY <3>2, <3>5
    <3> QED  BY <1>3, <2>1, <3>3, <3>4, <3>5, <3>6
  <2>3. DOMAIN w = 0..N  BY <1>5
  <2> QED  BY <2>2, <2>3
<1>6. Walk(dir) = CHOOSE w : IsWalk(w)  BY DEF Walk, N
<1>7. IsWalk(CHOOSE w : IsWalk(w))
  <2> HIDE DEF IsWalk
  <2> QED  BY <1>4
<1>8. IsWalk(Walk(dir))
  <2> HIDE DEF IsWalk
  <2> QED  BY <1>6, <1>7
<1> HIDE DEF IsWalk
<1> QED  BY <1>5, <1>8 DEF At

LEMMA ChildrenListed ==
  ASSUME NEW dir \in Nodes, NEW s, List(dir, s)
  PROVE  /\ Children(dir) = {s[i] : i \in 1..Len(s)}
         /\ Children(dir) = {n \in Nodes : directory[n] = dir}
<1> DEFINE w == Walk(dir)
<1>1. DOMAIN w = 0..N /\ \A i \in 0..N : w[i] = IF i < Len(s) THEN s[i + 1] ELSE NULL
  BY WalkFollowed
<1>2. N \in Nat /\ Len(s) \in 0..N /\ NULL \notin Nodes /\ \A i \in 1..Len(s) : s[i] \in Nodes
  BY NodeFacts, ListLength
<1>3. Children(dir) = {w[i] : i \in 0..N} \ {NULL}  BY <1>1 DEF Children
<1> HIDE DEF w
<1>4. ASSUME NEW x \in Children(dir) PROVE \E i \in 1..Len(s) : x = s[i]
  <2>1. PICK i \in 0..N : x = w[i] /\ x # NULL  BY <1>3
  <2>2. i < Len(s) /\ x = s[i + 1]  BY <1>1, <2>1
  <2>3. i + 1 \in 1..Len(s)  BY <1>2, <2>2
  <2> QED  BY <2>2, <2>3
<1>5. ASSUME NEW i \in 1..Len(s) PROVE s[i] \in Children(dir)
  <2>1. i - 1 \in 0..N /\ i - 1 < Len(s) /\ (i - 1) + 1 = i  BY <1>2
  <2>2. w[i - 1] = s[i]  BY <1>1, <2>1
  <2>3. s[i] # NULL  BY <1>2
  <2> QED  BY <1>3, <2>1, <2>2, <2>3
<1>6. Children(dir) = {s[i] : i \in 1..Len(s)}  BY <1>4, <1>5
<1> QED  BY <1>6 DEF List, ListOf

----------------------------------------------------------------------------
\* A growing sequence of subsets of a finite set is constant after as many
\* steps as the set has elements.
Growing(T, step, M, b) ==
    /\ IsFiniteSet(T) /\ step \in [SUBSET T -> SUBSET T]
    /\ \A S \in SUBSET T : S \subseteq step[S]
    /\ M \in Nat /\ Cardinality(T) <= M
    /\ b \in [0..M -> SUBSET T] /\ b[0] # {}
    /\ \A k \in 1..M : b[k] = step[b[k - 1]]

LEMMA Before ==
  ASSUME NEW M \in Nat, NEW k \in 0..M, k # 0
  PROVE  k - 1 \in 0..M /\ k \in 1..M /\ ~(k <= k - 1)
OBVIOUS

LEMMA Saturates ==
  ASSUME NEW T, NEW step, NEW M, NEW b, Growing(T, step, M, b)
  PROVE  /\ step[b[M]] = b[M]
         /\ \A k \in 0..M : b[k] \subseteq b[M]
<1> USE DEF Growing
<1>1. ASSUME NEW k \in 0..M, k # 0
      PROVE  k - 1 \in 0..M /\ k \in 1..M /\ ~(k <= k - 1)
  BY <1>1, Before
<1>2. \A k \in 0..M : b[k] \subseteq b[M]
  <2> DEFINE Wrong == {j \in 0..M : ~(b[M - j] \subseteq b[M])}
  <2>1. Wrong = {}
    <3> SUFFICES ASSUME Wrong # {} PROVE FALSE  OBVIOUS
    <3>1. Wrong \subseteq Nat  OBVIOUS
    <3>2. PICK j \in Wrong : \A i \in Wrong : j <= i  BY <3>1, LeastNatural
    <3>3. j \in 0..M /\ ~(b[M - j] \subseteq b[M])  OBVIOUS
    <3>4. j # 0  BY <3>3
    <3>5. j - 1 \notin Wrong
      <4> HIDE DEF Wrong
      <4> QED  BY <1>1, <3>2, <3>3, <3>4
    <3>6. b[M - (j - 1)] \subseteq b[M]  BY <1>1, <3>3, <3>4, <3>5
    <3>7. M - (j - 1) \in 1..M /\ (M - (j - 1)) - 1 = M - j /\ M - j \in 0..M  BY <3>3, <3>4
    <3>8. b[M - (j - 1)] = step[b[M - j]]  BY <3>7
    <3>9. b[M - j] \subseteq step[b[M - j]]  BY <3>7
    <3> QED  BY <3>3, <3>6, <3>8, <3>9
  <2>2. ASSUME NEW k \in 0..M PROVE b[k] \subseteq b[M]
    <3>1. M - k \in 0..M /\ M - (M - k) = k  OBVIOUS
    <3> QED  BY <2>1, <3>1
  <2> QED  BY <2>2
<1>3. ASSUME NEW k \in 0..M, step[b[k]] = b[k]
      PROVE  b[M] = b[k]
  <2> DEFINE Wrong == {j \in k..M : b[j] # b[k]}
  <2>1. Wrong = {}
    <3> SUFFICES ASSUME Wrong # {} PROVE FALSE  OBVIOUS
    <3>1. Wrong \subseteq Nat  OBVIOUS
    <3>2. PICK j \in Wrong : \A i \in Wrong : j <= i  BY <3>1, LeastNatural
    <3>3. j \in k..M /\ b[j] # b[k]  OBVIOUS
    <3>4. j # k  BY <3>3
    <3>5. j - 1 \in k..M /\ j \in 1..M /\ ~(j <= j - 1)  BY <3>3, <3>4
    <3>6. j - 1 \notin Wrong
      <4> HIDE DEF Wrong
      <4> QED  BY <3>2, <3>5
    <3>7. b[j - 1] = b[k]  BY <3>5, <3>6
    <3>8. b[j] = step[b[j - 1]]  BY <3>5
    <3> QED  BY <1>3, <3>3, <3>7, <3>8
  <2>2. M \in k..M  OBVIOUS
  <2> QED  BY <2>1, <2>2
<1>4. \A k \in 0..M : IsFiniteSet(b[k]) /\ Cardinality(b[k]) \in Nat /\ Cardinality(b[k]) <= Cardinality(T)
  BY FS_Subset, FS_CardinalityType
<1>5. Cardinality(T) \in Nat  BY FS_CardinalityType
<1>6. step[b[M]] = b[M]
  <2> SUFFICES ASSUME step[b[M]] # b[M] PROVE FALSE  OBVIOUS
  <2> DEFINE Wrong == {k \in 0..M : ~(Cardinality(b[k]) > k)}
  <2>1. Wrong = {}
    <3> SUFFICES ASSUME Wrong # {} PROVE FALSE  OBVIOUS
    <3>1. Wrong \subseteq Nat  OBVIOUS
    <3>2. PICK k \in Wrong : \A i \in Wrong : k <= i  BY <3>1, LeastNatural
    <3>3. k \in 0..M /\ ~(Cardinality(b[k]) > k)  OBVIOUS
    <3>4. k # 0
      <4>1. 0 \in 0..M  OBVIOUS
      <4>2. IsFiniteSet(b[0]) /\ Cardinality(b[0]) \in Nat  BY <1>4, <4>1
      <4>3. Cardinality(b[0]) # 0  BY <4>2, FS_EmptySet
      <4>4. Cardinality(b[0]) > 0  BY <4>2, <4>3
      <4> QED  BY <3>3, <4>4
    <3>5. k - 1 \notin Wrong
      <4> HIDE DEF Wrong
      <4> QED  BY <1>1, <3>2, <3>3, <3>4
    <3>6. k - 1 \in 0..M /\ k \in 1..M /\ Cardinality(b[k - 1]) > k - 1  BY <1>1, <3>3, <3>4, <3>5
    <3>7. b[k] = step[b[k - 1]] /\ b[k - 1] \in SUBSET T  BY <3>6
    <3>8. b[k] # b[k - 1]
      <4> SUFFICES ASSUME b[k] = b[k - 1] PROVE FALSE  OBVIOUS
      <4>1. step[b[k - 1]] = b[k - 1]  BY <3>7
      <4>2. b[M] = b[k - 1]  BY <1>3, <3>6, <4>1
      <4> QED  BY <4>1, <4>2
    <3>9. b[k - 1] \in SUBSET b[k]  BY <3>7
    <3>10. /\ IsFiniteSet(b[k]) /\ Cardinality(b[k]) \in Nat /\ Cardinality(b[k - 1]) \in Nat
      BY <1>4, <3>3, <3>6
    <3>11. Cardinality(b[k - 1]) <= Cardinality(b[k]) /\ Cardinality(b[k - 1]) # Cardinality(b[k])
      BY <3>8, <3>9, <3>10, FS_Subset
    <3> QED  BY <3>3, <3>6, <3>10, <3>11
  <2>2. M \in 0..M  OBVIOUS
  <2>3. Cardinality(b[M]) > M  BY <2>1, <2>2
  <2> QED  BY <1>4, <1>5, <2>2, <2>3
<1> QED  BY <1>2, <1>6

LEMMA RegisteredFacts ==
  ASSUME IInv
  PROVE  /\ Registered \subseteq Nodes /\ IsFiniteSet(Registered) /\ Cardinality(Registered) <= N
         /\ Cardinality(Registered) \in Nat
         /\ \A m \in Registered \cup {Proc, Self} :
               Children(m) = {n \in Nodes : directory[n] = m}
         /\ \A m \in Registered : Children(m) \subseteq Registered
         /\ \A n \in Nodes : n \in Registered <=> n = Root \/ directory[n] # NULL
<1>1. Registered \in SUBSET Nodes  BY DEF Registered
<1>2. IsFiniteSet(Registered) /\ Cardinality(Registered) <= N
  BY <1>1, NodeFacts, FS_Subset DEF N
<1>3. ASSUME NEW m \in Registered \cup {Proc, Self}
      PROVE  Children(m) = {n \in Nodes : directory[n] = m}
  <2>1. PICK s : List(m, s)  BY DEF IInv
  <2>2. m \in Nodes  BY <1>1, NodeFacts
  <2> QED  BY <2>1, <2>2, ChildrenListed
<1>4. ASSUME NEW m \in Registered PROVE Children(m) \subseteq Registered
  <2>1. m # NULL  BY <1>1, NodeFacts
  <2> QED  BY <1>3, <2>1 DEF Registered
<1> QED  BY <1>1, <1>2, <1>3, <1>4, FS_CardinalityType DEF Registered

\* The nodes a deletion frees: p, and with every node those registered in it.
LEMMA SubtreeClosed ==
  ASSUME IInv, NEW p \in Registered
  PROVE  /\ p \in Subtree(p) /\ Subtree(p) \subseteq Registered
         /\ \A n \in Nodes : directory[n] \in Subtree(p) => n \in Subtree(p)
         /\ \A n \in Subtree(p) : n = p \/ directory[n] \in Subtree(p)
<1> DEFINE Grown(S) == S \cup UNION {Children(m) : m \in S}
           step == [S \in SUBSET Registered |-> Grown(S)]
           IsBelow(b) == b = [k \in 0..N |-> IF k = 0 THEN {p} ELSE Grown(b[k - 1])]
           Steps(b) == b[0] = {p} /\ \A k \in 1..N : b[k] = step[b[k - 1]]
<1>1. N \in Nat  BY NodeFacts
<1>2. /\ \A m \in Registered : Children(m) = {n \in Nodes : directory[n] = m}
      /\ \A m \in Registered : Children(m) \subseteq Registered
      /\ Registered \subseteq Nodes /\ IsFiniteSet(Registered) /\ Cardinality(Registered) <= N
  BY RegisteredFacts
<1>3. \A S \in SUBSET Registered : Grown(S) \in SUBSET Registered  BY <1>2
<1>4. step \in [SUBSET Registered -> SUBSET Registered]  BY <1>3
<1>5. \A S \in SUBSET Registered : step[S] = Grown(S) /\ S \subseteq step[S]  OBVIOUS
<1> HIDE DEF Grown, step
<1>6. PICK b0 \in [0..N -> SUBSET Registered] : Steps(b0)
  <2>1. {p} \in SUBSET Registered  OBVIOUS
  <2>2. PICK w : StepsOf(SUBSET Registered, step, {p}, N, w)
    BY <1>1, <1>4, <2>1, StepsExist
  <2> QED  BY <2>2 DEF StepsOf
<1>7. IsBelow(b0)
  <2>1. ASSUME NEW k \in 0..N PROVE b0[k] = IF k = 0 THEN {p} ELSE Grown(b0[k - 1])
    <3>1. CASE k # 0
      <4>1. k \in 1..N /\ k - 1 \in 0..N  BY <1>1, <3>1
      <4>2. b0[k - 1] \in SUBSET Registered  BY <1>6, <4>1
      <4> QED  BY <1>5, <1>6, <3>1, <4>1, <4>2
    <3> QED  BY <1>6, <3>1
  <2>2. b0 = [k \in 0..N |-> b0[k]]  BY <1>6
  <2> QED  BY <2>1, <2>2
<1> DEFINE b == CHOOSE w : IsBelow(w)
<1>8. Subtree(p) = b[N]  BY DEF Subtree, Grown, N
<1>9. IsBelow(b)
  <2> HIDE DEF IsBelow
  <2> QED  BY <1>7
<1> HIDE DEF b
<1>10. DOMAIN b = 0..N /\ \A k \in 0..N : b[k] = IF k = 0 THEN {p} ELSE Grown(b[k - 1])
  BY <1>9
<1>11. \A k \in 0..N : b[k] \in SUBSET Registered
  <2> DEFINE Wrong == {k \in 0..N : b[k] \notin SUBSET Registered}
  <2> SUFFICES ASSUME Wrong # {} PROVE FALSE  OBVIOUS
  <2>1. Wrong \subseteq Nat  OBVIOUS
  <2>2. PICK k \in Wrong : \A i \in Wrong : k <= i  BY <2>1, LeastNatural
  <2>3. k \in 0..N /\ b[k] \notin SUBSET Registered  OBVIOUS
  <2>4. k # 0  BY <1>10, <2>3
  <2>5. k - 1 \in 0..N /\ ~(k <= k - 1)  BY <1>1, <2>3, <2>4
  <2>6. b[k - 1] \in SUBSET Registered
    <3>1. k - 1 \notin Wrong
      <4> HIDE DEF Wrong
      <4> QED  BY <2>2, <2>5
    <3> QED  BY <2>5, <3>1
  <2> QED  BY <1>3, <1>10, <2>3, <2>4, <2>6
<1>12. b \in [0..N -> SUBSET Registered]
  <2>1. b = [k \in 0..N |-> b[k]]  BY <1>9
  <2> QED  BY <1>11, <2>1
<1>13. b[0] = {p} /\ \A k \in 1..N : b[k] = step[b[k - 1]]
  <2>1. 0 \in 0..N /\ \A k \in 1..N : k - 1 \in 0..N /\ k \in 0..N /\ k # 0  BY <1>1
  <2> QED  BY <1>5, <1>10, <1>11, <2>1
<1>14. step[b[N]] = b[N] /\ \A k \in 0..N : b[k] \subseteq b[N]
  <2>1. b[0] # {}  BY <1>13
  <2>2. Growing(Registered, step, N, b)
    BY <1>1, <1>2, <1>4, <1>5, <1>12, <1>13, <2>1 DEF Growing
  <2> QED  BY <2>2, Saturates
<1>15. Grown(b[N]) = b[N] /\ b[N] \in SUBSET Registered
  BY <1>1, <1>5, <1>11, <1>14
<1>16. \A k \in 0..N : \A n \in b[k] : n = p \/ directory[n] \in b[N]
  <2> DEFINE Wrong == {k \in 0..N : ~\A n \in b[k] : n = p \/ directory[n] \in b[N]}
  <2> SUFFICES ASSUME Wrong # {} PROVE FALSE  OBVIOUS
  <2>1. Wrong \subseteq Nat  OBVIOUS
  <2>2. PICK k \in Wrong : \A i \in Wrong : k <= i  BY <2>1, LeastNatural
  <2>3. PICK n \in b[k] : ~(n = p \/ directory[n] \in b[N])  OBVIOUS
  <2>4. k \in 0..N  OBVIOUS
  <2>5. k # 0  BY <1>13, <2>3
  <2>6. k - 1 \in 0..N /\ ~(k <= k - 1)  BY <1>1, <2>4, <2>5
  <2>7. \A x \in b[k - 1] : x = p \/ directory[x] \in b[N]
    <3>1. k - 1 \notin Wrong
      <4> HIDE DEF Wrong
      <4> QED  BY <2>2, <2>6
    <3> QED  BY <2>6, <3>1
  <2>8. n \in Grown(b[k - 1]) /\ n \notin b[k - 1]  BY <1>10, <2>3, <2>4, <2>5, <2>7
  <2>9. PICK m \in b[k - 1] : n \in Children(m)  BY <2>8 DEF Grown
  <2>10. m \in Registered /\ m \in b[N]  BY <1>11, <1>14, <2>6
  <2> QED  BY <1>2, <2>3, <2>9, <2>10
<1>17. p \in b[N]
  <2>1. 0 \in 0..N /\ N \in 0..N  BY <1>1
  <2> QED  BY <1>13, <1>14, <2>1
<1>18. ASSUME NEW n \in Nodes, directory[n] \in b[N] PROVE n \in b[N]
  <2>1. directory[n] \in Registered  BY <1>15, <1>18
  <2>2. n \in Children(directory[n])  BY <1>2, <2>1
  <2> QED  BY <1>15, <1>18, <2>2 DEF Grown
<1>19. \A n \in b[N] : n = p \/ directory[n] \in b[N]
  <2>1. N \in 0..N  BY <1>1
  <2> QED  BY <1>16, <2>1
<1> QED  BY <1>8, <1>15, <1>17, <1>18, <1>19

----------------------------------------------------------------------------
(* What a step does to one list.                                           *)

Kept(dir) ==
    /\ first'[dir] = first[dir]
    /\ \A n \in Nodes : directory'[n] = dir <=> directory[n] = dir
    /\ \A n \in Nodes : directory[n] = dir => next'[n] = next[n] /\ previous'[n] = previous[n]

Added(dir, new) ==
    /\ new \in Nodes /\ directory[new] # dir
    /\ first'[dir] = new /\ next'[new] = first[dir] /\ previous'[new] = NULL
    /\ \A n \in Nodes : directory'[n] = dir <=> directory[n] = dir \/ n = new
    /\ \A n \in Nodes : directory[n] = dir =>
          next'[n] = next[n] /\ previous'[n] = IF n = first[dir] THEN new ELSE previous[n]

Removed(dir, p) ==
    /\ p \in Nodes /\ directory[p] = dir
    /\ first'[dir] = IF first[dir] = p THEN next[p] ELSE first[dir]
    /\ \A n \in Nodes : directory'[n] = dir <=> directory[n] = dir /\ n # p
    /\ \A n \in Nodes : directory[n] = dir /\ n # p =>
          /\ next'[n] = IF next[n] = p THEN next[p] ELSE next[n]
          /\ previous'[n] = IF n = next[p] THEN previous[p] ELSE previous[n]

LEMMA ListMembers ==
  ASSUME NEW dir, NEW s, List(dir, s)
  PROVE  /\ s \in Seq(Nodes) /\ Len(s) \in Nat
         /\ \A i \in 1..Len(s) : s[i] \in Nodes /\ directory[s[i]] = dir
         /\ \A n \in Nodes : directory[n] = dir => \E i \in 1..Len(s) : n = s[i]
         /\ \A i, j \in 1..Len(s) : s[i] = s[j] => i = j
         /\ first[dir] = IF Len(s) = 0 THEN NULL ELSE s[1]
         /\ \A i \in 1..Len(s) : next[s[i]] = IF i < Len(s) THEN s[i + 1] ELSE NULL
         /\ \A i \in 1..Len(s) : previous[s[i]] = IF i = 1 THEN NULL ELSE s[i - 1]
<1>1. {s[i] : i \in 1..Len(s)} = {n \in Nodes : directory[n] = dir}  BY DEF List, ListOf
<1>2. \A i \in 1..Len(s) : s[i] \in Nodes /\ directory[s[i]] = dir  BY <1>1
<1>3. \A n \in Nodes : directory[n] = dir => \E i \in 1..Len(s) : n = s[i]  BY <1>1
<1> QED  BY <1>2, <1>3 DEF List, ListOf

LEMMA EmptyList ==
  ASSUME NEW dir, first[dir] = NULL, \A n \in Nodes : directory[n] # dir
  PROVE  List(dir, <<>>)
BY DEF List, ListOf

LEMMA ListKept ==
  ASSUME NEW dir, NEW s, List(dir, s), Kept(dir)
  PROVE  List(dir, s)'
<1>1. \A i \in 1..Len(s) : directory[s[i]] = dir /\ s[i] \in Nodes  BY ListMembers
<1>2. \A i \in 1..Len(s) : next'[s[i]] = next[s[i]] /\ previous'[s[i]] = previous[s[i]]
  BY <1>1 DEF Kept
<1>3. {n \in Nodes : directory'[n] = dir} = {n \in Nodes : directory[n] = dir}  BY DEF Kept
<1>4. first'[dir] = first[dir]  BY DEF Kept
<1> QED  BY <1>2, <1>3, <1>4 DEF List, ListOf

LEMMA ListAdded ==
  ASSUME NEW dir, NEW s, List(dir, s), NEW new, Added(dir, new)
  PROVE  \E t : List(dir, t)'
<1> DEFINE n == Len(s)
           t == [i \in 1..(n + 1) |-> IF i = 1 THEN new ELSE s[i - 1]]
<1>1. /\ s \in Seq(Nodes) /\ n \in Nat
      /\ \A i \in 1..n : s[i] \in Nodes /\ directory[s[i]] = dir
      /\ \A x \in Nodes : directory[x] = dir => \E i \in 1..n : x = s[i]
      /\ \A i, j \in 1..n : s[i] = s[j] => i = j
      /\ first[dir] = IF n = 0 THEN NULL ELSE s[1]
      /\ \A i \in 1..n : next[s[i]] = IF i < n THEN s[i + 1] ELSE NULL
      /\ \A i \in 1..n : previous[s[i]] = IF i = 1 THEN NULL ELSE s[i - 1]
  BY ListMembers
<1> HIDE DEF n
<1>2. new \in Nodes /\ \A i \in 1..n : s[i] # new  BY <1>1 DEF Added
<1>3. t \in [1..(n + 1) -> Nodes]
  <2>1. \A i \in 1..(n + 1) : i = 1 \/ i - 1 \in 1..n  BY <1>1
  <2> QED  BY <1>1, <1>2, <2>1
<1>4. t \in Seq(Nodes) /\ Len(t) = n + 1
  BY <1>1, <1>3
<1>5. /\ t[1] = new
      /\ \A i \in 2..(n + 1) : t[i] = s[i - 1] /\ i - 1 \in 1..n /\ (i - 1) + 1 = i
  BY <1>1
<1> HIDE DEF t
<1>6. \A i \in 1..(n + 1) : i = 1 \/ i \in 2..(n + 1)  BY <1>1
<1>7. \A i, j \in 1..Len(t) : t[i] = t[j] => i = j
  <2> SUFFICES ASSUME NEW i \in 1..(n + 1), NEW j \in 1..(n + 1), t[i] = t[j] PROVE i = j
    BY <1>4
  <2>1. CASE i = 1 \/ j = 1  BY <1>2, <1>5, <1>6, <2>1
  <2>2. CASE i # 1 /\ j # 1
    <3>1. i \in 2..(n + 1) /\ j \in 2..(n + 1)  BY <1>6, <2>2
    <3>2. s[i - 1] = s[j - 1] /\ i - 1 \in 1..n /\ j - 1 \in 1..n  BY <1>5, <3>1
    <3>3. i - 1 = j - 1  BY <1>1, <3>2
    <3> QED  BY <3>3
  <2> QED  BY <2>1, <2>2
<1>8. {t[i] : i \in 1..Len(t)} = {x \in Nodes : directory'[x] = dir}
  <2>1. ASSUME NEW i \in 1..(n + 1) PROVE t[i] \in Nodes /\ directory'[t[i]] = dir
    <3>1. t[i] = new \/ (t[i] \in Nodes /\ directory[t[i]] = dir)  BY <1>1, <1>5, <1>6
    <3> QED  BY <1>2, <3>1 DEF Added
  <2>2. ASSUME NEW x \in Nodes, directory'[x] = dir PROVE \E i \in 1..(n + 1) : x = t[i]
    <3>1. CASE x = new
      <4>1. 1 \in 1..(n + 1)  BY <1>1
      <4> QED  BY <1>5, <3>1, <4>1
    <3>2. CASE x # new
      <4>1. PICK i \in 1..n : x = s[i]  BY <1>1, <2>2, <3>2 DEF Added
      <4>2. i + 1 \in 2..(n + 1) /\ i + 1 \in 1..(n + 1) /\ (i + 1) - 1 = i  BY <1>1
      <4> QED  BY <1>5, <4>1, <4>2
    <3> QED  BY <3>1, <3>2
  <2> QED  BY <1>4, <2>1, <2>2
<1>9. first'[dir] = IF Len(t) = 0 THEN NULL ELSE t[1]  BY <1>1, <1>4, <1>5 DEF Added
<1>10. ASSUME NEW i \in 1..(n + 1) PROVE next'[t[i]] = IF i < n + 1 THEN t[i + 1] ELSE NULL
  <2>1. i < n + 1 => i + 1 \in 2..(n + 1) /\ (i + 1) - 1 = i  BY <1>1
  <2>2. i < n + 1 => t[i + 1] = s[i]  BY <1>5, <2>1
  <2>3. CASE i = 1
    <3>1. next'[t[i]] = first[dir]  BY <1>5, <2>3 DEF Added
    <3>2. i < n + 1 <=> n # 0  BY <1>1, <2>3
    <3> QED  BY <1>1, <2>2, <2>3, <3>1, <3>2
  <2>4. CASE i # 1
    <3>1. t[i] = s[i - 1] /\ i - 1 \in 1..n /\ (i - 1) + 1 = i  BY <1>5, <1>6, <2>4
    <3>2. next'[s[i - 1]] = next[s[i - 1]]  BY <1>1, <3>1 DEF Added
    <3>3. next[s[i - 1]] = IF i - 1 < n THEN s[(i - 1) + 1] ELSE NULL  BY <1>1, <3>1
    <3>4. i - 1 < n <=> i < n + 1  BY <1>1
    <3> QED  BY <2>2, <3>1, <3>2, <3>3, <3>4
  <2> QED  BY <2>3, <2>4
<1>11. ASSUME NEW i \in 1..(n + 1) PROVE previous'[t[i]] = IF i = 1 THEN NULL ELSE t[i - 1]
  <2>1. CASE i = 1  BY <1>5, <2>1 DEF Added
  <2>2. CASE i # 1
    <3>1. t[i] = s[i - 1] /\ i - 1 \in 1..n  BY <1>5, <1>6, <2>2
    <3>2. previous'[s[i - 1]] = IF s[i - 1] = first[dir] THEN new ELSE previous[s[i - 1]]
      BY <1>1, <3>1 DEF Added
    <3>3. CASE i = 2
      <4>1. i - 1 = 1 /\ n # 0  BY <1>1, <3>1, <3>3
      <4> QED  BY <1>1, <1>5, <2>2, <3>1, <3>2, <4>1
    <3>4. CASE i # 2
      <4>1. i - 1 # 1 /\ 1 \in 1..n /\ n # 0 /\ i - 1 \in 2..(n + 1)  BY <1>1, <2>2, <3>1, <3>4
      <4>2. s[i - 1] # first[dir]  BY <1>1, <3>1, <4>1
      <4>3. previous[s[i - 1]] = s[(i - 1) - 1]  BY <1>1, <3>1, <4>1
      <4>4. t[i - 1] = s[(i - 1) - 1]  BY <1>5, <4>1
      <4> QED  BY <2>2, <3>1, <3>2, <4>2, <4>3, <4>4
    <3> QED  BY <3>3, <3>4
  <2> QED  BY <2>1, <2>2
<1>12. List(dir, t)'  BY <1>4, <1>7, <1>8, <1>9, <1>10, <1>11 DEF List, ListOf
<1> QED  BY <1>12

LEMMA ListRemoved ==
  ASSUME NEW dir, NEW s, List(dir, s), NEW p, Removed(dir, p)
  PROVE  \E t : List(dir, t)'
<1> DEFINE n == Len(s)
<1>1. /\ s \in Seq(Nodes) /\ n \in Nat
      /\ \A i \in 1..n : s[i] \in Nodes /\ directory[s[i]] = dir
      /\ \A x \in Nodes : directory[x] = dir => \E i \in 1..n : x = s[i]
      /\ \A i, j \in 1..n : s[i] = s[j] => i = j
      /\ first[dir] = IF n = 0 THEN NULL ELSE s[1]
      /\ \A i \in 1..n : next[s[i]] = IF i < n THEN s[i + 1] ELSE NULL
      /\ \A i \in 1..n : previous[s[i]] = IF i = 1 THEN NULL ELSE s[i - 1]
  BY ListMembers
<1> HIDE DEF n
<1>2. PICK k \in 1..n : s[k] = p  BY <1>1 DEF Removed
<1> DEFINE at(i) == IF i < k THEN i ELSE i + 1
           t == [i \in 1..(n - 1) |-> s[at(i)]]
<1>3. n \in Nat /\ n - 1 \in Nat /\ k \in Nat /\ 1 <= k /\ k <= n  BY <1>1
<1>4. /\ \A i \in 1..(n - 1) : at(i) \in 1..n /\ at(i) # k
      /\ \A i, j \in 1..(n - 1) : at(i) = at(j) => i = j
      /\ \A j \in 1..n : j # k => \E i \in 1..(n - 1) : at(i) = j
  <2>1. \A i \in 1..(n - 1) : at(i) \in 1..n /\ at(i) # k  BY <1>1
  <2>2. \A i, j \in 1..(n - 1) : at(i) = at(j) => i = j  BY <1>1
  <2>3. ASSUME NEW j \in 1..n, j # k PROVE \E i \in 1..(n - 1) : at(i) = j
    <3>1. CASE j < k
      <4>1. j \in 1..(n - 1) /\ at(j) = j  BY <1>1, <3>1
      <4> QED  BY <4>1
    <3>2. CASE ~(j < k)
      <4>1. j - 1 \in 1..(n - 1) /\ at(j - 1) = j  BY <1>1, <2>3, <3>2
      <4> QED  BY <4>1
    <3> QED  BY <3>1, <3>2
  <2> QED  BY <2>1, <2>2, <2>3
<1>5. /\ \A i \in 1..(n - 1) : i < k - 1 => at(i) < n /\ at(i) + 1 = at(i + 1) /\ at(i) + 1 # k
      /\ \A i \in 1..(n - 1) : i = k - 1 => at(i) = k - 1 /\ (i < n - 1 => at(i + 1) = k + 1)
      /\ \A i \in 1..(n - 1) : i > k - 1 =>
            /\ at(i) = i + 1
            /\ i < n - 1 => at(i + 1) = at(i) + 1 /\ at(i) + 1 # k
      /\ \A i \in 1..(n - 1) : i > 1 /\ i # k => at(i) - 1 = at(i - 1) /\ at(i) - 1 # k
      /\ \A i \in 1..(n - 1) : i > 1 /\ i = k => at(i) = k + 1 /\ at(i - 1) = k - 1
      /\ \A i \in 1..(n - 1) : i = 1 => at(i) = IF k = 1 THEN 2 ELSE 1
      /\ n - 1 # 0 => 1 \in 1..(n - 1)
  BY <1>3
<1> HIDE DEF at
<1>6. t \in [1..(n - 1) -> Nodes] /\ t \in Seq(Nodes) /\ Len(t) = n - 1
  <2>1. t \in [1..(n - 1) -> Nodes]  BY <1>1, <1>4
  <2> QED  BY <1>3, <2>1
<1>7. \A i \in 1..(n - 1) : t[i] = s[at(i)]  OBVIOUS
<1> HIDE DEF t
<1>7a. ASSUME NEW i \in 1..(n - 1)
       PROVE  /\ at(i) \in 1..n /\ t[i] = s[at(i)]
              /\ t[i] \in Nodes /\ directory[t[i]] = dir /\ t[i] # p /\ t[i] # NULL
              /\ next[t[i]] = IF at(i) < n THEN s[at(i) + 1] ELSE NULL
              /\ previous[t[i]] = IF at(i) = 1 THEN NULL ELSE s[at(i) - 1]
  <2>1. PICK j \in 1..n : j = at(i) /\ j # k  BY <1>4
  <2>2. t[i] = s[j]  BY <1>7, <2>1
  <2>3. s[j] # s[k]  BY <1>1, <2>1
  <2>4. s[j] \in Nodes /\ directory[s[j]] = dir  BY <1>1
  <2>5. next[s[j]] = IF j < n THEN s[j + 1] ELSE NULL  BY <1>1
  <2>6. previous[s[j]] = IF j = 1 THEN NULL ELSE s[j - 1]  BY <1>1
  <2>7. s[j] # NULL  BY <2>4, NodeFacts
  <2> QED  BY <1>2, <2>1, <2>2, <2>3, <2>4, <2>5, <2>6, <2>7
<1>8. \A i, j \in 1..Len(t) : t[i] = t[j] => i = j
  <2> SUFFICES ASSUME NEW i \in 1..(n - 1), NEW j \in 1..(n - 1), t[i] = t[j] PROVE i = j
    BY <1>6
  <2>1. PICK a \in 1..n : a = at(i)  BY <1>4
  <2>2. PICK b \in 1..n : b = at(j)  BY <1>4
  <2>3. s[a] = s[b]  BY <1>7, <2>1, <2>2
  <2>4. a = b  BY <1>1, <2>3
  <2> QED  BY <1>4, <2>1, <2>2, <2>4
<1>9. {t[i] : i \in 1..Len(t)} = {x \in Nodes : directory'[x] = dir}
  <2>1. ASSUME NEW i \in 1..(n - 1) PROVE t[i] \in Nodes /\ directory'[t[i]] = dir
    <3>1. t[i] \in Nodes /\ directory[t[i]] = dir /\ t[i] # p  BY <1>7a
    <3> QED  BY <3>1 DEF Removed
  <2>2. ASSUME NEW x \in Nodes, directory'[x] = dir PROVE \E i \in 1..(n - 1) : x = t[i]
    <3>1. directory[x] = dir /\ x # p  BY <2>2 DEF Removed
    <3>2. PICK j \in 1..n : x = s[j]  BY <1>1, <3>1
    <3>3. j # k  BY <1>2, <3>1, <3>2
    <3>4. PICK i \in 1..(n - 1) : at(i) = j  BY <1>4, <3>3
    <3> QED  BY <1>7, <3>2, <3>4
  <2> QED  BY <1>6, <2>1, <2>2
<1>10. /\ next[p] = IF k < n THEN s[k + 1] ELSE NULL
       /\ previous[p] = IF k = 1 THEN NULL ELSE s[k - 1]
  BY <1>1, <1>2
<1>11. first'[dir] = IF Len(t) = 0 THEN NULL ELSE t[1]
  <2>1. n # 0 /\ 1 \in 1..n /\ first[dir] = s[1]  BY <1>1, <1>3
  <2>2. first[dir] = p <=> k = 1  BY <1>1, <1>2, <2>1
  <2>3. first'[dir] = IF k = 1 THEN next[p] ELSE s[1]  BY <2>1, <2>2 DEF Removed
  <2>4. CASE n = 1
    <3>1. k = 1 /\ ~(k < n)  BY <1>3, <2>4
    <3> QED  BY <1>6, <1>10, <2>3, <2>4, <3>1
  <2>5. CASE n # 1
    <3>1. n - 1 # 0 /\ 1 < n /\ 1 \in 1..(n - 1)  BY <1>3, <1>5, <2>5
    <3>2. t[1] = IF k = 1 THEN s[2] ELSE s[1]  BY <1>5, <1>7, <3>1
    <3> QED  BY <1>6, <1>10, <2>3, <3>1, <3>2
  <2> QED  BY <2>4, <2>5
<1>12. ASSUME NEW i \in 1..(n - 1)
       PROVE  /\ t[i] = s[at(i)] /\ at(i) \in 1..n /\ t[i] # p
              /\ next'[t[i]] = IF next[t[i]] = p THEN next[p] ELSE next[t[i]]
              /\ previous'[t[i]] = IF t[i] = next[p] THEN previous[p] ELSE previous[t[i]]
  <2>1. t[i] \in Nodes /\ directory[t[i]] = dir /\ t[i] # p  BY <1>7a
  <2> QED  BY <1>7a, <2>1 DEF Removed
<1>13. p # NULL  BY NodeFacts DEF Removed
<1>14. ASSUME NEW i \in 1..(n - 1) PROVE next'[t[i]] = IF i < n - 1 THEN t[i + 1] ELSE NULL
  <2>1. i < n - 1 => i + 1 \in 1..(n - 1) /\ t[i + 1] = s[at(i + 1)]
    <3>1. i < n - 1 => i + 1 \in 1..(n - 1)  BY <1>3
    <3> QED  BY <1>7, <3>1
  <2>2. next[t[i]] = IF at(i) < n THEN s[at(i) + 1] ELSE NULL  BY <1>7a
  <2>3. at(i) < n => at(i) + 1 \in 1..n  BY <1>3, <1>12
  <2>4. next[t[i]] = p <=> at(i) < n /\ at(i) + 1 = k
    BY <1>1, <1>2, <1>13, <2>2, <2>3
  <2>5. CASE i < k - 1
    <3>1. i < n - 1 /\ at(i) < n /\ at(i) + 1 = at(i + 1) /\ at(i) + 1 # k
      <4>1. i < n - 1  BY <1>3, <2>5
      <4> QED  BY <1>5, <2>5, <4>1
    <3> QED  BY <1>12, <2>1, <2>2, <2>4, <3>1
  <2>6. CASE i = k - 1
    <3>1. at(i) = k - 1 /\ (i < n - 1 => at(i + 1) = k + 1)  BY <1>5, <2>6
    <3>2. at(i) < n /\ at(i) + 1 = k /\ (i < n - 1 <=> k < n)  BY <1>3, <2>6, <3>1
    <3> QED  BY <1>10, <1>12, <2>1, <2>4, <3>1, <3>2
  <2>7. CASE i > k - 1
    <3>1. at(i) = i + 1 /\ (i < n - 1 => at(i + 1) = at(i) + 1 /\ at(i) + 1 # k)  BY <1>5, <2>7
    <3>2. at(i) < n <=> i < n - 1  BY <1>3, <3>1
    <3> QED  BY <1>12, <2>1, <2>2, <2>4, <3>1, <3>2
  <2> QED  BY <1>3, <2>5, <2>6, <2>7
<1>15. ASSUME NEW i \in 1..(n - 1) PROVE previous'[t[i]] = IF i = 1 THEN NULL ELSE t[i - 1]
  <2>1. i # 1 => i - 1 \in 1..(n - 1) /\ t[i - 1] = s[at(i - 1)]
    <3>1. i # 1 => i - 1 \in 1..(n - 1)  BY <1>3
    <3> QED  BY <1>7, <3>1
  <2>2. previous[t[i]] = IF at(i) = 1 THEN NULL ELSE s[at(i) - 1]  BY <1>7a
  <2>3. t[i] = next[p] <=> at(i) = k + 1
    <3>1. t[i] # NULL  BY <1>7a
    <3>2. k < n => k + 1 \in 1..n  BY <1>3
    <3>3. ~(k < n) => at(i) # k + 1  BY <1>3, <1>12
    <3>4. PICK j \in 1..n : j = at(i) /\ t[i] = s[j]  BY <1>12
    <3>5. CASE k < n
      <4>1. next[p] = s[k + 1] /\ k + 1 \in 1..n  BY <1>10, <3>2, <3>5
      <4>2. s[j] = s[k + 1] <=> j = k + 1  BY <1>1, <4>1
      <4> QED  BY <3>4, <4>1, <4>2
    <3>6. CASE ~(k < n)
      <4>1. next[p] = NULL  BY <1>10, <3>6
      <4> QED  BY <3>1, <3>3, <3>6, <4>1
    <3> QED  BY <3>5, <3>6
  <2>4. CASE i = 1
    <3>1. at(i) = IF k = 1 THEN 2 ELSE 1  BY <1>5, <2>4
    <3>2. CASE k = 1
      <4>1. at(i) = k + 1  BY <3>1, <3>2
      <4> QED  BY <1>10, <1>12, <2>3, <2>4, <3>2, <4>1
    <3>3. CASE k # 1
      <4>1. at(i) # k + 1 /\ at(i) = 1  BY <1>3, <3>1, <3>3
      <4> QED  BY <1>12, <2>2, <2>3, <2>4, <4>1
    <3> QED  BY <3>2, <3>3
  <2>5. CASE i # 1 /\ i = k
    <3>1. i > 1  BY <1>3, <2>5
    <3>2. at(i) = k + 1 /\ at(i - 1) = k - 1  BY <1>5, <2>5, <3>1
    <3> QED  BY <1>10, <1>12, <2>1, <2>3, <2>5, <3>2
  <2>6. CASE i # 1 /\ i # k
    <3>1. i > 1  BY <1>3, <2>6
    <3>2. at(i) - 1 = at(i - 1) /\ at(i) - 1 # k  BY <1>5, <2>6, <3>1
    <3>3. i - 1 \in 1..(n - 1)  BY <2>1, <2>6
    <3>4. at(i) \in 1..n /\ at(i - 1) \in 1..n  BY <1>4, <3>3
    <3>5. at(i) # 1 /\ at(i) # k + 1  BY <1>3, <3>2, <3>4
    <3> QED  BY <1>12, <2>1, <2>2, <2>3, <2>6, <3>2, <3>5
  <2> QED  BY <2>4, <2>5, <2>6
<1>16. List(dir, t)'  BY <1>6, <1>8, <1>9, <1>11, <1>14, <1>15 DEF List, ListOf
<1> QED  BY <1>16

\* The nodes before and after p in its list.
LEMMA Neighbours ==
  ASSUME NEW dir, NEW s, List(dir, s), NEW p \in Nodes, directory[p] = dir
  PROVE  /\ next[p] \in Nodes \cup {NULL} /\ previous[p] \in Nodes \cup {NULL}
         /\ next[p] # NULL => directory[next[p]] = dir
         /\ previous[p] # NULL => directory[previous[p]] = dir
         /\ \A n \in Nodes : directory[n] = dir => (next[n] = p <=> n = previous[p])
         /\ first[dir] \in Nodes /\ directory[first[dir]] = dir /\ previous[first[dir]] = NULL
<1> DEFINE n == Len(s)
<1>1. /\ n \in Nat
      /\ \A i \in 1..n : s[i] \in Nodes /\ directory[s[i]] = dir
      /\ \A x \in Nodes : directory[x] = dir => \E i \in 1..n : x = s[i]
      /\ \A i, j \in 1..n : s[i] = s[j] => i = j
      /\ first[dir] = IF n = 0 THEN NULL ELSE s[1]
      /\ \A i \in 1..n : next[s[i]] = IF i < n THEN s[i + 1] ELSE NULL
      /\ \A i \in 1..n : previous[s[i]] = IF i = 1 THEN NULL ELSE s[i - 1]
  <2>1. n \in Nat /\ first[dir] = (IF n = 0 THEN NULL ELSE s[1])  BY ListMembers
  <2>2. \A i \in 1..n : s[i] \in Nodes /\ directory[s[i]] = dir  BY ListMembers
  <2>3. \A x \in Nodes : directory[x] = dir => \E i \in 1..n : x = s[i]  BY ListMembers
  <2>4. \A i, j \in 1..n : s[i] = s[j] => i = j  BY ListMembers
  <2>5. \A i \in 1..n : next[s[i]] = IF i < n THEN s[i + 1] ELSE NULL  BY ListMembers
  <2>6. \A i \in 1..n : previous[s[i]] = IF i = 1 THEN NULL ELSE s[i - 1]  BY ListMembers
  <2> QED  BY <2>1, <2>2, <2>3, <2>4, <2>5, <2>6
<1> HIDE DEF n
<1>2. PICK k \in 1..n : s[k] = p  BY <1>1
<1>3. NULL \notin Nodes  BY NodeFacts
<1>4. next[p] = IF k < n THEN s[k + 1] ELSE NULL  BY <1>1, <1>2
<1>5. previous[p] = IF k = 1 THEN NULL ELSE s[k - 1]  BY <1>1, <1>2
<1>6. k < n => k + 1 \in 1..n  BY <1>1
<1>7. k # 1 => k - 1 \in 1..n /\ k - 1 < n /\ (k - 1) + 1 = k  BY <1>1
<1>8. ASSUME NEW x \in Nodes, directory[x] = dir
      PROVE  next[x] = p <=> x = previous[p]
  <2>1. PICK i \in 1..n : x = s[i]  BY <1>1, <1>8
  <2>2. next[x] = IF i < n THEN s[i + 1] ELSE NULL  BY <1>1, <2>1
  <2>3. i < n => i + 1 \in 1..n  BY <1>1
  <2>4. next[x] = p <=> i < n /\ i + 1 = k  BY <1>1, <1>2, <1>3, <2>2, <2>3
  <2>5. x = previous[p] <=> k # 1 /\ i = k - 1  BY <1>1, <1>3, <1>5, <1>7, <2>1
  <2>6. (i < n /\ i + 1 = k) <=> (k # 1 /\ i = k - 1)  BY <1>1
  <2> QED  BY <2>4, <2>5, <2>6
<1>9. first[dir] \in Nodes /\ directory[first[dir]] = dir /\ previous[first[dir]] = NULL
  <2>1. n # 0 /\ 1 \in 1..n  BY <1>1
  <2> QED  BY <1>1, <2>1
<1> QED  BY <1>1, <1>4, <1>5, <1>6, <1>7, <1>8, <1>9

LEMMA HeadListed ==
  ASSUME NEW dir, NEW s, List(dir, s)
  PROVE  first[dir] # NULL => first[dir] \in Nodes /\ directory[first[dir]] = dir
<1>1. Len(s) # 0 => 1 \in 1..Len(s)  BY ListMembers
<1> QED  BY <1>1, ListMembers

----------------------------------------------------------------------------
LEMMA InitStep == Init => IInv
<1> SUFFICES ASSUME Init PROVE IInv  OBVIOUS
<1>1. Registered = {Root}  BY NodeFacts DEF Init, Registered
<1>2. TypeOK  BY <1>1, NodeFacts DEF Init, TypeOK
<1>3. Fixed  BY NodeFacts DEF Init, Fixed
<1>4. ASSUME NEW dir \in Registered \cup {Proc, Self} PROVE \E s : List(dir, s)
  <2>1. dir \in Nodes /\ dir # NULL  BY <1>1, NodeFacts
  <2>2. first[dir] = NULL /\ \A n \in Nodes : directory[n] # dir  BY <2>1 DEF Init
  <2>3. List(dir, <<>>)  BY <2>2, EmptyList
  <2> QED  BY <2>3
<1> QED  BY <1>2, <1>3, <1>4, NodeFacts DEF Init, IInv

LEMMA RegisterStep ==
  ASSUME IInv, NEW dir \in Nodes, NEW new \in Others, NEW nm \in Names,
         RegisterChild(dir, new, nm)
  PROVE  IInv'
<1>1. /\ dir \in Registered /\ new \in Nodes \ {Root, Proc, Self} /\ new \notin Registered
      /\ directory[new] = NULL /\ dir # new /\ nm # NULL /\ NULL \notin Nodes
  BY NodeFacts DEF RegisterChild, Registered
<1>2. /\ previous' = [n \in Nodes |-> IF n = first[dir] THEN new
                                      ELSE IF n = new THEN NULL ELSE previous[n]]
      /\ next' = [next EXCEPT ![new] = first[dir]]
      /\ first' = [first EXCEPT ![dir] = new, ![new] = NULL]
      /\ parent' = [parent EXCEPT ![new] = NULL]
      /\ name' = [name EXCEPT ![new] = nm]
      /\ directory' = [directory EXCEPT ![new] = dir]
      /\ link' = link
  BY DEF RegisterChild, BackLink, Renamed
<1>3. TypeOK /\ Fixed /\ parent = [n \in Nodes |-> NULL]
      /\ (\A n \in Nodes : directory[n] \in Registered \cup {NULL})
      /\ \A d \in Registered \cup {Proc, Self} : \E s : List(d, s)
  BY DEF IInv
<1>4. /\ first \in [Nodes -> Nodes \cup {NULL}] /\ next \in [Nodes -> Nodes \cup {NULL}]
      /\ previous \in [Nodes -> Nodes \cup {NULL}] /\ directory \in [Nodes -> Nodes \cup {NULL}]
      /\ name \in [Nodes -> Names \cup {"proc", "self", NULL}] /\ link \in Nodes \cup {NULL}
  BY <1>3 DEF TypeOK
<1>5. /\ \A n \in Nodes : first'[n] = IF n = dir THEN new ELSE IF n = new THEN NULL ELSE first[n]
      /\ \A n \in Nodes : next'[n] = IF n = new THEN first[dir] ELSE next[n]
      /\ \A n \in Nodes : directory'[n] = IF n = new THEN dir ELSE directory[n]
  BY <1>1, <1>2, <1>4
<1>6. Registered' = Registered \cup {new}
  BY <1>1, <1>5 DEF Registered
<1>7. first[dir] # NULL => first[dir] \in Nodes /\ directory[first[dir]] = dir
  BY <1>1, <1>3, HeadListed
<1>8. TypeOK'
  <2>1. \A n \in Registered' \ {Root} : name'[n] # NULL
    BY <1>1, <1>2, <1>3, <1>4, <1>6 DEF TypeOK, Registered
  <2>2. name' \in [Nodes -> Names \cup {"proc", "self", NULL}]  BY <1>2, <1>4
  <2>3. /\ first' \in [Nodes -> Nodes \cup {NULL}] /\ next' \in [Nodes -> Nodes \cup {NULL}]
        /\ previous' \in [Nodes -> Nodes \cup {NULL}] /\ directory' \in [Nodes -> Nodes \cup {NULL}]
        /\ parent' \in [Nodes -> Nodes \cup {NULL}]
    BY <1>1, <1>2, <1>3, <1>4
  <2> QED  BY <1>2, <1>4, <2>1, <2>2, <2>3 DEF TypeOK
<1>9. parent' = [n \in Nodes |-> NULL]  BY <1>2, <1>3
<1>10. Fixed'
  <2>1. directory[Proc] = NULL => Self # dir /\ Self # first[dir]
    BY <1>1, <1>3, <1>7, NodeFacts DEF Fixed, Registered
  <2>2. previous'[Self] = IF Self = first[dir] THEN new ELSE previous[Self]
    BY <1>1, <1>2, NodeFacts
  <2> QED  BY <1>1, <1>3, <1>5, <2>1, <2>2, NodeFacts DEF Fixed
<1>11. \A n \in Nodes : directory'[n] \in Registered' \cup {NULL}
  BY <1>1, <1>3, <1>5, <1>6
<1>12. ASSUME NEW d \in Registered' \cup {Proc, Self} PROVE \E s : List(d, s)'
  <2>1. d \in Nodes  BY <1>6, NodeFacts DEF Registered
  <2>2. CASE d = new
    <3>1. first'[d] = NULL  BY <1>1, <1>5, <2>2
    <3>2. \A n \in Nodes : directory'[n] # d  BY <1>1, <1>3, <1>5, <2>2
    <3>3. List(d, <<>>)'  BY <3>1, <3>2 DEF List, ListOf
    <3> QED  BY <3>3
  <2>3. CASE d = dir
    <3>1. PICK s : List(d, s)  BY <1>1, <1>3, <2>3
    <3>2. \A n \in Nodes : directory[n] = dir =>
             next'[n] = next[n] /\ previous'[n] = IF n = first[dir] THEN new ELSE previous[n]
      BY <1>1, <1>2, <1>5
    <3>3. previous'[new] = NULL  BY <1>1, <1>2, <1>7
    <3>4. Added(d, new)  BY <1>1, <1>5, <2>3, <3>2, <3>3 DEF Added
    <3> QED  BY <3>1, <3>4, ListAdded
  <2>4. CASE d # new /\ d # dir
    <3>1. d \in Registered \cup {Proc, Self}  BY <1>6, <2>4
    <3>2. PICK s : List(d, s)  BY <1>3, <3>1
    <3>3. \A n \in Nodes : directory[n] = d =>
             next'[n] = next[n] /\ previous'[n] = previous[n]
      BY <1>1, <1>2, <1>5, <1>7, <2>1, <2>4
    <3>4. Kept(d)  BY <1>1, <1>5, <2>1, <2>4, <3>3 DEF Kept
    <3>5. List(d, s)'  BY <3>2, <3>4, ListKept
    <3> QED  BY <3>5
  <2> QED  BY <2>2, <2>3, <2>4
<1> QED  BY <1>8, <1>9, <1>10, <1>11, <1>12 DEF IInv

LEMMA CreateStep ==
  ASSUME IInv, SchedulerCreateProcDir
  PROVE  IInv'
<1>1. /\ Proc \notin Registered /\ Root \in Registered /\ {Root, Proc, Self} \subseteq Nodes
      /\ Root # Proc /\ Root # Self /\ Proc # Self /\ NULL \notin Nodes
      /\ directory[Root] = NULL /\ directory[Proc] = NULL /\ directory[Self] = NULL
      /\ first[Self] = NULL /\ next[Self] = NULL /\ previous[Self] = NULL
  BY NodeFacts DEF SchedulerCreateProcDir, Registered, IInv, Fixed
<1>2. /\ previous' = [n \in Nodes |-> IF n = first[Root] THEN Proc
                                      ELSE IF n = Proc THEN NULL ELSE previous[n]]
      /\ next' = [next EXCEPT ![Proc] = first[Root]]
      /\ first' = [first EXCEPT ![Root] = Proc, ![Proc] = Self]
      /\ name' = [name EXCEPT ![Proc] = "proc", ![Self] = "self"]
      /\ directory' = [directory EXCEPT ![Proc] = Root, ![Self] = Proc]
      /\ parent' = parent /\ link' = link
  BY DEF SchedulerCreateProcDir, BackLink
<1>3. TypeOK /\ parent = [n \in Nodes |-> NULL]
      /\ (\A n \in Nodes : directory[n] \in Registered \cup {NULL})
      /\ \A d \in Registered \cup {Proc, Self} : \E s : List(d, s)
  BY DEF IInv
<1>4. /\ first \in [Nodes -> Nodes \cup {NULL}] /\ next \in [Nodes -> Nodes \cup {NULL}]
      /\ previous \in [Nodes -> Nodes \cup {NULL}] /\ directory \in [Nodes -> Nodes \cup {NULL}]
      /\ name \in [Nodes -> Names \cup {"proc", "self", NULL}] /\ link \in Nodes \cup {NULL}
      /\ parent \in [Nodes -> Nodes \cup {NULL}]
  BY <1>3 DEF TypeOK
<1>5. /\ \A n \in Nodes : first'[n] = IF n = Root THEN Proc ELSE IF n = Proc THEN Self ELSE first[n]
      /\ \A n \in Nodes : next'[n] = IF n = Proc THEN first[Root] ELSE next[n]
      /\ \A n \in Nodes : directory'[n] = IF n = Proc THEN Root
                                          ELSE IF n = Self THEN Proc ELSE directory[n]
      /\ \A n \in Nodes : name'[n] = IF n = Proc THEN "proc" ELSE IF n = Self THEN "self" ELSE name[n]
  BY <1>1, <1>2, <1>4
<1>6. Registered' = Registered \cup {Proc, Self}
  BY <1>1, <1>5 DEF Registered
<1>7. first[Root] # NULL => first[Root] \in Nodes /\ directory[first[Root]] = Root
  BY <1>1, <1>3, HeadListed
<1>8. \A n \in Nodes : directory[n] # Proc /\ directory[n] # Self
  BY <1>1, <1>3 DEF Registered
<1>9. TypeOK'
  <2>1. \A n \in Registered' \ {Root} : name'[n] # NULL
    BY <1>1, <1>3, <1>5, <1>6, NodeFacts DEF TypeOK, Registered
  <2>2. name' \in [Nodes -> Names \cup {"proc", "self", NULL}]  BY <1>2, <1>4
  <2>3. /\ first' \in [Nodes -> Nodes \cup {NULL}] /\ next' \in [Nodes -> Nodes \cup {NULL}]
        /\ previous' \in [Nodes -> Nodes \cup {NULL}] /\ directory' \in [Nodes -> Nodes \cup {NULL}]
    BY <1>1, <1>2, <1>4
  <2> QED  BY <1>2, <1>4, <2>1, <2>2, <2>3 DEF TypeOK
<1>10. Fixed'
  BY <1>1, <1>5 DEF Fixed
<1>11. \A n \in Nodes : directory'[n] \in Registered' \cup {NULL}
  BY <1>1, <1>3, <1>5, <1>6
<1>12. \A n \in Nodes : previous'[n] = IF n = first[Root] THEN Proc
                                       ELSE IF n = Proc THEN NULL ELSE previous[n]
  BY <1>2
<1>13. ASSUME NEW d \in Registered' \cup {Proc, Self} PROVE \E s : List(d, s)'
  <2>1. d \in Nodes /\ d \in Registered \cup {Proc, Self}  BY <1>6, NodeFacts DEF Registered
  <2>2. PICK s : List(d, s)  BY <1>3, <2>1
  <2>3. CASE d = Root
    <3>1. previous'[Proc] = NULL  BY <1>1, <1>7, <1>12
    <3>2. \A n \in Nodes : directory[n] = d =>
             next'[n] = next[n] /\ previous'[n] = IF n = first[d] THEN Proc ELSE previous[n]
      BY <1>1, <1>5, <1>12, <2>3
    <3>3. Added(d, Proc)  BY <1>1, <1>5, <2>3, <3>1, <3>2 DEF Added
    <3> QED  BY <2>2, <3>3, ListAdded
  <2>4. CASE d = Proc
    <3>1. first[d] = NULL  BY <1>8, <2>2, <2>4, HeadListed
    <3>2. previous'[Self] = NULL /\ next'[Self] = NULL  BY <1>1, <1>5, <1>7, <1>12
    <3>3. Added(d, Self)  BY <1>1, <1>5, <1>8, <2>4, <3>1, <3>2 DEF Added
    <3> QED  BY <2>2, <3>3, ListAdded
  <2>5. CASE d # Root /\ d # Proc
    <3>1. \A n \in Nodes : directory[n] = d => next'[n] = next[n] /\ previous'[n] = previous[n]
      BY <1>1, <1>5, <1>7, <1>12, <2>1, <2>5
    <3>2. Kept(d)  BY <1>1, <1>5, <2>1, <2>5, <3>1 DEF Kept
    <3>3. List(d, s)'  BY <2>2, <3>2, ListKept
    <3> QED  BY <3>3
  <2> QED  BY <2>3, <2>4, <2>5
<1> QED  BY <1>2, <1>3, <1>9, <1>10, <1>11, <1>13 DEF IInv

LEMMA ExitStep ==
  ASSUME IInv, NEW p \in Nodes, SchedulerExit(p)
  PROVE  IInv'
<1> DEFINE S == Subtree(p)
           unlinked == [n \in Nodes |-> IF first[Proc] # p /\ next[n] = p /\ n \in Children(Proc)
                                        THEN next[p] ELSE next[n]]
<1>1. /\ TypeOK /\ Fixed /\ parent = [n \in Nodes |-> NULL]
      /\ (\A n \in Nodes : directory[n] \in Registered \cup {NULL})
      /\ \A d \in Registered \cup {Proc, Self} : \E s : List(d, s)
  BY DEF IInv
<1>2. /\ {Root, Proc, Self} \subseteq Nodes /\ Root # Proc /\ Root # Self /\ Proc # Self
      /\ NULL \notin Nodes /\ Registered \subseteq Nodes
      /\ \A n \in Nodes : n \in Registered <=> n = Root \/ directory[n] # NULL
  BY NodeFacts, RegisteredFacts
<1>3. Children(Proc) = {n \in Nodes : directory[n] = Proc}
  BY RegisteredFacts
<1>4. p # Self /\ directory[p] = Proc /\ p # Root /\ p # Proc /\ p \in Registered
  BY <1>1, <1>2, <1>3 DEF SchedulerExit, Fixed
<1>5. Proc \in Registered /\ directory[Proc] = Root /\ directory[Self] = Proc /\ directory[Root] = NULL
  BY <1>1, <1>2, <1>4 DEF Fixed
<1>6. /\ p \in S /\ S \subseteq Registered
      /\ \A n \in Nodes : directory[n] \in S => n \in S
      /\ \A n \in S : n = p \/ directory[n] \in S
  BY <1>4, SubtreeClosed
<1> HIDE DEF S
<1>7. Root \notin S /\ Proc \notin S /\ Self \notin S
  <2>1. Root \notin S  BY <1>2, <1>4, <1>5, <1>6
  <2>2. Proc \notin S  BY <1>4, <1>5, <1>6, <2>1
  <2> QED  BY <1>4, <1>5, <1>6, <2>1, <2>2
<1>8. /\ first \in [Nodes -> Nodes \cup {NULL}] /\ next \in [Nodes -> Nodes \cup {NULL}]
      /\ previous \in [Nodes -> Nodes \cup {NULL}] /\ directory \in [Nodes -> Nodes \cup {NULL}]
      /\ name \in [Nodes -> Names \cup {"proc", "self", NULL}] /\ link \in Nodes \cup {NULL}
  BY <1>1 DEF TypeOK
<1>9. PICK l : List(Proc, l)  BY <1>1
<1>10. /\ next[p] \in Nodes \cup {NULL} /\ previous[p] \in Nodes \cup {NULL}
       /\ next[p] # NULL => directory[next[p]] = Proc
       /\ previous[p] # NULL => directory[previous[p]] = Proc
       /\ \A n \in Nodes : directory[n] = Proc => (next[n] = p <=> n = previous[p])
       /\ first[Proc] \in Nodes /\ directory[first[Proc]] = Proc /\ previous[first[Proc]] = NULL
  BY <1>4, <1>9, Neighbours
<1>11. /\ next' = [n \in Nodes |-> IF n = p THEN NULL
                                   ELSE IF n = previous[p] THEN unlinked[p] ELSE unlinked[n]]
       /\ first' = [n \in Nodes |-> IF first[n] = p /\ n \in {Proc, parent[p]}
                                    THEN next[p] ELSE first[n]]
       /\ previous' = [n \in Nodes |-> IF n = p THEN NULL
                                       ELSE IF n = next[p] THEN previous[p] ELSE previous[n]]
       /\ parent' = [parent EXCEPT ![p] = NULL]
       /\ directory' = [n \in Nodes |-> IF n \in S THEN NULL ELSE directory[n]]
       /\ name' = name /\ link' = link
  BY DEF SchedulerExit, FirstAfterExit, S
<1>12. /\ \A n \in Nodes : unlinked[n] = IF first[Proc] # p /\ next[n] = p /\ directory[n] = Proc
                                         THEN next[p] ELSE next[n]
       /\ unlinked \in [Nodes -> Nodes \cup {NULL}]
  BY <1>3, <1>8, <1>10
<1> HIDE DEF unlinked
<1>13. unlinked[p] = next[p]  BY <1>12
<1>14. /\ \A n \in Nodes : next'[n] = IF n = p THEN NULL
                                      ELSE IF n = previous[p] THEN next[p] ELSE unlinked[n]
       /\ \A n \in Nodes : first'[n] = IF first[n] = p /\ n = Proc THEN next[p] ELSE first[n]
       /\ \A n \in Nodes : previous'[n] = IF n = p THEN NULL
                                          ELSE IF n = next[p] THEN previous[p] ELSE previous[n]
       /\ \A n \in Nodes : directory'[n] = IF n \in S THEN NULL ELSE directory[n]
  BY <1>1, <1>2, <1>11, <1>13
<1>15. Registered' = Registered \ S
  BY <1>2, <1>7, <1>14 DEF Registered
<1>16. TypeOK'
  <2>1. \A n \in Registered' \ {Root} : name'[n] # NULL
    BY <1>1, <1>11, <1>15 DEF TypeOK
  <2>2. /\ first' \in [Nodes -> Nodes \cup {NULL}] /\ next' \in [Nodes -> Nodes \cup {NULL}]
        /\ previous' \in [Nodes -> Nodes \cup {NULL}] /\ directory' \in [Nodes -> Nodes \cup {NULL}]
        /\ parent' \in [Nodes -> Nodes \cup {NULL}]
    BY <1>1, <1>8, <1>10, <1>11, <1>12
  <2> QED  BY <1>8, <1>11, <2>1, <2>2 DEF TypeOK
<1>17. parent' = [n \in Nodes |-> NULL]  BY <1>1, <1>11
<1>18. Fixed'  BY <1>2, <1>5, <1>7, <1>14 DEF Fixed
<1>19. \A n \in Nodes : directory'[n] \in Registered' \cup {NULL}
  BY <1>1, <1>6, <1>14, <1>15
<1>20. ASSUME NEW d \in Registered' \cup {Proc, Self} PROVE \E s : List(d, s)'
  <2>1. d \in Nodes /\ d \in Registered \cup {Proc, Self} /\ d \notin S
    BY <1>2, <1>7, <1>15
  <2>2. PICK s : List(d, s)  BY <1>1, <2>1
  <2>3. CASE d = Proc
    <3>1. \A n \in Nodes : directory'[n] = d <=> directory[n] = d /\ n # p
      BY <1>2, <1>6, <1>7, <1>14, <2>3
    <3>2. ASSUME NEW n \in Nodes, directory[n] = d, n # p
          PROVE  /\ next'[n] = IF next[n] = p THEN next[p] ELSE next[n]
                 /\ previous'[n] = IF n = next[p] THEN previous[p] ELSE previous[n]
      <4>1. next[n] = p <=> n = previous[p]  BY <1>10, <2>3, <3>2
      <4>2. next[n] # p => unlinked[n] = next[n]  BY <1>12
      <4> QED  BY <1>14, <3>2, <4>1, <4>2
    <3>3. first'[d] = IF first[d] = p THEN next[p] ELSE first[d]  BY <1>2, <1>14, <2>3
    <3>4. Removed(d, p)  BY <1>4, <2>3, <3>1, <3>2, <3>3 DEF Removed
    <3> QED  BY <2>2, <3>4, ListRemoved
  <2>4. CASE d # Proc
    <3>1. \A n \in Nodes : directory'[n] = d <=> directory[n] = d
      BY <1>2, <1>4, <1>6, <1>14, <2>1, <2>4
    <3>2. ASSUME NEW n \in Nodes, directory[n] = d
          PROVE  next'[n] = next[n] /\ previous'[n] = previous[n]
      <4>1. n # p /\ n # previous[p] /\ n # next[p]  BY <1>2, <1>4, <1>10, <2>4, <3>2
      <4>2. unlinked[n] = next[n]  BY <1>12, <2>4, <3>2
      <4> QED  BY <1>14, <4>1, <4>2
    <3>3. first'[d] = first[d]  BY <1>14, <2>1, <2>4
    <3>4. Kept(d)  BY <3>1, <3>2, <3>3 DEF Kept
    <3>5. List(d, s)'  BY <2>2, <3>4, ListKept
    <3> QED  BY <3>5
  <2> QED  BY <2>3, <2>4
<1> QED  BY <1>16, <1>17, <1>18, <1>19, <1>20 DEF IInv

LEMMA UnchangedStep ==
  ASSUME IInv, UNCHANGED <<lists, name, directory>>, link' \in Nodes \cup {NULL}
  PROVE  IInv'
<1>1. /\ first' = first /\ next' = next /\ previous' = previous /\ parent' = parent
      /\ name' = name /\ directory' = directory
  BY DEF lists
<1>2. Registered' = Registered  BY <1>1 DEF Registered
<1>3. TypeOK'  BY <1>1, <1>2 DEF IInv, TypeOK
<1>4. Fixed'  BY <1>1 DEF IInv, Fixed
<1>5. ASSUME NEW d \in Registered' \cup {Proc, Self} PROVE \E s : List(d, s)'
  <2>1. PICK s : List(d, s)  BY <1>2 DEF IInv
  <2>2. List(d, s)'  BY <1>1, <2>1 DEF List
  <2> QED  BY <2>2
<1> QED  BY <1>1, <1>2, <1>3, <1>4, <1>5 DEF IInv

LEMMA Inductive == Spec => []IInv
<1>1. IInv /\ [Next]_vars => IInv'
  <2> SUFFICES ASSUME IInv, [Next]_vars PROVE IInv'  OBVIOUS
  <2>1. CASE \E dir \in Nodes, new \in Others, nm \in Names : RegisterChild(dir, new, nm)
    BY <2>1, RegisterStep
  <2>2. CASE SchedulerCreateProcDir  BY <2>2, CreateStep
  <2>3. CASE \E p \in Nodes : SchedulerExit(p)  BY <2>3, ExitStep
  <2>4. ASSUME NEW p \in Nodes, CommitNextProcess(p) PROVE IInv'
    BY <2>4, UnchangedStep DEF CommitNextProcess
  <2>5. CASE UNCHANGED vars
    <3>1. UNCHANGED <<lists, name, directory>> /\ link' = link  BY <2>5 DEF vars
    <3>2. link' \in Nodes \cup {NULL}  BY <3>1 DEF IInv, TypeOK
    <3> QED  BY <3>1, <3>2, UnchangedStep
  <2> QED  BY <2>1, <2>2, <2>3, <2>4, <2>5 DEF Next
<1> QED  BY <1>1, InitStep, PTL DEF Spec

----------------------------------------------------------------------------
(* FoldLeft: one component after the other.                                *)

LEMMA MaxIn ==
  ASSUME NEW m \in Nat, NEW S \in SUBSET (1..m), S # {}
  PROVE  Max(S) \in S /\ \A y \in S : y <= Max(S)
<1> DEFINE D == {m - y : y \in S}
<1>1. D \in SUBSET Nat /\ D # {}
  <2>1. \A y \in S : m - y \in Nat  OBVIOUS
  <2>2. D # {}  OBVIOUS
  <2> QED  BY <2>1, <2>2
<1>2. PICK d \in D : \A e \in D : d <= e  BY <1>1, LeastNatural
<1>3. PICK x \in S : d = m - x  BY <1>2
<1>4. \A y \in S : m - x <= m - y  BY <1>2, <1>3
<1>5. \A y \in S : x >= y  BY <1>4
<1> QED  BY <1>5 DEF Max

\* FoldLeft recurs on the sets of indices, the largest index first.
FoldOn(base, path, m, w) ==
    w = [S \in SUBSET (1..m) |->
           IF S = {} THEN base ELSE Component(w[S \ {Max(S)}], path[Max(S)])]

LEMMA FoldExists ==
  ASSUME NEW base, NEW path, NEW n \in Nat
  PROVE  \E w : FoldOn(base, path, n, w)
<1> DEFINE At(S, w) == IF S = {} THEN base ELSE Component(w[S \ {Max(S)}], path[Max(S)])
           Bad == {m \in Nat : ~\E w : FoldOn(base, path, m, w)}
<1>1. \E w : FoldOn(base, path, 0, w)
  <2> DEFINE w == [S \in SUBSET (1..0) |-> base]
  <2>1. \A S \in SUBSET (1..0) : S = {}  OBVIOUS
  <2>2. \A S \in SUBSET (1..0) : At(S, w) = base  BY <2>1
  <2>3. w = [S \in SUBSET (1..0) |-> At(S, w)]
    <3> HIDE DEF At
    <3> QED  BY <2>2
  <2>4. FoldOn(base, path, 0, w)  BY <2>3 DEF FoldOn
  <2> QED  BY <2>4
<1>2. ASSUME NEW m \in Nat, NEW w, FoldOn(base, path, m, w)
      PROVE  \E v : FoldOn(base, path, m + 1, v)
  <2> DEFINE v == [S \in SUBSET (1..(m + 1)) |->
                     IF m + 1 \in S THEN Component(w[S \ {m + 1}], path[m + 1]) ELSE w[S]]
  <2>1. \A S \in SUBSET (1..m) : w[S] = At(S, w)  BY <1>2 DEF FoldOn
  <2>2. \A S \in SUBSET (1..m) : S \in SUBSET (1..(m + 1)) /\ m + 1 \notin S
    OBVIOUS
  <2>3. \A S \in SUBSET (1..m) : v[S] = w[S]  BY <2>2
  <2>4. ASSUME NEW S \in SUBSET (1..(m + 1)) PROVE v[S] = At(S, v)
    <3>1. CASE m + 1 \in S
      <4>1. S # {} /\ m + 1 \in Nat  BY <3>1
      <4>2. Max(S) \in S /\ m + 1 <= Max(S)  BY <3>1, <4>1, MaxIn
      <4>3. Max(S) \in 1..(m + 1)  BY <4>2
      <4>4. Max(S) = m + 1  BY <4>2, <4>3
      <4>5. S \ {m + 1} \in SUBSET (1..m)  OBVIOUS
      <4>6. v[S \ {m + 1}] = w[S \ {m + 1}]  BY <2>3, <4>5
      <4>7. v[S] = Component(w[S \ {m + 1}], path[m + 1])  BY <3>1
      <4> HIDE DEF v
      <4> QED  BY <4>1, <4>4, <4>6, <4>7
    <3>2. CASE m + 1 \notin S
      <4>1. S \in SUBSET (1..m)  BY <3>2
      <4>2. v[S] = At(S, w)  BY <2>1, <2>3, <4>1
      <4>3. S # {} => Max(S) \in S  BY <4>1, MaxIn
      <4>4. S \ {Max(S)} \in SUBSET (1..m)  BY <4>1
      <4>5. v[S \ {Max(S)}] = w[S \ {Max(S)}]  BY <2>3, <4>4
      <4> HIDE DEF v
      <4> QED  BY <4>2, <4>5
    <3> QED  BY <3>1, <3>2
  <2>5. v = [S \in SUBSET (1..(m + 1)) |-> v[S]]  BY Zenon
  <2> HIDE DEF v
  <2>6. v = [S \in SUBSET (1..(m + 1)) |-> At(S, v)]
    <3> HIDE DEF At
    <3> QED  BY <2>4, <2>5
  <2>7. FoldOn(base, path, m + 1, v)  BY <2>6 DEF FoldOn
  <2> QED  BY <2>7
<1>3. Bad = {}
  <2> SUFFICES ASSUME Bad # {} PROVE FALSE  OBVIOUS
  <2>1. Bad \subseteq Nat  OBVIOUS
  <2>2. PICK m \in Bad : \A y \in Bad : m <= y  BY <2>1, LeastNatural
  <2>3. m # 0 /\ m \in Nat /\ ~\E w : FoldOn(base, path, m, w)  BY <1>1
  <2>4. m - 1 \in Nat /\ ~(m <= m - 1)  BY <2>3
  <2>5. m - 1 \notin Bad
    <3> HIDE DEF Bad
    <3> QED  BY <2>2, <2>4
  <2>6. PICK w : FoldOn(base, path, m - 1, w)  BY <2>4, <2>5
  <2>7. \E v : FoldOn(base, path, (m - 1) + 1, v)  BY <1>2, <2>4, <2>6
  <2>8. (m - 1) + 1 = m  BY <2>3
  <2> QED  BY <2>3, <2>7, <2>8
<1> QED  BY <1>3

\* Each g[k] is what the first k components of the path lead to.
Leads(base, path, n, g) ==
    /\ n \in Nat /\ DOMAIN path = 1..n
    /\ g[0] = base
    /\ \A k \in 1..n : g[k] = Component(g[k - 1], path[k])

LEMMA FoldSteps ==
  ASSUME NEW base, NEW path, NEW n, NEW g, Leads(base, path, n, g)
  PROVE  RelativeFind(base, path) = IF g[n] = NULL THEN WILD ELSE g[n]
<1>1. n \in Nat /\ DOMAIN path = 1..n /\ g[0] = base
  BY DEF Leads
<1> DEFINE IsFold(w) == w = [S \in SUBSET (1..n) |->
                               IF S = {} THEN base
                               ELSE Component(w[S \ {Max(S)}], path[Max(S)])]
           f == CHOOSE w : IsFold(w)
           r == f[1..n]
<1>2. RelativeFind(base, path) = IF r = NULL THEN WILD ELSE r
  BY <1>1 DEF RelativeFind, Links, FoldLeft, MapThenFoldSet
<1>3. IsFold(f)
  <2>1. PICK w : FoldOn(base, path, n, w)  BY <1>1, FoldExists
  <2>2. IsFold(w)  BY <2>1 DEF FoldOn
  <2> HIDE DEF IsFold
  <2> QED  BY <2>2
<1> HIDE DEF f
<1>4. \A S \in SUBSET (1..n) : f[S] = IF S = {} THEN base
                                      ELSE Component(f[S \ {Max(S)}], path[Max(S)])
  BY <1>3
<1>5. \A k \in 0..n : f[1..k] = g[k]
  <2> DEFINE Wrong == {k \in 0..n : f[1..k] # g[k]}
  <2> SUFFICES ASSUME Wrong # {} PROVE FALSE  OBVIOUS
  <2>1. Wrong \subseteq Nat  OBVIOUS
  <2>2. PICK k \in Wrong : \A i \in Wrong : k <= i  BY <2>1, LeastNatural
  <2>3. k \in 0..n /\ f[1..k] # g[k]  OBVIOUS
  <2>4. 1..k \in SUBSET (1..n)  BY <1>1, <2>3
  <2>5. k # 0
    <3> SUFFICES ASSUME k = 0 PROVE FALSE  OBVIOUS
    <3>1. 1..k = {}  OBVIOUS
    <3> QED  BY <1>1, <1>4, <2>3, <2>4, <3>1
  <2>6. k - 1 \in 0..n /\ k \in 1..n /\ ~(k <= k - 1) /\ k \in Nat /\ k \in 1..k
    BY <1>1, <2>3, <2>5
  <2>7. f[1..(k - 1)] = g[k - 1]
    <3>1. k - 1 \notin Wrong
      <4> HIDE DEF Wrong
      <4> QED  BY <2>2, <2>6
    <3> QED  BY <2>6, <3>1
  <2>8. Max(1..k) = k
    <3>1. Max(1..k) \in 1..k /\ k <= Max(1..k)  BY <2>6, MaxIn
    <3> QED  BY <2>6, <3>1
  <2>9. (1..k) \ {k} = 1..(k - 1)  BY <2>6
  <2>10. 1..k # {}  BY <2>6
  <2>11. f[1..k] = Component(f[1..(k - 1)], path[k])  BY <1>4, <2>4, <2>8, <2>9, <2>10
  <2>12. g[k] = Component(g[k - 1], path[k])  BY <2>6 DEF Leads
  <2> QED  BY <2>3, <2>7, <2>11, <2>12
<1>6. r = g[n]  BY <1>1, <1>5
<1> HIDE DEF r
<1> QED  BY <1>2, <1>6

LEMMA FindTwo ==
  ASSUME NEW base, NEW a, NEW c
  PROVE  RelativeFind(base, <<a, c>>) =
           IF Component(Component(base, a), c) = NULL THEN WILD
           ELSE Component(Component(base, a), c)
<1> DEFINE g == [k \in 0..2 |-> IF k = 0 THEN base ELSE IF k = 1 THEN Component(base, a)
                                ELSE Component(Component(base, a), c)]
           path == <<a, c>>
<1>1. DOMAIN path = 1..2 /\ path[1] = a /\ path[2] = c  OBVIOUS
<1>2. g[0] = base /\ g[1] = Component(base, a) /\ g[2] = Component(Component(base, a), c)
  OBVIOUS
<1> HIDE DEF g, path
<1>3. ASSUME NEW k \in 1..2 PROVE g[k] = Component(g[k - 1], path[k])
  <2>1. CASE k = 1
    <3>1. k - 1 = 0  BY <2>1
    <3> QED  BY <1>1, <1>2, <2>1, <3>1
  <2>2. CASE k = 2
    <3>1. k - 1 = 1  BY <2>2
    <3> QED  BY <1>1, <1>2, <2>2, <3>1
  <2> QED  BY <2>1, <2>2
<1>4. Leads(base, path, 2, g)  BY <1>1, <1>2, <1>3 DEF Leads
<1>5. RelativeFind(base, path) = IF g[2] = NULL THEN WILD ELSE g[2]  BY <1>4, FoldSteps
<1> QED  BY <1>2, <1>5 DEF path

LEMMA Components ==
  ASSUME NEW n \in Nodes
  PROVE  /\ Component(n, "~next") = OrPanic(next[n])
         /\ Component(n, "~previous") = OrPanic(previous[n])
         /\ Component(n, "~first") = OrPanic(first[n])
         /\ first[n] # NULL => Component(n, "~last") = LastChild(n)
<1>1. n \notin {NULL, PANIC}  BY NodeFacts
<1> QED  BY <1>1 DEF Component

LEMMA Siblings == IInv => SiblingsInverse
<1> SUFFICES ASSUME IInv, NEW n \in Registered \ {Root}
             PROVE  /\ next[n] # NULL => RelativeFind(n, <<"~next", "~previous">>) = n
                    /\ previous[n] # NULL => RelativeFind(n, <<"~previous", "~next">>) = n
                    /\ RelativeFind(directory[n], <<"~first", "~previous">>) = PANIC
                    /\ RelativeFind(directory[n], <<"~last", "~next">>) = PANIC
  BY DEF SiblingsInverse
<1> DEFINE d == directory[n]
<1>1. n \in Nodes /\ d \in Registered /\ d \in Nodes /\ NULL \notin Nodes /\ PANIC # NULL
  BY NodeFacts, RegisteredFacts DEF IInv
<1>2. PICK s : List(d, s)  BY <1>1 DEF IInv
<1>3. \A p \in Nodes : directory[p] = d =>
         /\ next[p] \in Nodes \cup {NULL} /\ previous[p] \in Nodes \cup {NULL}
         /\ next[p] # NULL => directory[next[p]] = d
         /\ previous[p] # NULL => directory[previous[p]] = d
         /\ \A x \in Nodes : directory[x] = d => (next[x] = p <=> x = previous[p])
         /\ first[d] \in Nodes /\ directory[first[d]] = d /\ previous[first[d]] = NULL
  BY <1>2, Neighbours
<1> HIDE DEF d
<1>4. directory[n] = d  BY DEF d
<1>5. ASSUME next[n] # NULL PROVE RelativeFind(n, <<"~next", "~previous">>) = n
  <2>1. next[n] \in Nodes /\ directory[next[n]] = d  BY <1>1, <1>3, <1>4, <1>5
  <2>2. previous[next[n]] = n  BY <1>1, <1>3, <1>4, <2>1
  <2>3. Component(n, "~next") = next[n]  BY <1>1, <1>5, Components DEF OrPanic
  <2>4. Component(next[n], "~previous") = n
    BY <1>1, <2>1, <2>2, Components DEF OrPanic
  <2> QED  BY <1>1, <2>3, <2>4, FindTwo
<1>6. ASSUME previous[n] # NULL PROVE RelativeFind(n, <<"~previous", "~next">>) = n
  <2>1. previous[n] \in Nodes /\ directory[previous[n]] = d  BY <1>1, <1>3, <1>4, <1>6
  <2>2. next[previous[n]] = n  BY <1>1, <1>3, <1>4, <2>1
  <2>3. Component(n, "~previous") = previous[n]  BY <1>1, <1>6, Components DEF OrPanic
  <2>4. Component(previous[n], "~next") = n
    BY <1>1, <2>1, <2>2, Components DEF OrPanic
  <2> QED  BY <1>1, <2>3, <2>4, FindTwo
<1>7. first[d] \in Nodes /\ previous[first[d]] = NULL /\ first[d] # NULL
  BY <1>1, <1>3, <1>4
<1>8. RelativeFind(d, <<"~first", "~previous">>) = PANIC
  <2>1. Component(d, "~first") = first[d]  BY <1>1, <1>7, Components DEF OrPanic
  <2>2. Component(first[d], "~previous") = PANIC  BY <1>7, Components DEF OrPanic
  <2> QED  BY <1>1, <2>1, <2>2, FindTwo
<1>9. LastChild(d) \in Nodes /\ next[LastChild(d)] = NULL
  <2>1. PICK i \in 1..Len(s) : n = s[i]  BY <1>1, <1>2, <1>4, ListMembers
  <2>2. Len(s) \in 1..Len(s)  BY <1>2, <2>1, ListMembers
  <2>3. s[Len(s)] \in Nodes /\ directory[s[Len(s)]] = d /\ next[s[Len(s)]] = NULL
    BY <1>2, <2>2, ListMembers
  <2>4. Children(d) = {x \in Nodes : directory[x] = d}  BY <1>1, <1>2, ChildrenListed
  <2>5. \E c \in Children(d) : next[c] = NULL  BY <2>3, <2>4
  <2>6. LastChild(d) \in Children(d) /\ next[LastChild(d)] = NULL  BY <2>5 DEF LastChild
  <2> QED  BY <2>4, <2>6
<1>10. RelativeFind(d, <<"~last", "~next">>) = PANIC
  <2>1. Component(d, "~last") = LastChild(d)  BY <1>1, <1>7, Components
  <2>2. Component(LastChild(d), "~next") = PANIC  BY <1>9, Components DEF OrPanic
  <2> QED  BY <1>1, <2>1, <2>2, FindTwo
<1> QED  BY <1>4, <1>5, <1>6, <1>8, <1>10

----------------------------------------------------------------------------
(* ListsSound: whatever registers and exits, each directory lists exactly  *)
(* its nodes, though SchedulerExit unlinks the node twice, and the         *)
(* siblings are doubly linked from ~first to ~last.                        *)
THEOREM ListsCorrect == Spec => []ListsSound
<1>1. IInv => ListsSound
  <2> SUFFICES ASSUME IInv PROVE ListsSound  OBVIOUS
  <2>1. ListsExact  BY RegisteredFacts DEF ListsExact
  <2>2. SiblingsInverse  BY Siblings
  <2> QED  BY <2>1, <2>2 DEF ListsSound, IInv
<1> QED  BY <1>1, Inductive, PTL

----------------------------------------------------------------------------
(* Paths.                                                                  *)

\* l leads from n up to the root.
LineIn(D, n, l) ==
    /\ l \in Seq(Nodes) /\ Len(l) > 0
    /\ l[1] = n /\ l[Len(l)] = Root
    /\ \A i \in 1..(Len(l) - 1) : D[l[i]] = l[i + 1]

PInv ==
    /\ \A n \in Registered : \E l : LineIn(directory, n, l)
    /\ \A n \in Others : name[n] \in Names \cup {NULL}
    /\ \A n, m \in Nodes :
          directory[n] # NULL /\ directory[n] = directory[m] /\ name[n] = name[m] => n = m

LEMMA LineMembers ==
  ASSUME NEW D, NEW n, NEW l, LineIn(D, n, l)
  PROVE  /\ Len(l) \in Nat /\ 1 \in 1..Len(l) /\ Len(l) \in 1..Len(l)
         /\ \A i \in 1..Len(l) : l[i] \in Nodes
         /\ \A i \in 1..Len(l) : i = Len(l) \/ i \in 1..(Len(l) - 1)
         /\ \A i \in 1..(Len(l) - 1) : i \in 1..Len(l) /\ i + 1 \in 1..Len(l)
BY DEF LineIn

LEMMA LineKept ==
  ASSUME NEW D, NEW E, NEW n, NEW l, LineIn(D, n, l), \A i \in 1..(Len(l) - 1) : E[l[i]] = D[l[i]]
  PROVE  LineIn(E, n, l)
BY DEF LineIn

LEMMA LineLonger ==
  ASSUME NEW D, NEW d, NEW l, LineIn(D, d, l), NEW n \in Nodes, D[n] = d
  PROVE  \E m : LineIn(D, n, m)
<1> DEFINE k == Len(l)
           m == [i \in 1..(k + 1) |-> IF i = 1 THEN n ELSE l[i - 1]]
<1>1. /\ k \in Nat /\ k > 0 /\ l[1] = d /\ l[k] = Root
      /\ \A i \in 1..k : l[i] \in Nodes
      /\ \A i \in 1..(k - 1) : D[l[i]] = l[i + 1]
  BY DEF LineIn
<1> HIDE DEF k
<1>2. m \in [1..(k + 1) -> Nodes]
  <2>1. \A i \in 1..(k + 1) : i = 1 \/ i - 1 \in 1..k  BY <1>1
  <2> QED  BY <1>1, <2>1
<1>3. m \in Seq(Nodes) /\ Len(m) = k + 1  BY <1>1, <1>2
<1>4. m[1] = n /\ \A i \in 2..(k + 1) : m[i] = l[i - 1]  BY <1>1
<1> HIDE DEF m
<1>5. ASSUME NEW i \in 1..k PROVE D[m[i]] = m[i + 1]
  <2>1. i + 1 \in 2..(k + 1) /\ (i + 1) - 1 = i  BY <1>1
  <2>2. m[i + 1] = l[i]  BY <1>4, <2>1
  <2>3. CASE i = 1  BY <1>1, <1>4, <2>2, <2>3
  <2>4. CASE i # 1
    <3>1. i \in 2..(k + 1) /\ i - 1 \in 1..(k - 1) /\ (i - 1) + 1 = i  BY <1>1, <2>4
    <3>2. m[i] = l[i - 1]  BY <1>4, <3>1
    <3>3. D[l[i - 1]] = l[(i - 1) + 1]  BY <1>1, <3>1
    <3> QED  BY <2>2, <3>1, <3>2, <3>3
  <2> QED  BY <2>3, <2>4
<1>6. k + 1 \in 2..(k + 1) /\ (k + 1) - 1 = k  BY <1>1
<1>7. m[k + 1] = Root  BY <1>1, <1>4, <1>6
<1>8. LineIn(D, n, m)  BY <1>1, <1>3, <1>4, <1>5, <1>6, <1>7 DEF LineIn
<1> QED  BY <1>8

LEMMA RootLine ==
  ASSUME NEW D PROVE LineIn(D, Root, <<Root>>)
<1>1. <<Root>> \in Seq(Nodes) /\ Len(<<Root>>) = 1 /\ <<Root>>[1] = Root  BY NodeFacts
<1> QED  BY <1>1 DEF LineIn

\* No node is on its line twice.
LEMMA LineInjective ==
  ASSUME IInv, NEW n, NEW l, LineIn(directory, n, l)
  PROVE  /\ \A i, j \in 1..Len(l) : l[i] = l[j] => i = j
         /\ Len(l) \in 1..N
<1> DEFINE k == Len(l)
<1>1. /\ k \in Nat /\ k > 0 /\ l[k] = Root
      /\ \A i \in 1..k : l[i] \in Nodes
      /\ \A i \in 1..(k - 1) : directory[l[i]] = l[i + 1]
      /\ l \in [1..k -> Nodes]
  BY DEF LineIn
<1> HIDE DEF k
<1>2. directory[Root] = NULL /\ NULL \notin Nodes  BY NodeFacts DEF IInv, Fixed
<1>3. ASSUME NEW i \in 1..k, NEW j \in 1..k, l[i] = l[j], i < j PROVE FALSE
  <2> DEFINE Wrong == {m \in 0..(k - j) : l[i + m] # l[j + m]}
  <2>1. Wrong = {}
    <3> SUFFICES ASSUME Wrong # {} PROVE FALSE  OBVIOUS
    <3>1. Wrong \subseteq Nat  OBVIOUS
    <3>2. PICK m \in Wrong : \A x \in Wrong : m <= x  BY <3>1, LeastNatural
    <3>3. m \in 0..(k - j) /\ l[i + m] # l[j + m]  OBVIOUS
    <3>4. m # 0
      <4> SUFFICES ASSUME m = 0 PROVE FALSE  OBVIOUS
      <4>1. i + m = i /\ j + m = j  BY <1>1
      <4> QED  BY <1>3, <3>3, <4>1
    <3>5. /\ m - 1 \in 0..(k - j) /\ ~(m <= m - 1)
          /\ i + (m - 1) \in 1..(k - 1) /\ j + (m - 1) \in 1..(k - 1)
          /\ (i + (m - 1)) + 1 = i + m /\ (j + (m - 1)) + 1 = j + m
      BY <1>1, <1>3, <3>3, <3>4
    <3>6. m - 1 \notin Wrong
      <4> HIDE DEF Wrong
      <4> QED  BY <3>2, <3>5
    <3>7. l[i + (m - 1)] = l[j + (m - 1)]  BY <3>5, <3>6
    <3>8. directory[l[i + (m - 1)]] = l[i + m]  BY <1>1, <3>5
    <3>9. directory[l[j + (m - 1)]] = l[j + m]  BY <1>1, <3>5
    <3> QED  BY <3>3, <3>7, <3>8, <3>9
  <2>2. k - j \in 0..(k - j) /\ j + (k - j) = k /\ i + (k - j) \in 1..(k - 1)
        /\ (i + (k - j)) + 1 \in 1..k
    BY <1>1, <1>3
  <2>3. l[i + (k - j)] = Root  BY <1>1, <2>1, <2>2
  <2>4. directory[l[i + (k - j)]] \in Nodes  BY <1>1, <2>2
  <2> QED  BY <1>2, <2>3, <2>4
<1>4. \A i, j \in 1..k : l[i] = l[j] => i = j
  <2> SUFFICES ASSUME NEW i \in 1..k, NEW j \in 1..k, l[i] = l[j] PROVE i = j  OBVIOUS
  <2>1. ~(i < j) /\ ~(j < i)  BY <1>3
  <2> QED  BY <1>1, <2>1
<1>5. k <= N
  <2> SUFFICES ASSUME ~(k <= N) PROVE FALSE  OBVIOUS
  <2>1. Cardinality(1..k) = k /\ IsFiniteSet(1..k)  BY <1>1, FS_Interval
  <2>2. Cardinality(Nodes) < Cardinality(1..k) /\ IsFiniteSet(Nodes)
    BY <1>1, <2>1, NodeFacts DEF N
  <2>3. \E x, y \in 1..k : x # y /\ l[x] = l[y]
    BY <1>1, <2>1, <2>2, FS_PigeonHole
  <2> QED  BY <1>4, <2>3
<1> QED  BY <1>1, <1>4, <1>5, NodeFacts DEF k

LEMMA UpFollowed ==
  ASSUME IInv, NEW n \in Nodes, NEW l, LineIn(directory, n, l)
  PROVE  /\ DOMAIN Up(n) = 0..N
         /\ \A i \in 0..N : Up(n)[i] = IF i < Len(l) THEN l[i + 1] ELSE NULL
<1> DEFINE At(i) == IF i < Len(l) THEN l[i + 1] ELSE NULL
           IsUp(w) == w = [i \in 0..N |-> IF i = 0 THEN n
                                          ELSE IF w[i - 1] = NULL THEN NULL
                                          ELSE directory[w[i - 1]]]
           W == [i \in 0..N |-> At(i)]
<1>1. /\ N \in Nat /\ Len(l) \in 1..N /\ NULL \notin Nodes
      /\ \A i \in 1..Len(l) : l[i] \in Nodes
      /\ l[1] = n /\ l[Len(l)] = Root /\ directory[Root] = NULL
      /\ \A i \in 1..(Len(l) - 1) : directory[l[i]] = l[i + 1]
  BY NodeFacts, LineInjective, LineMembers DEF LineIn, IInv, Fixed
<1>2. At(0) = n  BY <1>1
<1>3. ASSUME NEW i \in 1..N
      PROVE  At(i) = IF At(i - 1) = NULL THEN NULL ELSE directory[At(i - 1)]
  <2>1. CASE i < Len(l)
    <3>1. i \in 1..(Len(l) - 1) /\ i \in 1..Len(l) /\ (i - 1) + 1 = i /\ i - 1 < Len(l)
      BY <1>1, <2>1
    <3>2. At(i - 1) = l[i] /\ l[i] # NULL  BY <1>1, <3>1
    <3> QED  BY <1>1, <2>1, <3>1, <3>2
  <2>2. CASE i = Len(l)
    <3>1. i - 1 < Len(l) /\ (i - 1) + 1 = i /\ ~(i < Len(l))  BY <1>1, <2>2
    <3>2. At(i - 1) = Root /\ Root # NULL  BY <1>1, <2>2, <3>1, NodeFacts
    <3> QED  BY <1>1, <3>1, <3>2
  <2>3. CASE i > Len(l)
    <3>1. ~(i - 1 < Len(l)) /\ ~(i < Len(l))  BY <1>1, <2>3
    <3> QED  BY <3>1
  <2> QED  BY <1>1, <2>1, <2>2, <2>3
<1> HIDE DEF At
<1>4. IsUp(W)
  <2>1. \A i \in 0..N : At(i) = IF i = 0 THEN n
                                ELSE IF W[i - 1] = NULL THEN NULL ELSE directory[W[i - 1]]
    <3> SUFFICES ASSUME NEW i \in 0..N, i # 0
                 PROVE  At(i) = IF W[i - 1] = NULL THEN NULL ELSE directory[W[i - 1]]
      BY <1>2
    <3>1. i - 1 \in 0..N /\ i \in 1..N  BY <1>1
    <3>2. W[i - 1] = At(i - 1)  BY <3>1
    <3> QED  BY <1>3, <3>1, <3>2
  <2> QED  BY <2>1
<1>5. ASSUME NEW w, IsUp(w)
      PROVE  DOMAIN w = 0..N /\ \A i \in 0..N : w[i] = At(i)
  <2> DEFINE Wrong == {i \in 0..N : w[i] # At(i)}
  <2>1. \A i \in 0..N : w[i] = IF i = 0 THEN n
                               ELSE IF w[i - 1] = NULL THEN NULL ELSE directory[w[i - 1]]
    BY <1>5
  <2>2. Wrong = {}
    <3> SUFFICES ASSUME Wrong # {} PROVE FALSE  OBVIOUS
    <3>1. Wrong \subseteq Nat  OBVIOUS
    <3>2. PICK i \in Wrong : \A j \in Wrong : i <= j  BY <3>1, LeastNatural
    <3>3. i \in 0..N /\ w[i] # At(i)  OBVIOUS
    <3>4. i # 0  BY <1>2, <2>1, <3>3
    <3>5. i - 1 \in 0..N /\ ~(i <= i - 1) /\ i \in 1..N
      <4> HIDE DEF Wrong
      <4> QED  BY <1>1, <3>3, <3>4
    <3>6. w[i - 1] = At(i - 1)  BY <3>2, <3>5
    <3> QED  BY <1>3, <2>1, <3>3, <3>4, <3>5, <3>6
  <2>3. DOMAIN w = 0..N  BY <1>5
  <2> QED  BY <2>2, <2>3
<1>6. Up(n) = CHOOSE w : IsUp(w)  BY DEF Up, N
<1>7. IsUp(CHOOSE w : IsUp(w))
  <2> HIDE DEF IsUp
  <2> QED  BY <1>4
<1>8. IsUp(Up(n))
  <2> HIDE DEF IsUp
  <2> QED  BY <1>6, <1>7
<1> HIDE DEF IsUp
<1> QED  BY <1>5, <1>8 DEF At

LEMMA PathFollowed ==
  ASSUME IInv, NEW n \in Nodes, NEW l, LineIn(directory, n, l)
  PROVE  /\ DOMAIN PathOf(n) = 1..(Len(l) - 1)
         /\ \A k \in 1..(Len(l) - 1) : PathOf(n)[k] = name[l[Len(l) - k]]
<1> DEFINE up == Up(n)
           L == Len(l)
<1>1. DOMAIN up = 0..N /\ \A i \in 0..N : up[i] = IF i < L THEN l[i + 1] ELSE NULL
  BY UpFollowed
<1>2. /\ N \in Nat /\ L \in 1..N /\ NULL \notin Nodes /\ Root \in Nodes
      /\ \A i, j \in 1..L : l[i] = l[j] => i = j
      /\ l[L] = Root
  BY NodeFacts, LineInjective DEF LineIn
<1>3. Depth(n) = CHOOSE k \in DOMAIN up : up[k] = Root  BY DEF Depth
<1>4. PathOf(n) = [k \in 1..Depth(n) |-> name[up[Depth(n) - k]]]  BY DEF PathOf
<1> HIDE DEF up, L
<1>5. L - 1 \in 0..N /\ L - 1 < L /\ (L - 1) + 1 = L /\ L \in 1..L  BY <1>2
<1>6. up[L - 1] = Root  BY <1>1, <1>2, <1>5
<1>7. ASSUME NEW k \in 0..N, up[k] = Root PROVE k = L - 1
  <2>1. k < L /\ l[k + 1] = Root  BY <1>1, <1>2, <1>7
  <2>2. k + 1 \in 1..L  BY <1>2, <2>1
  <2>3. k + 1 = L  BY <1>2, <1>5, <2>1, <2>2
  <2> QED  BY <2>3
<1>8. Depth(n) = L - 1  BY <1>1, <1>3, <1>5, <1>6, <1>7
<1>9. ASSUME NEW k \in 1..(L - 1) PROVE up[(L - 1) - k] = l[L - k]
  <2>1. (L - 1) - k \in 0..N /\ (L - 1) - k < L /\ ((L - 1) - k) + 1 = L - k  BY <1>2
  <2> QED  BY <1>1, <2>1
<1> QED  BY <1>4, <1>8, <1>9 DEF L

\* A registered node is found by its name in its directory.
LEMMA NamedFound ==
  ASSUME IInv, PInv, NEW c \in Nodes, directory[c] # NULL
  PROVE  /\ directory[c] \in Nodes
         /\ Component(directory[c], name[c]) = c
<1> DEFINE d == directory[c]
           nm == name[c]
           w == Walk(d)
<1>1. /\ d \in Registered /\ d \in Nodes /\ c \in Registered \ {Root}
      /\ NULL \notin Nodes /\ PANIC \notin Nodes
  <2>1. d \in Registered  BY DEF IInv
  <2>2. c \in Registered /\ directory[Root] = NULL
    BY RegisteredFacts DEF IInv, Fixed
  <2> QED  BY <2>1, <2>2, NodeFacts, RegisteredFacts
<1>2. PICK s : List(d, s)  BY <1>1 DEF IInv
<1>3. DOMAIN w = 0..N /\ \A i \in 0..N : w[i] = IF i < Len(s) THEN s[i + 1] ELSE NULL
  BY <1>1, <1>2, WalkFollowed
<1>4. /\ \A i \in 1..Len(s) : s[i] \in Nodes /\ directory[s[i]] = d
      /\ \A i, j \in 1..Len(s) : s[i] = s[j] => i = j
      /\ Len(s) \in 0..N /\ N \in Nat
  BY <1>1, <1>2, ListMembers, ListLength, NodeFacts
<1>5. PICK k \in 1..Len(s) : s[k] = c  BY <1>2, ListMembers
<1>6. nm \in (Names \cup {"proc", "self"})
  BY <1>1 DEF IInv, TypeOK
<1>7. /\ nm \notin {"..", "~parent"} /\ nm \notin {".", "~self"}
      /\ nm # "~next" /\ nm # "~previous" /\ nm # "~first" /\ nm # "~last"
  BY <1>6, NamesAssumption
<1>8. d \notin {NULL, PANIC}  BY <1>1
<1>9. Component(d, nm) = Named(d, nm)
  <2> HIDE DEF d, nm
  <2> QED  BY <1>7, <1>8 DEF Component
<1> DEFINE at == {i \in 0..N : w[i] # NULL /\ name[w[i]] = nm}
<1>10. Named(d, nm) = IF at = {} THEN PANIC ELSE w[CHOOSE i \in at : \A j \in at : i <= j]
  BY <1>3 DEF Named
<1>11. k - 1 \in 0..N /\ k - 1 < Len(s) /\ (k - 1) + 1 = k  BY <1>4
<1>12. w[k - 1] = c  BY <1>3, <1>5, <1>11
<1>13. k - 1 \in at  BY <1>1, <1>11, <1>12
<1>14. ASSUME NEW i \in at PROVE i = k - 1
  <2>1. i \in 0..N /\ w[i] # NULL /\ name[w[i]] = nm  OBVIOUS
  <2>2. i < Len(s) /\ w[i] = s[i + 1]  BY <1>3, <2>1
  <2>3. i + 1 \in 1..Len(s)  BY <1>4, <2>1, <2>2
  <2>4. s[i + 1] \in Nodes /\ directory[s[i + 1]] = d  BY <1>4, <2>3
  <2>5. s[i + 1] = c  BY <2>1, <2>2, <2>4 DEF PInv
  <2>6. i + 1 = k  BY <1>4, <1>5, <2>3, <2>5
  <2> QED  BY <2>1, <2>6
<1>15. (CHOOSE i \in at : \A j \in at : i <= j) = k - 1
  <2> HIDE DEF at
  <2>1. \A j \in at : k - 1 <= j  BY <1>11, <1>14
  <2> QED  BY <1>13, <1>14, <2>1
<1>16. Named(d, nm) = c
  <2> HIDE DEF at
  <2> QED  BY <1>10, <1>12, <1>13, <1>15
<1> QED  BY <1>1, <1>9, <1>16

LEMMA Resolved == IInv /\ PInv => PathsResolve
<1> SUFFICES ASSUME IInv, PInv, NEW n \in Registered
             PROVE  RelativeFind(Root, PathOf(n)) = n
  BY DEF PathsResolve
<1>1. n \in Nodes /\ NULL \notin Nodes  BY NodeFacts, RegisteredFacts
<1>2. PICK l : LineIn(directory, n, l)  BY DEF PInv
<1> DEFINE L == Len(l)
           path == PathOf(n)
           g == [k \in 0..(L - 1) |-> l[L - k]]
<1>3. DOMAIN path = 1..(L - 1) /\ \A k \in 1..(L - 1) : path[k] = name[l[L - k]]
  BY <1>1, <1>2, PathFollowed
<1>4. /\ L \in Nat /\ L > 0 /\ l[1] = n /\ l[L] = Root
      /\ \A i \in 1..L : l[i] \in Nodes
      /\ \A i \in 1..(L - 1) : directory[l[i]] = l[i + 1]
  BY <1>2, LineMembers DEF LineIn
<1> HIDE DEF L, path
<1>5. L - 1 \in Nat /\ 0 \in 0..(L - 1) /\ L - 1 \in 0..(L - 1) /\ L - 0 = L /\ L - (L - 1) = 1
  BY <1>4
<1>6. g[0] = Root /\ g[L - 1] = n  BY <1>4, <1>5
<1>7. ASSUME NEW k \in 1..(L - 1) PROVE g[k] = Component(g[k - 1], path[k])
  <2>1. /\ k \in 0..(L - 1) /\ k - 1 \in 0..(L - 1) /\ L - k \in 1..(L - 1) /\ L - k \in 1..L
        /\ (L - k) + 1 = L - (k - 1) /\ (L - k) + 1 \in 1..L
    BY <1>4
  <2>2. g[k] = l[L - k] /\ g[k - 1] = l[(L - k) + 1] /\ path[k] = name[l[L - k]]  BY <1>3, <2>1
  <2> HIDE DEF g
  <2>3. directory[l[L - k]] = l[(L - k) + 1]  BY <1>4, <2>1
  <2>4. l[L - k] \in Nodes /\ directory[l[L - k]] # NULL  BY <1>1, <1>4, <2>1, <2>3
  <2>5. Component(directory[l[L - k]], name[l[L - k]]) = l[L - k]  BY <2>4, NamedFound
  <2> QED  BY <2>2, <2>3, <2>5
<1> HIDE DEF g
<1>8. Leads(Root, path, L - 1, g)  BY <1>3, <1>5, <1>6, <1>7 DEF Leads
<1>9. RelativeFind(Root, path) = IF g[L - 1] = NULL THEN WILD ELSE g[L - 1]
  BY <1>8, FoldSteps
<1> QED  BY <1>1, <1>6, <1>9 DEF path

----------------------------------------------------------------------------
LEMMA LineRegistered ==
  ASSUME IInv, NEW n, NEW l, LineIn(directory, n, l)
  PROVE  \A i \in 1..Len(l) : l[i] \in Registered
<1> SUFFICES ASSUME NEW i \in 1..Len(l) PROVE l[i] \in Registered  OBVIOUS
<1>1. /\ l[i] \in Nodes /\ (i = Len(l) \/ i \in 1..(Len(l) - 1)) /\ NULL \notin Nodes
      /\ \A j \in 1..(Len(l) - 1) : l[j + 1] \in Nodes
  BY LineMembers, NodeFacts
<1>2. CASE i = Len(l)  BY <1>1, <1>2, RegisteredFacts DEF LineIn
<1>3. CASE i \in 1..(Len(l) - 1)
  <2>1. directory[l[i]] \in Nodes  BY <1>1, <1>3 DEF LineIn
  <2> QED  BY <1>1, <2>1, RegisteredFacts
<1> QED  BY <1>1, <1>2, <1>3

LEMMA PathsRegister ==
  ASSUME IInv, PInv, NEW dir \in Nodes, NEW new \in Others, NEW nm \in Names,
         RegisterChild(dir, new, nm)
  PROVE  PInv'
<1>1. /\ dir \in Registered /\ new \in Nodes /\ new \notin Registered /\ new # Root
      /\ directory[new] = NULL /\ NULL \notin Nodes
      /\ \A n \in Nodes : n \in Registered <=> n = Root \/ directory[n] # NULL
      /\ Registered \subseteq Nodes
  BY NodeFacts, RegisteredFacts DEF RegisterChild, Registered
<1>2. /\ directory \in [Nodes -> Nodes \cup {NULL}]
      /\ name \in [Nodes -> Names \cup {"proc", "self", NULL}]
  BY DEF IInv, TypeOK
<1>3. /\ directory' = [directory EXCEPT ![new] = dir]
      /\ name' = [name EXCEPT ![new] = nm]
      /\ \A c \in Children(dir) : name[c] # nm
  BY DEF RegisterChild, Renamed
<1>4. /\ \A n \in Nodes : directory'[n] = IF n = new THEN dir ELSE directory[n]
      /\ \A n \in Nodes : name'[n] = IF n = new THEN nm ELSE name[n]
  BY <1>1, <1>2, <1>3
<1>5. Registered' = Registered \cup {new}  BY <1>1, <1>4 DEF Registered
<1>6. ASSUME NEW n \in Registered PROVE \E l : LineIn(directory', n, l)
  <2>1. PICK l : LineIn(directory, n, l)  BY DEF PInv
  <2>2. \A i \in 1..(Len(l) - 1) : l[i] \in Registered
    BY <2>1, LineRegistered, LineMembers
  <2>3. \A i \in 1..(Len(l) - 1) : directory'[l[i]] = directory[l[i]]
    BY <1>1, <1>4, <2>2
  <2>4. LineIn(directory', n, l)  BY <2>1, <2>3, LineKept
  <2> QED  BY <2>4
<1>7. \E l : LineIn(directory', new, l)
  <2>1. PICK l : LineIn(directory', dir, l)  BY <1>1, <1>6
  <2>2. directory'[new] = dir  BY <1>1, <1>4
  <2> QED  BY <1>1, <2>1, <2>2, LineLonger
<1>8. \A n \in Others : name'[n] \in Names \cup {NULL}
  BY <1>4, NodeFacts DEF PInv
<1>9. \A c \in Nodes : directory[c] = dir => name[c] # nm
  BY <1>1, <1>3, RegisteredFacts
<1>10. ASSUME NEW n \in Nodes, NEW m \in Nodes,
              directory'[n] # NULL, directory'[n] = directory'[m], name'[n] = name'[m]
       PROVE  n = m
  BY <1>1, <1>4, <1>9, <1>10 DEF PInv
<1> QED  BY <1>5, <1>6, <1>7, <1>8, <1>10 DEF PInv

LEMMA PathsCreate ==
  ASSUME IInv, PInv, SchedulerCreateProcDir
  PROVE  PInv'
<1>1. /\ Proc \notin Registered /\ Root \in Registered /\ {Root, Proc, Self} \subseteq Nodes
      /\ Root # Proc /\ Root # Self /\ Proc # Self /\ NULL \notin Nodes
      /\ directory[Root] = NULL /\ directory[Proc] = NULL /\ directory[Self] = NULL
      /\ Others \cap {Proc, Self} = {} /\ Nodes \ {Root, Proc, Self} \subseteq Others
      /\ \A n \in Nodes : directory[n] # Proc
  BY NodeFacts DEF SchedulerCreateProcDir, Registered, IInv, Fixed, Nodes
<1>2. /\ directory \in [Nodes -> Nodes \cup {NULL}]
      /\ name \in [Nodes -> Names \cup {"proc", "self", NULL}]
  BY DEF IInv, TypeOK
<1>3. /\ name' = [name EXCEPT ![Proc] = "proc", ![Self] = "self"]
      /\ directory' = [directory EXCEPT ![Proc] = Root, ![Self] = Proc]
  BY DEF SchedulerCreateProcDir
<1>4. /\ \A n \in Nodes : directory'[n] = IF n = Proc THEN Root
                                          ELSE IF n = Self THEN Proc ELSE directory[n]
      /\ \A n \in Nodes : name'[n] = IF n = Proc THEN "proc" ELSE IF n = Self THEN "self" ELSE name[n]
  BY <1>1, <1>2, <1>3
<1>5. Registered' = Registered \cup {Proc, Self}  BY <1>1, <1>4 DEF Registered
<1>6. ASSUME NEW n \in Registered PROVE \E l : LineIn(directory', n, l)
  <2>1. PICK l : LineIn(directory, n, l)  BY DEF PInv
  <2>2. \A i \in 1..(Len(l) - 1) : l[i] \in Nodes /\ directory[l[i]] \in Nodes
    BY <2>1, LineMembers DEF LineIn
  <2>3. \A i \in 1..(Len(l) - 1) : directory'[l[i]] = directory[l[i]]
    BY <1>1, <1>4, <2>2
  <2>4. LineIn(directory', n, l)  BY <2>1, <2>3, LineKept
  <2> QED  BY <2>4
<1>7. \E l : LineIn(directory', Proc, l)
  <2>1. directory'[Proc] = Root  BY <1>1, <1>4
  <2> QED  BY <1>1, <2>1, RootLine, LineLonger
<1>8. \E l : LineIn(directory', Self, l)
  <2>1. PICK l : LineIn(directory', Proc, l)  BY <1>7
  <2>2. directory'[Self] = Proc  BY <1>1, <1>4
  <2> QED  BY <1>1, <2>1, <2>2, LineLonger
<1>9. \A n \in Others : name'[n] \in Names \cup {NULL}
  BY <1>1, <1>4, NodeFacts DEF PInv
<1>10. ASSUME NEW n \in Nodes, directory[n] = Root PROVE name[n] # "proc"
  <2>1. n \in Others  BY <1>1, <1>10
  <2> QED  BY <2>1, NamesAssumption, NodeFacts DEF PInv
<1>11. ASSUME NEW n \in Nodes, NEW m \in Nodes,
              directory'[n] # NULL, directory'[n] = directory'[m], name'[n] = name'[m]
       PROVE  n = m
  BY <1>1, <1>4, <1>10, <1>11 DEF PInv
<1> QED  BY <1>5, <1>6, <1>7, <1>8, <1>9, <1>11 DEF PInv

LEMMA PathsExit ==
  ASSUME IInv, PInv, NEW p \in Nodes, SchedulerExit(p)
  PROVE  PInv'
<1> DEFINE S == Subtree(p)
<1>1. p \in Registered /\ directory[Root] = NULL /\ NULL \notin Nodes /\ Root \in Nodes
  BY NodeFacts, RegisteredFacts DEF SchedulerExit, IInv, Fixed
<1>2. /\ S \subseteq Registered
      /\ \A n \in Nodes : directory[n] \in S => n \in S
  BY <1>1, SubtreeClosed
<1>3. directory' = [n \in Nodes |-> IF n \in S THEN NULL ELSE directory[n]] /\ name' = name
  BY DEF SchedulerExit
<1> HIDE DEF S
<1>4. \A n \in Nodes : directory'[n] = IF n \in S THEN NULL ELSE directory[n]  BY <1>3
<1>5. ASSUME NEW n \in Registered' PROVE \E l : LineIn(directory', n, l)
  <2>1. n \in Registered /\ n \in Nodes /\ (n = Root \/ n \notin S)
    BY <1>4, <1>5, RegisteredFacts DEF Registered
  <2>2. CASE n = Root  BY <2>2, RootLine
  <2>3. CASE n \notin S
    <3>1. PICK l : LineIn(directory, n, l)  BY <2>1 DEF PInv
    <3>2. /\ Len(l) \in Nat /\ l[1] = n
          /\ \A i \in 1..Len(l) : l[i] \in Nodes
          /\ \A i \in 1..(Len(l) - 1) : directory[l[i]] = l[i + 1]
      BY <3>1, LineMembers DEF LineIn
    <3>3. \A i \in 1..Len(l) : l[i] \notin S
      <4> DEFINE Wrong == {i \in 1..Len(l) : l[i] \in S}
      <4> SUFFICES ASSUME Wrong # {} PROVE FALSE  OBVIOUS
      <4>1. Wrong \subseteq Nat  OBVIOUS
      <4>2. PICK i \in Wrong : \A j \in Wrong : i <= j  BY <4>1, LeastNatural
      <4>3. i \in 1..Len(l) /\ l[i] \in S  OBVIOUS
      <4>4. i # 1  BY <2>3, <3>2, <4>3
      <4>5. i - 1 \in 1..(Len(l) - 1) /\ i - 1 \in 1..Len(l) /\ (i - 1) + 1 = i /\ ~(i <= i - 1)
        BY <3>2, <4>3, <4>4
      <4>6. l[i - 1] \notin S
        <5>1. i - 1 \notin Wrong
          <6> HIDE DEF Wrong
          <6> QED  BY <4>2, <4>5
        <5> QED  BY <4>5, <5>1
      <4>7. directory[l[i - 1]] = l[i]  BY <3>2, <4>5
      <4> QED  BY <1>2, <3>2, <4>3, <4>5, <4>6, <4>7
    <3>4. \A i \in 1..(Len(l) - 1) : directory'[l[i]] = directory[l[i]]
      BY <1>4, <3>1, <3>2, <3>3, LineMembers
    <3>5. LineIn(directory', n, l)  BY <3>1, <3>4, LineKept
    <3> QED  BY <3>5
  <2> QED  BY <2>1, <2>2, <2>3
<1>6. ASSUME NEW n \in Nodes, NEW m \in Nodes,
             directory'[n] # NULL, directory'[n] = directory'[m], name'[n] = name'[m]
      PROVE  n = m
  BY <1>3, <1>4, <1>6 DEF PInv
<1> QED  BY <1>3, <1>5, <1>6 DEF PInv

----------------------------------------------------------------------------
(* PathsResolve: every registered node is found by its absolute path,      *)
(* whatever has been registered and deleted around it: the names on the    *)
(* path are each the only one of their directory.                          *)
THEOREM PathsCorrect == Spec => []PathsResolve
<1>1. Init => PInv
  <2> SUFFICES ASSUME Init PROVE PInv  OBVIOUS
  <2>1. Registered = {Root}  BY NodeFacts DEF Init, Registered
  <2>2. \A n \in Registered : \E l : LineIn(directory, n, l)  BY <2>1, RootLine
  <2>3. \A n \in Nodes : directory[n] = NULL /\ name[n] = NULL  BY DEF Init
  <2> QED  BY <2>2, <2>3, NodeFacts DEF PInv
<1>2. IInv /\ PInv /\ [Next]_vars => PInv'
  <2> SUFFICES ASSUME IInv, PInv, [Next]_vars PROVE PInv'  OBVIOUS
  <2>1. CASE \E dir \in Nodes, new \in Others, nm \in Names : RegisterChild(dir, new, nm)
    BY <2>1, PathsRegister
  <2>2. CASE SchedulerCreateProcDir  BY <2>2, PathsCreate
  <2>3. CASE \E p \in Nodes : SchedulerExit(p)  BY <2>3, PathsExit
  <2>4. CASE (\E p \in Nodes : CommitNextProcess(p)) \/ UNCHANGED vars
    <3>1. directory' = directory /\ name' = name
      BY <2>4 DEF CommitNextProcess, vars
    <3>2. Registered' = Registered  BY <3>1 DEF Registered
    <3> QED  BY <3>1, <3>2 DEF PInv
  <2> QED  BY <2>1, <2>2, <2>3, <2>4 DEF Next
<1> QED  BY <1>1, <1>2, Inductive, Resolved, PTL DEF Spec

=============================================================================
