----------------------------- MODULE BootProofs -----------------------------
(***************************************************************************)
(* What holds throughout a boot, on any machines.                          *)
(*                                                                         *)
(* One component moves at a time, so each has an invariant of its own that *)
(* the steps of the others keep: LineInv for the terminal, PadInv for the  *)
(* mouse's packets, WalkInv for the walk through PCI's functions, LinkInv  *)
(* for the relocations, AccessInv and DrivesInv for the drives, MountInv   *)
(* for the volumes on them; the interrupt flag needs no more than where    *)
(* the Init of ps2 is.                                                     *)
(***************************************************************************)
EXTENDS Boot, SequenceTheorems, FiniteSetTheorems, WellFoundedInduction, TLAPS

----------------------------------------------------------------------------
(* The terminal: the text as edited, one character after the other.        *)

LEMMA LeastNatural ==
  ASSUME NEW I \in SUBSET Nat, I # {}
  PROVE  \E x \in I : \A y \in I : x <= y
<1> DEFINE R == OpToRel(<, Nat)
<1>1. PICK x \in I : \A y \in I : ~(<<y, x>> \in R)
  BY NatLessThanWellFounded, WFMin
<1>2. \A y, z \in Nat : y < z => <<y, z>> \in R
  BY DEF OpToRel
<1> HIDE DEF R
<1>3. \A y \in I : ~(y < x)
  BY <1>1, <1>2
<1> QED BY <1>3

LEMMA MaxIn ==
  ASSUME NEW m \in Nat, NEW S \in SUBSET (1..m), S # {}
  PROVE  Max(S) \in S /\ \A y \in S : y <= Max(S)
<1> DEFINE D == {m - y : y \in S}
<1>1. D \in SUBSET Nat /\ D # {}
  <2>1. \A y \in S : m - y \in Nat  OBVIOUS
  <2>2. D # {}  OBVIOUS
  <2> QED  BY <2>1, <2>2
<1>2. PICK d \in D : \A e \in D : d <= e  BY <1>1, LeastNatural
<1>3. PICK x \in S : d = m - x  BY <1>2
<1>4. \A y \in S : m - x <= m - y  BY <1>2, <1>3
<1>5. \A y \in S : x >= y  BY <1>4
<1> QED  BY <1>5 DEF Max

\* Each g[k] is the text that the first k characters leave.
EditedAs(s, C, g) ==
    /\ s \in Seq(C)
    /\ g \in [0..Len(s) -> Seq(C)]
    /\ g[0] = <<>>
    /\ \A k \in 1..Len(s) : g[k] = Retyped(g[k - 1], s[k])

\* FoldLeft recurs on the sets of indices, the largest index first.
FoldOn(s, m, w) ==
    w = [S \in SUBSET (1..m) |->
           IF S = {} THEN <<>> ELSE Retyped(w[S \ {Max(S)}], s[Max(S)])]

LEMMA FoldExists ==
  ASSUME NEW s, NEW n \in Nat
  PROVE  \E w : FoldOn(s, n, w)
<1> DEFINE Val(S, w) == IF S = {} THEN <<>> ELSE Retyped(w[S \ {Max(S)}], s[Max(S)])
           Bad == {m \in Nat : ~\E w : FoldOn(s, m, w)}
<1>1. \E w : FoldOn(s, 0, w)
  <2> DEFINE w == [S \in SUBSET (1..0) |-> <<>>]
  <2>1. \A S \in SUBSET (1..0) : S = {}  OBVIOUS
  <2>2. \A S \in SUBSET (1..0) : Val(S, w) = <<>>  BY <2>1
  <2>3. w = [S \in SUBSET (1..0) |-> Val(S, w)]
    <3> HIDE DEF Val
    <3> QED  BY <2>2
  <2>4. FoldOn(s, 0, w)  BY <2>3 DEF FoldOn
  <2> QED  BY <2>4
<1>2. ASSUME NEW m \in Nat, NEW w, FoldOn(s, m, w)
      PROVE  \E v : FoldOn(s, m + 1, v)
  <2> DEFINE v == [S \in SUBSET (1..(m + 1)) |->
                     IF m + 1 \in S THEN Retyped(w[S \ {m + 1}], s[m + 1]) ELSE w[S]]
  <2>1. \A S \in SUBSET (1..m) : w[S] = Val(S, w)  BY <1>2 DEF FoldOn
  <2>2. \A S \in SUBSET (1..m) : S \in SUBSET (1..(m + 1)) /\ m + 1 \notin S
    OBVIOUS
  <2>3. \A S \in SUBSET (1..m) : v[S] = w[S]  BY <2>2
  <2>4. ASSUME NEW S \in SUBSET (1..(m + 1)) PROVE v[S] = Val(S, v)
    <3>1. CASE m + 1 \in S
      <4>1. S # {} /\ m + 1 \in Nat  BY <3>1
      <4>2. Max(S) \in S /\ m + 1 <= Max(S)  BY <3>1, <4>1, MaxIn
      <4>3. Max(S) \in 1..(m + 1)  BY <4>2
      <4>4. Max(S) = m + 1  BY <4>2, <4>3
      <4>5. S \ {m + 1} \in SUBSET (1..m)  OBVIOUS
      <4>6. v[S \ {m + 1}] = w[S \ {m + 1}]  BY <2>3, <4>5
      <4>7. v[S] = Retyped(w[S \ {m + 1}], s[m + 1])  BY <3>1
      <4> HIDE DEF v
      <4> QED  BY <4>1, <4>4, <4>6, <4>7
    <3>2. CASE m + 1 \notin S
      <4>1. S \in SUBSET (1..m)  BY <3>2
      <4>2. v[S] = Val(S, w)  BY <2>1, <2>3, <4>1
      <4>3. S # {} => Max(S) \in S  BY <4>1, MaxIn
      <4>4. S \ {Max(S)} \in SUBSET (1..m)  BY <4>1
      <4>5. v[S \ {Max(S)}] = w[S \ {Max(S)}]  BY <2>3, <4>4
      <4> HIDE DEF v
      <4> QED  BY <4>2, <4>5
    <3> QED  BY <3>1, <3>2
  <2>5. v = [S \in SUBSET (1..(m + 1)) |-> v[S]]  BY Zenon
  <2> HIDE DEF v
  <2>6. v = [S \in SUBSET (1..(m + 1)) |-> Val(S, v)]
    <3> HIDE DEF Val
    <3> QED  BY <2>4, <2>5
  <2>7. FoldOn(s, m + 1, v)  BY <2>6 DEF FoldOn
  <2> QED  BY <2>7
<1>3. Bad = {}
  <2> SUFFICES ASSUME Bad # {} PROVE FALSE  OBVIOUS
  <2>1. Bad \subseteq Nat  OBVIOUS
  <2>2. PICK m \in Bad : \A y \in Bad : m <= y  BY <2>1, LeastNatural
  <2>3. m # 0 /\ m \in Nat /\ ~\E w : FoldOn(s, m, w)  BY <1>1
  <2>4. m - 1 \in Nat /\ ~(m <= m - 1)  BY <2>3
  <2>5. m - 1 \notin Bad
    <3> HIDE DEF Bad
    <3> QED  BY <2>2, <2>4
  <2>6. PICK w : FoldOn(s, m - 1, w)  BY <2>4, <2>5
  <2>7. \E v : FoldOn(s, (m - 1) + 1, v)  BY <1>2, <2>4, <2>6
  <2>8. (m - 1) + 1 = m  BY <2>3
  <2> QED  BY <2>3, <2>7, <2>8
<1> QED  BY <1>3

LEMMA EditedSteps ==
  ASSUME NEW C, NEW g, EditedAs(text, C, g)
  PROVE  Edited = g[Len(text)]
<1> DEFINE n == Len(text)
<1>1. n \in Nat /\ DOMAIN text = 1..n /\ g[0] = <<>>
  BY DEF EditedAs
<1> DEFINE IsFold(w) == w = [S \in SUBSET (1..n) |->
                               IF S = {} THEN <<>>
                               ELSE Retyped(w[S \ {Max(S)}], text[Max(S)])]
           f == CHOOSE w : IsFold(w)
           r == f[1..n]
<1>2. Edited = r
  BY <1>1 DEF Edited, FoldLeft, MapThenFoldSet
<1>3. IsFold(f)
  <2>1. PICK w : FoldOn(text, n, w)  BY <1>1, FoldExists
  <2>2. IsFold(w)  BY <2>1 DEF FoldOn
  <2> HIDE DEF IsFold
  <2> QED  BY <2>2
<1> HIDE DEF f
<1>4. \A S \in SUBSET (1..n) : f[S] = IF S = {} THEN <<>>
                                      ELSE Retyped(f[S \ {Max(S)}], text[Max(S)])
  BY <1>3
<1>5. \A k \in 0..n : f[1..k] = g[k]
  <2> DEFINE Wrong == {k \in 0..n : f[1..k] # g[k]}
  <2> SUFFICES ASSUME Wrong # {} PROVE FALSE  OBVIOUS
  <2>1. Wrong \subseteq Nat  OBVIOUS
  <2>2. PICK k \in Wrong : \A l \in Wrong : k <= l  BY <2>1, LeastNatural
  <2>3. k \in 0..n /\ f[1..k] # g[k]  OBVIOUS
  <2>4. 1..k \in SUBSET (1..n)  BY <1>1, <2>3
  <2>5. k # 0
    <3> SUFFICES ASSUME k = 0 PROVE FALSE  OBVIOUS
    <3>1. 1..k = {}  OBVIOUS
    <3> QED  BY <1>1, <1>4, <2>3, <2>4, <3>1
  <2>6. k - 1 \in 0..n /\ k \in 1..n /\ ~(k <= k - 1) /\ k \in Nat /\ k \in 1..k
    BY <1>1, <2>3, <2>5
  <2>7. f[1..(k - 1)] = g[k - 1]
    <3>1. k - 1 \notin Wrong
      <4> HIDE DEF Wrong
      <4> QED  BY <2>2, <2>6
    <3> QED  BY <2>6, <3>1
  <2>8. Max(1..k) = k
    <3>1. Max(1..k) \in 1..k /\ k <= Max(1..k)  BY <2>6, MaxIn
    <3> QED  BY <2>6, <3>1
  <2>9. (1..k) \ {k} = 1..(k - 1)  BY <2>6
  <2>10. 1..k # {}  BY <2>6
  <2>11. f[1..k] = Retyped(f[1..(k - 1)], text[k])  BY <1>4, <2>4, <2>8, <2>9, <2>10
  <2>12. g[k] = Retyped(g[k - 1], text[k])  BY <2>6 DEF EditedAs
  <2> QED  BY <2>3, <2>7, <2>11, <2>12
<1>6. r = g[n]  BY <1>1, <1>5
<1> HIDE DEF r
<1> QED  BY <1>2, <1>6
\* While a line is read, its text so far edited is what the buffer holds.
LineHolds(C, g) ==
    /\ EditedAs(text, C, g)
    /\ i = Len(g[Len(text)])
    /\ \A c \in 1..i : \/ buf[c - 1] = g[Len(text)][c]
                       \/ buf[c - 1] = NUL /\ \E k \in 1..Len(text) : text[k] = BS

LineInv ==
    /\ i \in 0..BufSize
    /\ DOMAIN buf = -1..(BufSize - 1)
    /\ \E C, g : LineHolds(C, g)

LEMMA LineImplies == LineInv => LineAsEdited
<1> SUFFICES ASSUME LineInv PROVE LineAsEdited
  OBVIOUS
<1>1. PICK C, g : LineHolds(C, g)
  BY DEF LineInv
<1>2. Edited = g[Len(text)]
  BY <1>1, EditedSteps DEF LineHolds
<1>3. DOMAIN text = 1..Len(text)
  BY <1>1 DEF LineHolds, EditedAs
<1>4. i = Len(Edited)
  BY <1>1, <1>2 DEF LineHolds
<1>5. ASSUME NEW c \in 1..i
      PROVE  \/ buf[c - 1] = Edited[c]
             \/ buf[c - 1] = NUL /\ BS \in {text[k] : k \in DOMAIN text}
  BY <1>1, <1>2, <1>3 DEF LineHolds
<1> QED BY <1>4, <1>5 DEF LineAsEdited

LEMMA EmptyLine ==
  ASSUME i = 0, buf = EmptyBuffer, text = <<>>
  PROVE  LineInv
<1> DEFINE g == [k \in 0..0 |-> <<>>]
<1>1. EditedAs(text, {}, g)
  <2>1. Len(text) = 0 /\ text \in Seq({})
    OBVIOUS
  <2>2. g \in [0..0 -> Seq({})] /\ g[0] = <<>>
    OBVIOUS
  <2> QED BY <2>1, <2>2 DEF EditedAs
<1>2. g[Len(text)] = <<>> /\ Len(g[Len(text)]) = 0
  OBVIOUS
<1>3. LineHolds({}, g)
  <2> HIDE DEF g
  <2> QED BY <1>1, <1>2 DEF LineHolds
<1>4. i \in 0..BufSize
  BY BufSizeAssumption
<1>5. DOMAIN buf = -1..(BufSize - 1)
  BY DEF EmptyBuffer
<1> QED BY <1>3, <1>4, <1>5 DEF LineInv

LEMMA EmptyLineNext ==
  i' = 0 /\ buf' = EmptyBuffer /\ text' = <<>> => LineInv'
<1>1. (i = 0 /\ buf = EmptyBuffer /\ text = <<>> => LineInv)'
  BY EmptyLine, PTL
<1>2. EmptyBuffer' = EmptyBuffer
  BY DEF EmptyBuffer, NUL
<1> QED BY <1>1, <1>2

\* f is e with its last character taken, or with one more.
Shortened(e, f) == /\ Len(f) = Len(e) - 1
                   /\ \A k \in 1..(Len(e) - 1) : f[k] = e[k]
Longer(e, f, c) == /\ Len(f) = Len(e) + 1
                   /\ f[Len(e) + 1] = c
                   /\ \A k \in 1..Len(e) : f[k] = e[k]

LEMMA RetypedFacts ==
  ASSUME NEW C, NEW e \in Seq(C), NEW c
  PROVE  /\ Retyped(e, c) \in Seq(C \cup {c})
         /\ c = BS /\ Len(e) > 0 => Shortened(e, Retyped(e, c))
         /\ ~(c = BS /\ Len(e) > 0) => Longer(e, Retyped(e, c), c)
<1>1. Len(e) \in Nat /\ (e = <<>>) = (Len(e) = 0) /\ e \in Seq(C \cup {c})
  BY SeqDef
<1>2. CASE c = BS /\ Len(e) > 0
  <2>1. Retyped(e, c) = SubSeq(e, 1, Len(e) - 1)
    BY <1>1, <1>2 DEF Retyped
  <2>2. \A k \in 1..(Len(e) - 1) : e[k] \in C \cup {c}
    BY <1>1
  <2>3. /\ SubSeq(e, 1, Len(e) - 1) \in Seq(C \cup {c})
        /\ Len(SubSeq(e, 1, Len(e) - 1)) = Len(e) - 1
    <3> DEFINE l == Len(e) - 1
    <3>1. l \in Nat /\ 1 \in Int /\ \A k \in 1..l : e[k] \in C \cup {c}
      BY <1>1, <1>2, <2>2
    <3> HIDE DEF l
    <3>2. SubSeq(e, 1, l) \in Seq(C \cup {c})
      BY <3>1, SubSeqProperties
    <3>3. Len(SubSeq(e, 1, l)) = IF 1 <= l THEN l - 1 + 1 ELSE 0
      BY <3>1, SubSeqProperties
    <3>4. Len(SubSeq(e, 1, l)) = l
      BY <3>1, <3>3
    <3> QED BY <3>2, <3>4, Zenon DEF l
  <2>4. \A k \in 1..(Len(e) - 1) : SubSeq(e, 1, Len(e) - 1)[k] = e[k]
    BY <1>1, <1>2
  <2> QED BY <1>2, <2>1, <2>3, <2>4 DEF Shortened
<1>3. CASE ~(c = BS /\ Len(e) > 0)
  <2>1. Retyped(e, c) = Append(e, c)
    BY <1>1, <1>3 DEF Retyped
  <2>2. Append(e, c) \in Seq(C \cup {c}) /\ Len(Append(e, c)) = Len(e) + 1
    BY <1>1
  <2>3. \A k \in 1..Len(e) : Append(e, c)[k] = e[k]
    BY <1>1
  <2>4. Append(e, c)[Len(e) + 1] = c
    BY <1>1
  <2> QED BY <1>3, <2>1, <2>2, <2>3, <2>4 DEF Longer
<1> QED BY <1>2, <1>3

\* One more character: the next text as edited is that one retyped.
Continues(s, C, g, c) ==
    \E h : /\ EditedAs(Append(s, c), C \cup {c}, h)
           /\ h[Len(s) + 1] = Retyped(g[Len(s)], c)

LEMMA EditedMore ==
  ASSUME NEW s, NEW C, NEW g, EditedAs(s, C, g), NEW c
  PROVE  Continues(s, C, g, c)
<1> DEFINE n == Len(s)
           t == Append(s, c)
           h == [k \in 0..(n + 1) |-> IF k = n + 1 THEN Retyped(g[n], c) ELSE g[k]]
<1>1. n \in Nat /\ s \in Seq(C \cup {c}) /\ \A k \in 0..n : g[k] \in Seq(C)
  <2>1. n \in Nat /\ s \in Seq(C)
    BY DEF EditedAs
  <2>2. s \in Seq(C \cup {c})
    BY <2>1
  <2>3. \A k \in 0..n : g[k] \in Seq(C)
    BY DEF EditedAs
  <2> QED BY <2>1, <2>2, <2>3
<1>2. t \in Seq(C \cup {c}) /\ Len(t) = n + 1
  BY <1>1
<1>3. t[n + 1] = c /\ \A k \in 1..n : t[k] = s[k]
  BY <1>1
<1> HIDE DEF t
<1>4. Retyped(g[n], c) \in Seq(C \cup {c})
  <2>1. g[n] \in Seq(C)
    BY <1>1
  <2> QED BY <2>1, RetypedFacts
<1>5. \A k \in 0..n : g[k] \in Seq(C \cup {c})
  BY <1>1
<1>6. h \in [0..(n + 1) -> Seq(C \cup {c})]
  <2> HIDE DEF n
  <2> QED BY <1>1, <1>4, <1>5
<1>7. h[0] = <<>> /\ h[n + 1] = Retyped(g[n], c) /\ \A k \in 0..n : h[k] = g[k]
  BY <1>1 DEF EditedAs
<1> HIDE DEF h
<1>8. ASSUME NEW k \in 1..(n + 1) PROVE h[k] = Retyped(h[k - 1], t[k])
  <2>1. CASE k = n + 1
    <3>1. k - 1 = n /\ k - 1 \in 0..n
      BY <1>1, <2>1
    <3> QED BY <1>3, <1>7, <2>1, <3>1
  <2>2. CASE k # n + 1
    <3>1. k \in 1..n /\ k \in 0..n /\ k - 1 \in 0..n
      BY <1>1, <2>2
    <3>2. g[k] = Retyped(g[k - 1], s[k])
      BY <3>1 DEF EditedAs
    <3> QED BY <1>3, <1>7, <3>1, <3>2
  <2> QED BY <2>1, <2>2
<1>9. EditedAs(t, C \cup {c}, h)
  BY <1>2, <1>6, <1>7, <1>8 DEF EditedAs
<1> QED BY <1>7, <1>9 DEF t, Continues

\* One character of a line that it does not end.
LEMMA LineEdited ==
  ASSUME LineInv, NEW c, i < BufSize,
         i' = Edit(c).at, buf' = Edit(c).buf, text' = Append(text, c)
  PROVE  LineInv'
<1>1. PICK C, g : LineHolds(C, g)
  BY DEF LineInv
<1> DEFINE n == Len(text)
           e == g[n]
<1>2. EditedAs(text, C, g) /\ n \in Nat /\ e \in Seq(C) /\ i = Len(e)
  BY <1>1 DEF LineHolds, EditedAs
<1>3. PICK h : /\ EditedAs(text', C \cup {c}, h)
               /\ h[n + 1] = Retyped(e, c)
  <2>1. Continues(text, C, g, c)
    BY <1>2, EditedMore
  <2> QED BY <2>1 DEF Continues
<1> DEFINE f == Retyped(e, c)
<1>4. Len(text') = n + 1
  BY <1>2 DEF EditedAs
<1>5. text'[n + 1] = c /\ \A k \in 1..n : text'[k] = text[k]
  BY <1>2 DEF EditedAs
<1>6. \A k \in 1..i : \/ buf[k - 1] = e[k]
                      \/ buf[k - 1] = NUL /\ \E l \in 1..n : text[l] = BS
  BY <1>1 DEF LineHolds
<1>6a. \A k \in 1..i : \/ buf[k - 1] = e[k]
                       \/ buf[k - 1] = NUL /\ \E l \in 1..(n + 1) : text'[l] = BS
  BY <1>2, <1>5, <1>6
<1>7. BufSize \in Nat /\ i \in 0..BufSize /\ DOMAIN buf = -1..(BufSize - 1)
  BY BufSizeAssumption DEF LineInv
<1> HIDE DEF n, e
<1>8. CASE c = BS /\ i > 0
  <2>1. i' = i - 1 /\ buf' = [buf EXCEPT ![i - 2] = NUL]
    BY <1>8 DEF Edit
  <2>2. Len(f) = i - 1 /\ \A k \in 1..(i - 1) : f[k] = e[k]
    <3>1. c = BS /\ Len(e) > 0
      BY <1>2, <1>8
    <3>2. Shortened(e, f)
      BY <1>2, <3>1, RetypedFacts
    <3> QED BY <1>2, <3>2 DEF Shortened
  <2> HIDE DEF f
  <2>3. ASSUME NEW k \in 1..(i - 1)
        PROVE  \/ buf'[k - 1] = f[k]
               \/ buf'[k - 1] = NUL /\ \E l \in 1..(n + 1) : text'[l] = BS
    <3>1. n + 1 \in 1..(n + 1) /\ text'[n + 1] = BS
      BY <1>2, <1>5, <1>8
    <3>2. CASE k = i - 1
      <4>1. k - 1 = i - 2 /\ i - 2 \in DOMAIN buf
        BY <1>7, <3>2
      <4> QED BY <2>1, <3>1, <4>1
    <3>3. CASE k # i - 1
      <4>1. k - 1 # i - 2 /\ k - 1 \in DOMAIN buf /\ k \in 1..i
        BY <1>7, <3>3
      <4>2. buf'[k - 1] = buf[k - 1]
        BY <2>1, <4>1
      <4> QED BY <1>6a, <2>2, <4>1, <4>2
    <3> QED BY <3>2, <3>3
  <2>4. i' \in 0..BufSize /\ DOMAIN buf' = -1..(BufSize - 1)
    BY <1>7, <1>8, <2>1
  <2> QED BY <1>3, <1>4, <2>1, <2>2, <2>3, <2>4 DEF LineInv, LineHolds, f
<1>9. CASE ~(c = BS /\ i > 0)
  <2>1. i' = i + 1 /\ buf' = [buf EXCEPT ![i] = c]
    BY <1>9 DEF Edit
  <2>2. Len(f) = i + 1 /\ f[i + 1] = c /\ \A k \in 1..i : f[k] = e[k]
    <3>1. ~(c = BS /\ Len(e) > 0)
      BY <1>2, <1>9
    <3>2. Longer(e, f, c)
      BY <1>2, <3>1, RetypedFacts
    <3> QED BY <1>2, <3>2 DEF Longer
  <2> HIDE DEF f
  <2>3. ASSUME NEW k \in 1..(i + 1)
        PROVE  \/ buf'[k - 1] = f[k]
               \/ buf'[k - 1] = NUL /\ \E l \in 1..(n + 1) : text'[l] = BS
    <3>1. CASE k = i + 1
      <4>1. k - 1 = i /\ i \in DOMAIN buf
        BY <1>7, <3>1
      <4> QED BY <2>1, <2>2, <3>1, <4>1
    <3>2. CASE k # i + 1
      <4>1. k - 1 # i /\ k - 1 \in DOMAIN buf /\ k \in 1..i
        BY <1>7, <3>2
      <4>2. buf'[k - 1] = buf[k - 1]
        BY <2>1, <4>1
      <4> QED BY <1>6a, <2>2, <4>1, <4>2
    <3> QED BY <3>1, <3>2
  <2>4. i' \in 0..BufSize /\ DOMAIN buf' = -1..(BufSize - 1)
    BY <1>7, <2>1
  <2> QED BY <1>3, <1>4, <2>1, <2>2, <2>3, <2>4 DEF LineInv, LineHolds, f
<1> QED BY <1>8, <1>9

LEMMA LineKept == LineInv /\ UNCHANGED ttyVars => LineInv'
<1> SUFFICES ASSUME LineInv, UNCHANGED ttyVars PROVE LineInv'
  OBVIOUS
<1>1. i' = i /\ buf' = buf /\ text' = text
  BY DEF ttyVars
<1> QED BY <1>1 DEF LineInv, LineHolds

\* The commands of the shell, one by one: what none of them touches.
LEMMA ShellFrame == ShellNext => UNCHANGED <<ttyVars, machine, devs>>
<1>1. ShellNothing => UNCHANGED <<ttyVars, machine, devs>>
  BY DEF ShellNothing, shRest
<1>2. ShellCd => UNCHANGED <<ttyVars, machine, devs>>
  BY DEF ShellCd, shRest
<1>3. ShellLs => UNCHANGED <<ttyVars, machine, devs>>
  BY DEF ShellLs, shRest
<1>4. ShellType => UNCHANGED <<ttyVars, machine, devs>>
  BY DEF ShellType, shRest
<1>5. ShellExit => UNCHANGED <<ttyVars, machine, devs>>
  BY DEF ShellExit, shRest
<1> QED BY <1>1, <1>2, <1>3, <1>4, <1>5 DEF ShellNext

LEMMA KmainFrame ==
  KmainLine \/ KmainSample \/ KmainWait => UNCHANGED <<ttyVars, machine, devs>>
<1>1. KmainLine => UNCHANGED <<ttyVars, machine, devs>>
  BY DEF KmainLine, shared
<1>2. KmainSample => UNCHANGED <<ttyVars, machine, devs>>
  BY DEF KmainSample
<1>3. KmainWait => UNCHANGED <<ttyVars, machine, devs>>
  BY DEF KmainWait, shared
<1> QED BY <1>1, <1>2, <1>3

LEMMA LineStep == LineInv /\ [Next]_vars => LineInv'
<1> SUFFICES ASSUME LineInv, [Next]_vars PROVE LineInv'
  OBVIOUS
<1>1. CASE Load \/ Enumerate \/ Detect \/ Transfer \/ Mount \/ Converse
  BY <1>1, LineKept
     DEF Load, Enumerate, Detect, Transfer, Mount, Converse, shVars
<1>2. CASE Interact
  <2>1. CASE Prompt
    BY <2>1, EmptyLineNext DEF Prompt
  <2>2. CASE TtyRead
    <3> DEFINE c == IF Head(uart) = "CR" THEN NL ELSE Head(uart)
    <3>1. i < BufSize /\ \/ UNCHANGED ttyVars
                         \/ /\ i' = Edit(c).at /\ buf' = Edit(c).buf
                            /\ text' = Append(text, c)
      BY <2>2 DEF TtyRead
    <3> HIDE DEF c
    <3> QED BY <3>1, LineKept, LineEdited
  <2>3. CASE TtyHalt
    BY <2>3, LineKept DEF TtyHalt
  <2>4. CASE ShellNext
    BY <2>4, LineKept, ShellFrame
  <2>5. CASE KmainLine \/ KmainSample \/ KmainWait
    BY <2>5, LineKept, KmainFrame
  <2> QED BY <1>2, <2>1, <2>2, <2>3, <2>4, <2>5 DEF Interact
<1>3. CASE TypeDevice
  BY <1>3, LineKept DEF TypeDevice, TypeMouse, TypeKeyboard, shRest
<1>4. CASE Answer1 \/ Types \/ Reported
  BY <1>4, LineKept DEF Answer1, Types, Reported, shVars
<1>5. CASE UNCHANGED vars
  BY <1>5, LineKept DEF vars, shVars
<1> QED BY <1>1, <1>2, <1>3, <1>4, <1>5 DEF Next, Process

(* The line a reader of tty0 gets is the text as typed and edited, for any *)
(* length of buffer and any typing.  (SerialReadFunction.)                 *)
THEOREM LinesCorrect == Spec => []LineAsEdited
<1>1. Init => LineInv
  BY EmptyLine DEF Init, ShellInit
<1> QED BY <1>1, LineStep, LineImplies, PTL DEF Spec

----------------------------------------------------------------------------
(* PS/2: the packets of the mouse and the interrupt flag.  The nodes of    *)
(* /dev stay, so that where one is missing nothing reads the device.       *)

DevsInv == \E S : devs \in Seq(S)

\* The devices a command is reading are there.
TypeInv == sh = "type" => Nodes(Command.kind) # {}

LEMMA DevsStep ==
  [Next]_vars => UNCHANGED devs \/ \E node : devs' = <<node>> \o devs
<1> SUFFICES ASSUME [Next]_vars
             PROVE  UNCHANGED devs \/ \E node : devs' = <<node>> \o devs
  OBVIOUS
<1>1. CASE Load
  <2>1. CASE LoaderNext
    BY <2>1 DEF LoaderNext, EndOfTags, SkipTag, OpenModule, RejectModule,
                Relocate, Unresolved, CallInit, CallConstructors, shared
  <2>2. CASE VGAInit
    BY <2>2 DEF VGAInit, Register
  <2>3. CASE HelloInit
    BY <2>3 DEF HelloInit
  <2> QED BY <1>1, <2>1, <2>2, <2>3 DEF Load
<1>2. CASE Enumerate
  BY <1>2 DEF Enumerate, PCINext, PCIPublish, PCIScan, PCIReturn, Register
<1>3. CASE Detect
  <2>1. CASE IDEProbe
    BY <2>1 DEF IDEProbe, Register
  <2> QED BY <1>3, <2>1 DEF Detect, IDENext, IDEStart, IDEFind, IDEReturn
<1>4. CASE Transfer
  BY <1>4 DEF Transfer, XferNext, XferSelect, XferCommand, XferSettle, XferPoll, xferRest
<1>5. CASE Mount
  BY <1>5 DEF Mount, MountNext, FatStart, FatPassOver, FatRead, FatGot, FatReport,
              FatReturn, fatRest
<1>6. CASE Converse
  BY <1>6 DEF Converse, PS2Next, PS2Start, PS2Write, PS2Drain, PS2Wait, PS2Get, PS2Config,
              PS2Node, PS2Return, Register
<1>7. CASE Interact
  BY <1>7, ShellFrame, KmainFrame DEF Interact, Prompt, TtyRead, TtyHalt, shared
<1>8. CASE TypeDevice
  BY <1>8 DEF TypeDevice, TypeMouse, TypeKeyboard, shRest
<1>9. CASE Answer1 \/ Types \/ Reported
  BY <1>9 DEF Answer1, DriveAnswers, xferRest, Types, TypeKey, Reported, Reports
<1>10. CASE UNCHANGED vars
  BY <1>10 DEF vars, shared
<1> QED BY <1>1, <1>2, <1>3, <1>4, <1>5, <1>6, <1>7, <1>8, <1>9, <1>10 DEF Next, Process

\* A kind of node that is there stays.
LEMMA NodesStay ==
  DevsInv /\ [Next]_vars => DevsInv' /\ \A kind : Nodes(kind) # {} => Nodes(kind)' # {}
<1> SUFFICES ASSUME DevsInv, [Next]_vars
             PROVE  DevsInv' /\ \A kind : Nodes(kind) # {} => Nodes(kind)' # {}
  OBVIOUS
<1>1. PICK S : devs \in Seq(S)
  BY DEF DevsInv
<1>2. CASE UNCHANGED devs
  BY <1>2 DEF DevsInv, Nodes
<1>3. CASE \E node : devs' = <<node>> \o devs
  <2>1. PICK node : devs' = <<node>> \o devs
    BY <1>3
  <2>2. <<node>> \in Seq(S \cup {node}) /\ devs \in Seq(S \cup {node})
    BY <1>1
  <2>3. devs' \in Seq(S \cup {node}) /\ Len(devs') = Len(devs) + 1 /\ Len(devs) \in Nat
    BY <2>1, <2>2
  <2>4. \A k \in 1..Len(devs) : devs'[k + 1] = devs[k]
    BY <2>1, <2>2
  <2>5. DOMAIN devs = 1..Len(devs) /\ DOMAIN devs' = 1..(Len(devs) + 1)
    BY <1>1, <2>3
  <2>6. ASSUME NEW kind, NEW k \in Nodes(kind) PROVE k + 1 \in Nodes(kind)'
    BY <2>3, <2>4, <2>5 DEF Nodes
  <2> QED BY <2>3, <2>6 DEF DevsInv
<1> QED BY <1>2, <1>3, DevsStep

LEMMA TypeKept ==
  TypeInv /\ DevsInv /\ [Next]_vars /\ UNCHANGED ttyVars /\ (sh' = "type" => sh = "type")
    => TypeInv'
<1> SUFFICES ASSUME TypeInv, DevsInv, [Next]_vars, UNCHANGED ttyVars,
                    sh' = "type", sh = "type"
             PROVE  Nodes(Command.kind)' # {}
  BY DEF TypeInv
<1>1. Command' = Command
  BY DEF ttyVars, Command, Menu, NUL
<1>2. Nodes(Command.kind) # {}
  BY DEF TypeInv
<1> DEFINE kind == Command.kind
<1>3. Nodes(kind)' # {}
  <2>1. \A k : Nodes(k) # {} => Nodes(k)' # {}
    BY NodesStay
  <2>2. {a \in DOMAIN devs' : devs'[a].kind = kind} # {}
    <3> HIDE DEF kind
    <3> QED BY <1>2, <2>1 DEF Nodes, kind
  <2>3. kind' = kind
    BY <1>1
  <2> HIDE DEF kind
  <2> QED BY <2>2, <2>3 DEF Nodes
<1> QED BY <1>3

LEMMA TypeStep == TypeInv /\ DevsInv /\ [Next]_vars => TypeInv'
<1> SUFFICES ASSUME TypeInv, DevsInv, [Next]_vars PROVE TypeInv'
  OBVIOUS
<1>1. CASE Load \/ Enumerate \/ Detect \/ Transfer \/ Mount \/ Converse
  BY <1>1, TypeKept DEF Load, Enumerate, Detect, Transfer, Mount, Converse, shVars
<1>2. CASE Interact
  <2>1. CASE Prompt
    BY <2>1 DEF Prompt, TypeInv
  <2>2. CASE TtyRead
    BY <2>2 DEF TtyRead, Reading, TypeInv
  <2>3. CASE TtyHalt
    BY <2>3, TypeKept DEF TtyHalt
  <2>4. CASE ShellType
    <3>1. CASE sh' = "type"
      <4>1. Nodes(Command.kind) # {} /\ sh = "run"
        BY <2>4, <3>1 DEF ShellType, Running, GoesOn
      <4>2. UNCHANGED devs /\ UNCHANGED ttyVars
        BY <2>4 DEF ShellType, shRest
      <4> QED BY <4>1, <4>2 DEF TypeInv, Nodes, Command, Menu, NUL, ttyVars
    <3>2. CASE sh' # "type"
      BY <3>2 DEF TypeInv
    <3> QED BY <3>1, <3>2
  <2>5. CASE ShellNothing \/ ShellCd \/ ShellLs \/ ShellExit
    <3>1. sh' # "type"
      BY <2>5 DEF ShellNothing, ShellCd, ShellLs, ShellExit, Running, GoesOn
    <3> QED BY <3>1 DEF TypeInv
  <2>6. CASE KmainLine
    BY <2>6 DEF KmainLine, TypeInv
  <2>7. CASE KmainSample \/ KmainWait
    <3>1. sh' = sh
      <4>1. KmainSample => sh' = sh
        BY DEF KmainSample
      <4>2. KmainWait => sh' = sh
        BY DEF KmainWait
      <4> QED BY <2>7, <4>1, <4>2
    <3> QED BY <2>7, <3>1, KmainFrame, TypeKept
  <2> QED BY <1>2, <2>1, <2>2, <2>3, <2>4, <2>5, <2>6, <2>7 DEF Interact, ShellNext
<1>3. CASE TypeMouse /\ TypeDevice
  <2>1. sh = "type" /\ UNCHANGED ttyVars
    BY <1>3 DEF TypeMouse, shRest
  <2> QED BY <2>1, TypeKept
<1>4. CASE TypeKeyboard /\ TypeDevice
  <2>1. sh = "type" /\ UNCHANGED ttyVars
    BY <1>4 DEF TypeKeyboard, shRest
  <2> QED BY <2>1, TypeKept
<1>5. CASE Answer1 \/ Types \/ Reported
  BY <1>5, TypeKept DEF Answer1, Types, Reported, shVars
<1>6. CASE UNCHANGED vars
  BY <1>6, TypeKept DEF vars, shVars
<1> QED BY <1>1, <1>2, <1>3, <1>4, <1>5, <1>6 DEF Next, Process, TypeDevice

\* What is collected of a packet is the end of what the mouse sent.
PadInv ==
    /\ packet_index \in 0..2
    /\ DOMAIN packet_data = 1..3
    /\ \E S : recent \in Seq(S)
    /\ packet_index <= Len(recent) /\ Len(recent) \in 0..3
    /\ packet_index > 0 /\ Nodes("kbd") = {} =>
        /\ Bit(packet_data[1], 3)
        /\ \A b \in 1..packet_index :
             packet_data[b] = recent[Len(recent) - packet_index + b]

LEMMA PadImplies == PadInv => PacketsFramed
  BY DEF PadInv, PacketsFramed

LEMMA PadKept ==
  PadInv /\ DevsInv /\ [Next]_vars /\ UNCHANGED <<packet_index, packet_data, recent>>
    => PadInv'
<1> SUFFICES ASSUME PadInv, DevsInv, [Next]_vars,
                    packet_index' = packet_index, packet_data' = packet_data, recent' = recent
             PROVE  PadInv'
  OBVIOUS
<1>1. Nodes("kbd")' = {} => Nodes("kbd") = {}
  BY NodesStay
<1>2. (\E S : recent \in Seq(S)) => \E S : recent' \in Seq(S)
  OBVIOUS
<1> QED BY <1>1, <1>2 DEF PadInv, Bit

\* One more byte: the last three at most are remembered.
Growing(n, m) ==
    /\ n \in 0..3 /\ m \in 0..3 /\ n <= m
    /\ IF n = 3 THEN m = 3 ELSE m = n + 1

LEMMA TakesFacts ==
  ASSUME NEW S, recent \in Seq(S), Len(recent) \in 0..3, NEW v, Takes(v)
  PROVE  /\ recent' \in Seq(S \cup {v})
         /\ Growing(Len(recent), Len(recent'))
         /\ recent'[Len(recent')] = v
         /\ \A b \in 1..(Len(recent') - 1) :
              recent'[b] = recent[Len(recent) + 1 - Len(recent') + b]
<1> DEFINE all == Append(recent, v)
           n == Len(recent)
<1>1. all \in Seq(S \cup {v}) /\ Len(all) = n + 1 /\ n \in 0..3
  <2>1. recent \in Seq(S \cup {v}) /\ n \in Nat /\ v \in S \cup {v}
    OBVIOUS
  <2>2. all \in Seq(S \cup {v})
    BY <2>1
  <2>3. Len(all) = n + 1
    BY <2>1
  <2> QED BY <2>2, <2>3
<1>2. all[n + 1] = v /\ \A b \in 1..n : all[b] = recent[b]
  OBVIOUS
<1>3. \A b \in 1..(n + 1) : all[b] \in S \cup {v}
  BY <1>1
<1>4. recent' = SubSeq(all, IF Len(all) > 3 THEN 2 ELSE 1, Len(all))
  BY DEF Takes
<1> HIDE DEF all, n
<1>5. CASE n = 3
  <2>1. recent' = SubSeq(all, 2, 4)
    BY <1>1, <1>4, <1>5
  <2>2. recent' \in Seq(S \cup {v})
    BY <1>3, <1>5, <2>1, SubSeqProperties
  <2>3. Len(recent') = 3
    BY <1>1, <1>5, <2>1
  <2>4. \A b \in 1..3 : recent'[b] = all[b + 1]
    BY <1>1, <1>5, <2>1
  <2>5. recent'[3] = v
    BY <1>2, <1>5, <2>4
  <2>6. \A b \in 1..2 : recent'[b] = recent[n + 1 - 3 + b]
    BY <1>2, <1>5, <2>4
  <2> QED BY <1>5, <2>2, <2>3, <2>5, <2>6 DEF n, Growing
<1>6. CASE n # 3
  <2>1. n \in 0..2 /\ recent' = SubSeq(all, 1, n + 1)
    BY <1>1, <1>4, <1>6
  <2>2. SubSeq(all, 1, n + 1) = all
    BY <1>1, <2>1
  <2>3. recent' = all
    BY <2>1, <2>2
  <2>4. \A b \in 1..n : recent'[b] = recent[n + 1 - (n + 1) + b]
    BY <1>2, <2>1, <2>3
  <2>5. recent' \in Seq(S \cup {v}) /\ Len(recent') = n + 1 /\ recent'[n + 1] = v
    BY <1>1, <1>2, <2>3
  <2>6. \A b \in 1..(Len(recent') - 1) : recent'[b] = recent[n + 1 - Len(recent') + b]
    BY <2>1, <2>4, <2>5
  <2>7. Growing(n, Len(recent'))
    <3>1. n + 1 \in 0..3 /\ n <= n + 1
      BY <2>1
    <3> QED BY <2>1, <2>5, <3>1 DEF Growing
  <2>8. recent'[Len(recent')] = v
    BY <2>5
  <2> QED BY <2>5, <2>6, <2>7, <2>8 DEF n
<1> QED BY <1>5, <1>6

\* A byte that is remembered, with nothing collected or nothing to claim.
LEMMA PadTaken ==
  ASSUME PadInv, NEW v, Takes(v), UNCHANGED <<packet_index, packet_data>>,
         packet_index = 0 \/ Nodes("kbd")' # {}
  PROVE  PadInv'
<1>1. PICK S : recent \in Seq(S) /\ Len(recent) \in 0..3
  BY DEF PadInv
<1>2. recent' \in Seq(S \cup {v})
  BY <1>1, TakesFacts
<1>3. Growing(Len(recent), Len(recent'))
  BY <1>1, TakesFacts
<1>4. Len(recent') \in 0..3 /\ Len(recent) <= Len(recent')
  BY <1>3 DEF Growing
<1>5. packet_index' <= Len(recent')
  BY <1>1, <1>4 DEF PadInv
<1>6. ~(packet_index' > 0 /\ Nodes("kbd")' = {})
  BY DEF PadInv
<1> QED BY <1>2, <1>4, <1>5, <1>6 DEF PadInv

\* A byte that is stored.
LEMMA PadStored ==
  ASSUME PadInv, DevsInv, [Next]_vars, NEW got, Stored(got)
  PROVE  PadInv'
<1> DEFINE v == Head(out).v
           p == packet_index
           r == Len(recent')
<1>1. PICK S : recent \in Seq(S) /\ Len(recent) \in 0..3
  BY DEF PadInv
<1>2. /\ p = 0 => Bit(v, 3)
      /\ packet_data' = [packet_data EXCEPT ![p + 1] = v]
      /\ packet_index' = IF p + 1 >= 3 THEN 0 ELSE p + 1
      /\ Takes(v)
  BY DEF Stored, NextIndex
<1>3. recent' \in Seq(S \cup {v})
  BY <1>1, <1>2, TakesFacts
<1>4. Growing(Len(recent), r)
  BY <1>1, <1>2, TakesFacts
<1>5. recent'[r] = v
  BY <1>1, <1>2, TakesFacts
<1>6. \A b \in 1..(r - 1) : recent'[b] = recent[Len(recent) + 1 - r + b]
  BY <1>1, <1>2, TakesFacts
<1>7. Len(recent) \in 0..3 /\ p \in 0..2 /\ p <= Len(recent)
  BY <1>1 DEF PadInv
<1> HIDE DEF v, p, r
<1>8. r \in 0..3 /\ packet_index' <= r /\ packet_index' \in 0..2
  <2>1. r \in 0..3
    BY <1>4 DEF Growing
  <2>2. packet_index' \in 0..2
    BY <1>2, <1>7
  <2>3. CASE p + 1 >= 3
    BY <1>2, <2>1, <2>3
  <2>4. CASE p \in 0..1
    <3>1. packet_index' = p + 1
      BY <1>2, <2>4
    <3>2. p + 1 <= r
      BY <1>4, <1>7, <2>4 DEF Growing
    <3> QED BY <2>1, <2>2, <3>1, <3>2
  <2> QED BY <1>7, <2>3, <2>4
<1>9. DOMAIN packet_data' = 1..3
  BY <1>2 DEF PadInv
<1>10. ASSUME packet_index' > 0, Nodes("kbd")' = {}
       PROVE  /\ Bit(packet_data'[1], 3)
              /\ \A b \in 1..packet_index' :
                   packet_data'[b] = recent'[r - packet_index' + b]
  <2>1. packet_index' = p + 1 /\ p \in 0..1
    BY <1>2, <1>7, <1>10
  <2>2. Nodes("kbd") = {}
    BY <1>10, NodesStay
  <2>3. p > 0 => /\ Bit(packet_data[1], 3)
                 /\ \A b \in 1..p : packet_data[b] = recent[Len(recent) - p + b]
    BY <2>2 DEF PadInv, p
  <2>4. DOMAIN packet_data = 1..3
    BY DEF PadInv
  <2>5. packet_data'[p + 1] = v
    BY <1>2, <2>1, <2>4
  <2>6. CASE p = 0
    <3>1. packet_data'[1] = v
      BY <2>5, <2>6
    <3>2. r - packet_index' + 1 = r
      BY <1>8, <2>1, <2>6
    <3>3. \A b \in 1..packet_index' : b = 1
      BY <2>1, <2>6
    <3> QED BY <1>2, <1>5, <2>6, <3>1, <3>2, <3>3
  <2>7. CASE p = 1
    <3>1. packet_data'[1] = packet_data[1] /\ packet_data'[2] = v
      BY <1>2, <2>4, <2>5, <2>7
    <3>2. packet_data[1] = recent[Len(recent)]
      <4>1. Len(recent) - 1 + 1 = Len(recent)
        BY <1>7
      <4>2. packet_data[1] = recent[Len(recent) - 1 + 1]
        BY <2>3, <2>7
      <4> QED BY <4>1, <4>2
    <3>3. r - 1 \in 1..(r - 1) /\ Len(recent) + 1 - r + (r - 1) = Len(recent)
      BY <1>4, <1>7, <2>7 DEF Growing
    <3>4. recent'[r - 1] = recent[Len(recent)]
      BY <1>6, <3>3
    <3>5. r - packet_index' + 1 = r - 1 /\ r - packet_index' + 2 = r
      BY <1>8, <2>1, <2>7
    <3>6. \A b \in 1..packet_index' : b = 1 \/ b = 2
      BY <2>1, <2>7
    <3>7. Bit(packet_data'[1], 3)
      BY <2>3, <2>7, <3>1
    <3>8. packet_data'[1] = recent'[r - packet_index' + 1]
      BY <3>1, <3>2, <3>4, <3>5
    <3>9. packet_data'[2] = recent'[r - packet_index' + 2]
      BY <1>5, <3>1, <3>5
    <3> QED BY <3>6, <3>7, <3>8, <3>9
  <2> QED BY <2>1, <2>6, <2>7
<1>11. \E T : recent' \in Seq(T)
  BY <1>3
<1> QED BY <1>8, <1>9, <1>10, <1>11 DEF PadInv, Bit, r

LEMMA PadStep == PadInv /\ TypeInv /\ DevsInv /\ [Next]_vars => PadInv'
<1> SUFFICES ASSUME PadInv, TypeInv, DevsInv, [Next]_vars PROVE PadInv'
  OBVIOUS
<1> DEFINE Same == UNCHANGED <<packet_index, packet_data, recent>>
<1>1. Same => PadInv'
  BY PadKept
<1>2. CASE Load \/ Enumerate \/ Detect \/ Transfer \/ Mount \/ Interact
  BY <1>1, <1>2 DEF Load, Enumerate, Detect, Transfer, Mount, Interact, ps2Vars, padVars
<1>3. CASE Converse
  <2>1. Same
    BY <1>3 DEF Converse, PS2Next, PS2Start, PS2Write, PS2Drain, PS2Wait, PS2Get, PS2Config,
                PS2Node, PS2Return, padVars
  <2> QED BY <1>1, <2>1
<1>4. CASE TypeMouse
  <2>1. PICK got \in BOOLEAN : MouseRead(got)
    BY <1>4 DEF TypeMouse
  <2>2. CASE Stored(got)
    BY <2>2, PadStored
  <2>3. CASE Nothing(got)
    <3>1. CASE UNCHANGED recent
      BY <1>1, <2>3, <3>1 DEF Nothing
    <3>2. CASE packet_index = 0 /\ Takes(Head(out).v)
      <4>1. UNCHANGED <<packet_index, packet_data>>
        BY <2>3 DEF Nothing
      <4> QED BY <3>2, <4>1, PadTaken
    <3> QED BY <2>3, <3>1, <3>2 DEF Nothing
  <2> QED BY <2>1, <2>2, <2>3 DEF MouseRead
<1>5. CASE TypeKeyboard
  <2>1. PICK hit \in BOOLEAN : KeyFetch(hit)
    BY <1>5 DEF TypeKeyboard
  <2>2. sh = "type" /\ Command.kind = "kbd" /\ UNCHANGED <<packet_index, packet_data>>
    BY <1>5 DEF TypeKeyboard
  <2>3. Nodes("kbd") # {}
    BY <2>2 DEF TypeInv
  <2>4. Nodes("kbd")' # {}
    BY <2>3, NodesStay
  <2>5. CASE UNCHANGED recent
    BY <1>1, <2>2, <2>5
  <2>6. CASE Takes(Head(out).v)
    BY <2>2, <2>4, <2>6, PadTaken
  <2> QED BY <2>1, <2>5, <2>6 DEF KeyFetch
<1>6. CASE Answer1 \/ Types \/ Reported
  BY <1>1, <1>6 DEF Answer1, Types, Reported, Reports, ps2Vars, padVars
<1>7. CASE UNCHANGED vars
  BY <1>1, <1>7 DEF vars, ps2Vars, padVars
<1> QED BY <1>2, <1>3, <1>4, <1>5, <1>6, <1>7 DEF Next, Process, TypeDevice

\* Every step of another component is taken while Init is not under way, or
\* goes on with it.
LEMMA IntsKept ==
  InterruptsComeBack /\ DevsInv /\ [Next]_vars /\ UNCHANGED ints
    /\ (Going' => Going) /\ (running = "ps2" => running' = "ps2")
    => InterruptsComeBack'
<1> SUFFICES ASSUME InterruptsComeBack, DevsInv, [Next]_vars, UNCHANGED ints,
                    Going' => Going, running = "ps2" => running' = "ps2",
                    Going', running' # "ps2", Nodes("mouse")' = {}
             PROVE  ints'
  BY DEF InterruptsComeBack
<1>1. Nodes("mouse") = {}
  BY NodesStay
<1> QED BY <1>1 DEF InterruptsComeBack

LEMMA IntsStep == InterruptsComeBack /\ TypeInv /\ DevsInv /\ [Next]_vars => InterruptsComeBack'
<1> SUFFICES ASSUME InterruptsComeBack, TypeInv, DevsInv, [Next]_vars
             PROVE  InterruptsComeBack'
  OBVIOUS
<1> DEFINE Kept == /\ UNCHANGED ints
                   /\ Going' => Going
                   /\ running = "ps2" => running' = "ps2"
<1>1. Kept => InterruptsComeBack'
  BY IntsKept
<1> HIDE DEF Kept
<1>2. CASE Load
  <2>1. CASE LoaderNext
    BY <1>1, <2>1 DEF Kept, Loading, LoaderNext, EndOfTags, SkipTag, OpenModule,
                      RejectModule, Relocate, Unresolved, CallInit, CallConstructors,
                      shared, Going
  <2>2. CASE VGAInit
    BY <1>1, <2>2 DEF Kept, VGAInit, Going
  <2>3. CASE HelloInit
    BY <1>1, <2>3 DEF Kept, HelloInit, Going
  <2> QED BY <1>2, <2>1, <2>2, <2>3 DEF Load
<1>3. CASE Enumerate
  BY <1>1, <1>3 DEF Kept, Enumerate, PCINext, PCIPublish, PCIScan, PCIReturn, Going
<1>4. CASE Detect
  <2>1. Going /\ running # "ps2" /\ (UNCHANGED ints \/ stopped' = "panic")
    BY <1>4 DEF Detect, IDENext, IDEStart, IDEFind, IDEProbe, IDEReturn, ideRest, Panic
  <2> QED BY <1>1, <2>1 DEF Kept, InterruptsComeBack, Going
<1>5. CASE Transfer
  BY <1>1, <1>5 DEF Kept, Transfer, XferNext, XferSelect, XferCommand, XferSettle,
                    XferPoll, xferRest, Going
<1>6. CASE Mount
  <2>1. Going /\ running # "ps2" /\ UNCHANGED ints
    BY <1>6 DEF Mount, MountNext, Mounting, FatStart, FatPassOver, FatRead, FatGot,
                FatReport, FatReturn, fatRest
  <2> QED BY <1>1, <2>1 DEF Kept
<1>7. CASE Converse
  <2>1. CASE PS2Return
    BY <2>1 DEF PS2Return, InterruptsComeBack
  <2>2. CASE PS2Start
    BY <2>2 DEF PS2Start, InterruptsComeBack
  <2>3. CASE PS2Write \/ PS2Drain \/ PS2Wait \/ PS2Get \/ PS2Config \/ PS2Node
    <3>1. running' = "ps2"
      BY <2>3 DEF PS2Write, PS2Drain, PS2Wait, PS2Get, PS2Config, PS2Node, Scripted
    <3> QED BY <3>1 DEF InterruptsComeBack
  <2> QED BY <1>7, <2>1, <2>2, <2>3 DEF Converse, PS2Next
<1>8. CASE Interact
  <2>1. CASE Prompt \/ TtyRead \/ KmainLine \/ KmainWait
    <3>1. UNCHANGED <<ints, stopped, running>>
      BY <2>1 DEF Prompt, TtyRead, KmainLine, KmainWait, shared
    <3> QED BY <1>1, <3>1 DEF Kept, Going
  <2>2. CASE TtyHalt
    BY <2>2 DEF TtyHalt, InterruptsComeBack, Going
  <2>3. CASE ShellNext
    <3>1. Going /\ running = "shell" /\ (UNCHANGED ints \/ stopped' = "panic")
      <4>1. CASE ShellNothing
        BY <4>1 DEF ShellNothing, Running
      <4>2. CASE ShellCd
        BY <4>2 DEF ShellCd, Running, Panic, Wild, GoesOn
      <4>3. CASE ShellLs
        BY <4>3 DEF ShellLs, Running, Wild, GoesOn
      <4>4. CASE ShellType
        BY <4>4 DEF ShellType, Running, Panic, Wild, GoesOn
      <4>5. CASE ShellExit
        BY <4>5 DEF ShellExit, Running
      <4> QED BY <2>3, <4>1, <4>2, <4>3, <4>4, <4>5 DEF ShellNext
    <3> QED BY <1>1, <3>1 DEF Kept, InterruptsComeBack, Going
  <2>4. CASE KmainSample
    <3>1. stopped' = "panic" \/ ints' = ints
      BY <2>4 DEF KmainSample, Panic
    <3>2. Going /\ running' = running
      BY <2>4 DEF KmainSample
    <3>3. CASE stopped' = "panic"
      BY <3>3 DEF InterruptsComeBack, Going
    <3>4. CASE ints' = ints
      BY <1>1, <3>2, <3>4 DEF Kept
    <3> QED BY <3>1, <3>3, <3>4
  <2> QED BY <1>8, <2>1, <2>2, <2>3, <2>4 DEF Interact
<1>9. CASE TypeMouse
  <2>1. sh = "type" /\ Command.kind = "mouse"
    BY <1>9 DEF TypeMouse
  <2>2. Nodes("mouse")' # {}
    BY <2>1, NodesStay DEF TypeInv
  <2> QED BY <2>2 DEF InterruptsComeBack
<1>10. CASE TypeKeyboard
  BY <1>10 DEF TypeKeyboard, Panic, Going, InterruptsComeBack
<1>11. CASE Answer1 \/ Types \/ Reported
  BY <1>1, <1>11 DEF Kept, Answer1, DriveAnswers, xferRest, Types, TypeKey, Reported,
                     Reports, ps2Rest, Going
<1>12. CASE UNCHANGED vars
  BY <1>1, <1>12 DEF Kept, vars, shared, Going
<1> QED BY <1>2, <1>3, <1>4, <1>5, <1>6, <1>7, <1>8, <1>9, <1>10, <1>11, <1>12
        DEF Next, Process, TypeDevice

LEMMA Ps2Always == Spec => [](DevsInv /\ TypeInv)
<1>1. Init => DevsInv
  <2> DEFINE a == FirstDevs[1]
             b == FirstDevs[2]
             c == FirstDevs[3]
  <2>1. FirstDevs \in Seq({a, b, c})
    <3>1. FirstDevs = <<a, b, c>>
      BY DEF FirstDevs
    <3> HIDE DEF a, b, c
    <3> QED BY <3>1
  <2> QED BY <2>1 DEF Init, MachineInit, DevsInv
<1>2. Init => TypeInv
  BY DEF Init, ShellInit, TypeInv
<1>3. DevsInv /\ [Next]_vars => DevsInv'
  BY NodesStay
<1> QED BY <1>1, <1>2, <1>3, TypeStep, PTL DEF Spec

(* Where no keyboard is read, what is collected of a packet is what the    *)
(* mouse sent last, whatever the devices answer.  (ps2_read_mouse_packet.) *)
THEOREM PacketsCorrect == Spec => []PacketsFramed
<1>1. Init => PadInv
  <2> SUFFICES ASSUME Init PROVE PadInv
    OBVIOUS
  <2>1. packet_index = 0 /\ packet_data = <<0, 0, 0>> /\ recent = <<>>
    BY DEF Init, PS2Init
  <2>2. recent \in Seq({}) /\ Len(recent) = 0
    BY <2>1
  <2>3. DOMAIN packet_data = 1..3
    BY <2>1
  <2> QED BY <2>1, <2>2, <2>3 DEF PadInv
<1> QED BY <1>1, PadStep, PadImplies, Ps2Always, PTL DEF Spec

(* Where no mouse is read, interrupts are on outside the Init of the PS/2  *)
(* module, however its detection ends.  (Init of the PS/2 module,          *)
(* ps2_keyboard_fetch.)                                                    *)
THEOREM InterruptsCorrect == Spec => []InterruptsComeBack
<1>1. Init => InterruptsComeBack
  BY DEF Init, MachineInit, InterruptsComeBack
<1> QED BY <1>1, IntsStep, Ps2Always, PTL DEF Spec

----------------------------------------------------------------------------
(* PCI: the list is that of the functions the walk has passed.             *)

Addresses == [bus : -1..Buses, slot : 0..(Slots - 1), func : 0..(Functions - 1)]

\* The functions at an address: one or none.
Sits(d, bus, slot, func) == d.bus = bus /\ d.slot = slot /\ d.func = func
Host(d, bus, slot) == Sits(d, bus, slot, 0) /\ d.multi

\* The list: what the walk has passed, in its order.
Listing ==
    /\ pciCount = Cardinality(Walked)
    /\ \A k \in 0..(pciCount - 1) : pciDev[k] \in Walked
    /\ \A d \in Walked :
         \E k \in 0..(pciCount - 1) :
            /\ pciDev[k] = d
            /\ \A j \in 0..(k - 1) : Before(pciDev[j], d)

WalkInv ==
    /\ machine \in Machines
    /\ pciAt \in Addresses
    /\ pciAt.bus = -1 => pciAt.slot = 0 /\ pciAt.func = 0
    /\ DOMAIN pciDev = 0..(MaxDevices - 1)
    /\ \A k \in DOMAIN pciDev : pciDev[k] \in machine.pci \cup {NoFunction}
    /\ pciAt.func # 0 => \E e \in machine.pci : Host(e, pciAt.bus, pciAt.slot)
    /\ Going /\ pciAt.bus >= 0 => Listing

LEMMA WalkImplies == WalkInv => BusListed
  BY DEF WalkInv, Listing, BusListed

LEMMA BusFacts ==
  ASSUME machine \in Machines
  PROVE  /\ IsFiniteSet(machine.pci)
         /\ \A d \in machine.pci :
              /\ d.bus \in 0..(Buses - 1) /\ d.slot \in 0..(Slots - 1)
              /\ d.func \in 0..(Functions - 1)
              /\ d # NoFunction
              /\ d.func # 0 => \E e \in machine.pci : Host(e, d.bus, d.slot)
              /\ d.aliases => ~d.multi
         /\ \A d, e \in machine.pci :
              d.bus = e.bus /\ d.slot = e.slot /\ d.func = e.func => d = e
<1>1. IsBus(machine.pci)
  BY BusAssumption
<1>2. IsFiniteSet(machine.pci)
  BY <1>1 DEF IsBus
<1>3. ASSUME NEW d \in machine.pci
      PROVE  /\ d.bus \in 0..(Buses - 1) /\ d.slot \in 0..(Slots - 1)
             /\ d.func \in 0..(Functions - 1)
             /\ d # NoFunction
             /\ d.func # 0 => \E e \in machine.pci : Host(e, d.bus, d.slot)
             /\ d.aliases => ~d.multi
  <2>1. /\ d.bus \in 0..(Buses - 1) /\ d.slot \in 0..(Slots - 1)
        /\ d.func \in 0..(Functions - 1) /\ (d.aliases => ~d.multi)
    BY <1>1 DEF IsBus
  <2>2. d.class # "none" /\ NoFunction.class = "none"
    BY <1>1 DEF IsBus, NoFunction
  <2>3. d.func # 0 => \E e \in machine.pci : SameSlot(d, e) /\ e.func = 0 /\ e.multi
    BY <1>1 DEF IsBus
  <2> QED BY <2>1, <2>2, <2>3 DEF SameSlot, Host, Sits
<1>4. \A d, e \in machine.pci :
        d.bus = e.bus /\ d.slot = e.slot /\ d.func = e.func => d = e
  BY <1>1 DEF IsBus, SameSlot
<1> QED BY <1>1, <1>2, <1>3, <1>4

\* A function answers at its address.
LEMMA AnswerIs ==
  ASSUME machine \in Machines, NEW bus, NEW slot, NEW func,
         NEW d \in machine.pci, Sits(d, bus, slot, func)
  PROVE  Answer(bus, slot, func) = d
<1> DEFINE S == {e \in machine.pci : e.bus = bus /\ e.slot = slot /\ e.func = func}
<1>1. d \in S /\ \A e \in S : e = d
  BY BusFacts DEF Sits
<1>2. (CHOOSE e \in S : TRUE) = d
  BY <1>1
<1> QED BY <1>1, <1>2 DEF Answer

\* Where there is none, a device that answers for others has none.
LEMMA AnswerIsNone ==
  ASSUME machine \in Machines, NEW bus, NEW slot, NEW func,
         \A d \in machine.pci : ~Sits(d, bus, slot, func),
         func = 0 \/ \E e \in machine.pci : Host(e, bus, slot)
  PROVE  Answer(bus, slot, func) = NoFunction
<1>1. ~\E d \in machine.pci : Sits(d, bus, slot, 0) /\ d.aliases
  <2> SUFFICES ASSUME NEW d \in machine.pci, Sits(d, bus, slot, 0), d.aliases
               PROVE  FALSE
    OBVIOUS
  <2>1. func # 0
    OBVIOUS
  <2>2. PICK e \in machine.pci : Host(e, bus, slot)
    BY <2>1
  <2>3. e = d
    BY <2>2, BusFacts DEF Host, Sits
  <2> QED BY <2>2, <2>3, BusFacts DEF Host
<1>2. {d \in machine.pci : d.bus = bus /\ d.slot = slot /\ d.func = func} = {}
  BY DEF Sits
<1> QED BY <1>1, <1>2 DEF Answer, Sits

\* After the last function asked for in a slot there are no others.
LEMMA NoneAfter ==
  ASSUME WalkInv, NEW d \in machine.pci, d.bus = pciAt.bus, d.slot = pciAt.slot,
         ~(/\ PCIDeviceExists(pciAt.bus, pciAt.slot, 0)
           /\ pciAt.func + 1 < FuncLimit(pciAt.bus, pciAt.slot))
  PROVE  d.func <= pciAt.func
<1> SUFFICES ASSUME ~(d.func <= pciAt.func) PROVE FALSE
  OBVIOUS
<1>1. machine \in Machines /\ pciAt.func \in 0..(Functions - 1)
  BY DEF WalkInv, Addresses
<1>2. d.func \in 0..(Functions - 1)
  BY <1>1, BusFacts
<1>3. d.func # 0 /\ pciAt.func + 1 < Functions
  BY <1>1, <1>2, BusAssumption
<1>4. PICK e \in machine.pci : Host(e, pciAt.bus, pciAt.slot)
  BY <1>1, <1>3, BusFacts
<1>5. Answer(pciAt.bus, pciAt.slot, 0) = e /\ e # NoFunction
  <2>1. Sits(e, pciAt.bus, pciAt.slot, 0)
    BY <1>4 DEF Host
  <2>2. Answer(pciAt.bus, pciAt.slot, 0) = e
    BY <1>1, <2>1, AnswerIs
  <2>3. e # NoFunction
    BY <1>1, BusFacts
  <2> QED BY <2>2, <2>3
<1>6. FuncLimit(pciAt.bus, pciAt.slot) = Functions
  BY <1>4, <1>5 DEF FuncLimit, Host
<1> QED BY <1>3, <1>5, <1>6 DEF PCIDeviceExists

\* Where the walk goes on within a slot, its function 0 says so.
LEMMA MoreInSlot ==
  ASSUME WalkInv, PCIDeviceExists(pciAt.bus, pciAt.slot, 0),
         pciAt.func + 1 < FuncLimit(pciAt.bus, pciAt.slot)
  PROVE  /\ pciAt.func + 1 \in 0..(Functions - 1)
         /\ \E e \in machine.pci : Host(e, pciAt.bus, pciAt.slot)
<1>1. machine \in Machines /\ pciAt.func \in 0..(Functions - 1)
  BY DEF WalkInv, Addresses
<1>2. PICK e \in machine.pci : Sits(e, pciAt.bus, pciAt.slot, 0)
  BY <1>1, AnswerIsNone DEF PCIDeviceExists
<1>3. Answer(pciAt.bus, pciAt.slot, 0) = e
  BY <1>1, <1>2, AnswerIs
<1>4. e.multi /\ FuncLimit(pciAt.bus, pciAt.slot) = Functions
  BY <1>1, <1>3, BusAssumption DEF FuncLimit
<1> QED BY <1>1, <1>2, <1>4, BusAssumption DEF Host

\* A turn of the loops passes the one function it asks for.
LEMMA PassesOne ==
  ASSUME WalkInv, PCIScan
  PROVE  /\ Walked' = Walked \cup
              {d \in machine.pci : Sits(d, pciAt.bus, pciAt.slot, pciAt.func)}
         /\ pciAt' \in Addresses /\ pciAt'.bus >= 0
         /\ pciAt'.func # 0 => \E e \in machine.pci : Host(e, pciAt'.bus, pciAt'.slot)
<1> DEFINE b == pciAt.bus
           s == pciAt.slot
           f == pciAt.func
           More == PCIDeviceExists(b, s, 0) /\ f + 1 < FuncLimit(b, s)
           Here == {d \in machine.pci : Sits(d, b, s, f)}
<1>1. /\ machine \in Machines /\ machine' = machine
      /\ b \in 0..(Buses - 1) /\ s \in 0..(Slots - 1) /\ f \in 0..(Functions - 1)
      /\ pciAt = [bus |-> b, slot |-> s, func |-> f]
      /\ Buses \in Nat /\ Slots \in Nat \ {0} /\ Functions \in Nat \ {0}
  BY BusAssumption DEF WalkInv, PCIScan, Addresses
<1>2. \A d \in machine.pci : d.bus \in 0..(Buses - 1) /\ d.slot \in 0..(Slots - 1)
                             /\ d.func \in 0..(Functions - 1)
  BY <1>1, BusFacts
<1>3. pciAt' = IF More THEN [pciAt EXCEPT !.func = @ + 1] ELSE NextSlot
  BY DEF PCIScan
<1>4. CASE More
  <2>1. f + 1 \in 0..(Functions - 1) /\ \E e \in machine.pci : Host(e, b, s)
    BY <1>4, MoreInSlot
  <2>2. pciAt' = [bus |-> b, slot |-> s, func |-> f + 1]
    <3> HIDE DEF b, s, f, More
    <3> QED BY <1>1, <1>3, <1>4
  <2> HIDE DEF b, s, f, More
  <2>3. pciAt'.bus = b /\ pciAt'.slot = s /\ pciAt'.func = f + 1
    BY <2>2
  <2>4. \A d \in machine.pci : Before(d, pciAt') <=> Before(d, pciAt) \/ Sits(d, b, s, f)
    <3> TAKE d \in machine.pci
    <3>1. d.func \in Nat /\ d.slot \in Nat /\ d.bus \in Nat
      BY <1>1, <1>2
    <3>2. d.func < f + 1 <=> d.func < f \/ d.func = f
      BY <1>1, <3>1
    <3> QED BY <2>3, <3>2 DEF Before, Sits, b, s, f
  <2>5. Walked' = Walked \cup Here
    BY <1>1, <2>4 DEF Walked
  <2>6. pciAt' \in Addresses /\ pciAt'.bus >= 0
    BY <1>1, <2>1, <2>2 DEF Addresses
  <2> QED BY <2>1, <2>3, <2>5, <2>6 DEF b, s, f
<1>5. CASE ~More
  <2>1. \A d \in machine.pci : d.bus = b /\ d.slot = s => d.func <= f
    BY <1>5, NoneAfter
  <2>2. pciAt' = IF s + 1 < Slots THEN [bus |-> b, slot |-> s + 1, func |-> 0]
                 ELSE [bus |-> b + 1, slot |-> 0, func |-> 0]
    BY <1>3, <1>5 DEF NextSlot
  <2> HIDE DEF b, s, f, More
  <2>3. \A d \in machine.pci : Before(d, pciAt') <=> Before(d, pciAt) \/ Sits(d, b, s, f)
    <3> TAKE d \in machine.pci
    <3>1. d.func \in Nat /\ d.slot \in 0..(Slots - 1) /\ d.bus \in Nat
      BY <1>1, <1>2
    <3>2. Before(d, pciAt) \/ Sits(d, b, s, f)
            <=> d.bus < b \/ (d.bus = b /\ (d.slot < s \/ d.slot = s))
      <4>1. d.bus = b /\ d.slot = s => d.func < f \/ d.func = f
        BY <1>1, <2>1, <3>1
      <4> QED BY <4>1 DEF Before, Sits, b, s, f
    <3>3. CASE s + 1 < Slots
      <4>1. pciAt'.bus = b /\ pciAt'.slot = s + 1 /\ pciAt'.func = 0
        BY <2>2, <3>3
      <4>2. d.slot < s + 1 <=> d.slot < s \/ d.slot = s
        BY <1>1, <3>1
      <4>3. ~(d.func < 0)
        BY <3>1
      <4> QED BY <3>2, <4>1, <4>2, <4>3 DEF Before
    <3>4. CASE ~(s + 1 < Slots)
      <4>1. pciAt'.bus = b + 1 /\ pciAt'.slot = 0 /\ pciAt'.func = 0
        BY <2>2, <3>4
      <4>2. d.slot < s \/ d.slot = s
        BY <1>1, <3>1, <3>4
      <4>3. d.bus < b + 1 <=> d.bus < b \/ d.bus = b
        BY <1>1, <3>1
      <4>4. ~(d.func < 0) /\ ~(d.slot < 0)
        BY <1>1, <3>1
      <4> QED BY <3>2, <4>1, <4>2, <4>3, <4>4 DEF Before
    <3> QED BY <3>3, <3>4
  <2>4. Walked' = Walked \cup Here
    BY <1>1, <2>3 DEF Walked
  <2>5. pciAt' \in Addresses /\ pciAt'.bus >= 0 /\ pciAt'.func = 0
    <3>1. CASE s + 1 < Slots
      BY <1>1, <2>2, <3>1 DEF Addresses
    <3>2. CASE ~(s + 1 < Slots)
      BY <1>1, <2>2, <3>2 DEF Addresses
    <3> QED BY <3>1, <3>2
  <2> QED BY <2>4, <2>5 DEF b, s, f
<1> QED BY <1>4, <1>5

\* What was passed before the function the walk is at.
LEMMA WalkedFacts ==
  ASSUME machine \in Machines
  PROVE  /\ Walked \subseteq machine.pci /\ IsFiniteSet(Walked)
         /\ Cardinality(Walked) \in Nat
<1>1. Walked \subseteq machine.pci /\ IsFiniteSet(machine.pci)
  BY BusFacts DEF Walked
<1>2. IsFiniteSet(Walked)
  BY <1>1, FS_Subset
<1> QED BY <1>1, <1>2, FS_CardinalityType

\* The function is there and has been put behind the others.
LEMMA ListedOne ==
  ASSUME machine \in Machines, machine' = machine, Listing, pciAt \in Addresses,
         DOMAIN pciDev = 0..(MaxDevices - 1), pciCount < MaxDevices,
         NEW d \in machine.pci, Sits(d, pciAt.bus, pciAt.slot, pciAt.func),
         pciDev' = [pciDev EXCEPT ![pciCount] = d], pciCount' = pciCount + 1,
         Walked' = Walked \cup {d}
  PROVE  Listing'
<1> DEFINE n == pciCount
<1>1. /\ Cardinality(Walked) \in Nat /\ IsFiniteSet(Walked)
      /\ n = Cardinality(Walked) /\ MaxDevices \in Nat
  BY WalkedFacts, BusFacts, BusAssumption DEF Listing
<1>2. n \in DOMAIN pciDev /\ n \in Nat
  BY <1>1
<1>3. d \notin Walked
  <2>1. ~Before(d, pciAt)
    <3>1. d.bus \in Nat /\ d.slot \in Nat /\ d.func \in Nat
      BY BusFacts
    <3>2. d.bus = pciAt.bus /\ d.slot = pciAt.slot /\ d.func = pciAt.func
      BY DEF Sits
    <3> QED BY <3>1, <3>2 DEF Before
  <2> QED BY <2>1 DEF Walked
<1>4. Cardinality(Walked') = Cardinality(Walked) + 1
  BY <1>1, <1>3, FS_AddElement
<1>5. pciDev'[n] = d /\ \A k \in 0..(n - 1) : pciDev'[k] = pciDev[k]
  <2>1. \A k \in 0..(n - 1) : k # n /\ k \in DOMAIN pciDev
    BY <1>1, <1>2
  <2> QED BY <1>2, <2>1
<1>6. \A e \in Walked : Before(e, d)
  <2>1. \A e \in Walked : Before(e, pciAt)
    BY DEF Walked
  <2> QED BY <2>1 DEF Before, Sits
<1>7. pciCount' = Cardinality(Walked')
  BY <1>1, <1>4
<1>8. ASSUME NEW k \in 0..n PROVE pciDev'[k] \in Walked'
  <2>1. CASE k = n
    BY <1>5, <2>1
  <2>2. CASE k # n
    <3>1. k \in 0..(n - 1)
      BY <1>1, <1>2, <2>2
    <3> QED BY <1>5, <3>1 DEF Listing
  <2> QED BY <2>1, <2>2
<1>9. ASSUME NEW e \in Walked'
      PROVE  \E k \in 0..n : pciDev'[k] = e /\ \A j \in 0..(k - 1) : Before(pciDev'[j], e)
  <2>1. CASE e \in Walked
    <3>1. PICK k \in 0..(n - 1) :
            pciDev[k] = e /\ \A j \in 0..(k - 1) : Before(pciDev[j], e)
      BY <2>1 DEF Listing
    <3>2. k \in 0..n /\ \A j \in 0..(k - 1) : j \in 0..(n - 1)
      BY <1>1, <1>2, <3>1
    <3> QED BY <1>5, <3>1, <3>2
  <2>2. CASE e = d
    <3>1. \A j \in 0..(n - 1) : Before(pciDev[j], d)
      BY <1>6 DEF Listing
    <3>2. n \in 0..n
      BY <1>1, <1>2
    <3> QED BY <1>5, <2>2, <3>1, <3>2
  <2> QED BY <2>1, <2>2
<1>10. pciCount' - 1 = n
  BY <1>2
<1> QED BY <1>7, <1>8, <1>9, <1>10 DEF Listing

LEMMA ListedSame ==
  ASSUME Listing, UNCHANGED <<machine, pciDev, pciCount>>, Walked' = Walked
  PROVE  Listing'
  BY DEF Listing

LEMMA ScanStep == WalkInv /\ PCIScan => WalkInv'
<1> SUFFICES ASSUME WalkInv, PCIScan PROVE WalkInv'
  OBVIOUS
<1> DEFINE b == pciAt.bus
           s == pciAt.slot
           f == pciAt.func
           Here == {d \in machine.pci : Sits(d, b, s, f)}
<1>1. /\ machine \in Machines /\ machine' = machine /\ Going /\ b \in 0..(Buses - 1)
      /\ pciAt \in Addresses /\ DOMAIN pciDev = 0..(MaxDevices - 1)
      /\ \A k \in DOMAIN pciDev : pciDev[k] \in machine.pci \cup {NoFunction}
      /\ f = 0 \/ \E e \in machine.pci : Host(e, b, s)
  BY DEF WalkInv, PCIScan
<1>2. Listing
  <2>1. b >= 0
    BY <1>1, BusAssumption
  <2> QED BY <1>1, <2>1 DEF WalkInv
<1>3. Walked' = Walked \cup Here
  BY PassesOne
<1>4. pciAt' \in Addresses /\ pciAt'.bus >= 0
  BY PassesOne
<1>5. pciAt'.func # 0 => \E e \in machine'.pci : Host(e, pciAt'.bus, pciAt'.slot)
  BY <1>1, PassesOne
<1>6. ~(pciAt'.bus = -1)
  BY <1>4
<1>7. CASE Here = {}
  <2>1. Answer(b, s, f) = NoFunction
    BY <1>1, <1>7, AnswerIsNone
  <2>2. UNCHANGED <<pciDev, pciCount, stopped>>
    BY <2>1 DEF PCIScan, PCIDeviceExists
  <2>3. Listing'
    BY <1>1, <1>2, <1>3, <1>7, <2>2, ListedSame
  <2> QED BY <1>1, <1>4, <1>5, <1>6, <2>2, <2>3 DEF WalkInv
<1>8. CASE Here # {}
  <2>1. PICK d \in machine.pci : Sits(d, b, s, f)
    BY <1>8
  <2>2. Answer(b, s, f) = d /\ d # NoFunction
    BY <1>1, <2>1, AnswerIs, BusFacts
  <2>3. PCIRegister(d)
    BY <2>2 DEF PCIScan, PCIDeviceExists
  <2>4. Here = {d}
    BY <1>1, <2>1, BusFacts DEF Sits
  <2>5. CASE pciCount < MaxDevices
    <3>1. pciDev' = [pciDev EXCEPT ![pciCount] = d] /\ pciCount' = pciCount + 1
      BY <2>3, <2>5 DEF PCIRegister
    <3>2. Listing'
      BY <1>1, <1>2, <1>3, <2>1, <2>4, <2>5, <3>1, ListedOne
    <3>3. DOMAIN pciDev' = 0..(MaxDevices - 1)
      BY <1>1, <3>1
    <3>4. \A k \in DOMAIN pciDev' : pciDev'[k] \in machine.pci \cup {NoFunction}
      BY <1>1, <2>1, <3>1
    <3> QED BY <1>1, <1>4, <1>5, <1>6, <3>2, <3>3, <3>4 DEF WalkInv
  <2>6. CASE ~(pciCount < MaxDevices)
    <3>1. stopped' = "wild" /\ UNCHANGED <<pciDev, pciCount>>
      BY <2>3, <2>6 DEF PCIRegister
    <3> QED BY <1>1, <1>4, <1>5, <1>6, <3>1 DEF WalkInv, Going
  <2> QED BY <2>5, <2>6
<1> QED BY <1>7, <1>8

LEMMA PublishStep == WalkInv /\ PCIPublish => WalkInv'
<1> SUFFICES ASSUME WalkInv, PCIPublish PROVE WalkInv'
  OBVIOUS
<1>1. /\ machine \in Machines /\ machine' = machine /\ Going /\ pciDev' = pciDev
      /\ pciAt \in Addresses /\ pciAt.bus < 0 /\ pciCount' = 0
      /\ Buses \in Nat /\ Slots \in Nat \ {0} /\ Functions \in Nat \ {0}
  BY BusAssumption DEF WalkInv, PCIPublish
<1>2. pciAt.bus = -1
  BY <1>1 DEF Addresses
<1>3. pciAt = [bus |-> -1, slot |-> 0, func |-> 0]
  BY <1>1, <1>2 DEF WalkInv, Addresses
<1>4. pciAt' = [bus |-> 0, slot |-> 0, func |-> 0]
  BY <1>3 DEF PCIPublish
<1>5. pciAt' \in Addresses /\ pciAt'.bus = 0 /\ pciAt'.func = 0 /\ pciAt'.slot = 0
  BY <1>1, <1>4 DEF Addresses
<1>6. Walked' = {}
  <2>1. \A d \in machine.pci : d.bus \in Nat /\ d.slot \in Nat /\ d.func \in Nat
    BY <1>1, BusFacts, BusAssumption
  <2>2. \A d \in machine.pci : ~Before(d, pciAt')
    BY <1>5, <2>1 DEF Before
  <2> QED BY <1>1, <2>2 DEF Walked
<1>7. Listing'
  <2>1. Cardinality(Walked') = 0
    BY <1>6, FS_EmptySet
  <2>2. pciCount' = Cardinality(Walked')
    BY <1>1, <2>1
  <2>3. 0..(pciCount' - 1) = {}
    BY <1>1, <2>1
  <2> QED BY <1>6, <2>2, <2>3 DEF Listing
<1> QED BY <1>1, <1>5, <1>7 DEF WalkInv

\* The other components neither move the walk nor go on after a stop.
LEMMA WalkKept ==
  WalkInv /\ UNCHANGED <<machine, pciVars>> /\ (Going' => Going) => WalkInv'
<1> SUFFICES ASSUME WalkInv, machine' = machine, pciDev' = pciDev, pciCount' = pciCount,
                    pciAt' = pciAt, Going' => Going
             PROVE  WalkInv'
  BY DEF pciVars
<1>1. Walked' = Walked
  BY DEF Walked
<1>2. Listing => Listing'
  BY <1>1, ListedSame
<1> QED BY <1>2 DEF WalkInv

LEMMA WalkStep == WalkInv /\ [Next]_vars => WalkInv'
<1> SUFFICES ASSUME WalkInv, [Next]_vars PROVE WalkInv'
  OBVIOUS
<1> DEFINE Kept == UNCHANGED <<machine, pciVars>> /\ (Going' => Going)
<1>1. Kept => WalkInv'
  BY WalkKept
<1> HIDE DEF Kept
<1>2. CASE Load
  <2>1. UNCHANGED pciVars
    BY <1>2 DEF Load
  <2>2. UNCHANGED machine /\ Going
    <3>1. CASE LoaderNext
      BY <3>1 DEF Loading, LoaderNext, EndOfTags, SkipTag, OpenModule, RejectModule,
                  Relocate, Unresolved, CallInit, CallConstructors, shared
    <3>2. CASE VGAInit
      BY <3>2 DEF VGAInit
    <3>3. CASE HelloInit
      BY <3>3 DEF HelloInit
    <3> QED BY <1>2, <3>1, <3>2, <3>3 DEF Load
  <2> QED BY <1>1, <2>1, <2>2 DEF Kept
<1>3. CASE Enumerate
  <2>1. CASE PCIReturn
    BY <1>1, <2>1 DEF Kept, PCIReturn
  <2> QED BY <1>3, <2>1, ScanStep, PublishStep DEF Enumerate, PCINext
<1>4. CASE Detect
  <2>1. Going /\ UNCHANGED machine
    BY <1>4 DEF Detect, IDENext, IDEStart, IDEFind, IDEProbe, IDEReturn, ideRest
  <2> QED BY <1>1, <1>4, <2>1 DEF Kept, Detect
<1>5. CASE Transfer
  BY <1>1, <1>5 DEF Kept, Transfer, XferNext, XferSelect, XferCommand, XferSettle,
                    XferPoll, xferRest, Going
<1>6. CASE Mount
  <2>1. Going /\ UNCHANGED machine
    BY <1>6 DEF Mount, MountNext, Mounting, FatStart, FatPassOver, FatRead, FatGot,
                FatReport, FatReturn, fatRest
  <2> QED BY <1>1, <1>6, <2>1 DEF Kept, Mount
<1>7. CASE Converse
  <2>1. Going /\ UNCHANGED machine
    BY <1>7 DEF Converse, PS2Next, PS2Start, PS2Write, PS2Drain, PS2Wait, PS2Get, PS2Config,
                PS2Node, PS2Return, Scripted, ps2Rest
  <2> QED BY <1>1, <1>7, <2>1 DEF Kept, Converse
<1>8. CASE Interact
  <2>1. UNCHANGED machine /\ (Going' => Going)
    <3>1. CASE Prompt \/ TtyRead \/ TtyHalt
      BY <3>1 DEF Prompt, TtyRead, TtyHalt, Reading, shared, Going
    <3>2. CASE ShellNext
      BY <3>2, ShellFrame DEF ShellNext, ShellNothing, ShellCd, ShellLs, ShellType,
                              ShellExit, Running
    <3>3. CASE KmainLine \/ KmainSample \/ KmainWait
      <4>1. KmainLine => Going
        BY DEF KmainLine
      <4>2. KmainSample => Going
        BY DEF KmainSample
      <4>3. KmainWait => Going
        BY DEF KmainWait
      <4> QED BY <3>3, <4>1, <4>2, <4>3, KmainFrame
    <3> QED BY <1>8, <3>1, <3>2, <3>3 DEF Interact
  <2> QED BY <1>1, <1>8, <2>1 DEF Kept, Interact
<1>9. CASE TypeDevice
  <2>1. TypeMouse => UNCHANGED machine /\ Going
    BY DEF TypeMouse, shRest
  <2>2. TypeKeyboard => UNCHANGED machine /\ Going
    BY DEF TypeKeyboard, shRest
  <2> QED BY <1>1, <1>9, <2>1, <2>2 DEF Kept, TypeDevice
<1>10. CASE Answer1 \/ Types \/ Reported
  BY <1>1, <1>10 DEF Kept, Answer1, DriveAnswers, xferRest, Types, TypeKey, Reported,
                     Reports, ps2Rest, Going
<1>11. CASE UNCHANGED vars
  BY <1>1, <1>11 DEF Kept, vars, shared, Going
<1> QED BY <1>2, <1>3, <1>4, <1>5, <1>6, <1>7, <1>8, <1>9, <1>10, <1>11 DEF Next, Process

LEMMA WalkInit == Init => WalkInv
<1> SUFFICES ASSUME Init PROVE WalkInv
  OBVIOUS
<1>1. /\ machine \in Machines
      /\ pciDev = [k \in 0..(MaxDevices - 1) |-> NoFunction]
      /\ pciAt = [bus |-> -1, slot |-> 0, func |-> 0]
  BY DEF Init, MachineInit, PCIInit
<1>2. Buses \in Nat /\ Slots \in Nat \ {0} /\ Functions \in Nat \ {0}
  BY BusAssumption
<1>3. pciAt \in Addresses
  BY <1>1, <1>2 DEF Addresses
<1> QED BY <1>1, <1>3 DEF WalkInv

LEMMA WalkAlways == Spec => []WalkInv
  BY WalkInit, WalkStep, PTL DEF Spec

(* Whatever functions a bus has, the list has each function the walk has   *)
(* passed once, in the order of their addresses.                           *)
(* (PCIEnumeratePci, PCIRegister.)                                         *)
THEOREM BusCorrect == Spec => []BusListed
  BY WalkAlways, WalkImplies, PTL

\* A line that leads to the next one or, where it waits in vain, to fail.
Leads(d, fail) == d.op \notin {"node", "sti"} /\ (d.op \in {"need", "get"} => d.fail = fail)

LEMMA KeyboardPresentLeads ==
  /\ \E S : KeyboardPresent \in Seq(S)
  /\ Len(KeyboardPresent) = 9
  /\ \A k \in 1..9 : Leads(KeyboardPresent[k], "mouse")
<1> DEFINE s == KeyboardPresent
<1>1. s \in Seq({Do("drain", 0, ""), Do("key", 238, ""), Do("need", 0, "mouse"),
                  Do("get", {238}, "mouse"), Do("key", 255, ""), Do("get", {ACK}, "mouse"),
                  Do("get", {170}, "mouse")}) /\ Len(s) = 9
  BY DEF KeyboardPresent
<1>2. Leads(s[1], "mouse") /\ Leads(s[2], "mouse") /\ Leads(s[3], "mouse") /\ Leads(s[4], "mouse") /\ Leads(s[5], "mouse")
  BY DEF KeyboardPresent, Leads, Do
<1>3. Leads(s[6], "mouse") /\ Leads(s[7], "mouse") /\ Leads(s[8], "mouse") /\ Leads(s[9], "mouse")
  BY DEF KeyboardPresent, Leads, Do
<1> HIDE DEF s
<1>9. \A k \in 1..9 : k = 1 \/ k = 2 \/ k = 3 \/ k = 4 \/ k = 5 \/ k = 6 \/ k = 7 \/ k = 8 \/ k = 9
  OBVIOUS
<1>10. \A k \in 1..9 : Leads(s[k], "mouse")
  BY <1>2, <1>3, <1>9
<1> QED BY <1>1, <1>10 DEF s

LEMMA KeyboardInitialiseLeads ==
  /\ \E S : KeyboardInitialise \in Seq(S)
  /\ Len(KeyboardInitialise) = 10
  /\ \A k \in 1..10 : Leads(KeyboardInitialise[k], "node")
<1> DEFINE s == KeyboardInitialise
<1>1. s \in Seq({Do("cmd", 174, ""), Do("key", 255, ""), Do("need", 0, "node"),
                  Do("get", {ACK, 170}, "node"), Do("flush", 0, ""), Do("key", 240, ""),
                  Do("key", 2, ""), Do("key", 244, ""), Do("key", 243, ""), Do("key", 32, "")}) /\ Len(s) = 10
  BY DEF KeyboardInitialise
<1>2. Leads(s[1], "node") /\ Leads(s[2], "node") /\ Leads(s[3], "node") /\ Leads(s[4], "node") /\ Leads(s[5], "node")
  BY DEF KeyboardInitialise, Leads, Do
<1>3. Leads(s[6], "node") /\ Leads(s[7], "node") /\ Leads(s[8], "node") /\ Leads(s[9], "node") /\ Leads(s[10], "node")
  BY DEF KeyboardInitialise, Leads, Do
<1> HIDE DEF s
<1>9. \A k \in 1..10 : k = 1 \/ k = 2 \/ k = 3 \/ k = 4 \/ k = 5 \/ k = 6 \/ k = 7 \/ k = 8 \/ k = 9 \/ k = 10
  OBVIOUS
<1>10. \A k \in 1..10 : Leads(s[k], "node")
  BY <1>2, <1>3, <1>9
<1> QED BY <1>1, <1>10 DEF s

LEMMA MousePresentLeads ==
  /\ \E S : MousePresent \in Seq(S)
  /\ Len(MousePresent) = 14
  /\ \A k \in 1..14 : Leads(MousePresent[k], "done")
<1> DEFINE s == MousePresent
<1>1. s \in Seq({Do("cmd", 168, ""), Do("cmd", 32, ""), Do("need", 0, "done"),
                  Do("config", 0, ""), Do("cmd", 169, ""), Do("get", {0}, "done"),
                  Do("aux", 242, ""), Do("get", {ACK}, "done"), Do("get", {0, 3, 4}, "done"),
                  Do("opt", 0, "")}) /\ Len(s) = 14
  BY DEF MousePresent
<1>2. Leads(s[1], "done") /\ Leads(s[2], "done") /\ Leads(s[3], "done") /\ Leads(s[4], "done") /\ Leads(s[5], "done")
  BY DEF MousePresent, Leads, Do
<1>3. Leads(s[6], "done") /\ Leads(s[7], "done") /\ Leads(s[8], "done") /\ Leads(s[9], "done") /\ Leads(s[10], "done")
  BY DEF MousePresent, Leads, Do
<1>4. Leads(s[11], "done") /\ Leads(s[12], "done") /\ Leads(s[13], "done") /\ Leads(s[14], "done")
  BY DEF MousePresent, Leads, Do
<1> HIDE DEF s
<1>9. \A k \in 1..14 : k = 1 \/ k = 2 \/ k = 3 \/ k = 4 \/ k = 5 \/ k = 6 \/ k = 7 \/ k = 8 \/ k = 9 \/ k = 10 \/ k = 11 \/ k = 12 \/ k = 13 \/ k = 14
  OBVIOUS
<1>10. \A k \in 1..14 : Leads(s[k], "done")
  BY <1>2, <1>3, <1>4, <1>9
<1> QED BY <1>1, <1>10 DEF s

LEMMA MouseInitialiseLeads ==
  /\ \E S : MouseInitialise \in Seq(S)
  /\ Len(MouseInitialise) = 9
  /\ \A k \in 1..9 : Leads(MouseInitialise[k], "done")
<1> DEFINE s == MouseInitialise
<1>1. s \in Seq({Do("cmd", 168, ""), Do("aux", 255, ""), Do("opt", 0, ""), Do("aux", 244, ""),
                  Do("aux", 243, ""), Do("aux", 100, "")}) /\ Len(s) = 9
  BY DEF MouseInitialise
<1>2. Leads(s[1], "done") /\ Leads(s[2], "done") /\ Leads(s[3], "done") /\ Leads(s[4], "done") /\ Leads(s[5], "done")
  BY DEF MouseInitialise, Leads, Do
<1>3. Leads(s[6], "done") /\ Leads(s[7], "done") /\ Leads(s[8], "done") /\ Leads(s[9], "done")
  BY DEF MouseInitialise, Leads, Do
<1> HIDE DEF s
<1>9. \A k \in 1..9 : k = 1 \/ k = 2 \/ k = 3 \/ k = 4 \/ k = 5 \/ k = 6 \/ k = 7 \/ k = 8 \/ k = 9
  OBVIOUS
<1>10. \A k \in 1..9 : Leads(s[k], "done")
  BY <1>2, <1>3, <1>9
<1> QED BY <1>1, <1>10 DEF s


\* Sequences of a known length, and what one is of two.
Listed(s, n) == (\E S : s \in Seq(S)) /\ Len(s) = n
Joins(u, s, m, t, n) ==
    /\ \A k \in 1..m : u[k] = s[k]
    /\ \A k \in 1..n : u[m + k] = t[k]

LEMMA Joined ==
  ASSUME NEW s, NEW t, NEW m \in Nat, NEW n \in Nat, Listed(s, m), Listed(t, n)
  PROVE  Listed(s \o t, m + n) /\ Joins(s \o t, s, m, t, n)
<1>1. PICK S : s \in Seq(S)
  BY DEF Listed
<1>2. PICK T : t \in Seq(T)
  BY DEF Listed
<1>3. s \in Seq(S \cup T) /\ t \in Seq(S \cup T) /\ Len(s) = m /\ Len(t) = n
  BY <1>1, <1>2 DEF Listed
<1>4. s \o t \in Seq(S \cup T) /\ Len(s \o t) = m + n
  BY <1>3
<1>5. Joins(s \o t, s, m, t, n)
  BY <1>3 DEF Joins
<1> QED BY <1>4, <1>5 DEF Listed

LEMMA ScriptParts ==
  /\ Len(ForKeyboard) = 20 /\ Len(Script) = 45
  /\ \A l \in 1..9 : Script[l] = KeyboardPresent[l]
  /\ \A l \in 1..10 : Script[9 + l] = KeyboardInitialise[l]
  /\ Script[20] = Do("node", "kbd", "")
  /\ \A l \in 1..14 : Script[20 + l] = MousePresent[l]
  /\ \A l \in 1..9 : Script[34 + l] = MouseInitialise[l]
  /\ Script[44] = Do("node", "mouse", "")
  /\ Script[45] = Do("sti", 0, "")
<1> DEFINE a == KeyboardPresent
           b == KeyboardInitialise
           c == <<Do("node", "kbd", "")>>
           d == MousePresent
           e == MouseInitialise
           f == <<Do("node", "mouse", ""), Do("sti", 0, "")>>
<1>1. Listed(a, 9) /\ Listed(b, 10) /\ Listed(d, 14) /\ Listed(e, 9)
  BY KeyboardPresentLeads, KeyboardInitialiseLeads, MousePresentLeads, MouseInitialiseLeads
     DEF Listed
<1>2. /\ c \in Seq({Do("node", "kbd", "")}) /\ Len(c) = 1 /\ c[1] = Do("node", "kbd", "")
      /\ f \in Seq({Do("node", "mouse", ""), Do("sti", 0, "")}) /\ Len(f) = 2
      /\ f[1] = Do("node", "mouse", "") /\ f[2] = Do("sti", 0, "")
  OBVIOUS
<1>3. Listed(c, 1) /\ Listed(f, 2)
  BY <1>2 DEF Listed
<1> DEFINE ab == a \o b
           abc == ab \o c
           g == abc \o d
           h == g \o e
<1>4. ForKeyboard = abc
  BY DEF ForKeyboard
<1>5. Script = h \o f
  BY <1>4 DEF Script
<1> HIDE DEF a, b, c, d, e, f
<1>6. Listed(ab, 19) /\ Joins(ab, a, 9, b, 10)
  <2>1. Listed(ab, 9 + 10) /\ Joins(ab, a, 9, b, 10)  BY <1>1, Joined
  <2> QED BY <2>1
<1> HIDE DEF ab
<1>7. Listed(abc, 20) /\ Joins(abc, ab, 19, c, 1)
  <2>1. Listed(abc, 19 + 1) /\ Joins(abc, ab, 19, c, 1)  BY <1>3, <1>6, Joined
  <2> QED BY <2>1
<1> HIDE DEF abc
<1>8. Listed(g, 34) /\ Joins(g, abc, 20, d, 14)
  <2>1. Listed(g, 20 + 14) /\ Joins(g, abc, 20, d, 14)  BY <1>1, <1>7, Joined
  <2> QED BY <2>1
<1> HIDE DEF g
<1>9. Listed(h, 43) /\ Joins(h, g, 34, e, 9)
  <2>1. Listed(h, 34 + 9) /\ Joins(h, g, 34, e, 9)  BY <1>1, <1>8, Joined
  <2> QED BY <2>1
<1> HIDE DEF h
<1>10. Listed(Script, 45) /\ Joins(Script, h, 43, f, 2)
  <2>1. Listed(h \o f, 43 + 2) /\ Joins(h \o f, h, 43, f, 2)  BY <1>3, <1>9, Joined
  <2> QED BY <1>5, <2>1
<1>11. Len(ForKeyboard) = 20 /\ Len(Script) = 45
  BY <1>4, <1>7, <1>10 DEF Listed
<1>12. \A k \in 1..43 : Script[k] = h[k]
  BY <1>10 DEF Joins
<1>13. \A k \in 1..34 : Script[k] = g[k]
  BY <1>9, <1>12 DEF Joins
<1>14. \A k \in 1..20 : Script[k] = abc[k]
  BY <1>8, <1>13 DEF Joins
<1>15. \A k \in 1..19 : Script[k] = ab[k]
  BY <1>7, <1>14 DEF Joins
<1>16. \A l \in 1..9 : Script[l] = a[l]
  BY <1>6, <1>15 DEF Joins
<1>17. \A l \in 1..10 : Script[9 + l] = b[l]
  BY <1>6, <1>15 DEF Joins
<1>18. \A l \in 1..14 : Script[20 + l] = d[l]
  BY <1>8, <1>13 DEF Joins
<1>19. \A l \in 1..9 : Script[34 + l] = e[l]
  BY <1>9, <1>12 DEF Joins
<1>20. Script[20] = c[1]
  <2>1. abc[19 + 1] = c[1]  BY <1>7 DEF Joins
  <2> QED BY <1>14, <2>1
<1>21. Script[44] = f[1] /\ Script[45] = f[2]
  <2>1. Script[43 + 1] = f[1] /\ Script[43 + 2] = f[2]  BY <1>10 DEF Joins
  <2> QED BY <2>1
<1> QED BY <1>2, <1>11, <1>16, <1>17, <1>18, <1>19, <1>20, <1>21 DEF a, b, d, e

LEMMA ScriptLeads ==
  /\ \A l \in 1..45 : Script[l].op = "node" =>
        (l = 20 /\ Script[l].v = "kbd") \/ (l = 44 /\ Script[l].v = "mouse")
  /\ \A l \in 1..45 : Script[l].op = "sti" <=> l = 45
  /\ \A l \in 1..45 : Script[l].op \in {"need", "get"} =>
        Target(Script[l].fail) = (IF l <= 9 THEN 21 ELSE IF l <= 19 THEN 20 ELSE 45)
<1>1. \A l \in 1..9 : Leads(Script[l], "mouse")
  BY ScriptParts, KeyboardPresentLeads
<1>2. \A l \in 1..10 : Leads(Script[9 + l], "node")
  BY ScriptParts, KeyboardInitialiseLeads
<1>3. \A l \in 1..14 : Leads(Script[20 + l], "done")
  BY ScriptParts, MousePresentLeads
<1>4. \A l \in 1..9 : Leads(Script[34 + l], "done")
  BY ScriptParts, MouseInitialiseLeads
<1>5. Target("mouse") = 21 /\ Target("node") = 20 /\ Target("done") = 45
  <2>1. Len(ForKeyboard) = 20 /\ Len(Script) = 45
    BY ScriptParts
  <2> QED BY <2>1 DEF Target
<1>6. /\ Script[20].op = "node" /\ Script[20].v = "kbd"
      /\ Script[44].op = "node" /\ Script[44].v = "mouse"
      /\ Script[45].op = "sti"
  <2>1. /\ Script[20] = Do("node", "kbd", "") /\ Script[44] = Do("node", "mouse", "")
        /\ Script[45] = Do("sti", 0, "")
    BY ScriptParts
  <2>2. /\ Do("node", "kbd", "").op = "node" /\ Do("node", "kbd", "").v = "kbd"
        /\ Do("node", "mouse", "").op = "node" /\ Do("node", "mouse", "").v = "mouse"
        /\ Do("sti", 0, "").op = "sti"
    BY DEF Do
  <2> QED BY <2>1, <2>2
<1>7. ASSUME NEW l \in 1..45
      PROVE  \/ l \in 1..9 /\ Leads(Script[l], "mouse")
             \/ l \in 10..19 /\ Leads(Script[l], "node")
             \/ l \in 21..43 /\ Leads(Script[l], "done")
             \/ l \in {20, 44, 45}
  <2>1. CASE l \in 10..19
    <3>1. l - 9 \in 1..10 /\ l = 9 + (l - 9)  BY <2>1
    <3> QED BY <1>2, <2>1, <3>1
  <2>2. CASE l \in 21..34
    <3>1. l - 20 \in 1..14 /\ l = 20 + (l - 20)  BY <2>2
    <3> QED BY <1>3, <2>2, <3>1
  <2>3. CASE l \in 35..43
    <3>1. l - 34 \in 1..9 /\ l = 34 + (l - 34)  BY <2>3
    <3> QED BY <1>4, <2>3, <3>1
  <2>4. l \in 1..9 \/ l \in 10..19 \/ l \in 21..34 \/ l \in 35..43 \/ l \in {20, 44, 45}
    OBVIOUS
  <2> QED BY <1>1, <2>1, <2>2, <2>3, <2>4
<1>8. ASSUME NEW l \in 1..45, Script[l].op = "node"
      PROVE  (l = 20 /\ Script[l].v = "kbd") \/ (l = 44 /\ Script[l].v = "mouse")
  BY <1>6, <1>7, <1>8 DEF Leads
<1>9. ASSUME NEW l \in 1..45 PROVE Script[l].op = "sti" <=> l = 45
  BY <1>6, <1>7, <1>9 DEF Leads
<1>10. ASSUME NEW l \in 1..45, Script[l].op \in {"need", "get"}
       PROVE  Target(Script[l].fail) = (IF l <= 9 THEN 21 ELSE IF l <= 19 THEN 20 ELSE 45)
  BY <1>5, <1>6, <1>7, <1>10 DEF Leads
<1> QED BY <1>8, <1>9, <1>10

\* The lines a detection depends on.
LEMMA ScriptAsks ==
  /\ Script[1].op = "drain" /\ Script[3].op = "need"
  /\ Script[2].op = "key" /\ Script[2].v = 238
  /\ Script[21].op = "cmd" /\ Script[21].v = 168
  /\ Script[22].op = "cmd" /\ Script[22].v = 32
  /\ Script[23].op = "need"
  /\ Script[24].op = "cmd" /\ Script[24].v = 32
  /\ Script[25].op = "config"
  /\ Script[26].op = "cmd" /\ Script[26].v = 169
  /\ Script[27].op = "need"
  /\ Script[28].op = "get" /\ Script[28].v = {0}
  /\ Script[29].op = "aux" /\ Script[29].v = 242
  /\ Script[30].op = "need"
  /\ Script[31].op = "get" /\ Script[31].v = {ACK}
  /\ Script[32].op = "need"
  /\ Script[33].op = "get" /\ Script[33].v = {0, 3, 4}
<1> DEFINE a == KeyboardPresent
           d == MousePresent
<1>1. /\ a[1].op = "drain" /\ a[3].op = "need" /\ a[2].op = "key" /\ a[2].v = 238
  BY DEF KeyboardPresent, Do
<1>2. /\ d[1].op = "cmd" /\ d[1].v = 168 /\ d[2].op = "cmd" /\ d[2].v = 32
      /\ d[3].op = "need" /\ d[4].op = "cmd" /\ d[4].v = 32
      /\ d[5].op = "config"
  BY DEF MousePresent, Do
<1>3. /\ d[6].op = "cmd" /\ d[6].v = 169 /\ d[7].op = "need"
      /\ d[8].op = "get" /\ d[8].v = {0} /\ d[9].op = "aux" /\ d[9].v = 242
  BY DEF MousePresent, Do
<1>4. /\ d[10].op = "need" /\ d[11].op = "get" /\ d[11].v = {ACK}
      /\ d[12].op = "need" /\ d[13].op = "get" /\ d[13].v = {0, 3, 4}
  BY DEF MousePresent, Do
<1>5. Script[1] = a[1] /\ Script[2] = a[2] /\ Script[3] = a[3]
  <2>1. \A l \in 1..9 : Script[l] = a[l]
    BY ScriptParts
  <2> QED BY <2>1
<1>6. \A l \in 1..14 : Script[20 + l] = d[l]
  BY ScriptParts
<1> HIDE DEF a, d
<1>7. /\ Script[21] = d[1] /\ Script[22] = d[2] /\ Script[23] = d[3] /\ Script[24] = d[4]
      /\ Script[25] = d[5]
  <2>1. /\ Script[20 + 1] = d[1] /\ Script[20 + 2] = d[2] /\ Script[20 + 3] = d[3]
        /\ Script[20 + 4] = d[4] /\ Script[20 + 5] = d[5]
    BY <1>6
  <2> QED BY <2>1
<1>8. /\ Script[26] = d[6] /\ Script[27] = d[7] /\ Script[28] = d[8] /\ Script[29] = d[9]
  <2>1. /\ Script[20 + 6] = d[6] /\ Script[20 + 7] = d[7] /\ Script[20 + 8] = d[8]
        /\ Script[20 + 9] = d[9]
    BY <1>6
  <2> QED BY <2>1
<1>9. Script[30] = d[10] /\ Script[31] = d[11] /\ Script[32] = d[12] /\ Script[33] = d[13]
  <2>1. /\ Script[20 + 10] = d[10] /\ Script[20 + 11] = d[11] /\ Script[20 + 12] = d[12]
        /\ Script[20 + 13] = d[13]
    BY <1>6
  <2> QED BY <2>1
<1>10. /\ Script[1].op = "drain" /\ Script[3].op = "need"
       /\ Script[2].op = "key" /\ Script[2].v = 238
  BY <1>1, <1>5
<1>11. /\ Script[21].op = "cmd" /\ Script[21].v = 168
       /\ Script[22].op = "cmd" /\ Script[22].v = 32
       /\ Script[23].op = "need"
       /\ Script[24].op = "cmd" /\ Script[24].v = 32
       /\ Script[25].op = "config"
  BY <1>2, <1>7
<1>12. /\ Script[26].op = "cmd" /\ Script[26].v = 169
       /\ Script[27].op = "need"
       /\ Script[28].op = "get" /\ Script[28].v = {0}
       /\ Script[29].op = "aux" /\ Script[29].v = 242
  BY <1>3, <1>8
<1>13. /\ Script[30].op = "need"
       /\ Script[31].op = "get" /\ Script[31].v = {ACK}
       /\ Script[32].op = "need"
       /\ Script[33].op = "get" /\ Script[33].v = {0, 3, 4}
  BY <1>4, <1>9
<1> QED BY <1>10, <1>11, <1>12, <1>13
----------------------------------------------------------------------------
(* Whose code runs, and what only one component's steps change.            *)

LEMMA MachineStep == [Next]_vars => UNCHANGED machine /\ (Going' => Going)
<1> DEFINE Kept == UNCHANGED machine /\ (Going' => Going)
<1> SUFFICES ASSUME [Next]_vars PROVE Kept
  OBVIOUS
<1>1. CASE Load
  <2>1. LoaderNext => UNCHANGED machine /\ Going
    BY DEF Loading, LoaderNext, EndOfTags, SkipTag, OpenModule, RejectModule,
           Relocate, Unresolved, CallInit, CallConstructors, shared
  <2>2. VGAInit => UNCHANGED machine /\ Going
    BY DEF VGAInit
  <2>3. HelloInit => UNCHANGED machine /\ Going
    BY DEF HelloInit
  <2> QED BY <1>1, <2>1, <2>2, <2>3 DEF Load
<1>2. CASE Enumerate
  BY <1>2 DEF Enumerate, PCINext, PCIPublish, PCIScan, PCIReturn
<1>3. CASE Detect
  BY <1>3 DEF Detect, IDENext, IDEStart, IDEFind, IDEProbe, IDEReturn, ideRest
<1>4. CASE Transfer
  BY <1>4 DEF Transfer, XferNext, XferSelect, XferCommand, XferSettle, XferPoll, xferRest, Going
<1>5. CASE Mount
  BY <1>5 DEF Mount, MountNext, Mounting, FatStart, FatPassOver, FatRead, FatGot,
              FatReport, FatReturn, fatRest
<1>6. CASE Converse
  BY <1>6 DEF Converse, PS2Next, PS2Start, PS2Write, PS2Drain, PS2Wait, PS2Get, PS2Config,
              PS2Node, PS2Return, Scripted, ps2Rest
<1>7. CASE Interact
  <2>1. CASE Prompt \/ TtyRead \/ TtyHalt
    BY <2>1 DEF Prompt, TtyRead, TtyHalt, Reading, shared, Going
  <2>2. CASE ShellNext
    BY <2>2, ShellFrame DEF ShellNext, ShellNothing, ShellCd, ShellLs, ShellType,
                            ShellExit, Running
  <2>3. CASE KmainLine \/ KmainSample \/ KmainWait
    <3>1. KmainLine => Going
      BY DEF KmainLine
    <3>2. KmainSample => Going
      BY DEF KmainSample
    <3>3. KmainWait => Going
      BY DEF KmainWait
    <3> QED BY <2>3, <3>1, <3>2, <3>3, KmainFrame
  <2> QED BY <1>7, <2>1, <2>2, <2>3 DEF Interact
<1>8. CASE TypeDevice
  <2>1. TypeMouse => UNCHANGED machine /\ Going
    BY DEF TypeMouse, shRest
  <2>2. TypeKeyboard => UNCHANGED machine /\ Going
    BY DEF TypeKeyboard, shRest
  <2> QED BY <1>8, <2>1, <2>2 DEF TypeDevice
<1>9. CASE Answer1 \/ Types \/ Reported
  BY <1>9 DEF Answer1, DriveAnswers, xferRest, Types, TypeKey, Reported, Reports, ps2Rest, Going
<1>10. CASE UNCHANGED vars
  BY <1>10 DEF vars, shared, Going
<1> QED BY <1>1, <1>2, <1>3, <1>4, <1>5, <1>6, <1>7, <1>8, <1>9, <1>10 DEF Next, Process

\* The steps by which one module's code gives way to another's.
Hands ==
    \/ running = "loader"
    \/ PCIReturn \/ IDEReturn \/ FatReturn \/ PS2Return
    \/ running \in {"vga", "hello"}
    \/ running = "shell" /\ sh = "run" /\ UNCHANGED line /\ sh' = "off"

LEMMA RunningStep == [Next]_vars => UNCHANGED running \/ Hands
<1> SUFFICES ASSUME [Next]_vars PROVE UNCHANGED running \/ Hands
  OBVIOUS
<1>1. CASE Load
  BY <1>1 DEF Load, Loading, LoaderNext, EndOfTags, SkipTag, OpenModule, RejectModule,
              Relocate, Unresolved, CallInit, CallConstructors, VGAInit, HelloInit, Hands
<1>2. CASE Enumerate
  BY <1>2 DEF Enumerate, PCINext, PCIPublish, PCIScan, Hands
<1>3. CASE Detect
  BY <1>3 DEF Detect, IDENext, IDEStart, IDEFind, IDEProbe, Hands
<1>4. CASE Transfer
  BY <1>4 DEF Transfer, XferNext, XferSelect, XferCommand, XferSettle, XferPoll, xferRest
<1>5. CASE Mount
  BY <1>5 DEF Mount, MountNext, FatStart, FatPassOver, FatRead, FatGot, FatReport, Hands
<1>6. CASE Converse
  BY <1>6 DEF Converse, PS2Next, PS2Start, PS2Write, PS2Drain, PS2Wait, PS2Get, PS2Config,
              PS2Node, Hands
<1>7. CASE Interact
  <2>1. CASE Prompt \/ TtyRead \/ TtyHalt
    BY <2>1 DEF Prompt, TtyRead, TtyHalt, shared
  <2>2. CASE ShellNothing
    BY <2>2 DEF ShellNothing
  <2>3. CASE ShellCd
    BY <2>3 DEF ShellCd
  <2>4. CASE ShellLs
    BY <2>4 DEF ShellLs
  <2>5. CASE ShellType
    BY <2>5 DEF ShellType
  <2>6. CASE ShellExit
    BY <1>7, <2>6 DEF ShellExit, Running, Interact, ps2Vars, Hands
  <2>7. KmainLine \/ KmainSample \/ KmainWait => UNCHANGED running
    <3>1. KmainLine => UNCHANGED running
      BY DEF KmainLine, shared
    <3>2. KmainSample => UNCHANGED running
      BY DEF KmainSample
    <3>3. KmainWait => UNCHANGED running
      BY DEF KmainWait, shared
    <3> QED BY <3>1, <3>2, <3>3
  <2> QED BY <1>7, <2>1, <2>2, <2>3, <2>4, <2>5, <2>6, <2>7 DEF Interact, ShellNext
<1>8. CASE TypeDevice
  BY <1>8 DEF TypeDevice, TypeMouse, TypeKeyboard
<1>9. CASE Answer1 \/ Types \/ Reported
  BY <1>9 DEF Answer1, DriveAnswers, xferRest, Types, TypeKey, Reported, Reports
<1>10. CASE UNCHANGED vars
  BY <1>10 DEF vars, shared
<1> QED BY <1>1, <1>2, <1>3, <1>4, <1>5, <1>6, <1>7, <1>8, <1>9, <1>10 DEF Next, Process

\* Only the command to print a device begins to read one.
LEMMA ShStep == [Next]_vars /\ sh' = "type" => sh = "type" \/ running' = "shell"
<1> SUFFICES ASSUME [Next]_vars, sh' = "type", sh # "type" PROVE running' = "shell"
  OBVIOUS
<1>1. ~(Load \/ Enumerate \/ Detect \/ Transfer \/ Mount \/ Converse)
  BY DEF Load, Enumerate, Detect, Transfer, Mount, Converse, shVars
<1>2. ~(Answer1 \/ Types \/ Reported \/ UNCHANGED vars)
  BY DEF Answer1, Types, Reported, vars, shVars
<1>3. ~TypeDevice
  BY DEF TypeDevice, TypeMouse, TypeKeyboard
<1>4. CASE Interact
  <2>1. ~Prompt /\ ~TtyHalt /\ ~KmainLine /\ ~KmainWait
    BY DEF Prompt, TtyHalt, KmainLine, KmainWait
  <2>5. KmainSample => UNCHANGED sh
    BY DEF KmainSample
  <2>2. ~TtyRead
    BY DEF TtyRead, Reading
  <2>3. ~ShellNothing /\ ~ShellCd /\ ~ShellLs /\ ~ShellExit
    <3>1. ~ShellNothing /\ ~ShellExit
      BY DEF ShellNothing, ShellExit
    <3>2. ~ShellCd
      BY DEF ShellCd, GoesOn
    <3>3. ~ShellLs
      BY DEF ShellLs, GoesOn
    <3> QED BY <3>1, <3>2, <3>3
  <2>4. ShellType => running' = "shell"
    BY DEF ShellType, Running
  <2> QED BY <1>4, <2>1, <2>2, <2>3, <2>4, <2>5 DEF Interact, ShellNext
<1> QED BY <1>1, <1>2, <1>3, <1>4 DEF Next, Process
----------------------------------------------------------------------------
(* PS/2: where the script is and what the controller has to give.          *)

OutInv == \E S : out \in Seq(S)

\* Nothing else reads the controller while the script runs.
ScriptInv ==
    /\ line \in 0..45
    /\ Going /\ line > 0 => running = "ps2"
    /\ Going /\ sh = "type" => running = "shell"

\* Where a line that waits in vain goes on.
Fails(l) == IF l <= 9 THEN 21 ELSE IF l <= 19 THEN 20 ELSE 45

\* A line of the script with a certain routine, and its lines' steps.
LEMMA ScriptedAt ==
  ASSUME ScriptInv, NEW op, Scripted(op)
  PROVE  line \in 1..45 /\ Script[line].op = op /\ (op # "sti" => line \in 1..44)
<1>1. line \in 1..45 /\ Script[line].op = op
  BY DEF ScriptInv, Scripted, Step
<1>2. Script[line].op = "sti" <=> line = 45
  BY <1>1, ScriptLeads
<1> QED BY <1>1, <1>2

LEMMA WriteAt ==
  ASSUME ScriptInv, PS2Write
  PROVE  /\ line \in 1..44 /\ line' = line + 1 /\ UNCHANGED <<config, running, devs>>
         /\ Script[line].op \in {"cmd", "key", "aux", "opt"}
         /\ Script[line].op = "cmd" => out' = FromController(Script[line].v)
         /\ Script[line].op = "key" => out' = out \o FromKeyboard(Script[line].v)
         /\ Script[line].op = "aux" => out' = out \o FromMouse(Script[line].v)
         /\ Script[line].op = "opt" => UNCHANGED out \/ (out # <<>> /\ out' = Tail(out))
<1>1. line' = line + 1 /\ UNCHANGED <<config, running, devs>>
  BY DEF PS2Write, Goto
<1>2. CASE Scripted("cmd") /\ out' = FromController(Step.v)
  BY <1>1, <1>2, ScriptedAt DEF Step
<1>3. CASE Scripted("key") /\ out' = out \o FromKeyboard(Step.v)
  BY <1>1, <1>3, ScriptedAt DEF Step
<1>4. CASE Scripted("aux") /\ out' = out \o FromMouse(Step.v)
  BY <1>1, <1>4, ScriptedAt DEF Step
<1>5. CASE Scripted("opt") /\ (UNCHANGED out \/ (out # <<>> /\ out' = Tail(out)))
  BY <1>1, <1>5, ScriptedAt
<1> QED BY <1>2, <1>3, <1>4, <1>5 DEF PS2Write

LEMMA DrainAt ==
  ASSUME ScriptInv, PS2Drain
  PROVE  /\ line \in 1..44 /\ UNCHANGED <<config, running, devs>>
         /\ Script[line].op \in {"drain", "flush"}
         /\ \/ UNCHANGED line /\ out # <<>> /\ out' = Tail(out)
            \/ line' = line + 1 /\ UNCHANGED out /\ (Script[line].op = "drain" => out = <<>>)
<1>1. line \in 1..44 /\ Script[line].op \in {"drain", "flush"}
  <2>1. Scripted("drain") \/ Scripted("flush")
    BY DEF PS2Drain
  <2>2. CASE Scripted("drain")
    BY <2>2, ScriptedAt
  <2>3. CASE Scripted("flush")
    BY <2>3, ScriptedAt
  <2> QED BY <2>1, <2>2, <2>3
<1>2. Scripted("flush") => Script[line].op # "drain"
  BY DEF Scripted, Step
<1>3. UNCHANGED <<config, running, devs>>
  BY DEF PS2Drain
<1>4. \/ UNCHANGED line /\ out # <<>> /\ out' = Tail(out)
      \/ Scripted("drain") /\ out = <<>> /\ line' = line + 1 /\ UNCHANGED out
      \/ Scripted("flush") /\ line' = line + 1 /\ UNCHANGED out
  BY DEF PS2Drain, Goto
<1>5. \/ UNCHANGED line /\ out # <<>> /\ out' = Tail(out)
      \/ line' = line + 1 /\ UNCHANGED out /\ (Script[line].op = "drain" => out = <<>>)
  BY <1>2, <1>4
<1> QED BY <1>1, <1>3, <1>5

LEMMA WaitAt ==
  ASSUME ScriptInv, PS2Wait
  PROVE  /\ line \in 1..44 /\ UNCHANGED <<out, config, running, devs>>
         /\ Script[line].op = "need"
         /\ (line' = line + 1 /\ out # <<>>) \/ line' = Fails(line)
<1>1. line \in 1..44 /\ Script[line].op = "need"
  BY ScriptedAt DEF PS2Wait
<1>2. Target(Step.fail) = Fails(line)
  BY <1>1, ScriptLeads DEF Step, Fails
<1> QED BY <1>1, <1>2 DEF PS2Wait, Goto

LEMMA GetAt ==
  ASSUME ScriptInv, PS2Get
  PROVE  /\ line \in 1..44 /\ UNCHANGED <<config, running, devs>>
         /\ Script[line].op = "get"
         /\ out # <<>> /\ out' = Tail(out)
         /\ \/ line' = line + 1 /\ Head(out).v \in Script[line].v
            \/ line' = Fails(line)
<1>1. line \in 1..44 /\ Script[line].op = "get"
  BY ScriptedAt DEF PS2Get
<1>2. Target(Step.fail) = Fails(line)
  BY <1>1, ScriptLeads DEF Step, Fails
<1> QED BY <1>1, <1>2 DEF PS2Get, Goto, Step

LEMMA ConfigAt ==
  ASSUME ScriptInv, PS2Config
  PROVE  /\ line \in 1..44 /\ line' = line + 1 /\ UNCHANGED <<running, devs>>
         /\ Script[line].op = "config"
         /\ out # <<>> /\ out' = Tail(out)
<1>1. line \in 1..44 /\ Script[line].op = "config"
  BY ScriptedAt DEF PS2Config
<1> QED BY <1>1 DEF PS2Config, Goto

LEMMA NodeAt ==
  ASSUME ScriptInv, PS2Node
  PROVE  /\ line' = line + 1 /\ UNCHANGED <<out, config, running>>
         /\ Script[line].op = "node"
         /\ \E kind :
              /\ (line = 20 /\ kind = "kbd") \/ (line = 44 /\ kind = "mouse")
              /\ devs' = <<[name |-> kind, kind |-> kind]>> \o devs
<1>1. line \in 1..45 /\ Script[line].op = "node"
  BY ScriptedAt DEF PS2Node
<1>2. (line = 20 /\ Script[line].v = "kbd") \/ (line = 44 /\ Script[line].v = "mouse")
  BY <1>1, ScriptLeads
<1>3. devs' = <<[name |-> Script[line].v, kind |-> Script[line].v]>> \o devs
  BY DEF PS2Node, Register, Step
<1> QED BY <1>1, <1>2, <1>3 DEF PS2Node, Goto

LEMMA ReturnAt ==
  ASSUME ScriptInv, PS2Return
  PROVE  line = 45 /\ line' = 0 /\ UNCHANGED <<out, config, devs>>
<1>1. line \in 1..45 /\ Script[line].op = "sti"
  BY ScriptedAt DEF PS2Return
<1>2. line = 45
  BY <1>1, ScriptLeads
<1> QED BY <1>2 DEF PS2Return, Goto

LEMMA StartAt ==
  PS2Start => line = 0 /\ line' = 1 /\ UNCHANGED <<out, config, running, devs>>
  BY DEF PS2Start, Goto

\* Outside the script's steps, and while it runs, nothing happens to it but
\* that a device sends a byte of its own; what is marked then stays marked.
LEMMA ScriptRests ==
  ASSUME ScriptInv, [Next]_vars, ~Converse
  PROVE  UNCHANGED line /\ (line > 0 /\ ~unasked' => UNCHANGED <<out, config>>)
<1>1. CASE Load \/ Enumerate \/ Detect \/ Transfer \/ Mount
  BY <1>1 DEF Load, Enumerate, Detect, Transfer, Mount, ps2Vars
<1>2. CASE Interact \/ Answer1 \/ Types \/ UNCHANGED vars
  BY <1>2 DEF Interact, Answer1, Types, vars, ps2Vars
<1>3. CASE TypeDevice
  <2>1. line = 0
    <3>1. TypeMouse => Going /\ sh = "type"
      BY DEF TypeMouse
    <3>2. TypeKeyboard => Going /\ sh = "type"
      BY DEF TypeKeyboard
    <3> QED BY <1>3, <3>1, <3>2 DEF TypeDevice, ScriptInv
  <2>2. UNCHANGED line
    BY <1>3 DEF TypeDevice, TypeMouse, TypeKeyboard
  <2> QED BY <2>1, <2>2
<1>4. CASE Reported
  BY <1>4 DEF Reported, Reports
<1> QED BY <1>1, <1>2, <1>3, <1>4 DEF Next, Process

LEMMA UnaskedStays == [Next]_vars /\ unasked => unasked'
<1> SUFFICES ASSUME [Next]_vars PROVE unasked => unasked'
  OBVIOUS
<1>1. CASE Load \/ Enumerate \/ Detect \/ Transfer \/ Mount
  BY <1>1 DEF Load, Enumerate, Detect, Transfer, Mount, ps2Vars, sent
<1>2. CASE Interact \/ Answer1 \/ Types \/ UNCHANGED vars
  BY <1>2 DEF Interact, Answer1, Types, vars, ps2Vars, sent
<1>3. CASE TypeDevice
  BY <1>3 DEF TypeDevice, TypeMouse, TypeKeyboard, sent
<1>4. CASE Reported
  BY <1>4 DEF Reported, Reports
<1>5. CASE Converse
  BY <1>5 DEF Converse, PS2Next, PS2Start, PS2Write, PS2Drain, PS2Wait, PS2Get, PS2Config,
              PS2Node, PS2Return, sent
<1> QED BY <1>1, <1>2, <1>3, <1>4, <1>5 DEF Next, Process

LEMMA ScriptInvStep == ScriptInv /\ [Next]_vars => ScriptInv'
<1> SUFFICES ASSUME ScriptInv, [Next]_vars PROVE ScriptInv'
  OBVIOUS
<1>1. Going' => Going
  BY MachineStep
<1>2. line' \in 0..45
  <2>1. CASE Converse
    <3>1. line \in 0..45
      BY DEF ScriptInv
    <3>2. CASE PS2Wait \/ PS2Get
      <4>1. line \in 1..44 /\ (line' = line + 1 \/ line' = Fails(line))
        BY <3>2, WaitAt, GetAt
      <4> QED BY <4>1 DEF Fails
    <3>3. CASE PS2Write \/ PS2Drain \/ PS2Config
      <4>1. line \in 1..44 /\ (line' = line + 1 \/ UNCHANGED line)
        BY <3>3, WriteAt, DrainAt, ConfigAt
      <4> QED BY <4>1
    <3>4. CASE PS2Node
      <4>1. line' = line + 1 /\ line \in {20, 44}
        BY <3>4, NodeAt
      <4> QED BY <4>1
    <3>5. CASE PS2Return \/ PS2Start
      BY <3>5, ReturnAt, StartAt
    <3> QED BY <2>1, <3>2, <3>3, <3>4, <3>5 DEF Converse, PS2Next
  <2>2. CASE ~Converse
    BY <2>2, ScriptRests DEF ScriptInv
  <2> QED BY <2>1, <2>2
<1>3. ASSUME Going', line' > 0 PROVE running' = "ps2"
  <2>1. CASE Converse
    <3>1. Going /\ running = "ps2"
      BY <2>1 DEF Converse, PS2Next, PS2Start, PS2Write, PS2Drain, PS2Wait, PS2Get, PS2Config,
                  PS2Node, PS2Return, Scripted
    <3>2. ~PS2Return
      BY <1>3, ReturnAt
    <3>3. UNCHANGED running
      BY <2>1, <3>2 DEF Converse, PS2Next, PS2Start, PS2Write, PS2Drain, PS2Wait, PS2Get,
                        PS2Config, PS2Node
    <3> QED BY <3>1, <3>3
  <2>2. CASE ~Converse
    <3>1. line > 0 /\ running = "ps2"
      BY <1>1, <1>3, <2>2, ScriptRests DEF ScriptInv
    <3>2. ~PS2Return
      BY <1>3, ReturnAt
    <3> QED BY <3>1, <3>2, RunningStep
            DEF Hands, PCIReturn, IDEReturn, FatReturn, Mounting
  <2> QED BY <2>1, <2>2
<1>4. ASSUME Going', sh' = "type" PROVE running' = "shell"
  <2>1. CASE sh = "type"
    <3>1. running = "shell"
      BY <1>1, <1>4, <2>1 DEF ScriptInv
    <3> QED BY <1>4, <3>1, RunningStep
            DEF Hands, PCIReturn, IDEReturn, FatReturn, Mounting, PS2Return, Scripted
  <2> QED BY <1>4, <2>1, ShStep
<1> QED BY <1>2, <1>3, <1>4 DEF ScriptInv
----------------------------------------------------------------------------
(* PS/2: no answer of one device is taken for one of the other.            *)

\* What is left of a sequence when its first is taken, and one longer.
OneLess(t, s) ==
    /\ Len(s) \in Nat \ {0} /\ Len(t) \in Nat /\ Len(t) = Len(s) - 1
    /\ \A k \in 1..Len(t) : t[k] = s[k + 1]
OneMore(t, s, b) ==
    /\ Len(s) \in Nat /\ Len(t) \in Nat /\ Len(t) = Len(s) + 1 /\ t[Len(t)] = b
    /\ \A k \in 1..Len(s) : t[k] = s[k]
NewFirst(t, s, b) ==
    /\ Len(s) \in Nat /\ Len(t) \in Nat /\ Len(t) = (IF Len(s) = 0 THEN 1 ELSE Len(s))
    /\ t[1] = b
    /\ \A k \in 2..Len(t) : t[k] = s[k]

LEMMA TailIs ==
  ASSUME OutInv, out # <<>>
  PROVE  OneLess(Tail(out), out) /\ Head(out) = out[1] /\ \E S : Tail(out) \in Seq(S)
<1>1. PICK S : out \in Seq(S)
  BY DEF OutInv
<1>2. Len(out) \in Nat \ {0}
  BY <1>1, EmptySeq
<1>3. Tail(out) \in Seq(S) /\ Len(Tail(out)) = Len(out) - 1
  BY <1>1
<1>4. \A k \in 1..Len(Tail(out)) : Tail(out)[k] = out[k + 1]
  BY <1>1, <1>3
<1>5. Head(out) = out[1]
  BY <1>1
<1> QED BY <1>2, <1>3, <1>4, <1>5 DEF OneLess

LEMMA AppendIs ==
  ASSUME OutInv, NEW b
  PROVE  OneMore(Append(out, b), out, b) /\ \E S : Append(out, b) \in Seq(S)
<1>1. PICK S : out \in Seq(S)
  BY DEF OutInv
<1>2. out \in Seq(S \cup {b}) /\ b \in S \cup {b}
  BY <1>1
<1>3. Append(out, b) \in Seq(S \cup {b})
  BY <1>2
<1>4. Len(Append(out, b)) = Len(out) + 1 /\ Len(out) \in Nat
  BY <1>2
<1>5. Append(out, b)[Len(out) + 1] = b /\ \A k \in 1..Len(out) : Append(out, b)[k] = out[k]
  BY <1>2
<1> QED BY <1>3, <1>4, <1>5 DEF OneMore

LEMMA ReplacedIs ==
  ASSUME OutInv, NEW b
  PROVE  NewFirst(Replaced(b), out, b) /\ \E S : Replaced(b) \in Seq(S)
<1> DEFINE n == Len(out)
           rest == SubSeq(out, 2, n)
<1>1. PICK S : out \in Seq(S)
  BY DEF OutInv
<1>2. n \in Nat /\ \A k \in 1..n : out[k] \in S
  BY <1>1
<1>3. /\ rest \in Seq(S) /\ Len(rest) = (IF n = 0 THEN 0 ELSE n - 1)
      /\ \A k \in 1..Len(rest) : rest[k] = out[k + 1]
  <2> HIDE DEF n
  <2>1. \A k \in 2..n : out[k] \in S
    BY <1>2
  <2>2. rest \in Seq(S)
    BY <1>2, <2>1, SubSeqProperties
  <2>3. Len(rest) = (IF n = 0 THEN 0 ELSE n - 1)
    BY <1>2, <2>1, SubSeqProperties
  <2>4. \A k \in 1..Len(rest) : rest[k] = out[k + 1]
    BY <1>2, <2>1, <2>3, SubSeqProperties
  <2> QED BY <2>2, <2>3, <2>4
<1> HIDE DEF rest
<1>4. <<b>> \in Seq(S \cup {b}) /\ rest \in Seq(S \cup {b}) /\ Len(<<b>>) = 1
  BY <1>3
<1>5. Replaced(b) = <<b>> \o rest
  BY DEF Replaced, rest
<1>6. Replaced(b) \in Seq(S \cup {b}) /\ Len(Replaced(b)) = 1 + Len(rest)
  BY <1>4, <1>5
<1>7. Replaced(b)[1] = b
  BY <1>4, <1>5
<1>8. \A k \in 1..Len(rest) : Replaced(b)[k + 1] = rest[k]
  BY <1>4, <1>5
<1>9. \A k \in 2..Len(Replaced(b)) : Replaced(b)[k] = out[k]
  <2> SUFFICES ASSUME NEW k \in 2..Len(Replaced(b)) PROVE Replaced(b)[k] = out[k]
    OBVIOUS
  <2>1. Len(rest) \in Nat
    BY <1>4
  <2>2. k - 1 \in 1..Len(rest) /\ k = (k - 1) + 1
    BY <1>6, <2>1
  <2> HIDE DEF rest
  <2>3. Replaced(b)[(k - 1) + 1] = rest[k - 1] /\ rest[k - 1] = out[(k - 1) + 1]
    BY <1>3, <1>8, <2>2
  <2> QED BY <2>2, <2>3
<1>10. Len(Replaced(b)) = (IF n = 0 THEN 1 ELSE n) /\ Len(Replaced(b)) \in Nat
  BY <1>2, <1>3, <1>6
<1> QED BY <1>2, <1>6, <1>7, <1>9, <1>10 DEF NewFirst

\* What a keyboard answers.
Shown == {238, ACK, 170}
Leftover(s) == \A k \in 1..Len(s) : s[k].v \in Shown

LEMMA KeyboardSends ==
  ASSUME NEW v
  PROVE  (\E S : FromKeyboard(v) \in Seq(S)) /\ Leftover(FromKeyboard(v))
<1>1. PICK a : a = Byte(238, FALSE)
  OBVIOUS
<1>2. PICK b : b = Byte(ACK, FALSE)
  OBVIOUS
<1>3. PICK c : c = Byte(170, FALSE)
  OBVIOUS
<1>4. a.v \in Shown /\ b.v \in Shown /\ c.v \in Shown
  BY <1>1, <1>2, <1>3 DEF Byte, Shown
<1>5. FromKeyboard(v) \in {<<>>, <<a>>, <<b>>, <<b, c>>}
  <2>1. CASE v = 238
    <3>1. FromKeyboard(238) \in {<<>>, <<a>>}
      BY <1>1, <1>2, <1>3 DEF FromKeyboard
    <3> QED BY <2>1, <3>1
  <2>2. CASE v = 255
    <3>1. FromKeyboard(255) \in {<<>>, <<b, c>>}
      BY <1>1, <1>2, <1>3 DEF FromKeyboard
    <3> QED BY <2>2, <3>1
  <2>3. CASE v # 238 /\ v # 255
    <3>1. FromKeyboard(v) \in {<<>>, <<Byte(ACK, FALSE)>>}
      BY <2>3 DEF FromKeyboard
    <3> QED BY <1>2, <3>1
  <2> QED BY <2>1, <2>2, <2>3
<1>6. FromKeyboard(v) \in Seq({a, b, c})
  <2>1. /\ <<>> \in Seq({a, b, c}) /\ <<a>> \in Seq({a, b, c})
        /\ <<b>> \in Seq({a, b, c}) /\ <<b, c>> \in Seq({a, b, c})
    OBVIOUS
  <2> QED BY <1>5, <2>1
<1>7. \A k \in 1..Len(FromKeyboard(v)) : FromKeyboard(v)[k] \in {a, b, c}
  BY <1>6
<1> QED BY <1>4, <1>6, <1>7 DEF Leftover

LEMMA MouseSends ==
  ASSUME NEW v
  PROVE  (\E S : FromMouse(v) \in Seq(S)) /\ (~machine.ps2.mouse => FromMouse(v) = <<>>)
<1>1. PICK a : a = Byte(ACK, TRUE)
  OBVIOUS
<1>2. PICK b : b = Byte(0, TRUE)
  OBVIOUS
<1>3. PICK c : c = Byte(170, TRUE)
  OBVIOUS
<1>4. FromMouse(v) \in {<<>>, <<a>>, <<a, b>>, <<a, c, b>>}
  <2>1. CASE v = 242
    <3>1. FromMouse(242) \in {<<>>, <<a, b>>}
      BY <1>1, <1>2, <1>3 DEF FromMouse
    <3> QED BY <2>1, <3>1
  <2>2. CASE v = 255
    <3>1. FromMouse(255) \in {<<>>, <<a, c, b>>}
      BY <1>1, <1>2, <1>3 DEF FromMouse
    <3> QED BY <2>2, <3>1
  <2>3. CASE v # 242 /\ v # 255
    <3>1. FromMouse(v) \in {<<>>, <<Byte(ACK, TRUE)>>}
      BY <2>3 DEF FromMouse
    <3> QED BY <1>1, <3>1
  <2> QED BY <2>1, <2>2, <2>3
<1>5. ~machine.ps2.mouse => FromMouse(v) = <<>>
  BY DEF FromMouse
<1>6. FromMouse(v) \in Seq({a, b, c})
  <2>1. /\ <<>> \in Seq({a, b, c}) /\ <<a>> \in Seq({a, b, c})
        /\ <<a, b>> \in Seq({a, b, c}) /\ <<a, c, b>> \in Seq({a, b, c})
    OBVIOUS
  <2> QED BY <1>4, <2>1
<1> QED BY <1>5, <1>6

LEMMA OutStep == OutInv /\ [Next]_vars => OutInv'
<1> SUFFICES ASSUME OutInv, [Next]_vars PROVE OutInv'
  OBVIOUS
<1>1. UNCHANGED out => OutInv'
  BY DEF OutInv
<1>2. (out # <<>> /\ out' = Tail(out)) => OutInv'
  BY TailIs DEF OutInv
<1>3. out' = <<>> => OutInv'
  <2>1. <<>> \in Seq({})
    OBVIOUS
  <2> QED BY <2>1 DEF OutInv
<1>4. \A b : out' = Append(out, b) \/ out' = Replaced(b) => OutInv'
  BY AppendIs, ReplacedIs DEF OutInv
<1>5. \A s : (\E S : s \in Seq(S)) /\ out' = out \o s => OutInv'
  <2> SUFFICES ASSUME NEW s, NEW S, s \in Seq(S), out' = out \o s PROVE OutInv'
    OBVIOUS
  <2>1. PICK T : out \in Seq(T)
    BY DEF OutInv
  <2>2. out \in Seq(S \cup T) /\ s \in Seq(S \cup T)
    BY <2>1
  <2>3. out' \in Seq(S \cup T)
    BY <2>2
  <2> QED BY <2>3 DEF OutInv
<1>6. CASE Converse
  <2>1. CASE PS2Write
    <3>1. \A v : out' = FromController(v) => OutInv'
      BY <1>1, <1>4 DEF FromController
    <3>2. \A v : \E S : FromKeyboard(v) \in Seq(S)
      BY KeyboardSends
    <3>3. \A v : \E S : FromMouse(v) \in Seq(S)
      BY MouseSends
    <3> QED BY <1>1, <1>2, <1>3, <1>5, <2>1, <3>1, <3>2, <3>3 DEF PS2Write
  <2>2. CASE PS2Start \/ PS2Wait \/ PS2Node \/ PS2Return
    BY <1>1, <2>2 DEF PS2Start, PS2Wait, PS2Node, PS2Return
  <2>3. CASE PS2Get \/ PS2Config \/ PS2Drain
    BY <1>1, <1>2, <2>3 DEF PS2Get, PS2Config, PS2Drain
  <2> QED BY <1>6, <2>1, <2>2, <2>3 DEF Converse, PS2Next
<1>7. CASE TypeDevice
  <2>1. TypeMouse => UNCHANGED out \/ (out # <<>> /\ out' = Tail(out))
    BY DEF TypeMouse, MouseRead, Nothing, Stored, MouseByte
  <2>2. TypeKeyboard => UNCHANGED out \/ (out # <<>> /\ out' = Tail(out))
    BY DEF TypeKeyboard, KeyFetch
  <2> QED BY <1>1, <1>2, <1>7, <2>1, <2>2 DEF TypeDevice
<1>8. CASE Reported
  BY <1>4, <1>8 DEF Reported, Reports
<1>9. CASE Load \/ Enumerate \/ Detect \/ Transfer \/ Mount \/ Interact
  BY <1>1, <1>9 DEF Load, Enumerate, Detect, Transfer, Mount, Interact, ps2Vars
<1>10. CASE Answer1 \/ Types \/ UNCHANGED vars
  BY <1>1, <1>10 DEF Answer1, Types, vars, ps2Vars
<1> QED BY <1>6, <1>7, <1>8, <1>9, <1>10 DEF Next, Process

\* Without a keyboard its detection ends at the first answer waited for.
KeyboardInv ==
    ~machine.ps2.kbd /\ ~unasked => line \notin 4..20 /\ (line \in {2, 3} => out = <<>>)

LEMMA KeyboardStep == KeyboardInv /\ ScriptInv /\ [Next]_vars => KeyboardInv'
<1> SUFFICES ASSUME KeyboardInv, ScriptInv, [Next]_vars, ~machine.ps2.kbd, ~unasked'
             PROVE  line' \notin 4..20 /\ (line' \in {2, 3} => out' = <<>>)
  BY MachineStep DEF KeyboardInv
<1>1. line \in 0..45 /\ line \notin 4..20 /\ (line \in {2, 3} => out = <<>>)
  BY UnaskedStays DEF KeyboardInv, ScriptInv
<1>2. CASE ~Converse
  BY <1>1, <1>2, ScriptRests
<1>3. CASE Converse
  <2>1. CASE PS2Start \/ PS2Return
    BY <2>1, StartAt, ReturnAt
  <2>2. CASE PS2Write
    <3>1. /\ line \in 1..44 /\ line' = line + 1
          /\ Script[line].op = "key" => out' = out \o FromKeyboard(Script[line].v)
          /\ Script[line].op \notin {"need", "drain"}
      BY <2>2, WriteAt
    <3>2. line # 1
      BY <3>1, ScriptAsks
    <3>3. CASE line = 2
      <4>1. out' = <<>> \o <<>>
        BY <1>1, <3>1, <3>3, ScriptAsks DEF FromKeyboard
      <4> QED BY <3>1, <3>3, <4>1
    <3>4. line # 3
      BY <3>1, ScriptAsks
    <3>5. line = 2 \/ line \in 21..44
      <4>1. line \in 1..44
        BY <3>1
      <4> QED BY <1>1, <3>2, <3>4, <4>1
    <3>6. CASE line \in 21..44
      <4>1. line' = line + 1
        BY <3>1
      <4>2. line' \in 22..45
        BY <3>6, <4>1
      <4> QED BY <4>2
    <3> QED BY <3>3, <3>5, <3>6
  <2>7. CASE PS2Drain
    <3>1. /\ line \in 1..44 /\ Script[line].op \in {"drain", "flush"}
          /\ UNCHANGED line \/ (line' = line + 1 /\ UNCHANGED out
                                 /\ (Script[line].op = "drain" => out = <<>>))
      BY <2>7, DrainAt
    <3>2. line # 2 /\ line # 3
      BY <3>1, ScriptAsks
    <3>3. CASE line = 1
      <4>1. CASE UNCHANGED line
        BY <3>3, <4>1
      <4>2. CASE line' = line + 1 /\ UNCHANGED out /\ out = <<>>
        <5>1. line' = 2
          BY <3>3, <4>2
        <5> QED BY <4>2, <5>1
      <4> QED BY <3>1, <3>3, <4>1, <4>2, ScriptAsks
    <3>4. CASE line \in 21..44
      <4>1. line' \in 21..45
        BY <3>1, <3>4
      <4> QED BY <4>1
    <3> QED BY <1>1, <3>1, <3>2, <3>3, <3>4
  <2>3. CASE PS2Wait
    <3>1. /\ line \in 1..44 /\ Script[line].op = "need"
          /\ (line' = line + 1 /\ out # <<>>) \/ line' = Fails(line)
      BY <2>3, WaitAt
    <3>2. line # 1 /\ line # 2
      BY <3>1, ScriptAsks
    <3>3. line = 3 \/ line \in 21..44
      BY <1>1, <3>1, <3>2
    <3>4. line # 3 \/ line' = 21
      BY <1>1, <3>1 DEF Fails
    <3>5. line' = line + 1 \/ line' = 21 \/ line' = 45 \/ line = 3
      BY <3>1, <3>3 DEF Fails
    <3>6. line' \in 21..45
      BY <3>3, <3>4, <3>5
    <3> QED BY <3>6
  <2>4. CASE PS2Get
    <3>1. /\ line \in 1..44 /\ Script[line].op = "get"
          /\ line' = line + 1 \/ line' = Fails(line)
      BY <2>4, GetAt
    <3>2. line # 1 /\ line # 2 /\ line # 3
      BY <3>1, ScriptAsks
    <3>3. line \in 21..44
      BY <1>1, <3>1, <3>2
    <3>4. line' = line + 1 \/ line' = 45
      BY <3>1, <3>3 DEF Fails
    <3>5. line' \in 22..45
      BY <3>3, <3>4
    <3> QED BY <3>5
  <2>5. CASE PS2Config
    <3>1. line \in 1..44 /\ Script[line].op = "config" /\ line' = line + 1
      BY <2>5, ConfigAt
    <3>2. line # 1 /\ line # 2 /\ line # 3
      BY <3>1, ScriptAsks
    <3>3. line \in 21..44
      BY <1>1, <3>1, <3>2
    <3> QED BY <3>1, <3>3
  <2>6. CASE PS2Node
    <3>1. line' = line + 1 /\ line \in {20, 44}
      BY <2>6, NodeAt
    <3> QED BY <1>1, <3>1
  <2> QED BY <1>3, <2>1, <2>2, <2>3, <2>4, <2>5, <2>6, <2>7 DEF Converse, PS2Next
<1> QED BY <1>2, <1>3

\* What the controller's output holds without a mouse: the leftovers of a
\* keyboard, but for the first byte where an answer replaces it, or for the
\* last where it queues.
Trailing(s) == \A k \in 2..Len(s) : s[k].v \in Shown
AskedOnce(s, c) ==
    /\ Len(s) >= 1 /\ s[Len(s)].v = c
    /\ \A k \in 1..(Len(s) - 1) : s[k].v \in Shown
AskedTwice(s, c) ==
    /\ Len(s) >= 2 /\ s[Len(s)].v = c /\ s[Len(s) - 1].v = c
    /\ \A k \in 1..(Len(s) - 2) : s[k].v \in Shown
GotOne(s) ==
    /\ Len(s) >= 1
    /\ Len(s) = 2 => s[1].v = s[2].v
    /\ Len(s) >= 3 => s[1].v \in Shown
Tested(s) ==
    /\ Len(s) >= 2 /\ s[Len(s)].v = 0
    /\ Len(s) = 3 => s[1].v = s[2].v
    /\ Len(s) >= 4 => s[1].v \in Shown
Zeroed(s) == Len(s) >= 1 /\ s[1].v = 0

LEMMA LeftoverLess ==
  ASSUME NEW s, NEW t, OneLess(t, s), Trailing(s)
  PROVE  Leftover(t)
  BY DEF OneLess, Leftover, Trailing

LEMMA LeftoverTrails ==
  ASSUME NEW s, Len(s) \in Nat, Leftover(s)
  PROVE  Trailing(s)
  BY DEF Leftover, Trailing

LEMMA TrailingNew ==
  ASSUME NEW s, NEW t, NEW b, NewFirst(t, s, b), Trailing(s)
  PROVE  Trailing(t)
<1> SUFFICES ASSUME NEW k \in 2..Len(t) PROVE t[k].v \in Shown
  BY DEF Trailing
<1>1. Len(s) # 0 /\ Len(t) = Len(s)
  BY DEF NewFirst
<1>2. k \in 2..Len(s) /\ t[k] = s[k]
  BY <1>1 DEF NewFirst
<1> QED BY <1>2 DEF Trailing

LEMMA LeftoverJoin ==
  ASSUME OutInv, Leftover(out), NEW s, NEW S, s \in Seq(S), Leftover(s)
  PROVE  Leftover(out \o s)
<1>1. PICK T : out \in Seq(T)
  BY DEF OutInv
<1> DEFINE m == Len(out)
           n == Len(s)
<1>2. out \in Seq(T \cup S) /\ s \in Seq(T \cup S) /\ m \in Nat /\ n \in Nat
  BY <1>1
<1>3. Len(out \o s) = m + n
  BY <1>2
<1>4. \A k \in 1..m : (out \o s)[k] = out[k]
  BY <1>2
<1>5. \A k \in 1..n : (out \o s)[m + k] = s[k]
  BY <1>2
<1> SUFFICES ASSUME NEW k \in 1..Len(out \o s) PROVE (out \o s)[k].v \in Shown
  BY DEF Leftover
<1>6. CASE k <= m
  BY <1>2, <1>4, <1>6 DEF Leftover
<1>7. CASE k > m
  <2>1. k - m \in 1..n
    <3> HIDE DEF m, n
    <3> QED BY <1>2, <1>3, <1>7
  <2>2. k = m + (k - m)
    <3> HIDE DEF m
    <3> QED BY <1>2
  <2>3. (out \o s)[m + (k - m)] = s[k - m]
    BY <1>5, <2>1
  <2> QED BY <2>1, <2>2, <2>3 DEF Leftover
<1>8. k <= m \/ k > m
  <2> HIDE DEF m
  <2> QED BY <1>2
<1> QED BY <1>6, <1>7, <1>8

LEMMA AskedOnceMore ==
  ASSUME NEW s, NEW t, NEW b, OneMore(t, s, b), Leftover(s)
  PROVE  AskedOnce(t, b.v)
<1>1. Len(t) - 1 = Len(s)
  BY DEF OneMore
<1>2. \A k \in 1..(Len(t) - 1) : t[k].v \in Shown
  BY <1>1 DEF OneMore, Leftover
<1>3. Len(t) >= 1 /\ t[Len(t)].v = b.v
  BY DEF OneMore
<1> QED BY <1>2, <1>3 DEF AskedOnce

LEMMA AskedTwiceMore ==
  ASSUME NEW s, NEW t, NEW b, OneMore(t, s, b), AskedOnce(s, b.v)
  PROVE  AskedTwice(t, b.v)
<1>1. Len(t) - 1 = Len(s) /\ Len(s) \in Nat /\ Len(s) >= 1 /\ Len(t) \in Nat
  BY DEF OneMore, AskedOnce
<1>2. t[Len(t)] = b /\ \A k \in 1..Len(s) : t[k] = s[k]
  BY DEF OneMore
<1>3. t[Len(t) - 1].v = b.v
  <2>1. Len(s) \in 1..Len(s)
    BY <1>1
  <2>2. t[Len(s)] = s[Len(s)] /\ s[Len(s)].v = b.v
    BY <1>2, <2>1 DEF AskedOnce
  <2> QED BY <1>1, <2>2
<1>4. \A k \in 1..(Len(t) - 2) : t[k].v \in Shown
  <2> SUFFICES ASSUME NEW k \in 1..(Len(t) - 2) PROVE t[k].v \in Shown
    OBVIOUS
  <2>1. k \in 1..Len(s) /\ k \in 1..(Len(s) - 1)
    BY <1>1
  <2> QED BY <1>2, <2>1 DEF AskedOnce
<1>5. Len(t) >= 2
  BY <1>1
<1> QED BY <1>2, <1>3, <1>4, <1>5 DEF AskedTwice

LEMMA GotOneLess ==
  ASSUME NEW s, NEW t, NEW c, OneLess(t, s), AskedTwice(s, c)
  PROVE  GotOne(t)
<1>1. Len(s) \in Nat /\ Len(t) \in Nat /\ Len(t) = Len(s) - 1 /\ Len(s) >= 2
  BY DEF OneLess, AskedTwice
<1>2. \A k \in 1..Len(t) : t[k] = s[k + 1]
  BY DEF OneLess
<1>3. Len(t) = 2 => t[1].v = t[2].v
  <2> SUFFICES ASSUME Len(t) = 2 PROVE t[1].v = t[2].v
    OBVIOUS
  <2>1. Len(s) = 3 /\ t[1] = s[2] /\ t[2] = s[3]
    <3>1. t[1] = s[1 + 1] /\ t[2] = s[2 + 1]
      BY <1>2
    <3>2. PICK n : n = Len(s)
      OBVIOUS
    <3>3. n \in Nat /\ 2 = n - 1
      BY <1>1, <3>2
    <3>4. n = 3
      BY <3>3
    <3> QED BY <3>1, <3>2, <3>4
  <2>2. s[3].v = c /\ s[3 - 1].v = c
    BY <2>1 DEF AskedTwice
  <2> QED BY <2>1, <2>2
<1>4. Len(t) >= 3 => t[1].v \in Shown
  <2> SUFFICES ASSUME Len(t) >= 3 PROVE t[1].v \in Shown
    OBVIOUS
  <2>1. 2 \in 1..(Len(s) - 2) /\ 1 \in 1..Len(t)
    BY <1>1
  <2>2. t[1] = s[1 + 1]
    BY <1>2, <2>1
  <2> QED BY <2>1, <2>2 DEF AskedTwice
<1>5. Len(t) >= 1
  BY <1>1
<1> QED BY <1>3, <1>4, <1>5 DEF GotOne

LEMMA TestedMore ==
  ASSUME NEW s, NEW t, NEW b, OneMore(t, s, b), GotOne(s), b.v = 0
  PROVE  Tested(t)
<1>1. Len(t) = Len(s) + 1 /\ Len(s) \in Nat /\ Len(s) >= 1
  BY DEF OneMore, GotOne
<1>2. t[Len(t)] = b /\ \A k \in 1..Len(s) : t[k] = s[k]
  BY DEF OneMore
<1>3. Len(t) = 3 => t[1].v = t[2].v
  <2> SUFFICES ASSUME Len(t) = 3 PROVE t[1].v = t[2].v
    OBVIOUS
  <2>1. Len(s) = 2
    <3>1. PICK n : n = Len(s)
      OBVIOUS
    <3>2. n \in Nat /\ 3 = n + 1
      BY <1>1, <3>1
    <3>3. n = 2
      BY <3>2
    <3> QED BY <3>1, <3>3
  <2>2. t[1] = s[1] /\ t[2] = s[2]
    BY <1>2, <2>1
  <2> QED BY <2>1, <2>2 DEF GotOne
<1>4. Len(t) >= 4 => t[1].v \in Shown
  <2> SUFFICES ASSUME Len(t) >= 4 PROVE t[1].v \in Shown
    OBVIOUS
  <2>1. Len(s) >= 3 /\ 1 \in 1..Len(s)
    BY <1>1
  <2> QED BY <1>2, <2>1 DEF GotOne
<1>5. Len(t) >= 2 /\ t[Len(t)].v = 0
  BY <1>1, <1>2
<1> QED BY <1>3, <1>4, <1>5 DEF Tested

LEMMA ZeroedLess ==
  ASSUME NEW s, NEW t, OneLess(t, s), Tested(s), s[1].v = 0
  PROVE  Zeroed(t)
<1>1. Len(s) \in Nat /\ Len(t) = Len(s) - 1 /\ Len(s) >= 2
  BY DEF OneLess, Tested
<1>2. Len(s) < 4
  <2>1. 0 \notin Shown
    BY DEF Shown, ACK
  <2> QED BY <1>1, <2>1 DEF Tested
<1>3. t[1] = s[1 + 1]
  BY <1>1 DEF OneLess
<1>4. s[2].v = 0
  <2>1. CASE Len(s) = 2
    BY <2>1 DEF Tested
  <2>2. CASE Len(s) = 3
    BY <2>2 DEF Tested
  <2> QED BY <1>1, <1>2, <2>1, <2>2
<1> QED BY <1>1, <1>3, <1>4 DEF Zeroed

LEMMA ScriptPauses == Script[20].op = "node"
<1>1. Script[20] = Do("node", "kbd", "")
  BY ScriptParts
<1>2. Do("node", "kbd", "").op = "node"
  BY DEF Do
<1> QED BY <1>1, <1>2

\* No command before the mouse's detection asks the controller anything.
LEMMA ScriptQuiet ==
  \A l \in 1..21 : Script[l].op = "cmd" => Script[l].v \notin {32, 169}
<1> DEFINE a == KeyboardPresent
           b == KeyboardInitialise
<1>1. /\ a[1].op # "cmd" /\ a[2].op # "cmd" /\ a[3].op # "cmd" /\ a[4].op # "cmd"
      /\ a[5].op # "cmd" /\ a[6].op # "cmd" /\ a[7].op # "cmd" /\ a[8].op # "cmd"
      /\ a[9].op # "cmd"
  BY DEF KeyboardPresent, Do
<1>2. /\ b[1].v = 174
      /\ b[2].op # "cmd" /\ b[3].op # "cmd" /\ b[4].op # "cmd" /\ b[5].op # "cmd"
      /\ b[6].op # "cmd" /\ b[7].op # "cmd" /\ b[8].op # "cmd" /\ b[9].op # "cmd"
      /\ b[10].op # "cmd"
  BY DEF KeyboardInitialise, Do
<1>3. \A l \in 1..9 : Script[l] = a[l]
  BY ScriptParts
<1>4. \A l \in 1..10 : Script[9 + l] = b[l]
  BY ScriptParts
<1>5. Script[20].op # "cmd" /\ Script[21].v = 168
  BY ScriptPauses, ScriptAsks
<1> HIDE DEF a, b
<1>6. \A l \in 1..9 : a[l].op # "cmd"
  <2>1. \A l \in 1..9 : l = 1 \/ l = 2 \/ l = 3 \/ l = 4 \/ l = 5 \/ l = 6 \/ l = 7 \/ l = 8 \/ l = 9
    OBVIOUS
  <2> QED BY <1>1, <2>1
<1>7. \A l \in 1..10 : b[l].op = "cmd" => b[l].v = 174
  <2>1. \A l \in 1..10 : \/ l = 1 \/ l = 2 \/ l = 3 \/ l = 4 \/ l = 5 \/ l = 6 \/ l = 7
                         \/ l = 8 \/ l = 9 \/ l = 10
    OBVIOUS
  <2> QED BY <1>2, <2>1
<1> SUFFICES ASSUME NEW l \in 1..21, Script[l].op = "cmd"
             PROVE  Script[l].v \notin {32, 169}
  OBVIOUS
<1>8. CASE l \in 1..9
  BY <1>3, <1>6, <1>8
<1>9. CASE l \in 10..19
  <2>1. l - 9 \in 1..10 /\ l = 9 + (l - 9)
    BY <1>9
  <2>2. Script[l] = b[l - 9]
    BY <1>4, <2>1
  <2> QED BY <1>7, <2>1, <2>2
<1>10. l \in 1..9 \/ l \in 10..19 \/ l = 20 \/ l = 21
  OBVIOUS
<1> QED BY <1>5, <1>8, <1>9, <1>10

\* Each line is a step of one action.
LEMMA StepOf ==
  ASSUME ScriptInv, Converse
  PROVE  /\ line = 0 => PS2Start
         /\ line = 45 => PS2Return
         /\ line \in 1..44 =>
              /\ Script[line].op = "need" => PS2Wait
              /\ Script[line].op = "get" => PS2Get
              /\ Script[line].op = "config" => PS2Config
              /\ Script[line].op = "drain" => PS2Drain
              /\ Script[line].op \in {"cmd", "key", "aux", "opt"} => PS2Write
<1>1. PS2Start => line = 0
  BY StartAt
<1>2. PS2Return => line = 45
  BY ReturnAt
<1>3. PS2Write => line \in 1..44 /\ Script[line].op \in {"cmd", "key", "aux", "opt"}
  BY WriteAt
<1>9. PS2Drain => line \in 1..44 /\ Script[line].op \in {"drain", "flush"}
  BY DrainAt
<1>4. PS2Wait => line \in 1..44 /\ Script[line].op = "need"
  BY WaitAt
<1>5. PS2Get => line \in 1..44 /\ Script[line].op = "get"
  BY GetAt
<1>6. PS2Config => line \in 1..44 /\ Script[line].op = "config"
  BY ConfigAt
<1>7. PS2Node => line \in {20, 44} /\ Script[line].op = "node"
  BY NodeAt
<1>8. \/ PS2Start \/ PS2Write \/ PS2Drain \/ PS2Wait \/ PS2Get \/ PS2Config \/ PS2Node
      \/ PS2Return
  BY DEF Converse, PS2Next
<1> QED BY <1>1, <1>2, <1>3, <1>4, <1>5, <1>6, <1>7, <1>8, <1>9

\* Until the mouse is asked for, a keyboard's answers are all there is.
LEMMA LeftoverStep ==
  ASSUME ScriptInv, OutInv, Converse, ~machine.ps2.mouse, line \in 2..21, Leftover(out)
  PROVE  Leftover(out') /\ line' \in 2..22
<1>1. (out # <<>> /\ out' = Tail(out)) => Leftover(out')
  <2> SUFFICES ASSUME out # <<>>, out' = Tail(out) PROVE Leftover(out')
    OBVIOUS
  <2>1. OneLess(Tail(out), out)
    BY TailIs
  <2>2. Trailing(out)
    BY <2>1, LeftoverTrails DEF OneLess
  <2> QED BY <2>1, <2>2, LeftoverLess
<1>2. CASE PS2Write
  <2>1. line' \in 2..22
    <3>1. line' = line + 1
      BY <1>2, WriteAt
    <3> QED BY <3>1
  <2>2. CASE Script[line].op = "cmd"
    <3>1. out' = FromController(Script[line].v) /\ Script[line].v \notin {32, 169}
      BY <1>2, <2>2, WriteAt, ScriptQuiet
    <3>2. UNCHANGED out
      BY <3>1 DEF FromController
    <3> QED BY <2>1, <3>2
  <2>3. CASE Script[line].op = "key"
    <3>1. PICK v : v = Script[line].v
      OBVIOUS
    <3>2. out' = out \o FromKeyboard(v)
      BY <1>2, <2>3, <3>1, WriteAt
    <3>3. PICK S : FromKeyboard(v) \in Seq(S)
      BY KeyboardSends
    <3>4. Leftover(FromKeyboard(v))
      BY KeyboardSends
    <3> QED BY <2>1, <3>2, <3>3, <3>4, LeftoverJoin
  <2>4. CASE Script[line].op = "aux"
    <3>1. out' = out \o <<>>
      BY <1>2, <2>4, WriteAt, MouseSends
    <3>2. <<>> \in Seq({}) /\ Leftover(<<>>)
      BY DEF Leftover
    <3> QED BY <2>1, <3>1, <3>2, LeftoverJoin
  <2>5. CASE Script[line].op = "opt"
    <3>1. UNCHANGED out \/ (out # <<>> /\ out' = Tail(out))
      BY <1>2, <2>5, WriteAt
    <3> QED BY <1>1, <2>1, <3>1
  <2>6. Script[line].op \in {"cmd", "key", "aux", "opt"}
    BY <1>2, WriteAt
  <2> QED BY <2>2, <2>3, <2>4, <2>5, <2>6
<1>8. CASE PS2Drain
  <2>1. UNCHANGED out \/ (out # <<>> /\ out' = Tail(out))
    BY <1>8, DrainAt
  <2>2. line' = line + 1 \/ line' = line
    BY <1>8, DrainAt
  <2>3. line' \in 2..22
    BY <2>2
  <2> QED BY <1>1, <2>1, <2>3
<1>3. CASE PS2Wait
  <2>1. UNCHANGED out /\ (line' = line + 1 \/ line' = Fails(line)) /\ line \in 2..19
    <3>1. Script[line].op = "need"
      BY <1>3, WaitAt
    <3>2. line # 20 /\ line # 21
      BY <3>1, ScriptAsks, ScriptPauses
    <3>3. line \in 2..19
      BY <3>2
    <3> QED BY <1>3, <3>3, WaitAt
  <2>2. line' \in 2..22
    BY <2>1 DEF Fails
  <2> QED BY <2>1, <2>2
<1>4. CASE PS2Get
  <2>1. line' = line + 1 \/ line' = Fails(line)
    BY <1>4, GetAt
  <2>2. Leftover(out')
    BY <1>1, <1>4, GetAt
  <2>3. line \in 2..19
    <3>1. Script[line].op = "get"
      BY <1>4, GetAt
    <3>2. line # 20 /\ line # 21
      BY <3>1, ScriptAsks, ScriptPauses
    <3> QED BY <3>2
  <2>4. line' \in 2..22
    BY <2>1, <2>3 DEF Fails
  <2> QED BY <2>2, <2>4
<1>5. CASE PS2Config
  <2>1. line' = line + 1 /\ out # <<>> /\ out' = Tail(out)
    BY <1>5, ConfigAt
  <2>2. line' \in 2..22
    BY <2>1
  <2> QED BY <1>1, <2>1, <2>2
<1>6. CASE PS2Node
  <2>1. line' = line + 1 /\ UNCHANGED out
    BY <1>6, NodeAt
  <2>2. line' \in 2..22
    BY <2>1
  <2> QED BY <2>1, <2>2
<1>7. ~PS2Start /\ ~PS2Return
  <2>1. PS2Start => line = 0
    BY StartAt
  <2>2. PS2Return => line = 45
    BY ReturnAt
  <2> QED BY <2>1, <2>2
<1> QED BY <1>2, <1>3, <1>4, <1>5, <1>6, <1>7, <1>8 DEF Converse, PS2Next

\* What the lines of the mouse's detection do without a mouse.
LEMMA DetectionAsks ==
  ASSUME ScriptInv, Converse, ~machine.ps2.mouse
  PROVE  /\ line = 22 => line' = 23 /\ out' = FromController(32) /\ UNCHANGED config
         /\ line = 24 => line' = 25 /\ out' = FromController(32) /\ UNCHANGED config
         /\ line = 26 => line' = 27 /\ out' = FromController(169)
<1>1. line = 22 => line' = 23 /\ out' = FromController(32) /\ UNCHANGED config
  <2> SUFFICES ASSUME line = 22 PROVE line' = 23 /\ out' = FromController(32) /\ UNCHANGED config
    OBVIOUS
  <2>1. PS2Write
    BY StepOf, ScriptAsks
  <2>2. line' = line + 1 /\ UNCHANGED config /\ out' = FromController(Script[line].v)
    BY <2>1, WriteAt, ScriptAsks
  <2> QED BY <2>2, ScriptAsks
<1>2. line = 24 => line' = 25 /\ out' = FromController(32) /\ UNCHANGED config
  <2> SUFFICES ASSUME line = 24 PROVE line' = 25 /\ out' = FromController(32) /\ UNCHANGED config
    OBVIOUS
  <2>1. PS2Write
    BY StepOf, ScriptAsks
  <2>2. line' = line + 1 /\ UNCHANGED config /\ out' = FromController(Script[line].v)
    BY <2>1, WriteAt, ScriptAsks
  <2> QED BY <2>2, ScriptAsks
<1>3. line = 26 => line' = 27 /\ out' = FromController(169)
  <2> SUFFICES ASSUME line = 26 PROVE line' = 27 /\ out' = FromController(169)
    OBVIOUS
  <2>1. PS2Write
    BY StepOf, ScriptAsks
  <2>2. line' = line + 1 /\ UNCHANGED config /\ out' = FromController(Script[line].v)
    BY <2>1, WriteAt, ScriptAsks
  <2> QED BY <2>2, ScriptAsks
<1> QED BY <1>1, <1>2, <1>3

LEMMA DetectionWaits ==
  ASSUME ScriptInv, Converse, ~machine.ps2.mouse
  PROVE  /\ line = 23 => line' \in {24, 45} /\ UNCHANGED <<out, config>>
         /\ line = 27 => line' \in {28, 45} /\ UNCHANGED out
         /\ line = 30 => line' \in {31, 45} /\ UNCHANGED out
         /\ line = 32 => line' \in {33, 45} /\ UNCHANGED out
<1>1. line = 23 => line' \in {24, 45} /\ UNCHANGED <<out, config>>
  <2> SUFFICES ASSUME line = 23 PROVE line' \in {24, 45} /\ UNCHANGED <<out, config>>
    OBVIOUS
  <2>1. PS2Wait
    BY StepOf, ScriptAsks
  <2> QED BY <2>1, WaitAt DEF Fails
<1>2. line = 27 => line' \in {28, 45} /\ UNCHANGED out
  <2> SUFFICES ASSUME line = 27 PROVE line' \in {28, 45} /\ UNCHANGED out
    OBVIOUS
  <2>1. PS2Wait
    BY StepOf, ScriptAsks
  <2> QED BY <2>1, WaitAt DEF Fails
<1>3. line = 30 => line' \in {31, 45} /\ UNCHANGED out
  <2> SUFFICES ASSUME line = 30 PROVE line' \in {31, 45} /\ UNCHANGED out
    OBVIOUS
  <2>1. PS2Wait
    BY StepOf, ScriptAsks
  <2> QED BY <2>1, WaitAt DEF Fails
<1>4. line = 32 => line' \in {33, 45} /\ UNCHANGED out
  <2> SUFFICES ASSUME line = 32 PROVE line' \in {33, 45} /\ UNCHANGED out
    OBVIOUS
  <2>1. PS2Wait
    BY StepOf, ScriptAsks
  <2> QED BY <2>1, WaitAt DEF Fails
<1> QED BY <1>1, <1>2, <1>3, <1>4

LEMMA DetectionGets ==
  ASSUME ScriptInv, Converse, ~machine.ps2.mouse
  PROVE  /\ line = 25 => line' = 26 /\ out # <<>> /\ out' = Tail(out)
         /\ line = 28 => /\ out # <<>> /\ out' = Tail(out)
                         /\ line' = 45 \/ (line' = 29 /\ Head(out).v = 0)
         /\ line = 31 => /\ out # <<>> /\ out' = Tail(out)
                         /\ line' = 45 \/ (line' = 32 /\ Head(out).v = ACK)
         /\ line = 33 => /\ out # <<>> /\ out' = Tail(out)
                         /\ line' = 45 \/ (line' = 34 /\ Head(out).v \in {0, 3, 4})
<1>1. line = 25 => line' = 26 /\ out # <<>> /\ out' = Tail(out)
  <2> SUFFICES ASSUME line = 25 PROVE line' = 26 /\ out # <<>> /\ out' = Tail(out)
    OBVIOUS
  <2>1. PS2Config
    BY StepOf, ScriptAsks
  <2> QED BY <2>1, ConfigAt
<1>2. line = 28 => /\ out # <<>> /\ out' = Tail(out)
                   /\ line' = 45 \/ (line' = 29 /\ Head(out).v = 0)
  <2> SUFFICES ASSUME line = 28
               PROVE  /\ out # <<>> /\ out' = Tail(out)
                      /\ line' = 45 \/ (line' = 29 /\ Head(out).v = 0)
    OBVIOUS
  <2>1. PS2Get
    BY StepOf, ScriptAsks
  <2>2. Fails(line) = 45 /\ line + 1 = 29
    BY DEF Fails
  <2> QED BY <2>1, <2>2, GetAt, ScriptAsks
<1>3. line = 31 => /\ out # <<>> /\ out' = Tail(out)
                   /\ line' = 45 \/ (line' = 32 /\ Head(out).v = ACK)
  <2> SUFFICES ASSUME line = 31
               PROVE  /\ out # <<>> /\ out' = Tail(out)
                      /\ line' = 45 \/ (line' = 32 /\ Head(out).v = ACK)
    OBVIOUS
  <2>1. PS2Get
    BY StepOf, ScriptAsks
  <2>2. Fails(line) = 45 /\ line + 1 = 32
    BY DEF Fails
  <2> QED BY <2>1, <2>2, GetAt, ScriptAsks
<1>4. line = 33 => /\ out # <<>> /\ out' = Tail(out)
                   /\ line' = 45 \/ (line' = 34 /\ Head(out).v \in {0, 3, 4})
  <2> SUFFICES ASSUME line = 33
               PROVE  /\ out # <<>> /\ out' = Tail(out)
                      /\ line' = 45 \/ (line' = 34 /\ Head(out).v \in {0, 3, 4})
    OBVIOUS
  <2>1. PS2Get
    BY StepOf, ScriptAsks
  <2>2. Fails(line) = 45 /\ line + 1 = 34
    BY DEF Fails
  <2> QED BY <2>1, <2>2, GetAt, ScriptAsks
<1> QED BY <1>1, <1>2, <1>3, <1>4

LEMMA DetectionTells ==
  ASSUME ScriptInv, OutInv, Converse, ~machine.ps2.mouse, line = 29
  PROVE  line' = 30 /\ UNCHANGED out
<1>1. PS2Write
  BY StepOf, ScriptAsks
<1>2. line' = 30 /\ out' = out \o FromMouse(242)
  BY <1>1, WriteAt, ScriptAsks
<1>3. PICK S : out \in Seq(S)
  BY DEF OutInv
<1>4. out \o <<>> = out
  BY <1>3
<1> QED BY <1>2, <1>4, MouseSends

\* Without a mouse its detection ends before the last answer it waits for:
\* at an answer that is none of an identity, or at the result of the test.
ReplacedInv ==
    /\ line \in {23, 24, 25, 27, 28} => Trailing(out)
    /\ line = 26 \/ line \in 29..33 => Leftover(out)
QueuedInv ==
    /\ line \in 23..24 => AskedOnce(out, config)
    /\ line = 25 => AskedTwice(out, config)
    /\ line = 26 => GotOne(out)
    /\ line \in 27..28 => Tested(out)
    /\ line \in 29..31 => Zeroed(out)
    /\ line \notin 32..33
MouseInv ==
    ~machine.ps2.mouse /\ ~unasked =>
        /\ line \notin 34..44
        /\ line \in 2..22 => Leftover(out)
        /\ machine.ps2.replaces => ReplacedInv
        /\ ~machine.ps2.replaces => QueuedInv

LEMMA ReplacedStep ==
  ASSUME ScriptInv, OutInv, Converse, ~machine.ps2.mouse, machine.ps2.replaces,
         line \in 22..33, ReplacedInv, line = 22 => Leftover(out)
  PROVE  ReplacedInv' /\ line' \in 23..33 \cup {45}
<1>1. Len(out) \in Nat
  BY DEF OutInv
<1>2. out # <<>> => OneLess(Tail(out), out) /\ Head(out) = out[1]
  BY TailIs
<1>3. Leftover(out) => Trailing(out)
  BY <1>1, LeftoverTrails
<1>4. Trailing(out) /\ out # <<>> => Leftover(Tail(out))
  BY <1>2, LeftoverLess
<1>5. \A v \in {32, 169} : Trailing(out) => Trailing(FromController(v))
  <2> SUFFICES ASSUME NEW v \in {32, 169}, Trailing(out) PROVE Trailing(FromController(v))
    OBVIOUS
  <2> DEFINE b == Byte(IF v = 32 THEN config ELSE 0, FALSE)
  <2>1. FromController(v) = Replaced(b)
    BY DEF FromController
  <2> HIDE DEF b
  <2>2. NewFirst(Replaced(b), out, b)
    BY ReplacedIs
  <2>3. Trailing(Replaced(b))
    BY <2>2, TrailingNew
  <2> QED BY <2>1, <2>3
<1>6. CASE line \in {22, 24, 26}
  <2>1. Trailing(out)
    BY <1>3, <1>6 DEF ReplacedInv
  <2>2. line' \in {23, 25, 27} /\ (out' = FromController(32) \/ out' = FromController(169))
    BY <1>6, DetectionAsks
  <2>3. Trailing(out')
    BY <1>5, <2>1, <2>2
  <2> QED BY <2>2, <2>3 DEF ReplacedInv
<1>7. CASE line \in {23, 27}
  <2>1. line' \in {24, 28, 45} /\ UNCHANGED out
    BY <1>7, DetectionWaits
  <2>2. Trailing(out')
    BY <1>7, <2>1 DEF ReplacedInv
  <2> QED BY <2>1, <2>2 DEF ReplacedInv
<1>8. CASE line \in {29, 30, 32}
  <2>1. line' \in {30, 31, 33, 45} /\ UNCHANGED out
    BY <1>8, DetectionWaits, DetectionTells
  <2>2. Leftover(out')
    BY <1>8, <2>1 DEF ReplacedInv
  <2> QED BY <2>1, <2>2 DEF ReplacedInv
<1>9. CASE line \in {25, 28}
  <2>1. line' \in {26, 29, 45} /\ out # <<>> /\ out' = Tail(out)
    BY <1>9, DetectionGets
  <2>2. Leftover(out')
    BY <1>4, <1>9, <2>1 DEF ReplacedInv
  <2> QED BY <2>1, <2>2 DEF ReplacedInv
<1>10. CASE line \in {31, 33}
  <2>1. Leftover(out) /\ Trailing(out)
    BY <1>3, <1>10 DEF ReplacedInv
  <2>2. out # <<>> /\ out' = Tail(out)
    BY <1>10, DetectionGets
  <2>3. Leftover(out')
    BY <1>4, <2>1, <2>2
  <2>4. Head(out).v \in Shown
    <3>1. 1 \in 1..Len(out) /\ Head(out) = out[1]
      BY <1>2, <2>2 DEF OneLess
    <3> QED BY <2>1, <3>1 DEF Leftover
  <2>5. Head(out).v \notin {0, 3, 4}
    BY <2>4 DEF Shown, ACK
  <2>6. line' \in {32, 45}
    BY <1>10, <2>5, DetectionGets
  <2> QED BY <2>3, <2>6 DEF ReplacedInv
<1>11. line \in {22, 24, 26} \cup {23, 27} \cup {29, 30, 32} \cup {25, 28} \cup {31, 33}
  OBVIOUS
<1> QED BY <1>6, <1>7, <1>8, <1>9, <1>10, <1>11

LEMMA QueuedStep ==
  ASSUME ScriptInv, OutInv, Converse, ~machine.ps2.mouse, ~machine.ps2.replaces,
         line \in 22..33, QueuedInv, line = 22 => Leftover(out)
  PROVE  QueuedInv' /\ line' \in 23..33 \cup {45}
<1>1. out # <<>> => OneLess(Tail(out), out) /\ Head(out) = out[1]
  BY TailIs
<1>2. PICK b : b = Byte(config, FALSE)
  OBVIOUS
<1>3. PICK z : z = Byte(0, FALSE)
  OBVIOUS
<1>4. b.v = config /\ z.v = 0
  BY <1>2, <1>3 DEF Byte
<1>5. FromController(32) = Append(out, b) /\ FromController(169) = Append(out, z)
  <2>1. FromController(32) = Append(out, Byte(config, FALSE))
    BY DEF FromController
  <2>2. FromController(169) = Append(out, Byte(0, FALSE))
    <3>1. FromController(169) = Append(out, Byte(IF 169 = 32 THEN config ELSE 0, FALSE))
      BY DEF FromController
    <3>2. (IF 169 = 32 THEN config ELSE 0) = 0
      OBVIOUS
    <3> QED BY <3>1, <3>2
  <2> QED BY <1>2, <1>3, <2>1, <2>2
<1>6. OneMore(Append(out, b), out, b) /\ OneMore(Append(out, z), out, z)
  BY AppendIs
<1>7. CASE line = 22
  <2>1. line' = 23 /\ out' = Append(out, b) /\ UNCHANGED config
    BY <1>5, <1>7, DetectionAsks
  <2>2. AskedOnce(Append(out, b), b.v)
    BY <1>6, <1>7, AskedOnceMore
  <2>3. AskedOnce(out', config')
    BY <1>4, <2>1, <2>2
  <2> QED BY <2>1, <2>3 DEF QueuedInv
<1>8. CASE line = 23
  <2>1. line' \in {24, 45} /\ UNCHANGED <<out, config>>
    BY <1>8, DetectionWaits
  <2>2. AskedOnce(out', config')
    BY <1>8, <2>1 DEF QueuedInv
  <2> QED BY <2>1, <2>2 DEF QueuedInv
<1>9. CASE line = 24
  <2>1. line' = 25 /\ out' = Append(out, b) /\ UNCHANGED config
    BY <1>5, <1>9, DetectionAsks
  <2>2. AskedOnce(out, b.v)
    BY <1>4, <1>9 DEF QueuedInv
  <2>3. AskedTwice(Append(out, b), b.v)
    BY <1>6, <2>2, AskedTwiceMore
  <2>4. AskedTwice(out', config')
    BY <1>4, <2>1, <2>3
  <2> QED BY <2>1, <2>4 DEF QueuedInv
<1>10. CASE line = 25
  <2>1. line' = 26 /\ out # <<>> /\ out' = Tail(out)
    BY <1>10, DetectionGets
  <2>2. AskedTwice(out, config) /\ OneLess(Tail(out), out)
    BY <1>1, <1>10, <2>1 DEF QueuedInv
  <2>3. GotOne(out')
    BY <2>1, <2>2, GotOneLess
  <2> QED BY <2>1, <2>3 DEF QueuedInv
<1>11. CASE line = 26
  <2>1. line' = 27 /\ out' = Append(out, z)
    BY <1>5, <1>11, DetectionAsks
  <2>2. GotOne(out)
    BY <1>11 DEF QueuedInv
  <2>3. Tested(out')
    BY <1>4, <1>6, <2>1, <2>2, TestedMore
  <2> QED BY <2>1, <2>3 DEF QueuedInv
<1>12. CASE line = 27
  <2>1. line' \in {28, 45} /\ UNCHANGED out
    BY <1>12, DetectionWaits
  <2>2. Tested(out')
    BY <1>12, <2>1 DEF QueuedInv
  <2> QED BY <2>1, <2>2 DEF QueuedInv
<1>13. CASE line = 28
  <2>1. /\ out # <<>> /\ out' = Tail(out)
        /\ line' = 45 \/ (line' = 29 /\ Head(out).v = 0)
    BY <1>13, DetectionGets
  <2>2. CASE line' = 45
    BY <2>2 DEF QueuedInv
  <2>3. CASE line' = 29 /\ Head(out).v = 0
    <3>1. Tested(out) /\ OneLess(Tail(out), out) /\ out[1].v = 0
      BY <1>1, <1>13, <2>1, <2>3 DEF QueuedInv
    <3>2. Zeroed(out')
      BY <2>1, <3>1, ZeroedLess
    <3> QED BY <2>3, <3>2 DEF QueuedInv
  <2> QED BY <2>1, <2>2, <2>3
<1>14. CASE line \in {29, 30}
  <2>1. line' \in {30, 31, 45} /\ UNCHANGED out
    BY <1>14, DetectionWaits, DetectionTells
  <2>2. Zeroed(out')
    BY <1>14, <2>1 DEF QueuedInv
  <2> QED BY <2>1, <2>2 DEF QueuedInv
<1>15. CASE line = 31
  <2>1. Zeroed(out) /\ out # <<>> /\ Head(out) = out[1]
    BY <1>1, <1>15, DetectionGets DEF QueuedInv
  <2>2. Head(out).v # ACK
    BY <2>1 DEF Zeroed, ACK
  <2>3. line' = 45
    BY <1>15, <2>2, DetectionGets
  <2> QED BY <2>3 DEF QueuedInv
<1>16. line \notin 32..33
  BY DEF QueuedInv
<1> QED BY <1>7, <1>8, <1>9, <1>10, <1>11, <1>12, <1>13, <1>14, <1>15, <1>16

LEMMA MouseStep == MouseInv /\ ScriptInv /\ OutInv /\ [Next]_vars => MouseInv'
<1> SUFFICES ASSUME MouseInv, ScriptInv, OutInv, [Next]_vars, ~machine.ps2.mouse, ~unasked'
             PROVE  MouseInv'
  BY MachineStep DEF MouseInv
<1>1. UNCHANGED machine /\ ~unasked
  BY MachineStep, UnaskedStays
<1>2. line \in 0..45 /\ line \notin 34..44
  BY <1>1 DEF MouseInv, ScriptInv
<1>3. line' \in {0, 1, 45} => MouseInv'
  <2> SUFFICES ASSUME line' \in {0, 1, 45} PROVE MouseInv'
    OBVIOUS
  <2>1. ReplacedInv' /\ QueuedInv'
    BY DEF ReplacedInv, QueuedInv
  <2> QED BY <2>1 DEF MouseInv
<1>4. CASE ~Converse
  <2>1. UNCHANGED line /\ (line > 0 => UNCHANGED <<out, config>>)
    BY <1>4, ScriptRests
  <2>2. CASE line = 0
    BY <1>3, <2>1, <2>2
  <2>3. CASE line > 0
    <3>1. UNCHANGED <<line, out, config>>
      BY <2>1, <2>3
    <3>2. UNCHANGED ReplacedInv /\ UNCHANGED QueuedInv
      BY <3>1 DEF ReplacedInv, QueuedInv
    <3> QED BY <1>1, <3>1, <3>2 DEF MouseInv
  <2> QED BY <1>2, <2>2, <2>3
<1>5. CASE Converse /\ line \in {0, 45}
  <2>1. line' \in {0, 1}
    BY <1>5, StepOf, StartAt, ReturnAt
  <2> QED BY <1>3, <2>1
<1>6. CASE Converse /\ line = 1
  <2>1. PS2Drain /\ Script[line].op = "drain"
    BY <1>6, StepOf, ScriptAsks
  <2>2. line' = 1 \/ (line' = 2 /\ out' = <<>>)
    BY <1>6, <2>1, DrainAt
  <2>3. CASE line' = 2 /\ out' = <<>>
    <3>1. Leftover(out')
      BY <2>3 DEF Leftover
    <3>2. ReplacedInv' /\ QueuedInv'
      BY <2>3 DEF ReplacedInv, QueuedInv
    <3> QED BY <2>3, <3>1, <3>2 DEF MouseInv
  <2> QED BY <1>3, <2>2, <2>3
<1>7. CASE Converse /\ line \in 2..21
  <2>1. Leftover(out)
    BY <1>1, <1>7 DEF MouseInv
  <2>2. Leftover(out') /\ line' \in 2..22
    BY <1>7, <2>1, LeftoverStep
  <2>3. ReplacedInv' /\ QueuedInv'
    BY <2>2 DEF ReplacedInv, QueuedInv
  <2> QED BY <2>2, <2>3 DEF MouseInv
<1>8. CASE Converse /\ line \in 22..33
  <2>1. line = 22 => Leftover(out)
    BY <1>1, <1>8 DEF MouseInv
  <2>2. CASE machine.ps2.replaces
    <3>1. ReplacedInv
      BY <1>1, <2>2 DEF MouseInv
    <3>2. ReplacedInv' /\ line' \in 23..33 \cup {45}
      BY <1>8, <2>1, <2>2, <3>1, ReplacedStep
    <3> QED BY <1>1, <2>2, <3>2 DEF MouseInv
  <2>3. CASE ~machine.ps2.replaces
    <3>1. QueuedInv
      BY <1>1, <2>3 DEF MouseInv
    <3>2. QueuedInv' /\ line' \in 23..33 \cup {45}
      BY <1>8, <2>1, <2>3, <3>1, QueuedStep
    <3> QED BY <1>1, <2>3, <3>2 DEF MouseInv
  <2> QED BY <2>2, <2>3
<1> QED BY <1>2, <1>4, <1>5, <1>6, <1>7, <1>8
----------------------------------------------------------------------------
(* A read of a drive takes part of four components: PCI's list led to the  *)
(* controller, IDE's probe to the entry, fat's walk over /dev to the node. *)
(* PhaseInv says that they come one after the other, EntryInv what a node  *)
(* of a drive leads to, ReadInv how far the read is.                       *)

Probes == [Reserved : BOOLEAN, Channel : 0..1, Drive : 0..1, Type : {"ata", "atapi"}, Size : Nat]
AfterAll == [pci |-> pciCount, slot |-> 4]

PhaseInv ==
    /\ ideAt \in [pci : Int, slot : 0..4]
    /\ Nodes("pci") # {} => pciAt.bus >= 0
    /\ Going /\ pciAt.bus >= 0 /\ running # "pci" => pciAt.bus = Buses
    /\ Going /\ ideAt.pci >= 0 => pciAt.bus = Buses
    /\ ideAt.pci >= 0 /\ running # "ide" => ideAt = AfterAll

EntryInv ==
    /\ ideDev \in [0..3 -> Probes]
    /\ ideAt.pci < 0 => ideAt.slot = 4
    /\ ideAt.slot < 4 => ideCount \in 0..ideAt.slot /\ ideCtl \in Controllers
    /\ \A k \in Nodes("hd") :
        devs[k].n \in 0..3 /\ ideAt.pci >= 0 /\ ideCtl \in Controllers

\* The variables of a component are changed by its own steps.
LEMMA WhoMoves ==
  ASSUME [Next]_vars
  PROVE  /\ UNCHANGED pciVars \/ Enumerate
         /\ UNCHANGED ideVars \/ Detect
         /\ UNCHANGED xferVars \/ Transfer \/ Mount \/ Answer1
         /\ UNCHANGED fatVars \/ Mount
<1>1. UNCHANGED pciVars \/ Enumerate
  BY DEF Next, Process, Load, Detect, Transfer, Mount, Converse, Interact, TypeDevice,
         Answer1, Types, Reported, vars
<1>2. UNCHANGED ideVars \/ Detect
  BY DEF Next, Process, Load, Enumerate, Transfer, Mount, Converse, Interact, TypeDevice,
         Answer1, Types, Reported, vars
<1>3. UNCHANGED xferVars \/ Transfer \/ Mount \/ Answer1
  BY DEF Next, Process, Load, Enumerate, Detect, Converse, Interact, TypeDevice,
         Types, Reported, vars
<1>4. UNCHANGED fatVars \/ Mount
  BY DEF Next, Process, Load, Enumerate, Detect, Transfer, Converse, Interact, TypeDevice,
         Answer1, Types, Reported, vars
<1> QED BY <1>1, <1>2, <1>3, <1>4

\* Who registers what.
Registers(node) ==
    /\ devs' = <<node>> \o devs
    /\ \/ node.kind = "framebuffer"
       \/ node.kind = "kbd" /\ line = 20
       \/ node.kind = "mouse" /\ line = 44
       \/ PCIPublish /\ node.kind = "pci"
       \/ IDEProbe /\ node.kind = "hd" /\ node.n = ideCount

LEMMA DevsNew ==
  ASSUME ScriptInv, [Next]_vars
  PROVE  UNCHANGED devs \/ \E node : Registers(node)
<1>1. CASE Load
  <2>1. CASE LoaderNext
    BY <2>1 DEF LoaderNext, EndOfTags, SkipTag, OpenModule, RejectModule,
                Relocate, Unresolved, CallInit, CallConstructors, shared
  <2>2. CASE VGAInit
    <3> DEFINE new == [name |-> "framebuffer", kind |-> "framebuffer"]
    <3>1. devs' = <<new>> \o devs /\ new.kind = "framebuffer"
      BY <2>2 DEF VGAInit, Register
    <3> HIDE DEF new
    <3> QED BY <3>1 DEF Registers
  <2>3. CASE HelloInit
    BY <2>3 DEF HelloInit
  <2> QED BY <1>1, <2>1, <2>2, <2>3 DEF Load
<1>2. CASE Enumerate
  <2>1. CASE PCIPublish
    <3> DEFINE new == [name |-> "pci", kind |-> "pci"]
    <3>1. devs' = <<new>> \o devs /\ new.kind = "pci"
      BY <2>1 DEF PCIPublish, Register
    <3> HIDE DEF new
    <3> QED BY <2>1, <3>1 DEF Registers
  <2> QED BY <1>2, <2>1 DEF Enumerate, PCINext, PCIScan, PCIReturn
<1>3. CASE Detect
  <2>1. CASE IDEProbe
    <3> DEFINE new == [name |-> "hd", kind |-> "hd", n |-> ideCount]
    <3>1. UNCHANGED devs \/ devs' = <<new>> \o devs
      BY <2>1 DEF IDEProbe, Register
    <3>2. new.kind = "hd" /\ new.n = ideCount
      OBVIOUS
    <3> HIDE DEF new
    <3> QED BY <2>1, <3>1, <3>2 DEF Registers
  <2> QED BY <1>3, <2>1 DEF Detect, IDENext, IDEStart, IDEFind, IDEReturn
<1>4. CASE Transfer
  BY <1>4 DEF Transfer, XferNext, XferSelect, XferCommand, XferSettle, XferPoll, xferRest
<1>5. CASE Mount
  BY <1>5 DEF Mount, MountNext, FatStart, FatPassOver, FatRead, FatGot, FatReport,
              FatReturn, fatRest
<1>6. CASE Converse
  <2>1. CASE PS2Node
    <3>1. PICK kind : /\ (line = 20 /\ kind = "kbd") \/ (line = 44 /\ kind = "mouse")
                      /\ devs' = <<[name |-> kind, kind |-> kind]>> \o devs
      BY <2>1, NodeAt
    <3> DEFINE new == [name |-> kind, kind |-> kind]
    <3>2. new.kind = kind
      OBVIOUS
    <3> HIDE DEF new
    <3> QED BY <3>1, <3>2 DEF Registers, new
  <2>2. ~PS2Node => UNCHANGED devs
    BY <1>6 DEF Converse, PS2Next, PS2Start, PS2Write, PS2Drain, PS2Wait, PS2Get, PS2Config, PS2Return
  <2> QED BY <2>1, <2>2
<1>7. CASE Interact
  BY <1>7, ShellFrame, KmainFrame DEF Interact, Prompt, TtyRead, TtyHalt, shared
<1>8. CASE TypeDevice
  BY <1>8 DEF TypeDevice, TypeMouse, TypeKeyboard, shRest
<1>9. CASE Answer1 \/ Types \/ Reported
  BY <1>9 DEF Answer1, DriveAnswers, xferRest, Types, TypeKey, Reported, Reports
<1>10. CASE UNCHANGED vars
  BY <1>10 DEF vars, shared
<1> QED BY <1>1, <1>2, <1>3, <1>4, <1>5, <1>6, <1>7, <1>8, <1>9, <1>10 DEF Next, Process

\* The new node is in front of those that were there.
LEMMA InFront ==
  ASSUME DevsInv, NEW node, devs' = <<node>> \o devs,
         NEW k \in DOMAIN devs'
  PROVE  (k = 1 /\ devs'[k] = node) \/ (k - 1 \in DOMAIN devs /\ devs'[k] = devs[k - 1])
<1>1. PICK S : devs \in Seq(S)
  BY DEF DevsInv
<1>2. <<node>> \in Seq(S \cup {node}) /\ devs \in Seq(S \cup {node})
  BY <1>1
<1>3. devs' \in Seq(S \cup {node}) /\ Len(devs') = Len(devs) + 1 /\ Len(devs) \in Nat
  BY <1>2
<1>4. devs'[1] = node /\ \A j \in 1..Len(devs) : devs'[j + 1] = devs[j]
  BY <1>2
<1>5. DOMAIN devs = 1..Len(devs) /\ DOMAIN devs' = 1..(Len(devs) + 1)
  BY <1>1, <1>3
<1>6. k = 1 \/ (k - 1 \in 1..Len(devs) /\ k = (k - 1) + 1)
  BY <1>3, <1>5
<1> QED BY <1>4, <1>5, <1>6

\* A node of a kind that one step registers.
LEMMA NodesNew ==
  ASSUME DevsInv, ScriptInv, [Next]_vars, NEW kind \in {"pci", "hd", "kbd", "mouse"},
         NEW k \in Nodes(kind)'
  PROVE  \/ \E j \in Nodes(kind) : devs'[k] = devs[j]
         \/ kind = "kbd" /\ line = 20
         \/ kind = "mouse" /\ line = 44
         \/ kind = "pci" /\ PCIPublish
         \/ kind = "hd" /\ IDEProbe /\ devs'[k].n = ideCount
<1>1. CASE UNCHANGED devs
  BY <1>1 DEF Nodes
<1>2. CASE \E node : Registers(node)
  <2>1. PICK node : Registers(node)
    BY <1>2
  <2>2. k \in DOMAIN devs' /\ devs'[k].kind = kind
    BY DEF Nodes
  <2>3. devs' = <<node>> \o devs
    BY <2>1 DEF Registers
  <2>4. CASE devs'[k] = node
    BY <2>1, <2>2, <2>4 DEF Registers
  <2>5. CASE k - 1 \in DOMAIN devs /\ devs'[k] = devs[k - 1]
    BY <2>2, <2>5 DEF Nodes
  <2> QED BY <2>2, <2>3, <2>4, <2>5, InFront
<1> QED BY <1>1, <1>2, DevsNew

LEMMA PhaseInit == Init => PhaseInv /\ EntryInv
<1> SUFFICES ASSUME Init PROVE PhaseInv /\ EntryInv
  OBVIOUS
<1>1. ideAt = [pci |-> -1, slot |-> 4] /\ pciAt.bus = -1
  BY DEF Init, ATAInit, PCIInit
<1>2. Nodes("pci") = {} /\ Nodes("hd") = {}
  <2>1. DOMAIN FirstDevs = 1..3 /\ \A k \in 1..3 : FirstDevs[k].kind \in {"random", "tty", "null"}
    BY DEF FirstDevs
  <2> QED BY <2>1 DEF Init, MachineInit, Nodes
<1>3. ideDev \in [0..3 -> Probes]
  BY DEF Init, ATAInit, NoDrive, Probes
<1> QED BY <1>1, <1>2, <1>3 DEF PhaseInv, EntryInv

LEMMA PhaseStep ==
  ASSUME WalkInv, DevsInv, ScriptInv, PhaseInv, EntryInv, [Next]_vars
  PROVE  PhaseInv'
<1> USE DEF PhaseInv
<1>1. Going' => Going
  BY MachineStep
<1>2. Buses \in Nat /\ pciAt.bus \in -1..Buses
  BY BusAssumption DEF WalkInv, Addresses
<1>3. ideAt.pci >= 0 => UNCHANGED pciVars
  <2> SUFFICES ASSUME ideAt.pci >= 0, Enumerate PROVE UNCHANGED pciVars
    BY WhoMoves
  <2>1. pciAt.bus = Buses
    BY DEF Enumerate, PCINext, PCIPublish, PCIScan, PCIReturn
  <2>2. ~PCIPublish /\ ~PCIScan
    BY <1>2, <2>1 DEF PCIPublish, PCIScan
  <2> QED BY <2>2 DEF Enumerate, PCINext, PCIReturn
<1>4. pciAt.bus >= 0 => pciAt'.bus >= 0
  <2>1. CASE PCIScan
    <3>1. pciAt \in Addresses /\ pciAt.bus \in 0..(Buses - 1)
      BY <2>1 DEF PCIScan, WalkInv
    <3>2. pciAt' = [pciAt EXCEPT !.func = @ + 1] \/ pciAt' = NextSlot
      BY <2>1 DEF PCIScan
    <3> QED BY <1>2, <3>1, <3>2 DEF NextSlot, Addresses
  <2>2. CASE PCIPublish
    BY <2>2 DEF PCIPublish, WalkInv, Addresses
  <2>3. CASE PCIReturn \/ UNCHANGED pciVars
    BY <2>3 DEF PCIReturn, pciVars
  <2> QED BY <2>1, <2>2, <2>3, WhoMoves DEF Enumerate, PCINext
<1>5. ideAt' \in [pci : Int, slot : 0..4]
  <2>1. CASE UNCHANGED ideVars
    BY <2>1 DEF ideVars
  <2>2. CASE IDEStart
    BY <2>2 DEF IDEStart
  <2>3. CASE IDEFind
    BY <2>3 DEF IDEFind
  <2>4. CASE IDEProbe
    BY <2>4 DEF IDEProbe
  <2>5. CASE IDEReturn
    BY <2>5 DEF IDEReturn, ideVars
  <2> QED BY <2>1, <2>2, <2>3, <2>4, <2>5, WhoMoves DEF Detect, IDENext
<1>6. Nodes("pci")' # {} => pciAt'.bus >= 0
  <2> SUFFICES ASSUME NEW k \in Nodes("pci")' PROVE pciAt'.bus >= 0
    OBVIOUS
  <2>1. CASE PCIPublish
    BY <2>1 DEF PCIPublish, WalkInv, Addresses
  <2> QED BY <1>4, <2>1, NodesNew
<1>7. Going' /\ pciAt'.bus >= 0 /\ running' # "pci" => pciAt'.bus = Buses
  <2> SUFFICES ASSUME Going', pciAt'.bus >= 0, running' # "pci" PROVE pciAt'.bus = Buses
    OBVIOUS
  <2>1. CASE Enumerate
    <3>1. CASE PCIReturn
      BY <3>1 DEF PCIReturn, pciVars
    <3>2. ~PCIPublish /\ ~PCIScan
      BY DEF PCIPublish, PCIScan
    <3> QED BY <2>1, <3>1, <3>2 DEF Enumerate, PCINext
  <2>2. CASE ~Enumerate
    <3>1. UNCHANGED pciVars
      BY <2>2, WhoMoves
    <3>2. running # "pci" \/ PCIReturn
      BY RunningStep
         DEF Hands, IDEReturn, FatReturn, Mounting, PS2Return, Scripted
    <3>3. CASE PCIReturn
      BY <3>1, <3>3 DEF PCIReturn, pciVars
    <3> QED BY <1>1, <3>1, <3>2, <3>3 DEF pciVars
  <2> QED BY <2>1, <2>2
<1>8. Going' /\ ideAt'.pci >= 0 => pciAt'.bus = Buses
  <2> SUFFICES ASSUME Going', ideAt'.pci >= 0 PROVE pciAt'.bus = Buses
    OBVIOUS
  <2>1. CASE ideAt.pci >= 0
    BY <1>1, <1>3, <2>1 DEF pciVars
  <2>2. CASE ~(ideAt.pci >= 0)
    <3>1. IDEStart /\ ideAt'.pci = 0
      <4>1. Detect
        BY <2>2, WhoMoves DEF ideVars
      <4>2. ~IDEFind
        BY <2>2 DEF IDEFind
      <4>3. ~IDEReturn
        BY <2>2 DEF IDEReturn, ideVars
      <4>4. ~IDEProbe
        BY <2>2 DEF IDEProbe, EntryInv
      <4>5. IDEStart
        BY <4>1, <4>2, <4>3, <4>4 DEF Detect, IDENext
      <4> QED BY <2>2, <4>5 DEF IDEStart
    <3>2. Nodes("pci") # {} /\ running = "ide" /\ Going
      BY <2>2, <3>1 DEF IDEStart
    <3>3. pciAt.bus = Buses
      BY <3>2
    <3>4. UNCHANGED pciVars
      BY <3>2, WhoMoves DEF Enumerate, PCINext, PCIPublish, PCIScan, PCIReturn
    <3> QED BY <3>3, <3>4 DEF pciVars
  <2> QED BY <2>1, <2>2
<1>9. ideAt'.pci >= 0 /\ running' # "ide" => ideAt' = AfterAll'
  <2> SUFFICES ASSUME ideAt'.pci >= 0, running' # "ide" PROVE ideAt' = AfterAll'
    OBVIOUS
  <2>1. CASE Detect
    <3>1. ~IDEFind /\ ~IDEProbe
      BY DEF IDEFind, IDEProbe
    <3>2. ~IDEStart
      <4> SUFFICES ASSUME IDEStart PROVE FALSE
        OBVIOUS
      <4>1. ideAt.pci < 0 /\ running = "ide"
        BY DEF IDEStart
      <4>2. UNCHANGED ideAt
        BY <4>1 DEF IDEStart
      <4> QED BY <4>1, <4>2
    <3>3. CASE IDEReturn
      <4>1. ideAt = AfterAll /\ UNCHANGED ideAt
        BY <3>3 DEF IDEReturn, ideVars, AfterAll
      <4>2. UNCHANGED pciCount
        BY <2>1 DEF Detect, pciVars
      <4> QED BY <4>1, <4>2 DEF AfterAll
    <3> QED BY <2>1, <3>1, <3>2, <3>3 DEF Detect, IDENext
  <2>2. CASE ~Detect
    <3>1. UNCHANGED ideAt
      BY <2>2, WhoMoves DEF ideVars
    <3>2. ideAt.pci >= 0
      BY <3>1
    <3>3. UNCHANGED pciCount
      BY <1>3, <3>2 DEF pciVars
    <3>4. running # "ide" \/ IDEReturn
      BY RunningStep DEF Hands, PCIReturn, FatReturn, Mounting, PS2Return, Scripted
    <3>5. CASE IDEReturn
      BY <3>1, <3>3, <3>5 DEF IDEReturn, AfterAll
    <3> QED BY <3>1, <3>2, <3>3, <3>4, <3>5 DEF AfterAll
  <2> QED BY <2>1, <2>2
<1> QED BY <1>5, <1>6, <1>7, <1>8, <1>9

\* What a controller of the list and its slots are.
LEMMA ControllerFacts ==
  ASSUME WalkInv, NEW d \in Controllers, NEW s \in 0..3
  PROVE  /\ d.slots[s].size \in Nat
         /\ d.slots[s].kind \in {"none", "floating", "refusing", "atapi", "ata", "hung"}
         /\ \A u \in DOMAIN d.slots[s].units :
              d.slots[s].units[u].parts \in Seq([type : Nat, lba : Nat])
<1>1. machine \in Machines /\ d \in machine.pci /\ d.class = "ide"
  BY DEF WalkInv, Controllers
<1>2. IsSlot(d.slots[s])
  BY <1>1, DriveAssumption
<1> QED BY <1>2 DEF IsSlot

LEMMA ListedController ==
  ASSUME WalkInv, NEW k \in 0..(MaxDevices - 1), pciDev[k].class = "ide"
  PROVE  pciDev[k] \in Controllers
<1>1. pciDev[k] \in machine.pci \cup {NoFunction}
  BY DEF WalkInv
<1>2. pciDev[k] # NoFunction
  BY DEF NoFunction
<1> QED BY <1>1, <1>2 DEF Controllers

\* A slot's probe, and the entry it leaves.
LEMMA ProbeFacts ==
  ASSUME WalkInv, EntryInv, PhaseInv, IDEProbe
  PROVE  /\ ideDev' \in [0..3 -> Probes]
         /\ ideCount' \in {ideCount, ideCount + 1}
         /\ ideCount \in 0..ideAt.slot /\ ideAt.slot \in 0..3 /\ ideAt.pci >= 0
         /\ ideCtl \in Controllers
<1>1. /\ ideAt \in [pci : Int, slot : 0..4] /\ ideAt.slot < 4
      /\ ideDev \in [0..3 -> Probes]
      /\ ideCount \in 0..ideAt.slot /\ ideCtl \in Controllers
      /\ ideAt.pci < 0 => ideAt.slot = 4
  BY DEF IDEProbe, EntryInv, PhaseInv
<1>2. ideAt.slot \in 0..3 /\ ideAt.pci >= 0 /\ ideCount \in 0..3
  BY <1>1
<1>3. ideCount' \in {ideCount, ideCount + 1}
  BY DEF IDEProbe
<1> DEFINE slot == ideCtl.slots[ideAt.slot]
           how == Probed(slot)
<1>4. /\ slot.size \in Nat
      /\ slot.kind \in {"none", "floating", "refusing", "atapi", "ata", "hung"}
  BY <1>1, <1>2, ControllerFacts
<1>5. how \in {"none", "atapi", "ata"}
  BY <1>4 DEF Probed
<1>6. \/ ideDev' = [ideDev EXCEPT ![ideCount].Reserved = FALSE]
      \/ how # "none" /\ ideDev' = [ideDev EXCEPT ![ideCount] = Entry(ideAt.slot, how)]
  BY DEF IDEProbe
<1> HIDE DEF how
<1>7. CASE ideDev' = [ideDev EXCEPT ![ideCount].Reserved = FALSE]
  <2>1. [ideDev[ideCount] EXCEPT !.Reserved = FALSE] \in Probes
    BY <1>1, <1>2 DEF Probes
  <2>2. ideDev' \in [0..3 -> Probes]
    BY <1>1, <1>2, <1>7, <2>1
  <2> QED BY <1>1, <1>2, <1>3, <2>2
<1>8. CASE how # "none" /\ ideDev' = [ideDev EXCEPT ![ideCount] = Entry(ideAt.slot, how)]
  <2>1. ideAt.slot \div 2 \in 0..1 /\ ideAt.slot % 2 \in 0..1
    BY <1>2
  <2>2. Entry(ideAt.slot, how) \in Probes
    BY <1>4, <1>5, <1>8, <2>1 DEF Entry, Probes
  <2>3. ideDev' \in [0..3 -> Probes]
    BY <1>1, <1>2, <1>8, <2>2
  <2> QED BY <1>1, <1>2, <1>3, <2>3
<1> QED BY <1>1, <1>2, <1>3, <1>6, <1>7, <1>8

LEMMA EntryStep ==
  ASSUME WalkInv, DevsInv, ScriptInv, PhaseInv, EntryInv, [Next]_vars
  PROVE  EntryInv'
<1>1. Controllers' = Controllers
  BY MachineStep DEF Controllers
<1>2. ideAt \in [pci : Int, slot : 0..4]
  BY DEF PhaseInv
<1>3. ideDev' \in [0..3 -> Probes]
  <2>1. IDEProbe \/ UNCHANGED ideDev
    BY WhoMoves DEF Detect, IDENext, IDEStart, IDEFind, IDEReturn, ideVars
  <2> QED BY <2>1, ProbeFacts DEF EntryInv
<1> DEFINE Led == ideAt.pci >= 0 /\ ideCtl \in Controllers
<1>4. Led => Led'
  <2>1. CASE IDEStart
    BY <1>2, <2>1 DEF IDEStart
  <2>2. CASE IDEFind
    <3>1. CASE ideAt.pci < MaxDevices /\ pciDev[ideAt.pci].class = "ide"
      <4>1. ideAt.pci \in 0..(MaxDevices - 1)
        BY <1>2, <2>2, <3>1, BusAssumption DEF IDEFind
      <4>2. pciDev[ideAt.pci] \in Controllers
        BY <3>1, <4>1, ListedController
      <4>3. ideCtl' = pciDev[ideAt.pci] /\ ideAt'.pci = ideAt.pci
        BY <1>2, <2>2, <3>1 DEF IDEFind
      <4> QED BY <1>1, <4>1, <4>2, <4>3
    <3>2. CASE ~(ideAt.pci < MaxDevices /\ pciDev[ideAt.pci].class = "ide")
      <4>1. ideAt'.pci = ideAt.pci + 1 /\ UNCHANGED ideCtl
        BY <1>2, <2>2, <3>2 DEF IDEFind
      <4> QED BY <1>1, <1>2, <4>1
    <3> QED BY <3>1, <3>2
  <2>3. CASE IDEProbe
    <3>1. UNCHANGED ideCtl /\ ideAt'.pci \in {ideAt.pci, ideAt.pci + 1}
      BY <1>2, <2>3 DEF IDEProbe
    <3> QED BY <1>1, <1>2, <3>1
  <2>4. CASE IDEReturn \/ UNCHANGED ideVars
    BY <1>1, <2>4 DEF IDEReturn, ideVars
  <2> QED BY <2>1, <2>2, <2>3, <2>4, WhoMoves DEF Detect, IDENext
<1>5. ideAt'.pci < 0 => ideAt'.slot = 4
  <2>1. CASE IDEStart
    BY <1>2, <2>1 DEF IDEStart, EntryInv
  <2>2. CASE IDEFind
    <3>1. ideAt.pci >= 0
      BY <2>2 DEF IDEFind
    <3>2. ideAt'.pci \in {ideAt.pci, ideAt.pci + 1}
      BY <1>2, <2>2 DEF IDEFind
    <3> QED BY <1>2, <3>1, <3>2
  <2>3. CASE IDEProbe
    <3>1. ideAt.pci >= 0 /\ ideAt'.pci \in {ideAt.pci, ideAt.pci + 1}
      BY <1>2, <2>3, ProbeFacts DEF IDEProbe
    <3> QED BY <1>2, <3>1
  <2>4. CASE IDEReturn \/ UNCHANGED ideVars
    BY <2>4 DEF IDEReturn, ideVars, EntryInv
  <2> QED BY <2>1, <2>2, <2>3, <2>4, WhoMoves DEF Detect, IDENext
<1>6. ideAt'.slot < 4 => ideCount' \in 0..ideAt'.slot /\ ideCtl' \in Controllers'
  <2> SUFFICES ASSUME ideAt'.slot < 4
               PROVE  ideCount' \in 0..ideAt'.slot /\ ideCtl' \in Controllers'
    OBVIOUS
  <2>1. CASE IDEStart
    <3>1. ideAt.pci < 0 /\ ideAt'.slot = ideAt.slot
      BY <1>2, <2>1 DEF IDEStart
    <3> QED BY <3>1 DEF EntryInv
  <2>2. CASE IDEFind
    <3>1. CASE ideAt.pci < MaxDevices /\ pciDev[ideAt.pci].class = "ide"
      <4>1. ideAt.pci \in 0..(MaxDevices - 1)
        BY <1>2, <2>2, <3>1, BusAssumption DEF IDEFind
      <4>2. pciDev[ideAt.pci] \in Controllers
        BY <3>1, <4>1, ListedController
      <4>3. ideCtl' = pciDev[ideAt.pci] /\ ideAt'.slot = 0 /\ ideCount' = 0
        BY <1>2, <2>2, <3>1 DEF IDEFind
      <4> QED BY <1>1, <4>2, <4>3
    <3>2. CASE ~(ideAt.pci < MaxDevices /\ pciDev[ideAt.pci].class = "ide")
      <4>1. ideAt'.slot = 4
        BY <1>2, <2>2, <3>2 DEF IDEFind
      <4> QED BY <4>1
    <3> QED BY <3>1, <3>2
  <2>3. CASE IDEProbe
    <3>1. ideAt.slot # 3
      BY <2>3 DEF IDEProbe
    <3>2. ideAt'.slot = ideAt.slot + 1 /\ UNCHANGED ideCtl
      BY <1>2, <2>3, <3>1 DEF IDEProbe
    <3>3. /\ ideCount' \in {ideCount, ideCount + 1}
          /\ ideCount \in 0..ideAt.slot /\ ideAt.slot \in 0..3 /\ ideCtl \in Controllers
      BY <2>3, ProbeFacts
    <3> QED BY <1>1, <3>2, <3>3
  <2>4. CASE IDEReturn \/ UNCHANGED ideVars
    BY <1>1, <2>4 DEF IDEReturn, ideVars, EntryInv
  <2> QED BY <2>1, <2>2, <2>3, <2>4, WhoMoves DEF Detect, IDENext
<1>7. ASSUME NEW k \in Nodes("hd")' PROVE devs'[k].n \in 0..3 /\ Led'
  <2>1. CASE \E j \in Nodes("hd") : devs'[k] = devs[j]
    BY <1>4, <2>1 DEF EntryInv
  <2>2. CASE IDEProbe /\ devs'[k].n = ideCount
    <3>1. ideCount \in 0..ideAt.slot /\ ideAt.slot \in 0..3 /\ Led
      BY <2>2, ProbeFacts
    <3> QED BY <1>4, <2>2, <3>1
  <2> QED BY <1>7, <2>1, <2>2, NodesNew
<1> QED BY <1>3, <1>5, <1>6, <1>7 DEF EntryInv

InCourse == {"command", "settle", "poll", "answer", "data"}
Signals == {"busy", "drq", "err", "fault", "nothing"}

\* The read's fields, and that it begins with nothing moved.
XferIs(x) ==
    /\ x = [at |-> x.at, n |-> x.n, unit |-> x.unit, moved |-> x.moved,
            package |-> x.package, data |-> x.data]
    /\ x.n \in 0..3 /\ x.unit \in Nat
Fresh == xfer.moved = "no" /\ xfer.package = 0 /\ xfer.data = ZeroSector
Granted ==
    /\ IsDrivePresent(xfer.n)
    /\ xfer.unit \div UnitsPerSector(ideDev[xfer.n].Type) < ideDev[xfer.n].Size

ReadInv ==
    /\ xfer.at \in {"idle", "select", "done"} \cup InCourse
    /\ xfer.at # "idle" =>
        /\ XferIs(xfer)
        /\ Going => ideAt.pci >= 0 /\ ideAt = AfterAll
        /\ ideCtl \in Controllers
    /\ xfer.at \in {"select"} \cup InCourse => Fresh
    /\ xfer.at \in InCourse => Granted
    /\ xfer.at \in InCourse \ {"command"} => signal \in Signals
    /\ AccessHonest

VolInv ==
    /\ vol.lba \in Nat
    /\ reading => fatStep \in {"probe", "partitions", "boot"}

\* What the code counts as a drive's unit is one the drive has.
LEMMA UnitsOf ==
  ASSUME NEW u \in Nat, NEW n \in 0..3, EntryInv
  PROVE  (u \div UnitsPerSector(ideDev[n].Type) < ideDev[n].Size)
            <=> (u < ideDev[n].Size * UnitsPerSector(ideDev[n].Type))
<1>1. ideDev[n].Size \in Nat /\ ideDev[n].Type \in {"ata", "atapi"}
  BY DEF EntryInv, Probes
<1>2. UnitsPerSector(ideDev[n].Type) \in {1, 4}
  BY DEF UnitsPerSector
<1> QED BY <1>1, <1>2

\* While a read is under way, or its result is used, the entries stay.
LEMMA EntriesRest ==
  ASSUME WalkInv, EntryInv, PhaseInv, ReadInv, [Next]_vars, xfer.at # "idle"
  PROVE  UNCHANGED <<machine, ideVars>> /\ (Going => UNCHANGED pciVars) /\ (Going' => Going)
<1>1. UNCHANGED machine /\ (Going' => Going)
  BY MachineStep
<1>2. Going => ideAt.pci >= 0 /\ ideAt = AfterAll
  BY DEF ReadInv
<1>3. UNCHANGED ideVars
  <2>1. CASE Detect
    <3>1. Going
      BY <2>1 DEF Detect, IDENext, IDEStart, IDEFind, IDEProbe, IDEReturn
    <3>2. ~IDEStart
      BY <1>2, <3>1 DEF IDEStart, PhaseInv
    <3>3. ~IDEFind
      BY <1>2, <3>1 DEF IDEFind, AfterAll
    <3>4. ~IDEProbe
      BY <1>2, <3>1 DEF IDEProbe, AfterAll
    <3> QED BY <2>1, <3>2, <3>3, <3>4 DEF Detect, IDENext, IDEReturn
  <2> QED BY <2>1, WhoMoves
<1>4. Going => UNCHANGED pciVars
  <2> SUFFICES ASSUME Going, Enumerate PROVE UNCHANGED pciVars
    BY WhoMoves
  <2>1. pciAt.bus = Buses /\ Buses \in Nat
    BY <1>2, BusAssumption DEF PhaseInv
  <2>2. ~PCIPublish /\ ~PCIScan
    BY <2>1 DEF PCIPublish, PCIScan
  <2> QED BY <2>2 DEF Enumerate, PCINext, PCIReturn
<1> QED BY <1>1, <1>3, <1>4

\* Where neither the read nor the signal moves, nothing is lost.
LEMMA ReadKept ==
  ASSUME WalkInv, EntryInv, PhaseInv, ReadInv, [Next]_vars, UNCHANGED xferVars
  PROVE  ReadInv'
<1>1. CASE xfer.at = "idle"
  BY <1>1 DEF ReadInv, xferVars, AccessHonest, InCourse
<1>2. CASE xfer.at # "idle"
  <2>1. UNCHANGED <<machine, ideVars>> /\ (Going => UNCHANGED pciVars) /\ (Going' => Going)
    BY <1>2, EntriesRest
  <2>2. UNCHANGED <<machine, ideAt, ideCtl, ideDev, ideCount, xfer, signal>>
    BY <2>1 DEF ideVars, xferVars
  <2>3. Controllers' = Controllers
    BY <2>2 DEF Controllers
  <2>4. Going' => AfterAll' = AfterAll /\ Going
    BY <2>1 DEF AfterAll, pciVars
  <2>5. /\ Fresh' = Fresh /\ Granted' = Granted /\ AccessHonest' = AccessHonest
    <3>1. Fresh' = Fresh
      BY <2>2 DEF Fresh
    <3>2. Granted' = Granted
      BY <2>2 DEF Granted, IsDrivePresent, SlotOf
    <3>3. AccessHonest' = AccessHonest
      BY <2>2 DEF AccessHonest, IsDrivePresent, SlotOf, Buffer
    <3> QED BY <3>1, <3>2, <3>3
  <2> QED BY <2>2, <2>3, <2>4, <2>5 DEF ReadInv
<1> QED BY <1>1, <1>2

\* An error of a drive ends in a package that is not 0.
LEMMA PackageOfError ==
  ASSUME NEW e \in {1, 2, 3}, NEW bits
  PROVE  IDEPrintErr(e, bits) # 0
  BY DEF IDEPrintErr

\* A step of the read that leaves what a drive's entry says.
LEMMA ReadMoves ==
  ASSUME WalkInv, EntryInv, PhaseInv, ReadInv, [Next]_vars, Going, Going',
         xfer.at # "idle",
         XferIs(xfer'), xfer'.n = xfer.n, xfer'.unit = xfer.unit,
         xfer'.at \in {"done"} \cup InCourse,
         xfer'.at \in InCourse => (xfer.at \in InCourse \/ Granted) /\ Fresh',
         xfer'.at \in InCourse \ {"command"} => signal' \in Signals,
         xfer'.at = "done" => AccessHonest'
  PROVE  ReadInv'
<1>1. UNCHANGED <<machine, ideVars>> /\ (Going => UNCHANGED pciVars)
  BY EntriesRest
<1>2. UNCHANGED <<machine, ideAt, ideCtl, ideDev, pciCount>>
  BY <1>1 DEF ideVars, pciVars
<1>3. Controllers' = Controllers /\ AfterAll' = AfterAll
  BY <1>2 DEF Controllers, AfterAll
<1>4. Granted' = Granted
  BY <1>2 DEF Granted, IsDrivePresent, SlotOf
<1>5. AccessHonest'
  BY DEF AccessHonest
<1>6. Granted' \/ xfer'.at \notin InCourse
  BY <1>4 DEF ReadInv
<1>7. ideAt' = AfterAll' /\ ideAt'.pci >= 0 /\ ideCtl' \in Controllers'
  BY <1>2, <1>3 DEF ReadInv
<1> QED BY <1>5, <1>6, <1>7 DEF ReadInv, InCourse

LEMMA SelectStep ==
  ASSUME WalkInv, EntryInv, PhaseInv, ReadInv, [Next]_vars, XferSelect
  PROVE  ReadInv'
<1> DEFINE next == IF Granted THEN "command" ELSE "done"
<1>1. /\ Going /\ xfer.at = "select" /\ UNCHANGED <<signal, xferRest>>
      /\ xfer' = [xfer EXCEPT !.at = next]
  BY DEF XferSelect, At, Granted
<1>2. XferIs(xfer) /\ Fresh
  BY <1>1 DEF ReadInv
<1>3. /\ xfer' = [at |-> next, n |-> xfer.n, unit |-> xfer.unit, moved |-> xfer.moved,
                  package |-> xfer.package, data |-> xfer.data]
  BY <1>1, <1>2 DEF XferIs
<1>4. XferIs(xfer') /\ xfer'.n = xfer.n /\ xfer'.unit = xfer.unit /\ Fresh'
  BY <1>2, <1>3 DEF XferIs, Fresh
<1>5. Going' /\ UNCHANGED machine
  BY <1>1 DEF xferRest, Going
<1>6. xfer'.at = next
  BY <1>3
<1>7. ASSUME ~Granted PROVE AccessHonest'
  <2>1. UNCHANGED ideVars
    BY <1>1, EntriesRest
  <2>2. ~Granted'
    BY <1>4, <1>5, <1>7, <2>1 DEF Granted, IsDrivePresent, SlotOf, ideVars
  <2>3. xfer'.n \in 0..3 /\ xfer'.unit \in Nat
    BY <1>4 DEF XferIs
  <2>4. ideDev' = ideDev
    BY <2>1 DEF ideVars
  <2>5. (xfer'.unit \div UnitsPerSector(ideDev[xfer'.n].Type) < ideDev[xfer'.n].Size)
           <=> (xfer'.unit < ideDev[xfer'.n].Size * UnitsPerSector(ideDev[xfer'.n].Type))
    BY <2>3, UnitsOf
  <2> QED BY <1>4, <2>2, <2>4, <2>5 DEF Granted, Fresh, AccessHonest, Buffer
<1> QED BY <1>1, <1>4, <1>5, <1>6, <1>7, ReadMoves DEF InCourse

LEMMA CourseStep ==
  ASSUME WalkInv, EntryInv, PhaseInv, ReadInv, [Next]_vars,
         XferCommand \/ XferSettle \/ DriveAnswers
  PROVE  ReadInv'
<1>1. /\ Going /\ UNCHANGED <<machine, stopped>>
      /\ \/ UNCHANGED xfer /\ signal' \in Signals /\ DriveAnswers
         \/ /\ xfer.at \in InCourse \ {"data", "poll"} /\ signal' \in Signals
            /\ \E to \in InCourse : xfer' = [xfer EXCEPT !.at = to]
  <2>1. CASE XferCommand
    BY <2>1 DEF XferCommand, At, InCourse, Signals, xferRest
  <2>2. CASE XferSettle
    BY <2>2 DEF XferSettle, At, InCourse, ReadInv, xferRest
  <2>3. CASE DriveAnswers
    BY <2>3 DEF DriveAnswers, Signals, xferRest
  <2> QED BY <2>1, <2>2, <2>3
<1>2. Going'
  BY <1>1 DEF Going
<1>3. CASE UNCHANGED xfer /\ signal' \in Signals /\ DriveAnswers
  <2>1. CASE xfer.at \in InCourse
    <3>1. XferIs(xfer) /\ Fresh
      BY <2>1 DEF ReadInv, InCourse
    <3>2. XferIs(xfer') /\ Fresh'
      BY <1>3, <3>1 DEF Fresh
    <3> QED BY <1>1, <1>2, <1>3, <2>1, <3>2, ReadMoves DEF InCourse
  <2>2. CASE xfer.at \notin InCourse
    <3>1. CASE xfer.at = "idle"
      BY <1>3, <2>2, <3>1 DEF ReadInv, AccessHonest, InCourse
    <3>2. CASE xfer.at # "idle"
      <4>1. UNCHANGED <<machine, ideVars>> /\ UNCHANGED pciVars
        BY <1>1, <3>2, EntriesRest
      <4>2. UNCHANGED <<machine, ideAt, ideCtl, ideDev, pciCount, xfer>>
        BY <1>3, <4>1 DEF ideVars, pciVars
      <4>3. Controllers' = Controllers /\ AfterAll' = AfterAll /\ Fresh' = Fresh
        BY <4>2 DEF Controllers, AfterAll, Fresh
      <4>4. AccessHonest' = AccessHonest
        BY <4>2 DEF AccessHonest, IsDrivePresent, SlotOf, Buffer
      <4> QED BY <1>1, <2>2, <3>2, <4>2, <4>3, <4>4 DEF ReadInv
    <3> QED BY <3>1, <3>2
  <2> QED BY <2>1, <2>2
<1>4. CASE /\ xfer.at \in InCourse \ {"data", "poll"} /\ signal' \in Signals
           /\ \E to \in InCourse : xfer' = [xfer EXCEPT !.at = to]
  <2>1. PICK to \in InCourse : xfer' = [xfer EXCEPT !.at = to]
    BY <1>4
  <2>2. XferIs(xfer) /\ Fresh
    BY <1>4 DEF ReadInv, InCourse
  <2>3. /\ xfer' = [at |-> to, n |-> xfer.n, unit |-> xfer.unit, moved |-> xfer.moved,
                    package |-> xfer.package, data |-> xfer.data]
    BY <2>1, <2>2 DEF XferIs
  <2>4. XferIs(xfer') /\ xfer'.n = xfer.n /\ xfer'.unit = xfer.unit /\ Fresh' /\ xfer'.at = to
    BY <2>2, <2>3 DEF XferIs, Fresh
  <2> QED BY <1>1, <1>2, <1>4, <2>4, ReadMoves DEF InCourse
<1> QED BY <1>1, <1>3, <1>4

LEMMA PollStep ==
  ASSUME WalkInv, EntryInv, PhaseInv, ReadInv, [Next]_vars, XferPoll
  PROVE  ReadInv'
<1>1. /\ Going /\ UNCHANGED <<machine, stopped>>
      /\ xfer.at \in {"poll", "data"} /\ signal # "busy"
  BY DEF XferPoll, At, xferRest
<1>2. XferIs(xfer) /\ Fresh /\ Granted /\ signal \in Signals
  BY <1>1 DEF ReadInv, InCourse
<1>3. Going'
  BY <1>1 DEF Going
<1>4. PollError(signal) \in {0, 1, 2, 3} /\ (PollError(signal) = 0 => signal = "drq")
  BY <1>1, <1>2 DEF PollError, Signals
<1>5. UNCHANGED ideVars
  BY <1>1, EntriesRest
<1>6. CASE PollError(signal) # 0
  <2>1. PICK p : p # 0 /\ xfer' = [xfer EXCEPT !.at = "done", !.package = p]
    BY <1>4, <1>6, PackageOfError DEF XferPoll
  <2>2. xfer' = [at |-> "done", n |-> xfer.n, unit |-> xfer.unit, moved |-> xfer.moved,
                 package |-> p, data |-> xfer.data]
    BY <1>2, <2>1 DEF XferIs
  <2>3. XferIs(xfer') /\ xfer'.n = xfer.n /\ xfer'.unit = xfer.unit /\ xfer'.at = "done"
    BY <1>2, <2>2 DEF XferIs
  <2>4. xfer'.moved = "no" /\ xfer'.package # 0
    BY <1>2, <2>1, <2>2 DEF Fresh
  <2>5. AccessHonest'
    BY <2>4 DEF AccessHonest, Buffer
  <2> QED BY <1>1, <1>3, <2>3, <2>5, ReadMoves DEF InCourse
<1>7. CASE PollError(signal) = 0 /\ Packet /\ xfer.at = "poll"
  <2>1. xfer' = [xfer EXCEPT !.at = "answer"] /\ signal' = "busy"
    BY <1>7 DEF XferPoll
  <2>2. xfer' = [at |-> "answer", n |-> xfer.n, unit |-> xfer.unit, moved |-> xfer.moved,
                 package |-> xfer.package, data |-> xfer.data]
    BY <1>2, <2>1 DEF XferIs
  <2>3. /\ XferIs(xfer') /\ xfer'.n = xfer.n /\ xfer'.unit = xfer.unit
        /\ xfer'.at = "answer" /\ Fresh'
    BY <1>2, <2>2 DEF XferIs, Fresh
  <2> QED BY <1>1, <1>3, <2>1, <2>3, ReadMoves DEF InCourse, Signals
<1>8. CASE PollError(signal) = 0 /\ ~(Packet /\ xfer.at = "poll")
  <2> DEFINE found == Unit(SlotOf(xfer.n), xfer.unit)
  <2>1. xfer' = [xfer EXCEPT !.at = "done", !.moved = signal, !.data = found]
    BY <1>8 DEF XferPoll
  <2>2. Unit(SlotOf(xfer.n), xfer.unit)' = found /\ IsDrivePresent(xfer.n)' = IsDrivePresent(xfer.n)
        /\ ideDev' = ideDev
    <3>1. xfer'.n = xfer.n /\ xfer'.unit = xfer.unit
      BY <1>2, <2>1 DEF XferIs
    <3> QED BY <1>1, <1>5, <3>1 DEF ideVars, Unit, SlotOf, IsDrivePresent
  <2> HIDE DEF found
  <2>3. xfer' = [at |-> "done", n |-> xfer.n, unit |-> xfer.unit, moved |-> signal,
                 package |-> xfer.package, data |-> found]
    BY <1>2, <2>1 DEF XferIs
  <2>4. XferIs(xfer') /\ xfer'.n = xfer.n /\ xfer'.unit = xfer.unit /\ xfer'.at = "done"
    BY <1>2, <2>3 DEF XferIs
  <2>5. xfer'.moved = "drq" /\ xfer'.package = 0 /\ xfer'.data = found
    BY <1>2, <1>4, <1>8, <2>3 DEF Fresh
  <2>6. xfer.unit < ideDev[xfer.n].Size * UnitsPerSector(ideDev[xfer.n].Type)
    <3>1. xfer.n \in 0..3 /\ xfer.unit \in Nat
      BY <1>2 DEF XferIs
    <3> QED BY <1>2, <3>1, UnitsOf DEF Granted
  <2>7. AccessHonest'
    BY <1>2, <2>2, <2>4, <2>5, <2>6 DEF AccessHonest, Buffer, Granted
  <2> QED BY <1>1, <1>3, <2>4, <2>7, ReadMoves DEF InCourse
<1> QED BY <1>6, <1>7, <1>8

\* fat's Init starts a read at a node of a drive.
LEMMA StartStep ==
  ASSUME WalkInv, EntryInv, PhaseInv, ReadInv, VolInv, Mount, FatRead
  PROVE  ReadInv'
<1> DEFINE unit == IF fatStep = "boot" THEN vol.lba % Offsets ELSE 0
<1>1. /\ Going /\ running = "fat" /\ fatAt \in Nodes("hd")
      /\ UNCHANGED <<machine, stopped, pciVars, ideVars>>
      /\ xfer' = [at |-> "select", n |-> Node.n, unit |-> unit, moved |-> "no",
                  package |-> 0, data |-> ZeroSector]
  BY DEF FatRead, Mount, Mounting, Node, Nodes, StartRead, fatRest
<1>2. Node.n \in 0..3 /\ ideAt.pci >= 0 /\ ideCtl \in Controllers
  BY <1>1 DEF EntryInv, Node
<1>3. ideAt = AfterAll
  BY <1>1, <1>2 DEF PhaseInv
<1>4. unit \in Nat
  <2>1. vol.lba \in Nat /\ Offsets \in Nat \ {0}
    BY OffsetsAssumption DEF VolInv
  <2>2. vol.lba % Offsets \in 0..(Offsets - 1)
    BY <2>1
  <2> QED BY <2>1, <2>2
<1> HIDE DEF unit
<1>5. Controllers' = Controllers /\ AfterAll' = AfterAll /\ UNCHANGED <<ideAt, ideCtl>>
  BY <1>1 DEF Controllers, AfterAll, pciVars, ideVars
<1>6. XferIs(xfer') /\ Fresh' /\ xfer'.at = "select"
  BY <1>1, <1>2, <1>4 DEF XferIs, Fresh
<1>7. AccessHonest'
  BY <1>6 DEF AccessHonest
<1> QED BY <1>2, <1>3, <1>5, <1>6, <1>7 DEF ReadInv, InCourse

LEMMA ReadStep ==
  ASSUME WalkInv, EntryInv, PhaseInv, ReadInv, VolInv, [Next]_vars
  PROVE  ReadInv'
<1>1. CASE UNCHANGED xferVars
  BY <1>1, ReadKept
<1>2. CASE Transfer
  BY <1>2, SelectStep, CourseStep, PollStep DEF Transfer, XferNext
<1>3. CASE Answer1
  BY <1>3, CourseStep DEF Answer1
<1>4. CASE Mount
  <2>1. CASE FatRead
    BY <1>4, <2>1, StartStep
  <2>2. ~FatRead => UNCHANGED xferVars
    BY <1>4 DEF Mount, MountNext, FatStart, FatPassOver, FatGot, FatReport, FatReturn
  <2> QED BY <1>1, <2>1, <2>2
<1> QED BY <1>1, <1>2, <1>3, <1>4, WhoMoves

\* A partition's first sector is a number, wherever the table was read.
LEMMA PartitionIs ==
  ASSUME NEW s, s.parts \in Seq([type : Nat, lba : Nat])
  PROVE  FatParseMBR(s) \in Nat
<1> DEFINE fat == {k \in DOMAIN s.parts : s.parts[k].type \in FatTypes}
<1>1. FatParseMBR(s) = IF ~s.magic \/ fat = {} THEN 0
                       ELSE s.parts[CHOOSE k \in fat : \A j \in fat : k <= j].lba
  BY DEF FatParseMBR
<1>2. CASE fat # {}
  <2>1. PICK k \in fat : \A j \in fat : k <= j
    <3>1. fat \subseteq Nat
      OBVIOUS
    <3> HIDE DEF fat
    <3> QED BY <1>2, <3>1, LeastNatural
  <2>2. (CHOOSE c \in fat : \A j \in fat : c <= j) \in fat
    <3> HIDE DEF fat
    <3> QED BY <2>1
  <2>3. \A c \in fat : s.parts[c].lba \in Nat
    <3> DEFINE Entries == [type : Nat, lba : Nat]
    <3>1. \A e \in Entries : e.lba \in Nat
      OBVIOUS
    <3>2. s.parts \in Seq(Entries)
      OBVIOUS
    <3> HIDE DEF Entries
    <3>3. \A c \in DOMAIN s.parts : s.parts[c] \in Entries
      BY <3>2
    <3> QED BY <3>1, <3>3
  <2> HIDE DEF fat
  <2> QED BY <1>1, <2>2, <2>3
<1>3. CASE fat = {}
  <2> HIDE DEF fat
  <2> QED BY <1>1, <1>3
<1> QED BY <1>2, <1>3

LEMMA VolStep ==
  ASSUME WalkInv, EntryInv, ReadInv, VolInv, [Next]_vars
  PROVE  VolInv'
<1>1. CASE UNCHANGED fatVars
  BY <1>1 DEF VolInv, fatVars
<1>2. CASE FatGot
  <2>1. xfer.at = "done" /\ ideCtl \in Controllers /\ XferIs(xfer)
    BY <1>2 DEF FatGot, ReadInv
  <2>2. Buffer = Unit(SlotOf(xfer.n), xfer.unit) \/ Buffer = ZeroSector
    BY <2>1 DEF ReadInv, AccessHonest
  <2>3. ZeroSector.parts \in Seq([type : Nat, lba : Nat])
    BY DEF ZeroSector
  <2>4. Unit(SlotOf(xfer.n), xfer.unit).parts \in Seq([type : Nat, lba : Nat])
    <3>1. ideDev[xfer.n].Channel \in 0..1 /\ ideDev[xfer.n].Drive \in 0..1
      BY <2>1 DEF XferIs, EntryInv, Probes
    <3> DEFINE s == 2 * ideDev[xfer.n].Channel + ideDev[xfer.n].Drive
    <3>2. s \in 0..3
      BY <3>1
    <3>3. SlotOf(xfer.n) = ideCtl.slots[s]
      BY DEF SlotOf
    <3> HIDE DEF s
    <3>4. \A u \in DOMAIN ideCtl.slots[s].units :
             ideCtl.slots[s].units[u].parts \in Seq([type : Nat, lba : Nat])
      BY <2>1, <3>2, ControllerFacts
    <3> QED BY <2>3, <3>3, <3>4 DEF Unit
  <2>5. Buffer.parts \in Seq([type : Nat, lba : Nat])
    BY <2>2, <2>3, <2>4
  <2>6. FatParseMBR(Buffer) \in Nat
    BY <2>5, PartitionIs
  <2>7. fatStep \in {"probe", "partitions", "boot"} /\ reading' = FALSE
    BY <1>2 DEF FatGot, VolInv
  <2>8. \/ UNCHANGED vol
        \/ vol' = [lba |-> FatParseMBR(Buffer)]
        \/ vol' = [lba |-> vol.lba, boot |-> Buffer]
    BY <1>2, <2>7 DEF FatGot
  <2> QED BY <2>6, <2>7, <2>8 DEF VolInv
<1>3. CASE FatStart \/ FatRead \/ FatReturn
  BY <1>3 DEF FatStart, FatRead, FatReturn, VolInv, fatVars
<1>4. CASE FatPassOver \/ FatReport
  BY <1>4 DEF FatPassOver, FatReport, NextNode, VolInv
<1> QED BY <1>1, <1>2, <1>3, <1>4, WhoMoves DEF Mount, MountNext

AccessInv == PhaseInv /\ EntryInv /\ ReadInv /\ VolInv

LEMMA AccessInit == Init => AccessInv /\ ScriptInv
<1> SUFFICES ASSUME Init PROVE AccessInv /\ ScriptInv
  OBVIOUS
<1>1. xfer = [at |-> "idle"] /\ vol = [lba |-> 0] /\ reading = FALSE /\ line = 0 /\ sh = "off"
  BY DEF Init, ATAInit, MountInit, PS2Init, ShellInit
<1>2. ReadInv /\ VolInv
  BY <1>1 DEF ReadInv, VolInv, InCourse, AccessHonest
<1>3. ScriptInv
  BY <1>1 DEF ScriptInv
<1> QED BY <1>2, <1>3, PhaseInit DEF AccessInv

LEMMA AccessStep ==
  WalkInv /\ DevsInv /\ ScriptInv /\ AccessInv /\ [Next]_vars => AccessInv'
  BY PhaseStep, EntryStep, ReadStep, VolStep DEF AccessInv

(* Of every drive on every machine, a read takes words only while the      *)
(* drive offers them for this very command, and it returns the sector      *)
(* asked for or zeros.  (IDEAccess, IDEAtaPIRead, IDEPolling, IDEPrintErr.)*)
THEOREM AccessCorrect == Spec => []AccessHonest
<1>1. AccessInv => AccessHonest
  BY DEF AccessInv, ReadInv
<1>2. Spec => [](WalkInv /\ DevsInv /\ ScriptInv)
  <2>1. Spec => []ScriptInv
    BY AccessInit, ScriptInvStep, PTL DEF Spec
  <2> QED BY <2>1, WalkAlways, Ps2Always, PTL
<1> QED BY <1>1, <1>2, AccessInit, AccessStep, PTL DEF Spec
----------------------------------------------------------------------------
(* The nodes of drives: where one controller is in the list, and what of   *)
(* its slots the probe has made into entries and nodes.                    *)

\* Before Init the list is empty; later it ends at its end.
ListInv ==
    /\ pciAt.bus < 0 => \A k \in DOMAIN pciDev : pciDev[k] = NoFunction
    /\ pciAt.bus >= 0 => pciCount <= MaxDevices

LEMMA ListInit == Init => ListInv
<1> SUFFICES ASSUME Init PROVE ListInv
  OBVIOUS
<1>1. pciAt.bus = -1 /\ pciDev = [k \in 0..(MaxDevices - 1) |-> NoFunction]
  BY DEF Init, PCIInit
<1> QED BY <1>1 DEF ListInv

LEMMA ListStep ==
  ASSUME WalkInv, ListInv, [Next]_vars
  PROVE  ListInv'
<1>1. UNCHANGED machine /\ MaxDevices \in Nat
  BY MachineStep, BusFacts, BusAssumption DEF WalkInv
<1>2. CASE UNCHANGED pciVars
  BY <1>1, <1>2 DEF ListInv, pciVars
<1>3. CASE PCIReturn
  BY <1>1, <1>3 DEF ListInv, pciVars, PCIReturn
<1>4. CASE PCIPublish
  <2>1. pciAt.bus < 0 /\ UNCHANGED pciDev /\ pciCount' = 0 /\ pciAt'.bus = 0
    BY <1>4 DEF PCIPublish, WalkInv, Addresses
  <2> QED BY <1>1, <2>1 DEF ListInv
<1>5. CASE PCIScan
  <2>1. pciAt.bus \in 0..(Buses - 1) /\ Going /\ Buses \in Nat
    BY <1>5, BusAssumption DEF PCIScan
  <2>2. pciAt'.bus \in Nat /\ ~(pciAt'.bus < 0)
    <3>1. pciAt \in Addresses
      BY DEF WalkInv
    <3>2. pciAt' = [pciAt EXCEPT !.func = @ + 1] \/ pciAt' = NextSlot
      BY <1>5 DEF PCIScan
    <3> QED BY <2>1, <3>1, <3>2 DEF NextSlot, Addresses
  <2>3. pciCount \in Nat
    <3>1. pciCount = Cardinality(Walked)
      BY <2>1 DEF WalkInv, Listing
    <3>2. Cardinality(Walked) \in Nat
      BY WalkedFacts DEF WalkInv
    <3> QED BY <1>1, <3>1, <3>2
  <2>4. \/ UNCHANGED <<pciDev, pciCount>>
        \/ /\ pciCount < MaxDevices /\ pciCount' = pciCount + 1
           /\ \E d : pciDev' = [pciDev EXCEPT ![pciCount] = d]
    BY <1>5 DEF PCIScan, PCIRegister
  <2>5. CASE UNCHANGED <<pciDev, pciCount>>
    BY <1>1, <2>1, <2>2, <2>5 DEF ListInv
  <2>6. CASE /\ pciCount < MaxDevices /\ pciCount' = pciCount + 1
             /\ \E d : pciDev' = [pciDev EXCEPT ![pciCount] = d]
    <3>1. pciCount' <= MaxDevices
      BY <1>1, <2>3, <2>6
    <3> QED BY <2>2, <3>1 DEF ListInv
  <2> QED BY <2>4, <2>5, <2>6
<1> QED BY <1>2, <1>3, <1>4, <1>5, WhoMoves DEF Enumerate, PCINext

\* No function is listed twice.
LEMMA ListedOnce ==
  ASSUME machine \in Machines, Listing,
         NEW k \in 0..(pciCount - 1), NEW j \in 0..(pciCount - 1),
         pciDev[k] = pciDev[j]
  PROVE  k = j
<1> DEFINE S == 0..(pciCount - 1)
           f == [x \in S |-> pciDev[x]]
<1>1. /\ Cardinality(Walked) \in Nat
      /\ pciCount = Cardinality(Walked)
  BY BusFacts, WalkedFacts DEF Listing
<1>2. IsFiniteSet(S) /\ Cardinality(S) = Cardinality(Walked)
  <2> DEFINE n == Cardinality(Walked)
  <2>1. n - 1 \in Int /\ n \in Nat /\ S = 0..(n - 1)
    BY <1>1
  <2> HIDE DEF n, S
  <2>2. /\ IsFiniteSet(0..(n - 1))
        /\ Cardinality(0..(n - 1)) = IF 0 > n - 1 THEN 0 ELSE (n - 1) - 0 + 1
    BY <2>1, FS_Interval
  <2>3. (IF 0 > n - 1 THEN 0 ELSE (n - 1) - 0 + 1) = n
    BY <2>1
  <2>4. IsFiniteSet(S) /\ Cardinality(S) = n
    BY <2>1, <2>2, <2>3
  <2> QED BY <2>4 DEF n
<1>3. f \in Surjection(S, Walked)
  <2>1. f \in [S -> Walked]
    BY DEF Listing
  <2>2. \A d \in Walked : \E x \in S : f[x] = d
    BY DEF Listing
  <2> QED BY <2>1, <2>2 DEF Surjection
<1>4. f \in Injection(S, Walked)
  <2> HIDE DEF S, f
  <2> QED BY <1>2, <1>3, FS_SurjSameCardinalityImpliesInj
<1>5. f[k] = f[j]
  OBVIOUS
<1> HIDE DEF f
<1> QED BY <1>4, <1>5 DEF Injection, IsInjective

\* The index of the list at which the only controller is.
Place(q) ==
    /\ q \in 0..(pciCount - 1) /\ q < MaxDevices
    /\ \A k \in 0..(pciCount - 1) : k < MaxDevices => (pciDev[k].class = "ide" <=> k = q)

LEMMA PlaceFound ==
  ASSUME WalkInv, ListInv, Going, pciAt.bus = Buses, NEW c, Controllers = {c}
  PROVE  \E q \in 0..(MaxDevices - 1) : Place(q) /\ pciDev[q] = c
<1>1. /\ machine \in Machines /\ MaxDevices \in Nat /\ Buses \in Nat
      /\ IsFiniteSet(Walked) /\ Cardinality(Walked) \in Nat
      /\ DOMAIN pciDev = 0..(MaxDevices - 1)
  BY BusAssumption, BusFacts, WalkedFacts DEF WalkInv
<1>2. Listing
  BY <1>1 DEF WalkInv
<1>3. Walked = machine.pci
  <2>1. \A d \in machine.pci : Before(d, pciAt)
    <3>1. \A d \in machine.pci : d.bus \in 0..(Buses - 1)
      BY <1>1, BusFacts
    <3> QED BY <1>1, <3>1 DEF Before
  <2> QED BY <2>1 DEF Walked
<1>4. c \in Walked /\ c.class = "ide" /\ \A d \in Walked : d.class = "ide" => d = c
  BY <1>3 DEF Controllers
<1>5. PICK q \in 0..(pciCount - 1) : pciDev[q] = c
  BY <1>2, <1>4 DEF Listing
<1>6. pciCount = Cardinality(Walked)
  BY <1>2 DEF Listing
<1>7. pciCount <= MaxDevices
  BY <1>1 DEF ListInv
<1>8. q \in 0..(pciCount - 1) /\ q < MaxDevices
  BY <1>1, <1>5, <1>6, <1>7
<1>9. ASSUME NEW k \in 0..(pciCount - 1), k < MaxDevices
      PROVE  pciDev[k].class = "ide" <=> k = q
  <2>1. pciDev[k] \in Walked
    BY <1>2, <1>9 DEF Listing
  <2>2. pciDev[k].class = "ide" => pciDev[k] = pciDev[q]
    BY <1>4, <1>5, <2>1
  <2>3. pciDev[k].class = "ide" => k = q
    BY <1>1, <1>2, <1>5, <1>9, <2>2, ListedOnce
  <2> QED BY <1>4, <1>5, <2>3
<1> QED BY <1>1, <1>5, <1>8, <1>9 DEF Place

\* What a new node does to the nodes of a kind.
LEMMA Shifted ==
  ASSUME DevsInv, NEW node, devs' = <<node>> \o devs, NEW kind
  PROVE  /\ Nodes(kind) \subseteq Nat \ {0} /\ IsFiniteSet(Nodes(kind))
         /\ \A k \in Nodes(kind) : k + 1 \in Nodes(kind)' /\ devs'[k + 1] = devs[k]
         /\ \A k \in Nodes(kind)' : k = 1 \/ k - 1 \in Nodes(kind)
         /\ 1 \in Nodes(kind)' <=> node.kind = kind
         /\ devs'[1] = node /\ Nodes(kind)' \subseteq Nat \ {0}
<1>1. PICK S : devs \in Seq(S)
  BY DEF DevsInv
<1>2. <<node>> \in Seq(S \cup {node}) /\ devs \in Seq(S \cup {node})
  BY <1>1
<1>3. devs' \in Seq(S \cup {node}) /\ Len(devs') = Len(devs) + 1 /\ Len(devs) \in Nat
  BY <1>2
<1>4. devs'[1] = node /\ \A j \in 1..Len(devs) : devs'[j + 1] = devs[j]
  BY <1>2
<1>5. DOMAIN devs = 1..Len(devs) /\ DOMAIN devs' = 1..(Len(devs) + 1)
  BY <1>1, <1>3
<1>6. Nodes(kind) \subseteq 1..Len(devs) /\ Nodes(kind)' \subseteq 1..(Len(devs) + 1)
  BY <1>5 DEF Nodes
<1>7. IsFiniteSet(Nodes(kind))
  <2>1. 1 \in Int /\ Len(devs) \in Int
    BY <1>3
  <2>2. IsFiniteSet(1..Len(devs))
    BY <2>1, FS_Interval
  <2> QED BY <1>6, <2>2, FS_Subset
<1>8. ASSUME NEW k \in Nodes(kind) PROVE k + 1 \in Nodes(kind)' /\ devs'[k + 1] = devs[k]
  <2>1. k \in 1..Len(devs) /\ k + 1 \in 1..(Len(devs) + 1)
    BY <1>3, <1>6
  <2> QED BY <1>4, <1>5, <2>1 DEF Nodes
<1>9. ASSUME NEW k \in Nodes(kind)', k # 1 PROVE k - 1 \in Nodes(kind)
  <2>1. k \in 1..(Len(devs) + 1) /\ k - 1 \in 1..Len(devs) /\ k = (k - 1) + 1
    BY <1>3, <1>6, <1>9
  <2>2. devs'[k] = devs[k - 1]
    BY <1>4, <2>1
  <2> QED BY <1>5, <2>1, <2>2 DEF Nodes
<1>10. 1 \in Nodes(kind)' <=> node.kind = kind
  BY <1>3, <1>4, <1>5 DEF Nodes
<1> QED BY <1>3, <1>4, <1>6, <1>7, <1>8, <1>9, <1>10

LEMMA NodesCount ==
  ASSUME DevsInv, NEW node, devs' = <<node>> \o devs, NEW kind
  PROVE  Cardinality(Nodes(kind)')
            = Cardinality(Nodes(kind)) + (IF node.kind = kind THEN 1 ELSE 0)
<1> DEFINE S == Nodes(kind)
           T == Nodes(kind)' \ {1}
           f == [k \in S |-> k + 1]
<1>1. /\ S \subseteq Nat \ {0} /\ IsFiniteSet(S) /\ T \subseteq Nat \ {0}
      /\ \A k \in S : k + 1 \in T
      /\ \A k \in T : k - 1 \in S
      /\ 1 \in Nodes(kind)' <=> node.kind = kind
  <2>1. /\ S \subseteq Nat \ {0} /\ IsFiniteSet(S)
        /\ \A k \in S : k + 1 \in Nodes(kind)'
        /\ \A k \in Nodes(kind)' : k = 1 \/ k - 1 \in S
        /\ 1 \in Nodes(kind)' <=> node.kind = kind
        /\ Nodes(kind)' \subseteq Nat \ {0}
    BY Shifted
  <2> QED BY <2>1
<1>2. Nodes(kind)' = IF node.kind = kind THEN T \cup {1} ELSE T
  BY <1>1
<1>3. 1 \notin T
  OBVIOUS
<1> HIDE DEF S, T
<1>4. f \in Bijection(S, T)
  <2>1. f \in [S -> T]
    BY <1>1
  <2>2. \A a, b \in S : f[a] = f[b] => a = b
    BY <1>1
  <2>3. \A t \in T : \E s \in S : f[s] = t
    <3> SUFFICES ASSUME NEW t \in T PROVE \E s \in S : f[s] = t
      OBVIOUS
    <3>1. t - 1 \in S /\ t \in Nat
      BY <1>1
    <3>2. f[t - 1] = t
      BY <1>1, <3>1
    <3> QED BY <3>1, <3>2
  <2> QED BY <2>1, <2>2, <2>3 DEF Bijection, Injection, Surjection, IsInjective
<1>5. IsFiniteSet(T) /\ Cardinality(T) = Cardinality(S)
  <2>1. ExistsBijection(S, T)
    BY <1>4 DEF ExistsBijection
  <2> QED BY <1>1, <2>1, FS_Bijection
<1>6. Cardinality(T \cup {1}) = Cardinality(T) + 1
  BY <1>3, <1>5, FS_AddElement
<1>7. Cardinality(T) \in Nat
  BY <1>5, FS_CardinalityType
<1> QED BY <1>2, <1>5, <1>6, <1>7 DEF S

\* The slots of a controller with a drive, and how many come before one.
Has(c, s) == c.slots[s].kind \in {"ata", "atapi", "hung"}
Rank(c, n) == Cardinality({t \in 0..3 : Has(c, t) /\ t < n})

LEMMA RankFacts ==
  ASSUME NEW c, NEW n \in 0..4
  PROVE  /\ Rank(c, n) \in Nat /\ Rank(c, 0) = 0
         /\ n < 4 => Rank(c, n + 1) = Rank(c, n) + (IF Has(c, n) THEN 1 ELSE 0)
         /\ \A s \in 0..3 : Has(c, s) /\ s < n => Rank(c, s) < Rank(c, n)
<1> DEFINE F(m) == {t \in 0..3 : Has(c, t) /\ t < m}
<1>1. \A m : IsFiniteSet(F(m))
  <2>1. 0 \in Int /\ 3 \in Int
    OBVIOUS
  <2>2. IsFiniteSet(0..3)
    BY <2>1, FS_Interval
  <2>3. \A m : F(m) \in SUBSET (0..3)
    OBVIOUS
  <2> HIDE DEF F
  <2> QED BY <2>2, <2>3, FS_Subset
<1>2. Rank(c, n) \in Nat
  BY <1>1, FS_CardinalityType DEF Rank
<1>3. Rank(c, 0) = 0
  <2>1. F(0) = {}
    OBVIOUS
  <2> QED BY <2>1, FS_EmptySet DEF Rank
<1>4. ASSUME n < 4 PROVE Rank(c, n + 1) = Rank(c, n) + (IF Has(c, n) THEN 1 ELSE 0)
  <2>1. CASE Has(c, n)
    <3>1. F(n + 1) = F(n) \cup {n} /\ n \notin F(n)
      BY <1>4, <2>1
    <3>2. Cardinality(F(n + 1)) = Cardinality(F(n)) + 1
      <4> HIDE DEF F
      <4> QED BY <1>1, <3>1, FS_AddElement
    <3> QED BY <2>1, <3>2 DEF Rank
  <2>2. CASE ~Has(c, n)
    <3>1. F(n + 1) = F(n)
      BY <1>4, <2>2
    <3>2. Cardinality(F(n + 1)) = Cardinality(F(n))
      <4> HIDE DEF F
      <4> QED BY <3>1
    <3>3. Rank(c, n + 1) = Rank(c, n)
      BY <3>2 DEF Rank
    <3> QED BY <1>2, <2>2, <3>3
  <2> QED BY <2>1, <2>2
<1>5. ASSUME NEW s \in 0..3, Has(c, s), s < n PROVE Rank(c, s) < Rank(c, n)
  <2>1. F(s) \subseteq F(n) /\ F(s) # F(n)
    <3>1. s \in F(n) /\ s \notin F(s)
      BY <1>5
    <3>2. F(s) \subseteq F(n)
      BY <1>5
    <3> QED BY <3>1, <3>2
  <2>2. Cardinality(F(s)) < Cardinality(F(n))
    <3> DEFINE A == F(s)
               B == F(n)
    <3>1. IsFiniteSet(A) /\ IsFiniteSet(B) /\ A \in SUBSET B /\ A # B
      <4> HIDE DEF F
      <4> QED BY <1>1, <2>1
    <3> HIDE DEF A, B
    <3>2. Cardinality(A) <= Cardinality(B) /\ (Cardinality(B) = Cardinality(A) => B = A)
      BY <3>1, FS_Subset
    <3>3. Cardinality(A) \in Nat /\ Cardinality(B) \in Nat
      BY <3>1, FS_CardinalityType
    <3>4. Cardinality(A) < Cardinality(B)
      BY <3>1, <3>2, <3>3
    <3> QED BY <3>4 DEF A, B
  <2> QED BY <2>2 DEF Rank
<1> QED BY <1>2, <1>3, <1>4, <1>5

\* The entry of the drive in a slot, and what a probe of n slots has left.
EntryOf(c, s) == [Reserved |-> TRUE, Channel |-> s \div 2, Drive |-> s % 2,
                  Type |-> Probed(c.slots[s]), Size |-> c.slots[s].size]

Drives(c, n) ==
    /\ Cardinality(Nodes("hd")) = Rank(c, n)
    /\ \A s \in 0..3 : Has(c, s) /\ s < n =>
        /\ \E k \in Nodes("hd") : devs[k].n = Rank(c, s)
        /\ ideDev[Rank(c, s)] = EntryOf(c, s)

\* How many slots of the controller at index q have been probed.
Through(q) ==
    IF ideAt.pci < q \/ (ideAt.pci = q /\ ideAt.slot = 4) THEN 0
    ELSE IF ideAt.pci = q THEN ideAt.slot ELSE 4

DrivesAt(c, q) ==
    /\ Place(q) /\ pciDev[q] = c
    /\ ideAt.slot < 4 => ideAt.pci = q /\ ideCtl = c /\ ideCount = Rank(c, ideAt.slot)
    /\ ideAt.pci > q => ideCtl = c
    /\ Drives(c, Through(q))

DrivesInv ==
    \A c \in Controllers : Controllers = {c} /\ ideAt.pci >= 0 =>
        \E q \in 0..(MaxDevices - 1) : DrivesAt(c, q)

\* Nobody else registers a node of a drive.
LEMMA DrivesKept ==
  ASSUME DevsInv, ScriptInv, [Next]_vars, ~IDEProbe, UNCHANGED ideDev,
         NEW c, NEW n, Drives(c, n)
  PROVE  Drives(c, n)'
<1>1. CASE UNCHANGED devs
  BY <1>1 DEF Drives, Nodes
<1>2. CASE \E node : Registers(node)
  <2>1. PICK node : Registers(node)
    BY <1>2
  <2>2. devs' = <<node>> \o devs /\ node.kind # "hd"
    BY <2>1 DEF Registers
  <2>3. IsFiniteSet(Nodes("hd"))
    BY <2>2, Shifted
  <2>4. Cardinality(Nodes("hd")) \in Nat
    BY <2>3, FS_CardinalityType
  <2>5. Cardinality(Nodes("hd")') = Cardinality(Nodes("hd"))
    <3>1. Cardinality(Nodes("hd")')
             = Cardinality(Nodes("hd")) + (IF node.kind = "hd" THEN 1 ELSE 0)
      BY <2>2, NodesCount
    <3> QED BY <2>2, <2>4, <3>1
  <2>6. \A k \in Nodes("hd") : k + 1 \in Nodes("hd")' /\ devs'[k + 1] = devs[k]
    BY <2>2, Shifted
  <2> QED BY <2>5, <2>6 DEF Drives
<1> QED BY <1>1, <1>2, DevsNew

\* The probe of a slot turns what is there into the next entry and node.
LEMMA DrivesMore ==
  ASSUME WalkInv, DevsInv, ScriptInv, PhaseInv, EntryInv, [Next]_vars, IDEProbe,
         NEW c, NEW n, ideCtl = c, ideAt.slot = n,
         ideCount = Rank(c, n), Drives(c, n)
  PROVE  Drives(c, n + 1)' /\ ideCount' = Rank(c, n + 1)
<1> DEFINE slot == c.slots[n]
<1>1. n \in 0..3 /\ ideCount \in 0..3 /\ c \in Controllers /\ ideDev \in [0..3 -> Probes]
  BY ProbeFacts DEF EntryInv
<1>2. slot.kind \in {"none", "floating", "refusing", "atapi", "ata", "hung"}
  BY <1>1, ControllerFacts
<1>3. Has(c, n) <=> Probed(slot) # "none"
  BY <1>2 DEF Has, Probed
<1>4. UNCHANGED ideCtl
  BY DEF IDEProbe
<1>5. /\ Rank(c, n) \in Nat
      /\ Rank(c, n + 1) = Rank(c, n) + (IF Has(c, n) THEN 1 ELSE 0)
      /\ \A s \in 0..3 : Has(c, s) /\ s < n => Rank(c, s) < Rank(c, n)
  BY <1>1, RankFacts
<1>6. \A s \in 0..3 : Rank(c, s) \in Nat
  BY RankFacts
<1>7. ASSUME NEW s \in 0..3, Has(c, s), s < n
      PROVE  Rank(c, s) \in 0..3 /\ Rank(c, s) # ideCount
  <2>1. Rank(c, s) < ideCount /\ Rank(c, s) \in Nat
    BY <1>5, <1>6, <1>7
  <2> QED BY <1>1, <2>1
<1>8. CASE ~Has(c, n)
  <2>1. /\ ideDev' = [ideDev EXCEPT ![ideCount].Reserved = FALSE]
        /\ UNCHANGED <<ideCount, devs>>
    BY <1>3, <1>8 DEF IDEProbe
  <2>2. \A s \in 0..3 : Has(c, s) /\ s < n + 1 => s < n
    BY <1>1, <1>8
  <2>3. \A s \in 0..3 : Has(c, s) /\ s < n => ideDev'[Rank(c, s)] = ideDev[Rank(c, s)]
    BY <1>1, <1>7, <2>1
  <2>4. Rank(c, n + 1) = Rank(c, n)
    BY <1>5, <1>8
  <2>5. ideCount' = Rank(c, n + 1)
    BY <2>1, <2>4
  <2>6. Nodes("hd")' = Nodes("hd")
    BY <2>1 DEF Nodes
  <2> QED BY <1>4, <2>1, <2>2, <2>3, <2>4, <2>5, <2>6 DEF Drives
<1>9. CASE Has(c, n)
  <2> DEFINE node == [name |-> "hd", kind |-> "hd", n |-> ideCount]
  <2>1. /\ ideDev' = [ideDev EXCEPT ![ideCount] = Entry(n, Probed(slot))]
        /\ devs' = <<node>> \o devs
        /\ ideCount' = ideCount + 1
    BY <1>3, <1>9 DEF IDEProbe, Register
  <2>2. node.kind = "hd" /\ node.n = ideCount
    OBVIOUS
  <2> HIDE DEF node
  <2>3. Cardinality(Nodes("hd")') = Cardinality(Nodes("hd")) + 1
    <3>1. Cardinality(Nodes("hd")')
             = Cardinality(Nodes("hd")) + (IF node.kind = "hd" THEN 1 ELSE 0)
      BY <2>1, NodesCount
    <3> QED BY <2>2, <3>1
  <2>4. \A k \in Nodes("hd") : k + 1 \in Nodes("hd")' /\ devs'[k + 1] = devs[k]
    BY <2>1, Shifted
  <2>5. 1 \in Nodes("hd")' /\ devs'[1] = node
    BY <2>1, <2>2, Shifted
  <2>6. Rank(c, n + 1) = Rank(c, n) + 1
    BY <1>5, <1>9
  <2>7. ideCount' = Rank(c, n + 1)
    BY <2>1, <2>6
  <2>8. \A s \in 0..3 : Has(c, s) /\ s < n => ideDev'[Rank(c, s)] = ideDev[Rank(c, s)]
    BY <1>1, <1>7, <2>1
  <2>9. ideDev'[Rank(c, n)] = EntryOf(c, n)
    BY <1>1, <2>1 DEF Entry, EntryOf
  <2>10. \A s \in 0..3 : s < n + 1 => s = n \/ s < n
    BY <1>1
  <2>11. /\ Cardinality(Nodes("hd")) = Rank(c, n)
         /\ \A s \in 0..3 : Has(c, s) /\ s < n =>
              /\ \E k \in Nodes("hd") : devs[k].n = Rank(c, s)
              /\ ideDev[Rank(c, s)] = EntryOf(c, s)
    BY DEF Drives
  <2>12. \A s \in 0..3 : Has(c, s) /\ s < n + 1 =>
              /\ \E k \in Nodes("hd")' : devs'[k].n = Rank(c, s)
              /\ ideDev'[Rank(c, s)] = EntryOf(c, s)
    BY <2>2, <2>4, <2>5, <2>8, <2>9, <2>10, <2>11
  <2> QED BY <1>4, <2>3, <2>6, <2>7, <2>11, <2>12 DEF Drives
<1> QED BY <1>8, <1>9

\* From Init's first step on, the list is complete.
LEMMA ListRests ==
  ASSUME WalkInv, PhaseInv, [Next]_vars, ideAt.pci >= 0
  PROVE  UNCHANGED pciVars
<1> SUFFICES ASSUME Enumerate PROVE UNCHANGED pciVars
  BY WhoMoves
<1>1. pciAt.bus = Buses /\ Buses \in Nat
  BY BusAssumption DEF PhaseInv, Enumerate, PCINext, PCIPublish, PCIScan, PCIReturn
<1>2. ~PCIPublish /\ ~PCIScan
  BY <1>1 DEF PCIPublish, PCIScan
<1> QED BY <1>2 DEF Enumerate, PCINext, PCIReturn

\* Init finds /dev/pci: there are no drives yet, and one place to look at.
LEMMA DrivesBegin ==
  ASSUME WalkInv, DevsInv, PhaseInv, EntryInv, ListInv, [Next]_vars,
         ~(ideAt.pci >= 0), ideAt'.pci >= 0,
         NEW c, Controllers = {c}
  PROVE  \E q \in 0..(MaxDevices - 1) : DrivesAt(c, q)'
<1>1. ideAt \in [pci : Int, slot : 0..4]
  BY DEF PhaseInv
<1>2. ideAt.pci < 0 /\ ideAt.slot = 4
  BY <1>1 DEF EntryInv
<1>3. IDEStart /\ Detect
  <2>1. Detect
    BY <1>2, WhoMoves DEF ideVars
  <2>2. ~IDEFind
    BY <1>2 DEF IDEFind
  <2>3. ~IDEReturn
    BY <1>2 DEF IDEReturn, ideVars
  <2>4. ~IDEProbe
    BY <1>2 DEF IDEProbe
  <2> QED BY <2>1, <2>2, <2>3, <2>4 DEF Detect, IDENext
<1>4. /\ Nodes("pci") # {} /\ Going /\ running = "ide"
      /\ ideAt' = [pci |-> 0, slot |-> 4] /\ UNCHANGED devs
  BY <1>1, <1>2, <1>3 DEF IDEStart
<1>5. pciAt.bus = Buses /\ UNCHANGED pciVars
  BY <1>3, <1>4 DEF PhaseInv, Detect
<1>6. PICK q \in 0..(MaxDevices - 1) : Place(q) /\ pciDev[q] = c
  BY <1>4, <1>5, PlaceFound
<1>7. Place(q)' /\ pciDev'[q] = c
  BY <1>5, <1>6 DEF Place, pciVars
<1>8. Nodes("hd") = {}
  BY <1>2, <1>1 DEF EntryInv
<1>9. Through(q)' = 0
  <2>1. q \in Nat
    BY <1>6
  <2> QED BY <1>4, <2>1 DEF Through
<1>10. Drives(c, 0)'
  <2>1. Nodes("hd")' = {} /\ Cardinality({}) = 0
    BY <1>4, <1>8, FS_EmptySet DEF Nodes
  <2>2. Rank(c, 0) = 0
    BY RankFacts
  <2>3. \A s \in 0..3 : ~(s < 0)
    OBVIOUS
  <2> QED BY <2>1, <2>2, <2>3 DEF Drives
<1>11. ~(ideAt'.slot < 4) /\ ~(ideAt'.pci > q)
  BY <1>4, <1>6
<1>12. Drives(c, Through(q))'
  BY <1>9, <1>10 DEF Drives
<1>13. DrivesAt(c, q)'
  BY <1>7, <1>11, <1>12 DEF DrivesAt
<1> QED BY <1>13

LEMMA DrivesGoOn ==
  ASSUME WalkInv, DevsInv, ScriptInv, PhaseInv, EntryInv, [Next]_vars,
         ideAt.pci >= 0, NEW c, NEW q \in 0..(MaxDevices - 1), DrivesAt(c, q)
  PROVE  DrivesAt(c, q)'
<1>1. ideAt \in [pci : Int, slot : 0..4] /\ q \in Nat /\ ideAt.pci \in Nat
  <2>1. ideAt \in [pci : Int, slot : 0..4]
    BY DEF PhaseInv
  <2> QED BY <2>1
<1>2. UNCHANGED pciVars
  BY ListRests
<1>3. Place(q)' /\ pciDev'[q] = c
  BY <1>2 DEF DrivesAt, Place, pciVars
<1>4. CASE UNCHANGED ideVars
  <2>1. UNCHANGED <<ideAt, ideCtl, ideDev, ideCount>>
    BY <1>4 DEF ideVars
  <2>2. ~IDEProbe
    BY <1>1, <2>1 DEF IDEProbe
  <2> DEFINE n == Through(q)
  <2>3. Drives(c, n)
    BY DEF DrivesAt
  <2>4. Through(q)' = n
    BY <2>1 DEF Through
  <2> HIDE DEF n
  <2>5. Drives(c, Through(q))'
    BY <2>1, <2>2, <2>3, <2>4, DrivesKept DEF Drives
  <2> QED BY <1>3, <2>1, <2>5 DEF DrivesAt
<1>5. CASE IDEFind
  <2>1. ideAt.slot = 4 /\ ideAt.pci \in 0..(pciCount - 1) /\ UNCHANGED ideDev /\ ~IDEProbe
    BY <1>5 DEF IDEFind, IDEProbe
  <2>2. CASE ideAt.pci = q
    <3>1. ideAt.pci < MaxDevices /\ pciDev[ideAt.pci].class = "ide"
      BY <2>1, <2>2 DEF DrivesAt, Place
    <3>2. ideCtl' = c /\ ideCount' = 0 /\ ideAt' = [pci |-> q, slot |-> 0]
      BY <1>1, <1>5, <2>2, <3>1 DEF IDEFind, DrivesAt
    <3>3. Through(q) = 0 /\ Through(q)' = 0
      BY <1>1, <2>1, <2>2, <3>2 DEF Through
    <3>4. Rank(c, 0) = 0
      BY RankFacts
    <3>5. Drives(c, 0)'
      BY <2>1, <3>3, DrivesKept DEF DrivesAt
    <3>6. Drives(c, Through(q))'
      BY <3>3, <3>5 DEF Drives
    <3>7. ideAt'.pci = q /\ ideAt'.slot = 0 /\ ~(ideAt'.pci > q)
      BY <1>1, <3>2
    <3> QED BY <1>3, <3>2, <3>4, <3>6, <3>7 DEF DrivesAt
  <2>3. CASE ideAt.pci # q
    <3>1. ~(ideAt.pci < MaxDevices /\ pciDev[ideAt.pci].class = "ide")
      BY <2>1, <2>3 DEF DrivesAt, Place
    <3>2. ideAt' = [pci |-> ideAt.pci + 1, slot |-> 4] /\ UNCHANGED <<ideCtl, ideCount>>
      BY <1>1, <1>5, <2>1, <3>1 DEF IDEFind
    <3>0. PICK n : n = Through(q)
      OBVIOUS
    <3>3. n = (IF ideAt.pci < q THEN 0 ELSE 4) /\ Through(q)' = n
      BY <1>1, <2>1, <2>3, <3>0, <3>2 DEF Through
    <3>4. Drives(c, n)
      BY <3>0 DEF DrivesAt
    <3>5. Drives(c, n)'
      BY <2>1, <3>4, DrivesKept
    <3>6. Drives(c, Through(q))'
      BY <3>3, <3>5 DEF Drives
    <3>7. ~(ideAt'.slot < 4) /\ (ideAt'.pci > q => ideAt.pci > q)
      BY <1>1, <2>3, <3>2
    <3> QED BY <1>3, <3>2, <3>6, <3>7 DEF DrivesAt
  <2> QED BY <2>2, <2>3
<1>6. CASE IDEProbe
  <2> DEFINE s == ideAt.slot
  <2>1. s \in 0..3 /\ ideAt.pci = q /\ ideCtl = c /\ ideCount = Rank(c, s) /\ UNCHANGED ideCtl
    BY <1>1, <1>6 DEF IDEProbe, DrivesAt
  <2>2. Through(q) = s
    BY <1>1, <2>1 DEF Through
  <2>3. Drives(c, s)
    BY <2>2 DEF DrivesAt
  <2>4. ideAt' = IF s = 3 THEN [pci |-> q + 1, slot |-> 4] ELSE [pci |-> q, slot |-> s + 1]
    BY <1>1, <1>6, <2>1 DEF IDEProbe
  <2>5. PICK m : m = s
    OBVIOUS
  <2>6. Drives(c, m + 1)' /\ ideCount' = Rank(c, m + 1)
    BY <1>6, <2>1, <2>3, <2>5, DrivesMore
  <2>7. m \in 0..3 /\ ideAt' = IF m = 3 THEN [pci |-> q + 1, slot |-> 4]
                                ELSE [pci |-> q, slot |-> m + 1]
    BY <2>1, <2>4, <2>5
  <2> HIDE DEF s
  <2>8. Through(q)' = m + 1
    BY <1>1, <2>7 DEF Through
  <2>9. Drives(c, Through(q))'
    BY <2>6, <2>8 DEF Drives
  <2>10. ideAt'.slot < 4 => ideAt'.pci = q /\ ideAt'.slot = m + 1
    BY <2>7
  <2> QED BY <1>3, <2>1, <2>6, <2>9, <2>10 DEF DrivesAt
<1>7. CASE IDEStart
  BY <1>1, <1>7 DEF IDEStart
<1>8. CASE IDEReturn
  BY <1>4, <1>8 DEF IDEReturn
<1> QED BY <1>4, <1>5, <1>6, <1>7, <1>8, WhoMoves DEF Detect, IDENext

LEMMA DrivesStep ==
  WalkInv /\ DevsInv /\ ScriptInv /\ AccessInv /\ ListInv /\ DrivesInv /\ [Next]_vars
    => DrivesInv'
<1> SUFFICES ASSUME WalkInv, DevsInv, ScriptInv, AccessInv, ListInv, DrivesInv, [Next]_vars,
                    NEW c \in Controllers', Controllers' = {c}, ideAt'.pci >= 0
             PROVE  \E q \in 0..(MaxDevices - 1) : DrivesAt(c, q)'
  BY DEF DrivesInv
<1>1. Controllers = {c}
  BY MachineStep DEF Controllers
<1>2. CASE ideAt.pci >= 0
  <2>1. PICK q \in 0..(MaxDevices - 1) : DrivesAt(c, q)
    BY <1>1, <1>2 DEF DrivesInv
  <2> QED BY <1>2, <2>1, DrivesGoOn DEF AccessInv
<1>3. CASE ~(ideAt.pci >= 0)
  BY <1>1, <1>3, DrivesBegin DEF AccessInv
<1> QED BY <1>2, <1>3

LEMMA DrivesImply == WalkInv /\ AccessInv /\ DrivesInv => NodesAreDrives
<1> SUFFICES ASSUME WalkInv, AccessInv, DrivesInv, Cardinality(Controllers) = 1,
                    running # "ide", ideAt.pci >= 0
             PROVE  NodesAreDrives
  BY DEF NodesAreDrives
<1>1. PICK c : Controllers = {c}
  <2>1. IsFiniteSet(Controllers)
    <3>1. IsFiniteSet(machine.pci) /\ Controllers \in SUBSET machine.pci
      BY BusFacts DEF WalkInv, Controllers
    <3> QED BY <3>1, FS_Subset
  <2> QED BY <2>1, FS_Singleton
<1> DEFINE slots == (CHOOSE d \in Controllers : TRUE).slots
           found == {s \in 0..3 : slots[s].kind \in {"ata", "atapi", "hung"}}
           order(s) == Cardinality({t \in found : t < s})
<1>2. slots = c.slots
  BY <1>1
<1> HIDE DEF slots
<1>3. PICK q \in 0..(MaxDevices - 1) : DrivesAt(c, q)
  BY <1>1 DEF DrivesInv
<1>4. ideAt = AfterAll
  BY DEF AccessInv, PhaseInv
<1>5. ideAt.pci > q /\ ideAt.pci = pciCount /\ ~(ideAt.pci < q) /\ ideAt.pci # q
  <2>1. q \in 0..(pciCount - 1) /\ ideAt.pci = pciCount /\ ideAt.pci \in Int
    BY <1>3, <1>4 DEF DrivesAt, Place, AfterAll, AccessInv, PhaseInv
  <2> QED BY <2>1
<1>6. ideCtl = c /\ Through(q) = 4 /\ Drives(c, 4)
  <2>1. Through(q) = 4
    BY <1>5 DEF Through
  <2> QED BY <1>3, <1>5, <2>1 DEF DrivesAt
<1>7. \A s \in 0..3 : order(s) = Rank(c, s)
  <2>1. \A s \in 0..3 : {t \in found : t < s} = {t \in 0..3 : Has(c, t) /\ t < s}
    BY <1>2 DEF Has
  <2> QED BY <2>1 DEF Rank
<1>8. Cardinality(found) = Rank(c, 4)
  <2>1. found = {t \in 0..3 : Has(c, t) /\ t < 4}
    BY <1>2 DEF Has
  <2> QED BY <2>1 DEF Rank
<1>9. ASSUME NEW s \in found
      PROVE  \E k \in Nodes("hd") :
                /\ devs[k].n = order(s)
                /\ SlotOf(devs[k].n) = slots[s]
                /\ IsDrivePresent(devs[k].n)
                /\ (ideDev[devs[k].n].Type = "atapi") = (slots[s].kind = "atapi")
  <2>1. s \in 0..3 /\ Has(c, s) /\ s < 4
    BY <1>2 DEF Has
  <2>2. PICK k \in Nodes("hd") : devs[k].n = Rank(c, s)
    BY <1>6, <2>1 DEF Drives
  <2>3. ideDev[devs[k].n] = EntryOf(c, s)
    BY <1>6, <2>1, <2>2 DEF Drives
  <2>4. 2 * (s \div 2) + (s % 2) = s
    BY <2>1
  <2>5. SlotOf(devs[k].n) = c.slots[s]
    BY <1>6, <2>3, <2>4 DEF SlotOf, EntryOf
  <2>6. IsDrivePresent(devs[k].n)
    BY <2>1, <2>3, <2>5 DEF IsDrivePresent, EntryOf, Has
  <2>7. (ideDev[devs[k].n].Type = "atapi") = (c.slots[s].kind = "atapi")
    BY <2>1, <2>3 DEF EntryOf, Probed, Has
  <2>8. devs[k].n = order(s)
    BY <1>7, <2>1, <2>2
  <2> QED BY <1>2, <2>5, <2>6, <2>7, <2>8
<1>10. Cardinality(Nodes("hd")) = Cardinality(found)
  BY <1>6, <1>8 DEF Drives
<1> QED BY <1>9, <1>10 DEF NodesAreDrives, slots

(* On every machine with one IDE controller, whatever else its buses hold, *)
(* each drive that answered is behind one node, whose entry is its own.    *)
(* (IDEInitialise, IDEFind, the Init of the IDE module.)                   *)
THEOREM DrivesCorrect == Spec => []NodesAreDrives
<1>1. Init => DrivesInv
  BY DEF Init, ATAInit, DrivesInv
<1>2. Spec => [](WalkInv /\ DevsInv /\ ScriptInv /\ AccessInv)
  <2>1. Spec => []ScriptInv
    BY AccessInit, ScriptInvStep, PTL DEF Spec
  <2>2. Spec => [](WalkInv /\ DevsInv)
    BY WalkAlways, Ps2Always, PTL
  <2> QED BY <2>1, <2>2, AccessInit, AccessStep, PTL DEF Spec
<1>3. Spec => []ListInv
  BY <1>2, ListInit, ListStep, PTL DEF Spec
<1> QED BY <1>1, <1>2, <1>3, DrivesStep, DrivesImply, PTL DEF Spec

\* The keyboard's node comes at line 20, the mouse's at 44.
LEMMA Ps2NodesStep ==
  ASSUME DevsInv, ScriptInv, KeyboardInv, MouseInv, [Next]_vars, Ps2NodesReal
  PROVE  Ps2NodesReal'
<1> SUFFICES ASSUME ~unasked' PROVE Ps2NodesReal'
  BY DEF Ps2NodesReal
<1>1. UNCHANGED machine /\ ~unasked
  BY MachineStep, UnaskedStays
<1>2. ASSUME NEW k \in Nodes("kbd")' PROVE machine.ps2.kbd
  <2>1. CASE \E j \in Nodes("kbd") : devs'[k] = devs[j]
    BY <1>1, <2>1 DEF Ps2NodesReal
  <2>2. CASE line = 20
    BY <1>1, <2>2 DEF KeyboardInv
  <2> QED BY <1>2, <2>1, <2>2, NodesNew
<1>3. ASSUME NEW k \in Nodes("mouse")' PROVE machine.ps2.mouse
  <2>1. CASE \E j \in Nodes("mouse") : devs'[k] = devs[j]
    BY <1>1, <2>1 DEF Ps2NodesReal
  <2>2. CASE line = 44
    BY <1>1, <2>2 DEF MouseInv
  <2> QED BY <1>3, <2>1, <2>2, NodesNew
<1> QED BY <1>1, <1>2, <1>3 DEF Ps2NodesReal

LEMMA Ps2NodesInit == Init => KeyboardInv /\ MouseInv /\ OutInv /\ Ps2NodesReal
<1> SUFFICES ASSUME Init PROVE KeyboardInv /\ MouseInv /\ OutInv /\ Ps2NodesReal
  OBVIOUS
<1>1. line = 0 /\ out = <<>>
  BY DEF Init, PS2Init
<1>2. KeyboardInv
  BY <1>1 DEF KeyboardInv
<1>3. MouseInv
  BY <1>1 DEF MouseInv, ReplacedInv, QueuedInv
<1>4. OutInv
  <2>1. out \in Seq({})
    BY <1>1
  <2> QED BY <2>1 DEF OutInv
<1>5. Ps2NodesReal
  <2> DEFINE a == FirstDevs[1]
             b == FirstDevs[2]
             c == FirstDevs[3]
  <2>1. a.kind = "random" /\ b.kind = "tty" /\ c.kind = "null"
    BY DEF FirstDevs
  <2>2. FirstDevs = <<a, b, c>>
    BY DEF FirstDevs
  <2> HIDE DEF a, b, c
  <2>3. devs = <<a, b, c>>
    BY <2>2 DEF Init, MachineInit
  <2>4. \A k \in DOMAIN devs : devs[k] \in {a, b, c}
    BY <2>3
  <2>5. Nodes("kbd") = {} /\ Nodes("mouse") = {}
    BY <2>1, <2>4 DEF Nodes
  <2> QED BY <2>5 DEF Ps2NodesReal
<1> QED BY <1>2, <1>3, <1>4, <1>5

(* A node of a drive stands for a drive that is there, and so do those of  *)
(* the keyboard and of the mouse unless a byte comes unasked while the     *)
(* Init of PS/2 runs: no answer of the controller, of the other device or  *)
(* to an earlier question passes for the one a detection waits for.        *)
(* (ps2_keyboard_present, ps2_mouse_present, Init of the PS/2 module.)     *)
THEOREM NodesCorrect == Spec => []NodesReal
<1>1. Spec => [](DevsInv /\ ScriptInv /\ OutInv)
  <2>1. Spec => []ScriptInv
    BY AccessInit, ScriptInvStep, PTL DEF Spec
  <2>2. Spec => []OutInv
    BY Ps2NodesInit, OutStep, PTL DEF Spec
  <2> QED BY <2>1, <2>2, Ps2Always, PTL
<1>2. Spec => [](KeyboardInv /\ MouseInv)
  <2>1. Spec => []KeyboardInv
    BY <1>1, Ps2NodesInit, KeyboardStep, PTL DEF Spec
  <2>2. Spec => []MouseInv
    BY <1>1, Ps2NodesInit, MouseStep, PTL DEF Spec
  <2> QED BY <2>1, <2>2, PTL
<1>3. Spec => []Ps2NodesReal
  BY <1>1, <1>2, Ps2NodesInit, Ps2NodesStep, PTL DEF Spec
<1> QED BY <1>3, DrivesCorrect, PTL DEF NodesReal
----------------------------------------------------------------------------
(* The loader: a second pass of the relocations would read patched words,  *)
(* so the invariant says of each place whether the pass has come to it.    *)

LEMMA IntDivMod ==
  ASSUME NEW v \in Int, NEW d \in Nat \ {0}
  PROVE  /\ v \div d \in Int
         /\ v % d \in 0..(d - 1)
         /\ v = (v \div d) * d + (v % d)
OBVIOUS

\* A multiple of d that is smaller is smaller by d at least.
LEMMA IntMultiples ==
  ASSUME NEW p \in Int, NEW q \in Int, NEW d \in Nat, p < q
  PROVE  p * d + d <= q * d
<1>1. PICK e \in Nat : q = p + 1 + e
  <2>1. q - p - 1 \in Nat
    OBVIOUS
  <2> QED BY <2>1
<1>2. q * d = p * d + d + e * d
  BY <1>1
<1>3. e * d \in Nat /\ p * d \in Int
  OBVIOUS
<1> QED BY <1>2, <1>3

LEMMA IntModUnique ==
  ASSUME NEW d \in Nat \ {0}, NEW q \in Int, NEW r \in 0..(d - 1)
  PROVE  (q * d + r) % d = r
<1> DEFINE n == q * d + r
           p == n \div d
<1>1. n \in Int
  OBVIOUS
<1>2. p \in Int /\ n % d \in 0..(d - 1) /\ n = p * d + (n % d)
  BY <1>1, IntDivMod
<1>3. ~(p < q)
  BY <1>2, IntMultiples
<1>4. ~(q < p)
  BY <1>2, IntMultiples
<1>5. p = q
  BY <1>2, <1>3, <1>4
<1> QED BY <1>2, <1>5

LEMMA IntMultiple ==
  ASSUME NEW v \in Int, NEW d \in Nat \ {0}, v % d = 0
  PROVE  \E j \in Int : v = j * d
<1>1. v = (v \div d) * d + (v % d) /\ v \div d \in Int
  BY IntDivMod
<1>2. PICK j \in Int : j = v \div d
  BY <1>1
<1>3. v = j * d
  BY <1>1, <1>2
<1> QED BY <1>3

\* The two words a value is stored in give it back.
LEMMA TwoWords ==
  ASSUME NEW v \in Int, NEW w \in Nat \ {0}
  PROVE  (v % w) + w * ((v \div w) % w) = v % (w * w)
<1>1. PICK q \in Int, r \in 0..(w - 1) : v = q * w + r /\ q = v \div w /\ r = v % w
  BY IntDivMod
<1>2. PICK p \in Int, s \in 0..(w - 1) : q = p * w + s /\ s = q % w
  BY IntDivMod
<1>3. w * w \in Nat \ {0}
  OBVIOUS
<1>4. s * w + w <= w * w
  BY IntMultiples
<1>5. s * w + r \in 0..(w * w - 1)
  <2>1. s * w \in Nat
    OBVIOUS
  <2> QED BY <1>3, <1>4, <2>1
<1>6. v = p * (w * w) + (s * w + r)
  <2>1. (p * w + s) * w = (p * w) * w + s * w
    OBVIOUS
  <2>2. (p * w) * w = p * (w * w)
    OBVIOUS
  <2>3. q * w = p * (w * w) + s * w
    BY <1>2, <2>1, <2>2
  <2>4. p * (w * w) \in Int /\ s * w \in Nat
    OBVIOUS
  <2> QED BY <1>1, <2>3, <2>4
<1>7. v % (w * w) = s * w + r
  BY <1>3, <1>5, <1>6, IntModUnique
<1>8. r + w * s = s * w + r
  OBVIOUS
<1> QED BY <1>1, <1>2, <1>7, <1>8

LEMMA StoreFetch ==
  ASSUME NEW m, NEW at \in Nat, NEW n \in {1, 2}, NEW v \in Int,
         at..(at + n - 1) \subseteq DOMAIN m
  PROVE  /\ DOMAIN Store(m, at, n, v) = DOMAIN m
         /\ \A c \in DOMAIN m : c \notin at..(at + n - 1) => Store(m, at, n, v)[c] = m[c]
         /\ Fetch(Store(m, at, n, v), at, n) = v % (IF n = 2 THEN Word * Word ELSE Word)
<1> DEFINE t == Store(m, at, n, v)
<1>1. t = [c \in DOMAIN m |-> IF c = at THEN v % Word
                              ELSE IF c = at + 1 /\ n = 2 THEN (v \div Word) % Word ELSE m[c]]
  BY DEF Store
<1> HIDE DEF t
<1>2. DOMAIN t = DOMAIN m
  BY <1>1
<1>3. ASSUME NEW c \in DOMAIN m, c \notin at..(at + n - 1) PROVE t[c] = m[c]
  <2>1. c # at
    BY <1>3
  <2>2. ~(c = at + 1 /\ n = 2)
    BY <1>3
  <2> QED BY <1>1, <2>1, <2>2
<1>4. at \in DOMAIN m /\ t[at] = v % Word
  <2>1. at \in at..(at + n - 1)
    OBVIOUS
  <2> QED BY <1>1, <2>1
<1>5. n = 2 => t[at + 1] = (v \div Word) % Word
  <2> SUFFICES ASSUME n = 2 PROVE t[at + 1] = (v \div Word) % Word
    OBVIOUS
  <2>1. at + 1 \in at..(at + n - 1) /\ at + 1 # at
    OBVIOUS
  <2> QED BY <1>1, <2>1
<1>6. Fetch(t, at, n) = v % (IF n = 2 THEN Word * Word ELSE Word)
  <2>1. CASE n = 1
    BY <1>4, <2>1 DEF Fetch
  <2>2. CASE n = 2
    <3>1. Fetch(t, at, n) = (v % Word) + Word * ((v \div Word) % Word)
      BY <1>4, <1>5, <2>2 DEF Fetch
    <3>2. Word \in Nat \ {0}
      BY LoaderAssumption
    <3> QED BY <2>2, <3>1, <3>2, TwoWords
  <2> QED BY <2>1, <2>2
<1> QED BY <1>2, <1>3, <1>6 DEF t

\* The walk over the tags comes to the next one.
LEMMA NextTagIs ==
  ASSUME machine \in Machines, offset \in DOMAIN machine.tags, Tag.type # "end"
  PROVE  /\ offset + Aligned(Tag.size) \in DOMAIN machine.tags
         /\ offset \in Nat /\ offset + Aligned(Tag.size) >= offset
         /\ \A t \in DOMAIN machine.tags : t <= offset \/ t >= offset + Aligned(Tag.size)
<1> DEFINE a == TagAlign
           s == Tag.size
<1>1. a \in Nat \ {0} /\ offset % a = 0 /\ offset \in Nat /\ s \in Nat
  BY LoaderAssumption DEF Tag
<1>2. PICK p \in DOMAIN machine.tags :
        p - offset \in s..(s + a - 1) /\ \A t \in DOMAIN machine.tags : t <= offset \/ t >= p
  BY LoaderAssumption DEF Tag
<1>3. p \in Nat /\ p % a = 0
  BY LoaderAssumption
<1> DEFINE x == s + a - 1
<1>4. Aligned(s) = (x \div a) * a
  BY DEF Aligned
<1> HIDE DEF a, s
<1>5. x \in Int
  BY <1>1
<1>6. x \div a \in Int /\ x % a \in 0..(a - 1) /\ x = (x \div a) * a + (x % a)
  BY <1>1, <1>5, IntDivMod
<1>7. PICK j \in Int : p = j * a
  <2>1. p \in Int
    BY <1>3
  <2> QED BY <1>1, <1>3, <2>1, IntMultiple
<1>8. PICK k \in Int : offset = k * a
  <2>1. offset \in Int
    BY <1>1
  <2> QED BY <1>1, <2>1, IntMultiple
<1>9. PICK q \in Int : q = x \div a
  BY <1>6
<1> HIDE DEF x
<1>10. (j - k) * a = p - offset
  BY <1>1, <1>7, <1>8
<1>11. q * a \in Int /\ (j - k) * a \in Int /\ q * a <= x /\ x < q * a + a
  BY <1>1, <1>5, <1>6, <1>9
<1>12. x - a < (j - k) * a /\ (j - k) * a <= x
  BY <1>1, <1>2, <1>3, <1>10 DEF x
<1>13. ~(j - k < q)
  <2>1. j - k < q => (j - k) * a + a <= q * a
    BY <1>1, IntMultiples
  <2> QED BY <1>1, <1>5, <1>11, <1>12, <2>1
<1>14. ~(q < j - k)
  <2>1. q < j - k => q * a + a <= (j - k) * a
    BY <1>1, IntMultiples
  <2> QED BY <1>1, <1>5, <1>11, <1>12, <2>1
<1>15. j - k = q
  BY <1>13, <1>14
<1>16. offset + q * a = p
  BY <1>1, <1>3, <1>10, <1>11, <1>15
<1>17. p >= offset
  BY <1>1, <1>2, <1>3
<1> QED BY <1>1, <1>2, <1>4, <1>9, <1>16, <1>17 DEF s

\* What a relocation's symbol and addend are, and that it is done or to do.
Stands(img, r) ==
    LET s == Symbol(img, r.sym) IN
    IF r.sym = 0 THEN 0
    ELSE IF s.shndx = SHN_ABS THEN s.value
    ELSE IF s.shndx = SHN_UNDEF THEN FindKernelSymbol(s.name)
    ELSE img.base + img.secs[s.shndx].at + s.value
Modulus(img, r) == IF Words(img, r) = 2 THEN Word * Word ELSE Word
Applied(img, m, r) ==
    Handled(img, r) => Fetch(m, r.at, Words(img, r)) = Meaning(img, r) % Modulus(img, r)
Resolved(img, r) ==
    Symbol(img, r.sym).shndx = SHN_UNDEF /\ r.sym # 0 => Symbol(img, r.sym).name \in DOMAIN Kernel
Untouched(img, m, r) == Handled(img, r) => \A c \in Patch(img, r) : m[c] = img.words[c]

RelocsApart(img) ==
    \A k, j \in DOMAIN Relocs(img) : LET r == Relocs(img)[k]
                                         q == Relocs(img)[j] IN
        k # j /\ Handled(img, r) /\ Handled(img, q) => Patch(img, r) \cap Patch(img, q) = {}
IsReloc(img, r) ==
    /\ r \in Relocations /\ r.sym \in 0..Len(img.syms) /\ IsTarget(img, r)
    /\ Handled(img, r) => Patch(img, r) \subseteq DOMAIN img.words

LEMMA ImageRelocs ==
  ASSUME NEW img, IsImage(img)
  PROVE  /\ Len(Relocs(img)) \in Nat /\ DOMAIN Relocs(img) = 1..Len(Relocs(img))
         /\ \A k \in DOMAIN Relocs(img) : IsReloc(img, Relocs(img)[k])
         /\ RelocsApart(img)
<1>1. Relocs(img) \in Seq(Relocations)
  BY DEF IsImage
<1>2. /\ Len(Relocs(img)) \in Nat /\ DOMAIN Relocs(img) = 1..Len(Relocs(img))
      /\ \A k \in DOMAIN Relocs(img) : Relocs(img)[k] \in Relocations
  BY <1>1
<1>3. \A k \in DOMAIN Relocs(img) : IsReloc(img, Relocs(img)[k])
  BY <1>2 DEF IsImage, IsReloc
<1>4. RelocsApart(img)
  BY DEF IsImage, RelocsApart
<1> QED BY <1>2, <1>3, <1>4

LEMMA NoSection ==
  ASSUME NEW img, IsImage(img)
  PROVE  ~IsSection(img, SHN_UNDEF) /\ ~IsSection(img, SHN_ABS) /\ SHN_ABS # SHN_UNDEF
<1>1. PICK D, n : D = DOMAIN img.secs /\ n = SHN_ABS - 1 /\ D \subseteq 1..n
  BY DEF IsImage
<1>2. n \in Nat /\ n < SHN_ABS
  BY <1>1 DEF SHN_ABS
<1>3. D \subseteq 1..n
  BY <1>1
<1>4. 0 \notin D
  BY <1>2, <1>3
<1>5. \A x \in Nat : n < x => x \notin D
  BY <1>2, <1>3
<1>6. SHN_ABS \in Nat
  BY DEF SHN_ABS
<1>7. SHN_ABS \notin D
  BY <1>2, <1>5, <1>6
<1>8. 0 \notin DOMAIN img.secs /\ SHN_ABS \notin DOMAIN img.secs
  BY <1>1, <1>4, <1>7
<1> QED BY <1>8 DEF IsSection, SHN_UNDEF, SHN_ABS

LEMMA SymbolStands ==
  ASSUME NEW img, IsImage(img), NEW r, IsReloc(img, r), SymAddr(img, r) # -1
  PROVE  SymAddr(img, r) = Stands(img, r) /\ SymAddr(img, r) \in Int /\ Resolved(img, r)
<1> DEFINE s == Symbol(img, r.sym)
           a == Resolve(img, s, r.kind = "rela")
<1>1. /\ img.syms \in Seq([name : STRING, shndx : Nat, value : Nat])
      /\ DOMAIN img.secs \subseteq 1..(SHN_ABS - 1) /\ img.base \in Nat
      /\ \A n \in DOMAIN img.secs : img.secs[n].at \in Nat
  BY DEF IsImage
<1>2. r.sym \in 0..Len(img.syms) /\ Len(img.syms) \in Nat /\ r.kind \in {"rel", "rela"}
  BY <1>1 DEF IsReloc, Relocations
<1>3. ~IsSection(img, SHN_UNDEF) /\ ~IsSection(img, SHN_ABS) /\ SHN_ABS # SHN_UNDEF
  BY NoSection
<1>4. CASE r.sym = 0
  <2>1. s.shndx = SHN_UNDEF /\ s.name = ""
    BY <1>4 DEF Symbol
  <2>2. a = 0
    BY <1>3, <2>1 DEF Resolve
  <2>3. SymAddr(img, r) = 0
    BY <2>2 DEF SymAddr, SymAddr32, SymAddr64
  <2> QED BY <1>4, <2>3 DEF Stands, Resolved
<1>5. CASE r.sym # 0
  <2>1. r.sym \in 1..Len(img.syms)
    BY <1>2, <1>5
  <2>2. s = img.syms[r.sym] /\ s \in [name : STRING, shndx : Nat, value : Nat]
    <3>1. Symbol(img, r.sym) = img.syms[r.sym]
      BY <1>5 DEF Symbol
    <3>2. img.syms[r.sym] \in [name : STRING, shndx : Nat, value : Nat]
      <4> DEFINE T == [name : STRING, shndx : Nat, value : Nat]
      <4>1. img.syms \in Seq(T)
        BY <1>1
      <4> HIDE DEF T
      <4>2. img.syms[r.sym] \in T
        BY <2>1, <4>1
      <4> QED BY <4>2 DEF T
    <3> QED BY <3>1, <3>2
  <2>3. SymAddr(img, r) = a
    BY <2>1 DEF SymAddr, SymAddr32, SymAddr64
  <2>4. CASE s.shndx = SHN_UNDEF /\ s.name # ""
    <3>1. a = (IF FindKernelSymbol(s.name) = 0 THEN -1 ELSE FindKernelSymbol(s.name))
      BY <1>3, <2>4 DEF Resolve
    <3>2. a = FindKernelSymbol(s.name) /\ a # 0
      BY <2>3, <3>1
    <3>3. s.name \in DOMAIN Kernel /\ a \in Nat
      BY <3>2, LoaderAssumption DEF FindKernelSymbol
    <3>4. Stands(img, r) = FindKernelSymbol(s.name)
      BY <1>3, <1>5, <2>4 DEF Stands
    <3> QED BY <2>3, <3>2, <3>3, <3>4 DEF Resolved
  <2>5. CASE s.shndx = SHN_ABS /\ r.kind = "rela"
    <3>1. a = s.value
      BY <1>3, <2>5 DEF Resolve
    <3>2. Stands(img, r) = s.value
      BY <1>5, <2>5 DEF Stands
    <3> QED BY <1>3, <2>2, <2>3, <2>5, <3>1, <3>2 DEF Resolved
  <2>6. CASE IsSection(img, s.shndx) /\ img.secs[s.shndx].alloc
    <3>1. a = img.base + img.secs[s.shndx].at + s.value
      BY <2>6 DEF Resolve
    <3>2. s.shndx # SHN_ABS /\ s.shndx # SHN_UNDEF
      BY <1>3, <2>6
    <3>3. Stands(img, r) = img.base + img.secs[s.shndx].at + s.value
      BY <1>5, <3>2 DEF Stands
    <3>4. img.secs[s.shndx].at \in Nat
      BY <1>1, <2>6 DEF IsSection
    <3>5. Resolved(img, r)
      BY <3>2 DEF Resolved
    <3>6. s.value \in Nat
      BY <2>2
    <3> HIDE DEF s, a
    <3>7. a \in Int
      BY <1>1, <3>1, <3>4, <3>6
    <3> QED BY <2>3, <3>1, <3>3, <3>5, <3>7
  <2> QED BY <1>5, <2>2, <2>4, <2>5, <2>6 DEF IsReloc, IsTarget
<1> QED BY <1>4, <1>5

LEMMA PatchedMeans ==
  ASSUME NEW img, IsImage(img), NEW r, IsReloc(img, r), SymAddr(img, r) # -1,
         Handled(img, r), Untouched(img, mem, r)
  PROVE  Patched(img, r) = Meaning(img, r) /\ Patched(img, r) \in Int
<1> DEFINE A == IF r.kind = "rela" THEN r.addend ELSE Fetch(img.words, r.at, Words(img, r))
<1>1. SymAddr(img, r) = Stands(img, r) /\ SymAddr(img, r) \in Int
  BY SymbolStands
<1>2. r.at \in Nat /\ r.addend \in Int /\ img.base \in Nat /\ Word \in Nat
  BY LoaderAssumption DEF IsReloc, Relocations, IsImage
<1>3. Addend(img, r) = A /\ A \in Int
  <2>1. CASE r.kind = "rela"
    BY <1>2, <2>1 DEF Addend
  <2>2. CASE r.kind # "rela"
    <3>1. \A c \in Patch(img, r) : mem[c] = img.words[c] /\ img.words[c] \in Nat
      BY DEF Untouched, IsReloc, IsImage
    <3>2. CASE Words(img, r) = 1
      <4>1. r.at \in Patch(img, r)
        BY <1>2, <3>2 DEF Patch
      <4> QED BY <2>2, <3>1, <3>2, <4>1 DEF Addend, Fetch
    <3>3. CASE Words(img, r) = 2
      <4>1. r.at \in Patch(img, r) /\ r.at + 1 \in Patch(img, r)
        BY <1>2, <3>3 DEF Patch
      <4>2. Fetch(mem, r.at, Words(img, r)) = Fetch(img.words, r.at, Words(img, r))
        BY <3>1, <3>3, <4>1 DEF Fetch
      <4>3. Fetch(img.words, r.at, Words(img, r)) \in Int
        BY <1>2, <3>1, <3>3, <4>1 DEF Fetch
      <4> QED BY <2>2, <4>2, <4>3 DEF Addend
    <3> QED BY <3>2, <3>3 DEF Words
  <2> QED BY <2>1, <2>2
<1>4. Meaning(img, r) =
        CASE r.type = "relative" -> img.base + A
          [] r.type = "abs" -> Stands(img, r) + A
          [] r.type = "pc" -> Stands(img, r) + A - (img.base + r.at)
          [] OTHER -> Stands(img, r)
  BY DEF Meaning, Stands
<1> HIDE DEF A
<1>5. CASE r.type = "relative"
  <2>1. r.kind = "rela"
    BY <1>5 DEF Handled
  <2>2. A = r.addend
    BY <2>1 DEF A
  <2> QED BY <1>2, <1>4, <1>5, <2>2 DEF Patched
<1>6. CASE r.type = "abs"
  BY <1>1, <1>3, <1>4, <1>6 DEF Patched
<1>7. CASE r.type = "pc"
  BY <1>1, <1>2, <1>3, <1>4, <1>7 DEF Patched
<1>8. CASE r.type \notin {"relative", "abs", "pc"}
  BY <1>1, <1>4, <1>8 DEF Patched
<1> QED BY <1>5, <1>6, <1>7, <1>8

\* FindSymbol finds an Init of the module, or none.
LEMMA InitFound ==
  ASSUME NEW img, IsImage(img), FindSymbol(img, "Init") # 0
  PROVE  \E n \in DOMAIN img.syms :
            LET s == img.syms[n] IN
            /\ s.name = "Init" /\ IsSection(img, s.shndx)
            /\ FindSymbol(img, "Init") = img.base + img.secs[s.shndx].at + s.value
<1> DEFINE hits == {n \in DOMAIN img.syms : img.syms[n].name = "Init"}
           n == CHOOSE n \in hits : \A j \in hits : n <= j
           s == img.syms[n]
<1>1. hits # {}
  BY DEF FindSymbol
<1>2. img.syms \in Seq([name : STRING, shndx : Nat, value : Nat])
  BY DEF IsImage
<1>3. hits \subseteq Nat
  BY <1>2
<1>4. n \in hits
  <2>1. \E x \in hits : \A j \in hits : x <= j
    BY <1>1, <1>3, LeastNatural
  <2> QED BY <2>1
<1>5. FindSymbol(img, "Init") =
         CASE s.shndx = SHN_ABS -> s.value
           [] s.shndx = SHN_UNDEF -> 0
           [] IsSection(img, s.shndx) -> img.base + img.secs[s.shndx].at + s.value
           [] OTHER -> img.base + s.value
  BY <1>1 DEF FindSymbol
<1>6. n \in DOMAIN img.syms /\ s.name = "Init"
  BY <1>4
<1> HIDE DEF n
<1>7. IsSection(img, s.shndx) \/ s.shndx = SHN_UNDEF
  BY <1>6 DEF IsImage
<1>8. s.shndx # SHN_UNDEF
  <2> SUFFICES ASSUME s.shndx = SHN_UNDEF PROVE FALSE
    OBVIOUS
  <2>1. s.shndx # SHN_ABS /\ ~IsSection(img, s.shndx)
    BY NoSection
  <2>2. FindSymbol(img, "Init") = 0
    BY <1>5, <2>1
  <2> QED BY <2>2
<1>9. IsSection(img, s.shndx) /\ s.shndx # SHN_ABS
  BY <1>7, <1>8, NoSection
<1>10. FindSymbol(img, "Init") = img.base + img.secs[s.shndx].at + s.value
  BY <1>5, <1>8, <1>9
<1> QED BY <1>6, <1>9, <1>10

DoneTo(img, e, m) ==
    \A k \in DOMAIN Relocs(img) :
        /\ k < e => Applied(img, m, Relocs(img)[k]) /\ Resolved(img, Relocs(img)[k])
        /\ k >= e => Untouched(img, m, Relocs(img)[k])

LinkInv ==
    /\ machine \in Machines /\ offset \in DOMAIN machine.tags
    /\ lphase \in {"tags", "relocate", "ctors"}
    /\ lphase # "tags" => Tag.type = "module" /\ Image.elf /\ Image.type = "rel"
    /\ lphase = "relocate" =>
        /\ DOMAIN mem = DOMAIN Image.words /\ called = <<>>
        /\ entry \in Nat /\ entry >= 1 /\ DoneTo(Image, entry, mem)
    /\ InitRunsLinked

LEMMA FetchSame ==
  ASSUME NEW img, NEW r, IsReloc(img, r), NEW m, NEW t, \A c \in Patch(img, r) : m[c] = t[c]
  PROVE  Fetch(m, r.at, Words(img, r)) = Fetch(t, r.at, Words(img, r))
<1>1. r.at \in Nat
  BY DEF IsReloc, Relocations
<1>2. CASE Words(img, r) = 1
  <2>1. r.at \in Patch(img, r)
    BY <1>1, <1>2 DEF Patch
  <2> QED BY <1>2, <2>1 DEF Fetch
<1>3. CASE Words(img, r) = 2
  <2>1. r.at \in Patch(img, r) /\ r.at + 1 \in Patch(img, r)
    BY <1>1, <1>3 DEF Patch
  <2> QED BY <1>3, <2>1 DEF Fetch
<1> QED BY <1>2, <1>3 DEF Words

\* One relocation more is done, and no other is touched.
LEMMA OneMoreDone ==
  ASSUME NEW img, IsImage(img), DOMAIN mem = DOMAIN img.words,
         NEW e \in DOMAIN Relocs(img), DoneTo(img, e, mem),
         NEW r, r = Relocs(img)[e], SymAddr(img, r) # -1,
         NEW t, t = IF Handled(img, r) THEN Store(mem, r.at, Words(img, r), Patched(img, r))
                    ELSE mem
  PROVE  DOMAIN t = DOMAIN img.words /\ DoneTo(img, e + 1, t)
<1>1. /\ IsReloc(img, r) /\ RelocsApart(img) /\ e \in Nat
      /\ \A k \in DOMAIN Relocs(img) : IsReloc(img, Relocs(img)[k]) /\ k \in Nat
  <2>1. Len(Relocs(img)) \in Nat /\ DOMAIN Relocs(img) = 1..Len(Relocs(img))
    BY ImageRelocs
  <2> QED BY <2>1, ImageRelocs
<1>2. Resolved(img, r) /\ Untouched(img, mem, r)
  <2>1. Untouched(img, mem, r)
    BY <1>1 DEF DoneTo
  <2> QED BY <1>1, <2>1, SymbolStands
<1>3. CASE ~Handled(img, r)
  <2>1. t = mem /\ Applied(img, mem, r)
    BY <1>3 DEF Applied
  <2>2. ASSUME NEW k \in DOMAIN Relocs(img)
        PROVE  /\ k < e + 1 => Applied(img, t, Relocs(img)[k]) /\ Resolved(img, Relocs(img)[k])
               /\ k >= e + 1 => Untouched(img, t, Relocs(img)[k])
    <3>1. (k < e + 1 => k < e \/ k = e) /\ (k >= e + 1 => k >= e)
      BY <1>1
    <3> QED BY <1>2, <2>1, <3>1 DEF DoneTo
  <2> QED BY <2>1, <2>2 DEF DoneTo
<1>4. CASE Handled(img, r)
  <2> DEFINE n == Words(img, r)
             v == Patched(img, r)
  <2>1. v = Meaning(img, r) /\ v \in Int
    BY <1>1, <1>2, <1>4, PatchedMeans
  <2>2. n \in {1, 2} /\ r.at \in Nat
    BY <1>1 DEF Words, IsReloc, Relocations
  <2>3. r.at..(r.at + n - 1) \subseteq DOMAIN mem
    BY <1>1, <1>4 DEF IsReloc, Patch
  <2>4. t = Store(mem, r.at, n, v)
    BY <1>4
  <2> HIDE DEF v
  <2>5. /\ DOMAIN t = DOMAIN mem
        /\ \A c \in DOMAIN mem : c \notin Patch(img, r) => t[c] = mem[c]
        /\ Fetch(t, r.at, n) = v % (IF n = 2 THEN Word * Word ELSE Word)
    <3> DEFINE at == r.at
    <3>1. Patch(img, r) = at..(at + n - 1)
      BY DEF Patch
    <3>2. n \in {1, 2} /\ at \in Nat /\ v \in Int /\ at..(at + n - 1) \subseteq DOMAIN mem
          /\ t = Store(mem, at, n, v)
      BY <2>1, <2>2, <2>3, <2>4
    <3> HIDE DEF n, at
    <3>3. DOMAIN t = DOMAIN mem
      BY <3>2, StoreFetch
    <3>4. /\ \A c \in DOMAIN mem :
                c \notin at..(at + n - 1) => Store(mem, at, n, v)[c] = mem[c]
          /\ Fetch(Store(mem, at, n, v), at, n) = v % (IF n = 2 THEN Word * Word ELSE Word)
      BY <3>2, StoreFetch, Zenon
    <3>5. \A c \in DOMAIN mem : c \notin at..(at + n - 1) => t[c] = mem[c]
      BY <3>2, <3>4
    <3>6. Fetch(t, at, n) = v % (IF n = 2 THEN Word * Word ELSE Word)
      BY <3>2, <3>4
    <3>7. Fetch(t, r.at, n) = v % (IF n = 2 THEN Word * Word ELSE Word)
      BY <3>6 DEF at
    <3> QED BY <3>1, <3>3, <3>5, <3>7
  <2>6. Applied(img, t, r)
    BY <2>1, <2>5 DEF Applied, Modulus
  <2>7. ASSUME NEW k \in DOMAIN Relocs(img), k # e, Handled(img, Relocs(img)[k])
        PROVE  \A c \in Patch(img, Relocs(img)[k]) : t[c] = mem[c]
    <3>1. Patch(img, Relocs(img)[k]) \cap Patch(img, r) = {}
      BY <1>1, <1>4, <2>7 DEF RelocsApart
    <3>2. Patch(img, Relocs(img)[k]) \subseteq DOMAIN mem
      BY <1>1, <2>7 DEF IsReloc
    <3> QED BY <2>5, <3>1, <3>2
  <2>8. ASSUME NEW k \in DOMAIN Relocs(img), k < e
        PROVE  Applied(img, t, Relocs(img)[k]) /\ Resolved(img, Relocs(img)[k])
    <3>1. Applied(img, mem, Relocs(img)[k]) /\ Resolved(img, Relocs(img)[k]) /\ k # e
      BY <1>1, <2>8 DEF DoneTo
    <3>2. Handled(img, Relocs(img)[k]) =>
            Fetch(t, Relocs(img)[k].at, Words(img, Relocs(img)[k]))
              = Fetch(mem, Relocs(img)[k].at, Words(img, Relocs(img)[k]))
      BY <1>1, <2>7, <3>1, FetchSame
    <3> QED BY <3>1, <3>2 DEF Applied
  <2>9. ASSUME NEW k \in DOMAIN Relocs(img), k >= e + 1
        PROVE  Untouched(img, t, Relocs(img)[k])
    <3>1. k >= e /\ k # e
      BY <1>1, <2>9
    <3>2. Untouched(img, mem, Relocs(img)[k])
      BY <3>1 DEF DoneTo
    <3> QED BY <2>7, <3>1, <3>2 DEF Untouched
  <2>10. ASSUME NEW k \in DOMAIN Relocs(img)
         PROVE  /\ k < e + 1 => Applied(img, t, Relocs(img)[k]) /\ Resolved(img, Relocs(img)[k])
                /\ k >= e + 1 => Untouched(img, t, Relocs(img)[k])
    <3>1. k < e + 1 => k < e \/ k = e
      BY <1>1
    <3> QED BY <1>2, <2>6, <2>8, <2>9, <3>1
  <2> QED BY <2>5, <2>10 DEF DoneTo
<1> QED BY <1>3, <1>4

LEMMA LoaderMoves ==
  ASSUME [Next]_vars
  PROVE  UNCHANGED machine /\ (UNCHANGED loaderVars \/ LoaderNext)
<1>1. CASE Load
  BY <1>1, MachineStep DEF Load, VGAInit, HelloInit
<1>2. CASE Next /\ ~Load
  BY <1>2, MachineStep DEF Next, Process, Enumerate, Detect, Transfer, Mount, Converse, Interact,
         TypeDevice, Answer1, Types, Reported
<1>3. CASE UNCHANGED vars
  BY <1>3, MachineStep DEF vars
<1> QED BY <1>1, <1>2, <1>3

LEMMA LinkStep == LinkInv /\ [Next]_vars => LinkInv'
<1> SUFFICES ASSUME LinkInv, [Next]_vars PROVE LinkInv'
  OBVIOUS
<1>1. UNCHANGED machine /\ machine \in Machines /\ offset \in DOMAIN machine.tags
  BY LoaderMoves DEF LinkInv
<1>2. lphase # "tags" => Tag.type = "module" /\ Image.elf /\ Image.type = "rel"
  BY DEF LinkInv
<1>3. Tag.type = "module" /\ Image.elf /\ Image.type = "rel" => IsImage(Image)
  BY <1>1, LoaderAssumption DEF Tag, Image
<1>4. UNCHANGED offset => Tag' = Tag /\ Image' = Image
  BY <1>1 DEF Image, Tag
<1>5. CASE UNCHANGED loaderVars
  <2>1. UNCHANGED <<offset, lphase, entry, mem, called>>
    BY <1>5 DEF loaderVars
  <2>2. InitRunsLinked'
    BY <1>4, <2>1 DEF LinkInv, InitRunsLinked
  <2> QED BY <1>1, <1>4, <2>1, <2>2 DEF LinkInv
<1>6. CASE EndOfTags
  BY <1>5, <1>6 DEF EndOfTags
<1>7. CASE NextTag /\ Tag.type # "end" /\ lphase' = "tags"
  <2>1. offset' \in DOMAIN machine'.tags
    BY <1>1, <1>7, NextTagIs DEF NextTag
  <2> QED BY <1>1, <1>7, <2>1 DEF LinkInv, InitRunsLinked
<1>8. CASE SkipTag \/ RejectModule
  BY <1>7, <1>8 DEF SkipTag, RejectModule, Loading
<1>9. CASE Unresolved \/ CallConstructors
  BY <1>2, <1>7, <1>9 DEF Unresolved, CallConstructors, Loading
<1>10. CASE OpenModule
  <2>1. /\ Tag.type = "module" /\ Image.elf /\ Image.type = "rel"
        /\ lphase' = "relocate" /\ entry' = 1 /\ mem' = Image.words /\ called' = <<>>
        /\ UNCHANGED offset
    BY <1>10 DEF OpenModule
  <2>2. DoneTo(Image, 1, Image.words)
    <3>1. Len(Relocs(Image)) \in Nat /\ DOMAIN Relocs(Image) = 1..Len(Relocs(Image))
      BY <1>3, <2>1, ImageRelocs
    <3>2. \A k \in DOMAIN Relocs(Image) : ~(k < 1)
      BY <3>1
    <3> QED BY <3>2 DEF DoneTo, Untouched
  <2>3. DoneTo(Image', entry', mem')
    BY <1>4, <2>1, <2>2
  <2> QED BY <1>1, <1>4, <2>1, <2>3 DEF LinkInv, InitRunsLinked
<1>11. CASE Relocate
  <2> DEFINE r == Relocs(Image)[entry]
  <2>1. /\ lphase = "relocate" /\ entry <= Len(Relocs(Image)) /\ SymAddr(Image, r) # -1
        /\ mem' = IF Handled(Image, r)
                  THEN Store(mem, r.at, Words(Image, r), Patched(Image, r)) ELSE mem
        /\ entry' = entry + 1 /\ UNCHANGED <<offset, lphase, called>>
    BY <1>11 DEF Relocate, Loading
  <2>2. IsImage(Image)
    BY <1>2, <1>3, <2>1
  <2>3. /\ DOMAIN mem = DOMAIN Image.words /\ called = <<>>
        /\ entry \in Nat /\ entry >= 1 /\ DoneTo(Image, entry, mem)
    BY <2>1 DEF LinkInv
  <2>4. entry \in DOMAIN Relocs(Image)
    <3>1. Len(Relocs(Image)) \in Nat /\ DOMAIN Relocs(Image) = 1..Len(Relocs(Image))
      BY <2>2, ImageRelocs
    <3> QED BY <2>1, <2>3, <3>1
  <2>5. DOMAIN mem' = DOMAIN Image.words /\ DoneTo(Image, entry + 1, mem')
    BY <2>1, <2>2, <2>3, <2>4, OneMoreDone
  <2>6. /\ DOMAIN mem' = DOMAIN Image'.words /\ called' = <<>>
        /\ entry' \in Nat /\ entry' >= 1 /\ DoneTo(Image', entry', mem')
    BY <1>4, <2>1, <2>3, <2>5
  <2>7. InitRunsLinked'
    BY <2>1 DEF InitRunsLinked
  <2> QED BY <1>1, <1>2, <1>4, <2>1, <2>6, <2>7 DEF LinkInv
<1>12. CASE CallInit
  <2> DEFINE init == FindSymbol(Image, "Init")
  <2>1. /\ lphase = "relocate" /\ entry > Len(Relocs(Image)) /\ lphase' = "ctors"
        /\ (called' = <<init>> /\ init # 0) \/ UNCHANGED called
        /\ UNCHANGED <<offset, mem>>
    BY <1>12 DEF CallInit, Loading
  <2>2. IsImage(Image)
    BY <1>2, <1>3, <2>1
  <2>3. called = <<>> /\ entry \in Nat /\ DoneTo(Image, entry, mem)
    BY <2>1 DEF LinkInv
  <2>4. Linked(Image, mem)
    <3>1. Len(Relocs(Image)) \in Nat /\ DOMAIN Relocs(Image) = 1..Len(Relocs(Image))
      BY <2>2, ImageRelocs
    <3>2. \A k \in DOMAIN Relocs(Image) : k < entry
      BY <2>1, <2>3, <3>1
    <3>3. \A k \in DOMAIN Relocs(Image) :
            Applied(Image, mem, Relocs(Image)[k]) /\ Resolved(Image, Relocs(Image)[k])
      BY <2>3, <3>2 DEF DoneTo
    <3> QED BY <3>3 DEF Linked, Applied, Modulus, Resolved
  <2>5. InitRunsLinked'
    <3>1. CASE called' = <<init>> /\ init # 0
      <4>1. \E n \in DOMAIN Image.syms :
              LET s == Image.syms[n] IN
              /\ s.name = "Init" /\ IsSection(Image, s.shndx)
              /\ called'[1] = Image.base + Image.secs[s.shndx].at + s.value
        <5>1. called'[1] = init
          BY <3>1
        <5> QED BY <2>2, <3>1, <5>1, InitFound
      <4> QED BY <1>2, <1>4, <2>1, <2>4, <4>1 DEF InitRunsLinked
    <3>2. CASE UNCHANGED called
      BY <2>3, <3>2 DEF InitRunsLinked
    <3> QED BY <2>1, <3>1, <3>2
  <2> QED BY <1>1, <1>2, <1>4, <2>1, <2>5 DEF LinkInv
<1> QED BY <1>5, <1>6, <1>8, <1>9, <1>10, <1>11, <1>12, LoaderMoves DEF LoaderNext

(* A module's code runs only when each of its relocations says what the ABI*)
(* says, for every file as a linker makes it and every kernel and memory   *)
(* word; what is called first is its own Init.  (RelocateModule,           *)
(* ResolveSymbol, FindSymbol, LoadModule.)                                 *)
THEOREM LinkCorrect == Spec => []InitRunsLinked
<1>1. Init => LinkInv
  BY LoaderAssumption DEF Init, MachineInit, LoaderInit, LinkInv, InitRunsLinked
<1>2. LinkInv => InitRunsLinked
  BY DEF LinkInv
<1> QED BY <1>1, <1>2, LinkStep, PTL DEF Spec
----------------------------------------------------------------------------
(* What is mounted: the geometry the driver works out of a boot record is  *)
(* the one its maker had in mind.                                          *)

LEMMA IntDivUnique ==
  ASSUME NEW d \in Nat \ {0}, NEW q \in Int, NEW r \in 0..(d - 1)
  PROVE  (q * d + r) \div d = q
<1> DEFINE n == q * d + r
           p == n \div d
<1>1. n \in Int
  OBVIOUS
<1>2. p \in Int /\ n % d \in 0..(d - 1) /\ n = p * d + (n % d)
  BY <1>1, IntDivMod
<1>3. ~(p < q)
  BY <1>2, IntMultiples
<1>4. ~(q < p)
  BY <1>2, IntMultiples
<1> QED BY <1>2, <1>3, <1>4

\* As many sectors as hold the entries, and no more.
LEMMA RoundedUp ==
  ASSUME NEW d \in Nat \ {0}, NEW e \in Nat, NEW q \in Int, q * d - e \in 0..(d - 1)
  PROVE  (e + (d - 1)) \div d = q
<1> DEFINE m == q * d
           r == d - 1 - (m - e)
<1>1. m \in Int /\ m - e \in 0..(d - 1)
  OBVIOUS
<1> HIDE DEF m
<1>2. r \in 0..(d - 1) /\ m + r = e + (d - 1)
  BY <1>1
<1> HIDE DEF r
<1>3. (q * d + r) \div d = q
  BY <1>2, IntDivUnique
<1> QED BY <1>2, <1>3 DEF m

LEMMA RoundedDown ==
  ASSUME NEW d \in Nat \ {0}, NEW e \in Int, NEW q \in Int, e - q * d \in 0..(d - 1)
  PROVE  e \div d = q
<1> DEFINE m == q * d
           r == e - m
<1>1. m \in Int /\ r \in 0..(d - 1)
  OBVIOUS
<1> HIDE DEF m
<1>2. m + r = e
  BY <1>1
<1> HIDE DEF r
<1>3. (q * d + r) \div d = q
  BY <1>1, IntDivUnique
<1> QED BY <1>2, <1>3 DEF m

LEMMA MadeIsReported ==
  ASSUME NEW v, NEW b, IsMade(v, b)
  PROVE  Divides(b) /\ Report(v.n, b) = v
<1>1. PICK sectors \in Nat, table \in Nat :
        /\ sectors \in {b.TotalSectorsInVolume, b.ExtendedSectorCount}
        /\ table \in {b.SectorsPerFAT, b.SectorsPerFAT32}
        /\ {b.TotalSectorsInVolume, b.ExtendedSectorCount} \subseteq {0, sectors}
        /\ {b.SectorsPerFAT, b.SectorsPerFAT32} \subseteq {0, table}
        /\ v.fat = b.ReservedSectors
        /\ v.root = v.fat + b.FATCount * table
        /\ (v.data - v.root) * b.BytesPerSector - b.RootDirectoryEntries * DirEntry
             \in 0..(b.BytesPerSector - 1)
        /\ sectors - v.data - v.clusters * b.SectorsPerCluster \in 0..(b.SectorsPerCluster - 1)
  BY DEF IsMade
<1>2. /\ v.fat \in Nat /\ v.root \in Nat /\ v.data \in Nat /\ v.clusters \in Nat
      /\ v = [n |-> v.n, type |-> v.type, fat |-> v.fat, root |-> v.root,
              data |-> v.data, clusters |-> v.clusters]
  BY DEF IsMade
<1>3. /\ b.BytesPerSector \in Nat \ {0} /\ b.SectorsPerCluster \in Nat \ {0}
      /\ b.FATCount \in Nat /\ b.RootDirectoryEntries \in Nat /\ DirEntry \in Nat
  BY OffsetsAssumption DEF IsMade
<1>4. Divides(b)
  BY <1>3 DEF Divides
<1>5. FatTotalSectors(b) = sectors /\ FatSize(b) = table
  BY <1>1 DEF FatTotalSectors, FatSize
<1>6. FatRootDirSize(b) = v.data - v.root
  <2> DEFINE d == b.BytesPerSector
             e == b.RootDirectoryEntries * DirEntry
             q == v.data - v.root
  <2>1. d \in Nat \ {0} /\ e \in Nat /\ q \in Int
    BY <1>2, <1>3
  <2>2. q * d - e \in 0..(d - 1)
    BY <1>1
  <2>3. FatRootDirSize(b) = (e + (d - 1)) \div d
    BY DEF FatRootDirSize
  <2> HIDE DEF d, e, q
  <2>4. (e + (d - 1)) \div d = q
    BY <2>1, <2>2, RoundedUp
  <2> QED BY <2>3, <2>4 DEF q
<1>7. b.ReservedSectors + b.FATCount * table = v.root
  BY <1>1
<1>8. FatFirstData(b) = v.data /\ FatFirstRoot(b) = v.root /\ FatFirstFat(b) = v.fat
  BY <1>1, <1>2, <1>5, <1>6, <1>7 DEF FatFirstData, FatFirstRoot, FatFirstFat
<1>9. FatDataCount(b) = sectors - v.data
  BY <1>2, <1>5, <1>6, <1>7 DEF FatDataCount
<1>10. FatClusterCount(b) = v.clusters
  <2> DEFINE d == b.SectorsPerCluster
             e == sectors - v.data
             q == v.clusters
  <2>1. d \in Nat \ {0} /\ e \in Int /\ q \in Int
    BY <1>1, <1>2, <1>3
  <2>2. e - q * d \in 0..(d - 1)
    BY <1>1
  <2>3. FatClusterCount(b) = e \div d
    BY <1>9 DEF FatClusterCount
  <2> HIDE DEF d, e, q
  <2>4. e \div d = q
    BY <2>1, <2>2, RoundedDown
  <2> QED BY <2>3, <2>4 DEF q
<1>11. FatIdentify(b) = v.type
  <2>1. Max12 \in Nat /\ Max16 \in Nat /\ Max12 <= Max16
    BY OffsetsAssumption
  <2>2. CASE v.type = "FAT12" /\ v.clusters < Max12 /\ b.Signature16
    BY <1>2, <1>10, <2>1, <2>2 DEF FatIdentify
  <2>3. CASE v.type = "FAT16" /\ v.clusters \in Max12..(Max16 - 1) /\ b.Signature16
    BY <1>2, <1>10, <2>1, <2>3 DEF FatIdentify
  <2>4. CASE v.type = "FAT32" /\ v.clusters >= Max16 /\ b.Signature32
    BY <1>2, <1>10, <2>1, <2>4 DEF FatIdentify
  <2> QED BY <2>2, <2>3, <2>4 DEF IsMade
<1> QED BY <1>2, <1>4, <1>8, <1>10, <1>11 DEF Report

\* Where the boot record of the volume is, and what is said of it.
BootPlace(slot) == FatParseMBR(Unit(slot, 0))
BootAt(slot) == Unit(slot, BootPlace(slot))
Filled(n) == ideDev[n].Size > 0 /\ Unit(SlotOf(n), 0).magic
Told(n) == Report(n, BootAt(SlotOf(n)))

LEMMA MadeFacts ==
  ASSUME NEW slot, slot.size \in Nat, HasVolume(slot), NEW v, MadeOn(slot, v),
         Unit(slot, 0).parts \in Seq([type : Nat, lba : Nat])
  PROVE  /\ BootPlace(slot) < Offsets
         /\ BootPlace(slot) < slot.size * UnitsPerSector(slot.kind)
         /\ IsMade(v, BootAt(slot))
<1> DEFINE first == Unit(slot, 0)
           parts == first.parts
           fat == {p \in DOMAIN parts : parts[p].type \in FatTypes}
<1>1. BootPlace(slot) = IF fat = {} THEN 0
                        ELSE parts[CHOOSE p \in fat : \A q \in fat : p <= q].lba
  <2>1. first.magic /\ BootPlace(slot) = FatParseMBR(first)
    BY DEF BootPlace, HasVolume
  <2> HIDE DEF first
  <2>2. FatParseMBR(first) = IF ~first.magic \/ fat = {} THEN 0
                             ELSE parts[CHOOSE p \in fat : \A q \in fat : p <= q].lba
    BY DEF FatParseMBR
  <2> QED BY <2>1, <2>2
<1>2. fat \subseteq Nat
  <2>1. DOMAIN parts \subseteq Nat
    OBVIOUS
  <2> QED BY <2>1
<1>3. CASE fat = {}
  <2>1. BootPlace(slot) = 0
    BY <1>1, <1>3
  <2>2. IsMade(v, first)
    BY <1>3 DEF MadeOn
  <2>3. UnitsPerSector(slot.kind) \in {1, 4} /\ slot.size \in Nat /\ slot.size > 0
    BY DEF UnitsPerSector, HasVolume
  <2>4. 0 < slot.size * UnitsPerSector(slot.kind)
    BY <2>3
  <2>5. 0 < Offsets
    BY OffsetsAssumption
  <2> QED BY <2>1, <2>2, <2>4, <2>5 DEF BootAt
<1>4. CASE fat # {}
  <2>1. PICK p \in fat :
          /\ \A q \in fat : p <= q
          /\ parts[p].lba < Offsets
          /\ parts[p].lba < slot.size * UnitsPerSector(slot.kind)
          /\ IsMade(v, Unit(slot, parts[p].lba))
    BY <1>4 DEF MadeOn
  <2>2. (CHOOSE x \in fat : \A q \in fat : x <= q) = p
    <3> HIDE DEF fat
    <3>1. \A x \in fat : (\A q \in fat : x <= q) => x <= p /\ p <= x /\ x \in Nat /\ p \in Nat
      BY <1>2, <2>1
    <3>2. \A x \in fat : (\A q \in fat : x <= q) => x = p
      BY <3>1
    <3> QED BY <2>1, <3>2
  <2>3. BootPlace(slot) = parts[p].lba
    BY <1>1, <1>4, <2>2
  <2> HIDE DEF fat, parts
  <2> QED BY <2>1, <2>3 DEF BootAt
<1> QED BY <1>3, <1>4

\* Once IDE's Init is over, nothing of pci or ide changes any more.
LEMMA EntriesDone ==
  ASSUME WalkInv, PhaseInv, [Next]_vars, ideAt.pci >= 0, ideAt = AfterAll
  PROVE  UNCHANGED <<machine, ideVars, pciVars>>
<1>1. UNCHANGED machine
  BY MachineStep
<1>2. UNCHANGED ideVars
  <2>1. CASE Detect
    <3>1. ~IDEStart /\ ~IDEFind /\ ~IDEProbe
      BY DEF IDEStart, IDEFind, IDEProbe, AfterAll, PhaseInv
    <3> QED BY <2>1, <3>1 DEF Detect, IDENext, IDEReturn
  <2> QED BY <2>1, WhoMoves
<1>3. UNCHANGED pciVars
  <2> SUFFICES ASSUME Enumerate PROVE UNCHANGED pciVars
    BY WhoMoves
  <2>1. Going
    BY DEF Enumerate, PCINext, PCIPublish, PCIScan, PCIReturn
  <2>2. pciAt.bus = Buses /\ Buses \in Nat
    BY <2>1, BusAssumption DEF PhaseInv
  <2>3. ~PCIPublish /\ ~PCIScan
    BY <2>2 DEF PCIPublish, PCIScan
  <2> QED BY <2>3 DEF Enumerate, PCINext, PCIReturn
<1> QED BY <1>1, <1>2, <1>3

\* Then each drive is behind one node, and each node leads to a drive.
AllProbed(c) ==
    /\ WalkInv /\ AccessInv /\ DevsInv /\ DrivesInv
    /\ Controllers = {c} /\ ideAt.pci >= 0 /\ ideAt = AfterAll

LEMMA DrivesFound ==
  ASSUME NEW c, AllProbed(c)
  PROVE  ideCtl = c /\ Drives(c, 4)
<1>1. PICK q \in 0..(MaxDevices - 1) : DrivesAt(c, q)
  BY DEF DrivesInv, AllProbed
<1>2. ideAt.pci > q /\ ideAt.pci = pciCount /\ ~(ideAt.pci < q) /\ ideAt.pci # q
  <2>1. q \in 0..(pciCount - 1) /\ ideAt.pci = pciCount /\ ideAt.pci \in Int
    BY <1>1 DEF DrivesAt, Place, AfterAll, AccessInv, PhaseInv, AllProbed
  <2> QED BY <2>1
<1>3. Through(q) = 4
  BY <1>2 DEF Through
<1> QED BY <1>1, <1>2, <1>3 DEF DrivesAt

LEMMA DriveBehind ==
  ASSUME NEW c, AllProbed(c), NEW s \in 0..3, Has(c, s)
  PROVE  /\ \E k \in Nodes("hd") : devs[k].n = Rank(c, s)
         /\ ideDev[Rank(c, s)] = EntryOf(c, s)
         /\ SlotOf(Rank(c, s)) = c.slots[s] /\ IsDrivePresent(Rank(c, s))
<1>1. s < 4
  OBVIOUS
<1>2. /\ \E k \in Nodes("hd") : devs[k].n = Rank(c, s)
      /\ ideDev[Rank(c, s)] = EntryOf(c, s)
  BY <1>1, DrivesFound DEF Drives
<1>3. 2 * (s \div 2) + (s % 2) = s
  OBVIOUS
<1>4. SlotOf(Rank(c, s)) = c.slots[s]
  BY <1>2, <1>3, DrivesFound DEF SlotOf, EntryOf
<1>5. IsDrivePresent(Rank(c, s))
  BY <1>2, <1>4 DEF IsDrivePresent, EntryOf, Has
<1> QED BY <1>2, <1>4, <1>5

LEMMA NodeLeads ==
  ASSUME NEW c, AllProbed(c), NEW k \in Nodes("hd")
  PROVE  \E s \in 0..3 : Has(c, s) /\ devs[k].n = Rank(c, s)
<1> DEFINE F == {s \in 0..3 : Has(c, s)}
           N == Nodes("hd")
           f == [s \in F |-> CHOOSE j \in N : devs[j].n = Rank(c, s)]
<1>1. IsFiniteSet(N)
  <2>1. PICK S : devs \in Seq(S)
    BY DEF AllProbed, DevsInv
  <2>2. Len(devs) \in Nat /\ N \in SUBSET (1..Len(devs))
    BY <2>1 DEF Nodes
  <2>3. IsFiniteSet(1..Len(devs))
    BY <2>2, FS_Interval
  <2> QED BY <2>2, <2>3, FS_Subset
<1>2. \A s \in F : \E j \in N : devs[j].n = Rank(c, s)
  BY DriveBehind
<1>3. \A s \in F : f[s] \in N /\ devs[f[s]].n = Rank(c, s)
  <2> HIDE DEF N, F
  <2> QED BY <1>2
<1>4. \A s, t \in F : Rank(c, s) = Rank(c, t) => s = t
  <2> SUFFICES ASSUME NEW s \in F, NEW t \in F, s < t PROVE Rank(c, s) # Rank(c, t)
    OBVIOUS
  <2>1. Rank(c, s) < Rank(c, t) /\ Rank(c, t) \in Nat
    <3>1. t \in 0..4 /\ s \in 0..3 /\ Has(c, s)
      OBVIOUS
    <3> QED BY <3>1, RankFacts
  <2>2. Rank(c, s) \in Nat
    BY RankFacts
  <2> QED BY <2>1, <2>2
<1>5. f \in Injection(F, N)
  <2>1. f \in [F -> N]
    BY <1>3
  <2>2. \A s, t \in F : f[s] = f[t] => s = t
    BY <1>3, <1>4
  <2> HIDE DEF f
  <2> QED BY <2>1, <2>2 DEF Injection, IsInjective
<1>6. Cardinality(F) = Cardinality(N)
  <2>1. F = {t \in 0..3 : Has(c, t) /\ t < 4}
    OBVIOUS
  <2>2. Cardinality(F) = Rank(c, 4)
    BY <2>1 DEF Rank
  <2>3. Cardinality(N) = Rank(c, 4)
    BY DrivesFound DEF Drives
  <2> QED BY <2>2, <2>3
<1>7. f \in Surjection(F, N)
  BY <1>1, <1>5, <1>6, FS_Injection
<1>8. PICK s \in F : f[s] = k
  <2> HIDE DEF f, F
  <2> QED BY <1>7 DEF Surjection
<1> QED BY <1>3, <1>8

\* What there is on the drive behind a node, and the node of a volume.
LEMMA FirstUnit ==
  ASSUME WalkInv, NEW c \in Controllers, NEW s \in 0..3
  PROVE  Unit(c.slots[s], 0).parts \in Seq([type : Nat, lba : Nat])
<1>1. \A u \in DOMAIN c.slots[s].units :
        c.slots[s].units[u].parts \in Seq([type : Nat, lba : Nat])
  BY ControllerFacts
<1>2. ZeroSector.parts \in Seq([type : Nat, lba : Nat])
  BY DEF ZeroSector
<1> QED BY <1>1, <1>2 DEF Unit

LEMMA RankIs ==
  ASSUME NEW c, NEW s \in 0..3
  PROVE  Cardinality({t \in {r \in 0..3 : c.slots[r].kind \in {"ata", "atapi", "hung"}} : t < s})
            = Rank(c, s)
<1>1. {t \in {r \in 0..3 : c.slots[r].kind \in {"ata", "atapi", "hung"}} : t < s}
        = {t \in 0..3 : Has(c, t) /\ t < s}
  BY DEF Has
<1> QED BY <1>1 DEF Rank

\* VolumesOf for a slot and for a volume.
Made(c, s, v) == v.n = Rank(c, s) /\ MadeOn(c.slots[s], v)

LEMMA VolumesMade ==
  ASSUME NEW c, VolumesOf(machine, c.slots)
  PROVE  /\ \A s \in 0..3 : ~c.slots[s].faults
         /\ \A s \in 0..3 : Has(c, s) /\ HasVolume(c.slots[s]) =>
              \E v \in machine.volumes : Made(c, s, v)
         /\ \A v \in machine.volumes :
              \E s \in 0..3 : Has(c, s) /\ HasVolume(c.slots[s]) /\ Made(c, s, v)
<1> DEFINE found == {r \in 0..3 : c.slots[r].kind \in {"ata", "atapi", "hung"}}
           is(s, v) == v.n = Cardinality({t \in found : t < s}) /\ MadeOn(c.slots[s], v)
<1>1. /\ \A s \in 0..3 : ~c.slots[s].faults
      /\ \A s \in found : HasVolume(c.slots[s]) => \E v \in machine.volumes : is(s, v)
      /\ \A v \in machine.volumes : \E s \in found : HasVolume(c.slots[s]) /\ is(s, v)
  BY DEF VolumesOf
<1>2. \A v : \A s \in 0..3 : is(s, v) <=> Made(c, s, v)
  BY RankIs DEF Made
<1>3. found \subseteq 0..3 /\ \A s \in 0..3 : s \in found <=> Has(c, s)
  BY DEF Has
<1> HIDE DEF found, is
<1> QED BY <1>1, <1>2, <1>3

LEMMA SlotVolume ==
  ASSUME NEW c, AllProbed(c), NEW s \in 0..3, Has(c, s), NEW n, n = Rank(c, s)
  PROVE  /\ Filled(n) <=> HasVolume(c.slots[s])
         /\ SlotOf(n) = c.slots[s]
         /\ ideDev[n].Size = c.slots[s].size /\ c.slots[s].size \in Nat
         /\ UnitsPerSector(ideDev[n].Type) = UnitsPerSector(c.slots[s].kind)
<1>1. ideDev[n] = EntryOf(c, s) /\ SlotOf(n) = c.slots[s]
  BY DriveBehind
<1>2. c.slots[s].size \in Nat
  BY ControllerFacts DEF AllProbed
<1>3. ideDev[n].Size = c.slots[s].size /\ ideDev[n].Type = Probed(c.slots[s])
  BY <1>1 DEF EntryOf
<1>4. Filled(n) <=> HasVolume(c.slots[s])
  BY <1>1, <1>3 DEF Filled, HasVolume, Has
<1>5. UnitsPerSector(ideDev[n].Type) = UnitsPerSector(c.slots[s].kind)
  BY <1>3 DEF UnitsPerSector, Probed, Has
<1> QED BY <1>1, <1>2, <1>3, <1>4, <1>5

LEMMA MadeTold ==
  ASSUME NEW c, AllProbed(c), NEW s \in 0..3, Has(c, s), HasVolume(c.slots[s]),
         NEW v, Made(c, s, v), NEW n, n = Rank(c, s)
  PROVE  /\ v = Told(n) /\ Divides(BootAt(SlotOf(n)))
         /\ BootPlace(SlotOf(n)) < Offsets
         /\ BootPlace(SlotOf(n)) < ideDev[n].Size * UnitsPerSector(ideDev[n].Type)
<1>1. SlotOf(n) = c.slots[s]
  BY SlotVolume
<1>2. Unit(c.slots[s], 0).parts \in Seq([type : Nat, lba : Nat])
  BY FirstUnit DEF AllProbed
<1>3. /\ BootPlace(c.slots[s]) < Offsets
      /\ BootPlace(c.slots[s]) < c.slots[s].size * UnitsPerSector(c.slots[s].kind)
      /\ IsMade(v, BootAt(c.slots[s]))
  <2>1. c.slots[s].size \in Nat
    BY SlotVolume
  <2> QED BY <1>2, <2>1, MadeFacts DEF Made
<1>4. Divides(BootAt(c.slots[s])) /\ Report(v.n, BootAt(c.slots[s])) = v
  BY <1>3, MadeIsReported
<1>5. v = Told(n)
  BY <1>1, <1>4 DEF Made, Told
<1> QED BY <1>1, <1>3, <1>4, <1>5, SlotVolume

LEMMA NodeVolume ==
  ASSUME NEW c, AllProbed(c), VolumesOf(machine, c.slots), NEW k \in Nodes("hd"),
         NEW n, n = devs[k].n
  PROVE  /\ IsDrivePresent(n) /\ ~SlotOf(n).faults
         /\ Filled(n) =>
              /\ Told(n) \in machine.volumes /\ Divides(BootAt(SlotOf(n)))
              /\ BootPlace(SlotOf(n)) < Offsets
              /\ BootPlace(SlotOf(n)) < ideDev[n].Size * UnitsPerSector(ideDev[n].Type)
<1>1. PICK s \in 0..3 : Has(c, s) /\ n = Rank(c, s)
  BY NodeLeads
<1>2. IsDrivePresent(n) /\ ~SlotOf(n).faults
  BY <1>1, DriveBehind, VolumesMade
<1>3. CASE Filled(n)
  <2>1. HasVolume(c.slots[s])
    BY <1>1, <1>3, SlotVolume
  <2>2. PICK v \in machine.volumes : Made(c, s, v)
    BY <1>1, <2>1, VolumesMade
  <2>3. v = Told(n) /\ Divides(BootAt(SlotOf(n)))
    BY <1>1, <2>1, <2>2, MadeTold
  <2>4. /\ BootPlace(SlotOf(n)) < Offsets
        /\ BootPlace(SlotOf(n)) < ideDev[n].Size * UnitsPerSector(ideDev[n].Type)
    BY <1>1, <2>1, <2>2, MadeTold
  <2> QED BY <1>2, <2>2, <2>3, <2>4
<1> QED BY <1>2, <1>3

LEMMA VolumeNode ==
  ASSUME NEW c, AllProbed(c), VolumesOf(machine, c.slots), NEW v \in machine.volumes
  PROVE  \E k \in Nodes("hd") : Filled(devs[k].n) /\ v = Told(devs[k].n)
<1>1. PICK s \in 0..3 : Has(c, s) /\ HasVolume(c.slots[s]) /\ Made(c, s, v)
  BY VolumesMade
<1>2. PICK k \in Nodes("hd") : devs[k].n = Rank(c, s)
  BY <1>1, DriveBehind
<1>3. Filled(devs[k].n)
  BY <1>1, <1>2, SlotVolume
<1>4. v = Told(devs[k].n)
  BY <1>1, <1>2, MadeTold
<1> QED BY <1>3, <1>4

\* A tag that loads a module lets nobody pass before its Init was called.
LEMMA TagPasses ==
  ASSUME LinkInv, NextTag, Tag.type # "end", NEW p \in DOMAIN machine.tags
  PROVE  \/ offset > p /\ offset' > p
         \/ offset < p /\ offset' <= p
         \/ offset = p
<1> DEFINE to == offset + Aligned(Tag.size)
<1>1. /\ machine \in Machines /\ offset \in DOMAIN machine.tags
      /\ offset \in Nat /\ p \in Nat
  BY LoaderAssumption DEF LinkInv
<1>2. /\ to \in DOMAIN machine.tags /\ to >= offset
      /\ \A t \in DOMAIN machine.tags : t <= offset \/ t >= to
  BY <1>1, NextTagIs
<1>3. to \in Nat
  BY <1>1, <1>2, LoaderAssumption
<1>4. offset' = to
  BY DEF NextTag
<1> HIDE DEF to
<1>5. p <= offset \/ p >= to
  BY <1>2
<1> QED BY <1>1, <1>2, <1>3, <1>4, <1>5

LEMMA LoaderGoes ==
  ASSUME LinkInv, [Next]_vars, NEW p \in DOMAIN machine.tags, NEW name, Loads(machine, p, name)
  PROVE  \/ offset > p /\ offset' > p
         \/ offset' <= p /\ ~(offset' = p /\ lphase' = "ctors")
         \/ offset = p /\ lphase = "ctors" /\ UNCHANGED <<offset, lphase>>
         \/ offset' = p /\ lphase' = "ctors" /\ running' = name
         \/ offset = p /\ lphase = "ctors" /\ running = "loader" /\ lphase' = "tags"
<1>1. /\ machine \in Machines /\ offset \in DOMAIN machine.tags /\ offset \in Nat
      /\ p \in Nat
  BY LoaderAssumption DEF LinkInv
<1>2. offset = p => /\ Tag.type = "module" /\ Image.elf /\ Image.type = "rel"
                    /\ Image.name = name /\ FindSymbol(Image, "Init") # 0
                    /\ \A k \in DOMAIN Relocs(Image) : SymAddr(Image, Relocs(Image)[k]) # -1
  BY DEF Loads, Tag, Image
<1>3. CASE UNCHANGED <<offset, lphase>>
  BY <1>1, <1>3
<1>4. ASSUME SkipTag \/ RejectModule PROVE offset # p /\ NextTag /\ lphase' = "tags" /\ Tag.type # "end"
  BY <1>2, <1>4 DEF SkipTag, RejectModule, Loading
<1>5. ASSUME Unresolved PROVE offset # p /\ NextTag /\ lphase' = "tags" /\ Tag.type # "end"
  <2>1. /\ lphase = "relocate" /\ entry <= Len(Relocs(Image))
        /\ SymAddr(Image, Relocs(Image)[entry]) = -1 /\ NextTag /\ lphase' = "tags"
    BY <1>5 DEF Unresolved, Loading
  <2>2. Tag.type = "module" /\ Image.elf /\ Image.type = "rel" /\ entry \in Nat /\ entry >= 1
    BY <2>1 DEF LinkInv
  <2>3. IsImage(Image)
    BY <1>1, <2>2, LoaderAssumption DEF Image, Tag
  <2>4. Len(Relocs(Image)) \in Nat /\ DOMAIN Relocs(Image) = 1..Len(Relocs(Image))
    BY <2>3, ImageRelocs
  <2>5. entry \in DOMAIN Relocs(Image)
    BY <2>1, <2>2, <2>4
  <2> QED BY <1>2, <2>1, <2>2, <2>5
<1>6. CASE SkipTag \/ RejectModule \/ Unresolved
  <2>1. offset # p /\ NextTag /\ lphase' = "tags" /\ Tag.type # "end"
    BY <1>4, <1>5, <1>6
  <2> QED BY <2>1, TagPasses
<1>7. CASE CallConstructors
  <2>1. /\ lphase = "ctors" /\ running = "loader" /\ lphase' = "tags" /\ NextTag
        /\ Tag.type = "module"
    BY <1>7 DEF CallConstructors, Loading, LinkInv
  <2> QED BY <2>1, TagPasses
<1>8. CASE OpenModule
  <2>1. UNCHANGED offset /\ lphase' = "relocate"
    BY <1>8 DEF OpenModule
  <2> QED BY <1>1, <2>1
<1>9. CASE CallInit
  <2>1. UNCHANGED offset /\ lphase' = "ctors" /\ (FindSymbol(Image, "Init") # 0 => running' = Image.name)
    BY <1>9 DEF CallInit
  <2> QED BY <1>1, <1>2, <2>1
<1>10. CASE EndOfTags
  BY <1>3, <1>10 DEF EndOfTags, loaderVars
<1>11. CASE Relocate
  BY <1>3, <1>11 DEF Relocate
<1>12. CASE UNCHANGED loaderVars
  BY <1>3, <1>12 DEF loaderVars
<1> QED BY <1>6, <1>7, <1>8, <1>9, <1>10, <1>11, <1>12, LoaderMoves DEF LoaderNext

\* Whose code runs next: that of the module whose Init is called.
LEMMA RunsNext ==
  ASSUME [Next]_vars
  PROVE  UNCHANGED running \/ CallInit \/ running' \in {"loader", "kmain"}
<1>1. CASE Load
  BY <1>1 DEF Load, LoaderNext, EndOfTags, SkipTag, OpenModule, RejectModule,
              Relocate, Unresolved, CallConstructors, VGAInit, HelloInit, Return, shared
<1>2. CASE Enumerate
  BY <1>2 DEF Enumerate, PCINext, PCIPublish, PCIScan, PCIReturn, Return
<1>3. CASE Detect
  BY <1>3 DEF Detect, IDENext, IDEStart, IDEFind, IDEProbe, IDEReturn, Return
<1>4. CASE Transfer \/ Answer1 \/ Types \/ Reported
  BY <1>4 DEF Transfer, XferNext, XferSelect, XferCommand, XferSettle, XferPoll, xferRest,
              Answer1, DriveAnswers, Types, TypeKey, Reported, Reports
<1>5. CASE Mount
  BY <1>5 DEF Mount, MountNext, FatStart, FatPassOver, FatRead, FatGot, FatReport,
              FatReturn, Return
<1>6. CASE Converse
  BY <1>6 DEF Converse, PS2Next, PS2Start, PS2Write, PS2Drain, PS2Wait, PS2Get, PS2Config,
              PS2Node, PS2Return, Return
<1>7. CASE Interact
  <2>1. CASE Prompt \/ TtyRead \/ TtyHalt
    BY <2>1 DEF Prompt, TtyRead, TtyHalt, shared
  <2>2. CASE ShellNext
    BY <2>2 DEF ShellNext, ShellNothing, ShellCd, ShellLs, ShellType, ShellExit, Return
  <2>3. KmainLine => UNCHANGED running
    BY DEF KmainLine, shared
  <2>4. KmainSample => UNCHANGED running
    BY DEF KmainSample
  <2>5. KmainWait => UNCHANGED running
    BY DEF KmainWait, shared
  <2> QED BY <1>7, <2>1, <2>2, <2>3, <2>4, <2>5 DEF Interact
<1>8. CASE TypeDevice
  BY <1>8 DEF TypeDevice, TypeMouse, TypeKeyboard
<1>9. CASE UNCHANGED vars
  BY <1>9 DEF vars, shared
<1> QED BY <1>1, <1>2, <1>3, <1>4, <1>5, <1>6, <1>7, <1>8, <1>9 DEF Next, Process

\* While the loader runs nobody else takes over.
LEMMA LoaderRuns ==
  ASSUME [Next]_vars, running = "loader"
  PROVE  UNCHANGED running \/ LoaderNext
<1>1. ~Enumerate /\ ~Detect /\ ~Mount
  BY DEF Enumerate, PCINext, PCIPublish, PCIScan, PCIReturn, Detect, IDENext, IDEStart,
         IDEFind, IDEProbe, IDEReturn, Mount, MountNext, Mounting, FatStart, FatPassOver,
         FatRead, FatGot, FatReport, FatReturn
<1>2. ~VGAInit /\ ~HelloInit
  BY DEF VGAInit, HelloInit
<1>3. CASE Load
  BY <1>2, <1>3 DEF Load
<1>4. CASE Transfer \/ Answer1 \/ Types \/ Reported
  BY <1>4 DEF Transfer, XferNext, XferSelect, XferCommand, XferSettle, XferPoll, xferRest,
              Answer1, DriveAnswers, Types, TypeKey, Reported, Reports
<1>5. CASE Converse
  BY <1>5 DEF Converse, PS2Next, PS2Start, PS2Write, PS2Drain, PS2Wait, PS2Get, PS2Config,
              PS2Node, PS2Return, Scripted
<1>6. CASE Interact
  <2>1. CASE Prompt \/ TtyRead \/ TtyHalt
    BY <2>1 DEF Prompt, TtyRead, TtyHalt, shared
  <2>2. ~ShellNext
    BY DEF ShellNext, ShellNothing, ShellCd, ShellLs, ShellType, ShellExit, Running
  <2>3. KmainLine => UNCHANGED running
    BY DEF KmainLine, shared
  <2>4. KmainSample => UNCHANGED running
    BY DEF KmainSample
  <2>5. KmainWait => UNCHANGED running
    BY DEF KmainWait, shared
  <2> QED BY <1>6, <2>1, <2>2, <2>3, <2>4, <2>5 DEF Interact
<1>7. CASE TypeDevice
  BY <1>7 DEF TypeDevice, TypeMouse, TypeKeyboard
<1>8. CASE UNCHANGED vars
  BY <1>8 DEF vars, shared
<1> QED BY <1>1, <1>3, <1>4, <1>5, <1>6, <1>7, <1>8 DEF Next, Process

\* What has begun stays begun.
LEMMA BegunStays ==
  ASSUME WalkInv, PhaseInv, EntryInv, [Next]_vars
  PROVE  /\ pciAt.bus >= 0 => pciAt'.bus >= 0
         /\ ideAt.pci >= 0 => ideAt'.pci >= 0
         /\ pciAt'.bus >= 0 => pciAt.bus >= 0 \/ PCIPublish
<1>1. Buses \in Nat /\ pciAt \in Addresses /\ pciAt.bus \in -1..Buses
  BY BusAssumption DEF WalkInv, Addresses
<1>2. PCIScan => pciAt.bus >= 0 /\ pciAt'.bus >= 0
  <2> SUFFICES ASSUME PCIScan PROVE pciAt.bus >= 0 /\ pciAt'.bus >= 0
    OBVIOUS
  <2>1. pciAt' = [pciAt EXCEPT !.func = @ + 1] \/ pciAt' = NextSlot
    BY DEF PCIScan
  <2> QED BY <1>1, <2>1 DEF PCIScan, NextSlot, Addresses
<1>3. PCIPublish => pciAt'.bus >= 0
  BY <1>1 DEF PCIPublish, Addresses
<1>4. PCIReturn => UNCHANGED pciAt
  BY DEF PCIReturn, pciVars
<1>5. /\ pciAt.bus >= 0 => pciAt'.bus >= 0
      /\ pciAt'.bus >= 0 => pciAt.bus >= 0 \/ PCIPublish
  BY <1>2, <1>3, <1>4, WhoMoves DEF Enumerate, PCINext, pciVars
<1>6. ideAt.pci >= 0 => ideAt'.pci >= 0
  <2>1. ideAt \in [pci : Int, slot : 0..4]
    BY DEF PhaseInv
  <2>2. CASE UNCHANGED ideVars \/ IDEReturn
    BY <2>2 DEF IDEReturn, ideVars
  <2>3. CASE IDEStart \/ IDEFind
    BY <2>1, <2>3 DEF IDEStart, IDEFind
  <2>4. CASE IDEProbe
    BY <2>1, <2>4 DEF IDEProbe
  <2> QED BY <2>2, <2>3, <2>4, WhoMoves DEF Detect, IDENext
<1> QED BY <1>5, <1>6

\* The Inits of a module come to an end before the loader goes on.
PciRan(p) ==
    /\ offset > p => pciAt.bus >= 0
    /\ offset = p /\ lphase = "ctors" => running = "pci" \/ (running = "loader" /\ pciAt.bus >= 0)
IdeRan(p) ==
    /\ offset > p => ideAt.pci >= 0
    /\ offset = p /\ lphase = "ctors" => running = "ide" \/ (running = "loader" /\ ideAt.pci >= 0)

OrderInv ==
    /\ pciAt.bus >= 0 => Nodes("pci") # {}
    /\ \A p \in DOMAIN machine.tags : Loads(machine, p, "pci") =>
        /\ PciRan(p)
        /\ \A q \in DOMAIN machine.tags : p < q /\ Loads(machine, q, "ide") => IdeRan(q)
    /\ running = "fat" /\ FatComesLast(machine) => ideAt.pci >= 0

LEMMA OrderInit == Init => OrderInv
<1> SUFFICES ASSUME Init PROVE OrderInv
  OBVIOUS
<1>1. /\ machine \in Machines /\ running = "loader" /\ pciAt.bus = -1
      /\ offset = TagAlign /\ lphase = "tags"
  BY DEF Init, MachineInit, PCIInit, LoaderInit
<1>2. \A p \in DOMAIN machine.tags : ~(offset > p)
  <2>1. \A p \in DOMAIN machine.tags : p \in Nat /\ p >= TagAlign /\ TagAlign \in Nat
    BY <1>1, LoaderAssumption
  <2> QED BY <1>1, <2>1
<1>3. \A p \in DOMAIN machine.tags : PciRan(p) /\ IdeRan(p)
  BY <1>1, <1>2 DEF PciRan, IdeRan
<1> QED BY <1>1, <1>3 DEF OrderInv

LEMMA OffsetIs ==
  ASSUME LinkInv, [Next]_vars, NEW p \in DOMAIN machine.tags
  PROVE  offset \in Nat /\ offset' \in Nat /\ p \in Nat
<1>1. machine \in Machines /\ offset \in DOMAIN machine.tags /\ UNCHANGED machine
  BY LoaderMoves DEF LinkInv
<1>2. LinkInv'
  BY LinkStep
<1>3. offset' \in DOMAIN machine.tags
  BY <1>1, <1>2 DEF LinkInv
<1> QED BY <1>1, <1>3, LoaderAssumption

LEMMA LoaderWaits ==
  ASSUME [Next]_vars, running = "loader", lphase = "ctors", UNCHANGED lphase
  PROVE  running' = "loader"
<1>1. UNCHANGED running \/ LoaderNext
  BY LoaderRuns
<1> QED BY <1>1 DEF LoaderNext, EndOfTags, SkipTag, OpenModule, RejectModule, Relocate,
                    Unresolved, CallInit, CallConstructors, Loading, shared

LEMMA PciRanStep ==
  ASSUME WalkInv, PhaseInv, EntryInv, LinkInv, [Next]_vars,
         NEW p \in DOMAIN machine.tags, Loads(machine, p, "pci"), PciRan(p)
  PROVE  PciRan(p)'
<1>1. pciAt.bus >= 0 => pciAt'.bus >= 0
  BY BegunStays
<1>2. offset \in Nat /\ offset' \in Nat /\ p \in Nat
  BY OffsetIs
<1>3. CASE offset > p /\ offset' > p
  BY <1>1, <1>2, <1>3 DEF PciRan
<1>4. CASE offset' <= p /\ ~(offset' = p /\ lphase' = "ctors")
  <2>1. ~(offset' > p)
    BY <1>2, <1>4
  <2> QED BY <1>4, <2>1 DEF PciRan
<1>5. CASE offset = p /\ lphase = "ctors" /\ UNCHANGED <<offset, lphase>>
  <2>1. running' = "pci" \/ (running' = "loader" /\ pciAt'.bus >= 0)
    <3>1. CASE running = "loader" /\ pciAt.bus >= 0
      <4>1. running' = "loader"
        BY <1>5, <3>1, LoaderWaits
      <4> QED BY <1>1, <3>1, <4>1
    <3>2. CASE running = "pci"
      <4>1. UNCHANGED running \/ PCIReturn
        BY <3>2, RunningStep
           DEF Hands, IDEReturn, FatReturn, Mounting, PS2Return, Scripted
      <4>2. CASE PCIReturn
        <5>1. pciAt.bus = Buses /\ Buses \in Nat /\ running' = "loader"
          BY <4>2, BusAssumption DEF PCIReturn, Return
        <5> QED BY <1>1, <5>1
      <4> QED BY <3>2, <4>1, <4>2
    <3> QED BY <1>5, <3>1, <3>2 DEF PciRan
  <2>2. ~(offset' > p)
    BY <1>2, <1>5
  <2> QED BY <2>1, <2>2 DEF PciRan
<1>6. CASE offset' = p /\ lphase' = "ctors" /\ running' = "pci"
  <2>1. ~(offset' > p)
    BY <1>2, <1>6
  <2> QED BY <1>6, <2>1 DEF PciRan
<1>7. CASE offset = p /\ lphase = "ctors" /\ running = "loader" /\ lphase' = "tags"
  BY <1>1, <1>7 DEF PciRan
<1> QED BY <1>3, <1>4, <1>5, <1>6, <1>7, LoaderGoes

\* Init of ide finds PCI's list, and comes to its end.
LEMMA IdeReturns ==
  ASSUME WalkInv, [Next]_vars, running = "ide", running' # "ide",
         pciAt.bus >= 0, Nodes("pci") # {}
  PROVE  running' = "loader" /\ ideAt'.pci >= 0
<1>1. IDEReturn
  BY RunningStep DEF Hands, PCIReturn, FatReturn, Mounting, PS2Return, Scripted
<1>2. running' = "loader" /\ ideAt' = AfterAll /\ Going
  BY <1>1 DEF IDEReturn, ideVars, AfterAll, Return
<1>3. pciCount = Cardinality(Walked)
  BY <1>2 DEF WalkInv, Listing
<1>4. Cardinality(Walked) \in Nat
  BY WalkedFacts, BusFacts DEF WalkInv
<1>5. pciCount >= 0
  BY <1>3, <1>4
<1> QED BY <1>2, <1>5 DEF AfterAll

LEMMA IdeRanStep ==
  ASSUME WalkInv, PhaseInv, EntryInv, LinkInv, [Next]_vars,
         NEW p \in DOMAIN machine.tags, Loads(machine, p, "ide"), IdeRan(p),
         offset = p => pciAt.bus >= 0 /\ Nodes("pci") # {}
  PROVE  IdeRan(p)'
<1>1. ideAt.pci >= 0 => ideAt'.pci >= 0
  BY BegunStays
<1>2. offset \in Nat /\ offset' \in Nat /\ p \in Nat
  BY OffsetIs
<1>3. CASE offset > p /\ offset' > p
  BY <1>1, <1>2, <1>3 DEF IdeRan
<1>4. CASE offset' <= p /\ ~(offset' = p /\ lphase' = "ctors")
  <2>1. ~(offset' > p)
    BY <1>2, <1>4
  <2> QED BY <1>4, <2>1 DEF IdeRan
<1>5. CASE offset = p /\ lphase = "ctors" /\ UNCHANGED <<offset, lphase>>
  <2>1. running' = "ide" \/ (running' = "loader" /\ ideAt'.pci >= 0)
    <3>1. CASE running = "loader" /\ ideAt.pci >= 0
      <4>1. running' = "loader"
        BY <1>5, <3>1, LoaderWaits
      <4> QED BY <1>1, <3>1, <4>1
    <3>2. CASE running = "ide"
      BY <1>5, <3>2, IdeReturns
    <3> QED BY <1>5, <3>1, <3>2 DEF IdeRan
  <2>2. ~(offset' > p)
    BY <1>2, <1>5
  <2> QED BY <2>1, <2>2 DEF IdeRan
<1>6. CASE offset' = p /\ lphase' = "ctors" /\ running' = "ide"
  <2>1. ~(offset' > p)
    BY <1>2, <1>6
  <2> QED BY <1>6, <2>1 DEF IdeRan
<1>7. CASE offset = p /\ lphase = "ctors" /\ running = "loader" /\ lphase' = "tags"
  BY <1>1, <1>7 DEF IdeRan
<1> QED BY <1>3, <1>4, <1>5, <1>6, <1>7, LoaderGoes

LEMMA OrderStep ==
  ASSUME WalkInv, DevsInv, PhaseInv, EntryInv, LinkInv, OrderInv, [Next]_vars
  PROVE  OrderInv'
<1>1. UNCHANGED machine
  BY LoaderMoves
<1>2. pciAt'.bus >= 0 => Nodes("pci")' # {}
  <2>1. CASE PCIPublish
    <3> DEFINE new == [name |-> "pci", kind |-> "pci"]
    <3>1. devs' = <<new>> \o devs /\ new.kind = "pci"
      BY <2>1 DEF PCIPublish, Register
    <3> HIDE DEF new
    <3>2. 1 \in Nodes("pci")'
      BY <3>1, Shifted
    <3> QED BY <3>2
  <2>2. CASE pciAt.bus >= 0
    BY <2>2, NodesStay DEF OrderInv
  <2> QED BY <2>1, <2>2, BegunStays
<1>3. ASSUME NEW p \in DOMAIN machine'.tags, Loads(machine', p, "pci")
      PROVE  PciRan(p)' /\ \A q \in DOMAIN machine'.tags : p < q /\ Loads(machine', q, "ide") => IdeRan(q)'
  <2>1. p \in DOMAIN machine.tags /\ Loads(machine, p, "pci")
    BY <1>1, <1>3
  <2>2. PciRan(p)
    BY <2>1 DEF OrderInv
  <2>3. PciRan(p)'
    BY <2>1, <2>2, PciRanStep
  <2>4. ASSUME NEW q \in DOMAIN machine'.tags, p < q, Loads(machine', q, "ide")
        PROVE  IdeRan(q)'
    <3>1. q \in DOMAIN machine.tags /\ Loads(machine, q, "ide")
      BY <1>1, <2>4
    <3>2. IdeRan(q)
      BY <2>1, <2>4, <3>1 DEF OrderInv
    <3>3. p \in Nat /\ q \in Nat
      BY <2>1, <3>1, OffsetIs
    <3>4. offset = q => pciAt.bus >= 0 /\ Nodes("pci") # {}
      BY <2>2, <2>4, <3>3 DEF PciRan, OrderInv
    <3> QED BY <3>1, <3>2, <3>4, IdeRanStep
  <2> QED BY <2>3, <2>4
<1>4. ASSUME running' = "fat", FatComesLast(machine) PROVE ideAt'.pci >= 0
  <2>1. CASE running = "fat"
    BY <1>4, <2>1, BegunStays DEF OrderInv
  <2>2. CASE running # "fat"
    <3>1. CallInit
      BY <1>4, <2>2, RunsNext
    <3>2. Image.name = "fat" /\ lphase = "relocate" /\ UNCHANGED offset
      BY <1>4, <2>2, <3>1 DEF CallInit, Loading
    <3>3. /\ offset \in DOMAIN machine.tags
          /\ machine.tags[offset].type = "module" /\ machine.tags[offset].image.name = "fat"
      BY <3>2 DEF LinkInv, Tag, Image
    <3>4. PICK p \in DOMAIN machine.tags, q \in DOMAIN machine.tags :
            p < q /\ q < offset /\ Loads(machine, p, "pci") /\ Loads(machine, q, "ide")
      BY <1>4, <3>3 DEF FatComesLast
    <3>5. IdeRan(q)
      BY <3>4 DEF OrderInv
    <3>6. offset \in Nat /\ q \in Nat
      BY OffsetIs
    <3>7. ideAt.pci >= 0
      BY <3>4, <3>5, <3>6 DEF IdeRan
    <3> QED BY <3>7, BegunStays
  <2> QED BY <2>1, <2>2
<1> QED BY <1>1, <1>2, <1>3, <1>4 DEF OrderInv

LEMMA VolumesAre ==
  ASSUME WalkInv, machine.volumes # {}
  PROVE  FatComesLast(machine) /\ \E c : Controllers = {c} /\ VolumesOf(machine, c.slots)
  BY VolumesAssumption DEF WalkInv, Controllers

\* A machine that says what its volumes are has drives without faults.
QuietInv ==
    machine.volumes # {} =>
        /\ signal \in {"idle", "busy", "drq"}
        /\ signal = "busy" => xfer.at # "idle"
        /\ xfer.at # "idle" => xfer.package = 0

LEMMA QuietInit == Init => QuietInv
  BY DEF Init, ATAInit, QuietInv

LEMMA NoFaults ==
  ASSUME WalkInv, EntryInv, ReadInv, machine.volumes # {}, xfer.at # "idle"
  PROVE  ~SlotOf(xfer.n).faults
<1>1. PICK c : Controllers = {c} /\ VolumesOf(machine, c.slots)
  BY VolumesAre
<1>2. ideCtl = c /\ xfer.n \in 0..3
  BY <1>1 DEF ReadInv, XferIs
<1>3. ideDev[xfer.n].Channel \in 0..1 /\ ideDev[xfer.n].Drive \in 0..1
  BY <1>2 DEF EntryInv, Probes
<1> DEFINE s == 2 * ideDev[xfer.n].Channel + ideDev[xfer.n].Drive
<1>4. s \in 0..3
  BY <1>3
<1>5. SlotOf(xfer.n) = c.slots[s]
  BY <1>2 DEF SlotOf
<1> HIDE DEF s
<1>6. ~c.slots[s].faults
  BY <1>1, <1>4, VolumesMade
<1> QED BY <1>5, <1>6

LEMMA QuietStep ==
  ASSUME WalkInv, EntryInv, ReadInv, QuietInv, [Next]_vars
  PROVE  QuietInv'
<1> SUFFICES ASSUME machine'.volumes # {}
             PROVE  /\ signal' \in {"idle", "busy", "drq"}
                    /\ signal' = "busy" => xfer'.at # "idle"
                    /\ xfer'.at # "idle" => xfer'.package = 0
  BY DEF QuietInv
<1>1. machine.volumes # {}
  BY LoaderMoves
<1>2. /\ signal \in {"idle", "busy", "drq"} /\ (signal = "busy" => xfer.at # "idle")
      /\ xfer.at # "idle" => xfer.package = 0
  BY <1>1 DEF QuietInv
<1>3. CASE UNCHANGED xferVars
  BY <1>2, <1>3 DEF xferVars
<1>4. xfer.at # "idle" => XferIs(xfer)
  BY DEF ReadInv
<1>5. CASE DriveAnswers
  <2>1. signal = "busy" /\ UNCHANGED xfer
    BY <1>5 DEF DriveAnswers
  <2>2. ~SlotOf(xfer.n).faults
    BY <1>1, <1>2, <2>1, NoFaults
  <2>3. signal' = "drq"
    BY <1>5, <2>2 DEF DriveAnswers
  <2> QED BY <1>2, <2>1, <2>3
<1>6. CASE XferSelect \/ XferCommand \/ XferSettle
  <2>1. xfer.at # "idle" /\ \E to : to # "idle" /\ xfer' = [xfer EXCEPT !.at = to]
    BY <1>6 DEF XferSelect, XferCommand, XferSettle, At
  <2>2. signal' \in {"busy", signal}
    BY <1>6 DEF XferSelect, XferCommand, XferSettle
  <2>3. xfer'.at # "idle" /\ xfer'.package = xfer.package
    BY <1>4, <2>1 DEF XferIs
  <2> QED BY <1>2, <2>1, <2>2, <2>3
<1>7. CASE XferPoll
  <2>1. xfer.at \in {"poll", "data"} /\ signal # "busy"
    BY <1>7 DEF XferPoll, At
  <2>2. signal = "drq"
    BY <1>2, <2>1 DEF ReadInv, InCourse, Signals
  <2>3. PollError(signal) = 0
    BY <2>2 DEF PollError
  <2>4. \/ xfer' = [xfer EXCEPT !.at = "answer"] /\ signal' = "busy"
        \/ /\ xfer' = [xfer EXCEPT !.at = "done", !.moved = signal,
                                   !.data = Unit(SlotOf(xfer.n), xfer.unit)]
           /\ signal' = "idle"
    BY <1>7, <2>3 DEF XferPoll
  <2>5. xfer'.at # "idle" /\ xfer'.package = xfer.package
    BY <1>4, <2>1, <2>4 DEF XferIs
  <2> QED BY <1>2, <2>1, <2>4, <2>5
<1>8. CASE FatRead
  <2>1. xfer'.at = "select" /\ xfer'.package = 0 /\ UNCHANGED signal
    BY <1>8 DEF FatRead, StartRead
  <2> QED BY <1>2, <2>1
<1>9. CASE Mount
  <2>1. ~FatRead => UNCHANGED xferVars
    BY <1>9 DEF Mount, MountNext, FatStart, FatPassOver, FatGot, FatReport, FatReturn
  <2> QED BY <1>3, <1>8, <2>1
<1> QED BY <1>3, <1>5, <1>6, <1>7, <1>9, WhoMoves DEF Transfer, XferNext, Answer1

\* Where fat's Init is: the drives are known, the node is one of theirs, what
\* was read of it is what it holds, and the nodes behind have been reported.
Reached == fatAt > 0 => ideAt.pci >= 0 /\ ideAt = AfterAll
AtNode ==
    /\ reading \/ fatStep # "probe" => running = "fat" /\ fatAt \in Nodes("hd")
    /\ fatStep # "probe" => Filled(Node.n)
    /\ fatStep = "boot" => vol.lba = BootPlace(SlotOf(Node.n))
    /\ fatStep = "report" => ~reading /\ vol.boot = BootAt(SlotOf(Node.n))
    /\ reading => /\ xfer.at # "idle" /\ xfer.n = Node.n
                  /\ xfer.unit = IF fatStep = "boot" THEN vol.lba % Offsets ELSE 0
Behind ==
    \A k \in Nodes("hd") : k < fatAt /\ Filled(devs[k].n) => Told(devs[k].n) \in mounted
Mounts ==
    /\ fatAt \in Nat /\ fatStep \in {"probe", "partitions", "boot", "report"}
    /\ reading \in BOOLEAN /\ mounted \subseteq machine.volumes
    /\ Reached /\ AtNode /\ Behind
MountInv == machine.volumes # {} => Mounts

LEMMA MountsInit == Init => MountInv
<1> SUFFICES ASSUME Init PROVE Mounts
  BY DEF MountInv
<1>1. fatAt = 0 /\ fatStep = "probe" /\ reading = FALSE /\ mounted = {} /\ devs = FirstDevs
  BY DEF Init, MachineInit, MountInit
<1>2. Nodes("hd") = {}
  <2>1. DOMAIN FirstDevs = 1..3 /\ \A k \in 1..3 : FirstDevs[k].kind \in {"random", "tty", "null"}
    BY DEF FirstDevs
  <2> QED BY <1>1, <2>1 DEF Nodes
<1>3. Reached /\ Behind
  BY <1>1, <1>2 DEF Reached, Behind
<1>4. AtNode
  BY <1>1 DEF AtNode
<1>5. fatAt \in Nat /\ reading \in BOOLEAN /\ mounted \subseteq machine.volumes
  BY <1>1
<1>6. fatStep \in {"probe", "partitions", "boot", "report"}
  BY <1>1
<1> QED BY <1>3, <1>4, <1>5, <1>6 DEF Mounts

\* While fat's Init runs, nobody else registers a node.
LEMMA FatAlone ==
  ASSUME [Next]_vars, running = "fat"
  PROVE  UNCHANGED devs /\ (UNCHANGED running \/ FatReturn)
<1>1. ~Load /\ ~Enumerate /\ ~Detect /\ ~Converse
  BY DEF Load, LoaderNext, EndOfTags, SkipTag, OpenModule, RejectModule, Relocate, Unresolved,
         CallInit, CallConstructors, Loading, VGAInit, HelloInit, Enumerate, PCINext, PCIPublish,
         PCIScan, PCIReturn, Detect, IDENext, IDEStart, IDEFind, IDEProbe, IDEReturn, Converse,
         PS2Next, PS2Start, PS2Write, PS2Drain, PS2Wait, PS2Get, PS2Config, PS2Node, PS2Return, Scripted
<1>2. UNCHANGED running \/ FatReturn
  BY RunningStep DEF Hands, PCIReturn, IDEReturn, PS2Return, Scripted
<1>3. CASE Transfer \/ Mount
  BY <1>2, <1>3 DEF Transfer, XferNext, XferSelect, XferCommand, XferSettle, XferPoll, xferRest,
              Mount, MountNext, FatStart, FatPassOver, FatRead, FatGot, FatReport,
              FatReturn, fatRest
<1>4. CASE Interact
  BY <1>2, <1>4, ShellFrame, KmainFrame DEF Interact, Prompt, TtyRead, TtyHalt, shared
<1>5. CASE TypeDevice
  BY <1>2, <1>5 DEF TypeDevice, TypeMouse, TypeKeyboard, shRest
<1>6. CASE Answer1 \/ Types \/ Reported
  BY <1>2, <1>6 DEF Answer1, DriveAnswers, xferRest, Types, TypeKey, Reported, Reports
<1>7. CASE UNCHANGED vars
  BY <1>2, <1>7 DEF vars, shared
<1> QED BY <1>1, <1>3, <1>4, <1>5, <1>6, <1>7 DEF Next, Process

\* A read under way stays the one it is, until another is started.
LEMMA ReadGoesOn ==
  ASSUME ReadInv, [Next]_vars, ~FatRead, xfer.at # "idle"
  PROVE  xfer'.at # "idle" /\ xfer'.n = xfer.n /\ xfer'.unit = xfer.unit
<1>1. XferIs(xfer)
  BY DEF ReadInv
<1>2. CASE XferSelect \/ XferCommand \/ XferSettle
  <2>1. \E to : to # "idle" /\ xfer' = [xfer EXCEPT !.at = to]
    BY <1>2 DEF XferSelect, XferCommand, XferSettle, At
  <2> QED BY <1>1, <2>1 DEF XferIs
<1>3. CASE XferPoll
  <2>1. \/ \E p : xfer' = [xfer EXCEPT !.at = "done", !.package = p]
        \/ xfer' = [xfer EXCEPT !.at = "answer"]
        \/ \E w, d : xfer' = [xfer EXCEPT !.at = "done", !.moved = w, !.data = d]
    BY <1>3 DEF XferPoll
  <2> QED BY <1>1, <2>1 DEF XferIs
<1>4. CASE UNCHANGED xfer
  BY <1>4
<1>5. Mount => UNCHANGED xfer
  BY DEF Mount, MountNext, FatStart, FatPassOver, FatGot, FatReport, FatReturn, xferVars
<1>6. Answer1 => UNCHANGED xfer
  BY DEF Answer1, DriveAnswers
<1> QED BY <1>2, <1>3, <1>4, <1>5, <1>6, WhoMoves DEF Transfer, XferNext, xferVars

\* What is behind stays behind: a new node comes in front, and is no drive's.
LEMMA BehindKept ==
  ASSUME DevsInv, ScriptInv, [Next]_vars, ~IDEProbe,
         UNCHANGED <<fatAt, mounted, machine, ideCtl, ideDev>>, fatAt \in Nat, Behind
  PROVE  Behind'
<1>1. ASSUME NEW n PROVE Filled(n)' = Filled(n) /\ Told(n)' = Told(n)
  BY DEF Filled, Told, SlotOf
<1> SUFFICES ASSUME NEW k \in Nodes("hd")', k < fatAt, Filled(devs'[k].n)
             PROVE  Told(devs'[k].n) \in mounted
  BY <1>1 DEF Behind
<1>2. CASE UNCHANGED devs
  BY <1>2 DEF Behind, Nodes
<1>3. CASE \E node : Registers(node)
  <2>1. PICK node : Registers(node)
    BY <1>3
  <2>2. devs' = <<node>> \o devs /\ node.kind # "hd"
    BY <2>1 DEF Registers
  <2>3. k # 1 /\ k - 1 \in Nodes("hd") /\ k \in Nat
    BY <2>2, Shifted
  <2>4. (k - 1) + 1 = k /\ k - 1 < fatAt
    BY <2>3
  <2>5. devs'[k] = devs[k - 1]
    BY <2>2, <2>3, <2>4, Shifted
  <2> QED BY <2>3, <2>4, <2>5 DEF Behind
<1> QED BY <1>2, <1>3, DevsNew

\* The names of what is on a drive, and of the node's, where nothing moves.
LEMMA NamesStay ==
  ASSUME UNCHANGED <<machine, ideCtl, ideDev, devs, fatAt>>
  PROVE  /\ Filled(Node.n)' = Filled(Node.n) /\ SlotOf(Node.n)' = SlotOf(Node.n)
         /\ Node' = Node /\ Nodes("hd")' = Nodes("hd")
  BY DEF Filled, SlotOf, Node, Nodes

\* Steps that are none of fat's.
LEMMA MountKept ==
  ASSUME WalkInv, DevsInv, ScriptInv, AccessInv, Mounts, [Next]_vars, UNCHANGED fatVars
  PROVE  Mounts'
<1>1. UNCHANGED <<fatAt, fatStep, reading, vol, mounted>>
  BY DEF fatVars
<1>2. UNCHANGED machine
  BY LoaderMoves
<1>3. fatAt > 0 => UNCHANGED <<machine, ideVars, pciVars>>
  BY EntriesDone DEF Mounts, Reached, AccessInv
<1>4. Reached'
  BY <1>1, <1>3 DEF Reached, AfterAll, Mounts, ideVars, pciVars
<1>5. AtNode'
  <2>1. CASE reading \/ fatStep # "probe"
    <3>1. running = "fat" /\ fatAt \in Nodes("hd")
      BY <2>1 DEF Mounts, AtNode
    <3>2. ~FatReturn /\ fatAt > 0
      <4>1. PICK S : devs \in Seq(S)
        BY DEF DevsInv
      <4>2. fatAt \in 1..Len(devs) /\ Len(devs) \in Nat
        BY <3>1, <4>1 DEF Nodes
      <4>3. fatAt # Len(devs) + 1 /\ fatAt > 0
        BY <4>2
      <4> QED BY <4>3 DEF FatReturn
    <3>3. UNCHANGED devs /\ UNCHANGED running
      BY <3>1, <3>2, FatAlone
    <3>4. UNCHANGED <<ideAt, ideCtl, ideDev>>
      BY <1>3, <3>2 DEF ideVars
    <3>5. ~(reading' = TRUE /\ reading = FALSE)
      BY <1>1
    <3>6. reading => ~FatRead
      BY DEF FatRead
    <3>7. reading => xfer'.at # "idle" /\ xfer'.n = xfer.n /\ xfer'.unit = xfer.unit
      BY <3>6, ReadGoesOn DEF Mounts, AtNode, AccessInv
    <3>8. /\ Filled(Node.n)' = Filled(Node.n) /\ SlotOf(Node.n)' = SlotOf(Node.n)
          /\ Node' = Node /\ Nodes("hd")' = Nodes("hd")
      BY <1>1, <1>2, <3>3, <3>4, NamesStay
    <3>9. AtNode
      BY DEF Mounts
    <3> QED BY <1>1, <3>3, <3>7, <3>8, <3>9 DEF AtNode, BootPlace, BootAt
  <2>2. CASE ~reading /\ fatStep = "probe"
    BY <1>1, <2>2 DEF AtNode
  <2> QED BY <2>1, <2>2
<1>6. Behind'
  <2>1. CASE fatAt > 0
    <3>1. ~IDEProbe
      BY <2>1 DEF Mounts, Reached, AfterAll, IDEProbe
    <3> QED BY <1>1, <1>2, <1>3, <2>1, <3>1, BehindKept DEF Mounts, ideVars
  <2>2. CASE ~(fatAt > 0)
    <3>1. fatAt' = 0
      BY <1>1, <2>2 DEF Mounts
    <3>2. Nodes("hd")' \subseteq Nat
      <4>1. DevsInv'
        BY NodesStay
      <4>2. PICK S : devs' \in Seq(S)
        BY <4>1 DEF DevsInv
      <4> QED BY <4>2 DEF Nodes
    <3> QED BY <3>1, <3>2 DEF Behind
  <2> QED BY <2>1, <2>2
<1> QED BY <1>1, <1>2, <1>4, <1>5, <1>6 DEF Mounts

\* In fat's Init, with all drives there.
Within(c) ==
    /\ AllProbed(c) /\ VolumesOf(machine, c.slots)
    /\ running = "fat" /\ UNCHANGED <<machine, devs, ideVars, pciVars>> /\ Mounts

LEMMA FatSteps ==
  ASSUME WalkInv, DevsInv, AccessInv, DrivesInv, OrderInv, Mounts, machine.volumes # {},
         Mount, FatStart \/ FatPassOver \/ FatRead \/ FatGot \/ FatReport
  PROVE  \E c : Within(c)
<1>1. PICK c : Controllers = {c} /\ VolumesOf(machine, c.slots)
  BY VolumesAre
<1>2. running = "fat" /\ UNCHANGED <<machine, devs, ideVars, pciVars>>
  BY DEF Mount, FatStart, FatPassOver, FatRead, FatGot, FatReport, Mounting, fatRest
<1>3. ideAt.pci >= 0
  BY <1>2, VolumesAre DEF OrderInv
<1>4. ideAt = AfterAll
  BY <1>2, <1>3 DEF AccessInv, PhaseInv
<1> QED BY <1>1, <1>2, <1>3, <1>4 DEF Within, AllProbed

LEMMA WithinFrame ==
  ASSUME NEW c, Within(c)
  PROVE  /\ Reached'
         /\ \A n : Filled(n)' = Filled(n) /\ Told(n)' = Told(n)
         /\ Nodes("hd")' = Nodes("hd")
         /\ Nodes("hd") \subseteq Nat \ {0}
<1>1. UNCHANGED <<machine, devs, ideAt, ideCtl, ideDev, pciCount>>
  BY DEF Within, ideVars, pciVars
<1>2. Reached'
  BY <1>1 DEF Within, AllProbed, Reached, AfterAll
<1>3. ASSUME NEW n PROVE Filled(n)' = Filled(n) /\ Told(n)' = Told(n)
  BY <1>1 DEF Filled, Told, SlotOf
<1>4. PICK S : devs \in Seq(S)
  BY DEF Within, AllProbed, DevsInv
<1>5. Nodes("hd") \subseteq Nat \ {0}
  BY <1>4 DEF Nodes
<1> QED BY <1>1, <1>2, <1>3, <1>5 DEF Nodes

\* On to the next node: the one left is reported, or has nothing to report.
LEMMA OnToNext ==
  ASSUME NEW c, Within(c), NextNode, mounted \subseteq mounted', mounted' \subseteq machine.volumes,
         fatAt \in Nodes("hd") /\ Filled(Node.n) => Told(Node.n) \in mounted'
  PROVE  Mounts'
<1>1. fatAt \in Nat /\ Behind
  BY DEF Within, Mounts
<1>2. fatAt' = fatAt + 1 /\ fatStep' = "probe" /\ reading' = FALSE
  BY DEF NextNode
<1>3. ASSUME NEW n PROVE Filled(n)' = Filled(n) /\ Told(n)' = Told(n)
  BY WithinFrame
<1>4. devs' = devs /\ Nodes("hd")' = Nodes("hd") /\ Nodes("hd") \subseteq Nat
  BY WithinFrame DEF Within
<1>5. Behind'
  <2> SUFFICES ASSUME NEW k \in Nodes("hd"), k < fatAt + 1, Filled(devs[k].n)
               PROVE  Told(devs[k].n) \in mounted'
    BY <1>2, <1>3, <1>4 DEF Behind
  <2>1. CASE k < fatAt
    BY <2>1, <1>1 DEF Behind
  <2>2. CASE k = fatAt
    BY <2>2 DEF Node
  <2> QED BY <1>1, <1>4, <2>1, <2>2
<1>6. AtNode'
  BY <1>2 DEF AtNode
<1>7. Reached' /\ machine' = machine
  BY WithinFrame DEF Within
<1>8. fatAt' \in Nat /\ fatStep' \in {"probe", "partitions", "boot", "report"}
  BY <1>1, <1>2
<1> QED BY <1>2, <1>5, <1>6, <1>7, <1>8 DEF Mounts

\* The same node, with the same tables on its drive.
LEMMA SameNode ==
  ASSUME NEW c, Within(c), UNCHANGED <<fatAt, mounted>>, fatAt \in Nodes("hd"),
         NEW n, n = Node.n,
         running' = "fat",
         fatStep' \in {"probe", "partitions", "boot", "report"}, reading' \in BOOLEAN,
         fatStep' # "probe" => Filled(n),
         fatStep' = "boot" => vol'.lba = BootPlace(SlotOf(n)),
         fatStep' = "report" => ~reading' /\ vol'.boot = BootAt(SlotOf(n)),
         reading' => /\ xfer'.at # "idle" /\ xfer'.n = n
                     /\ xfer'.unit = IF fatStep' = "boot" THEN vol'.lba % Offsets ELSE 0
  PROVE  Mounts'
<1>1. UNCHANGED <<machine, devs, ideCtl, ideDev, fatAt>>
  BY DEF Within, ideVars
<1>2. /\ Filled(Node.n)' = Filled(Node.n) /\ SlotOf(Node.n)' = SlotOf(Node.n)
      /\ Node' = Node /\ Nodes("hd")' = Nodes("hd")
  BY <1>1, NamesStay
<1>3. AtNode'
  BY <1>2 DEF AtNode, BootPlace, BootAt
<1>4. Behind'
  <2>1. ASSUME NEW m PROVE Filled(m)' = Filled(m) /\ Told(m)' = Told(m)
    BY WithinFrame
  <2> QED BY <1>1, <1>2, <2>1 DEF Behind, Within, Mounts
<1>5. Reached'
  BY WithinFrame
<1> QED BY <1>1, <1>3, <1>4, <1>5 DEF Within, Mounts

LEMMA FatStartStep ==
  ASSUME NEW c, Within(c), FatStart
  PROVE  Mounts'
<1>1. fatAt = 0 /\ fatAt' = 1 /\ UNCHANGED <<fatStep, reading, mounted, machine>>
  BY DEF FatStart, Within
<1>2. ~reading /\ fatStep = "probe"
  BY <1>1, WithinFrame DEF Within, Mounts, AtNode
<1>3. AtNode'
  BY <1>1, <1>2 DEF AtNode
<1>4. Behind'
  <2>1. \A k \in Nodes("hd")' : ~(k < 1)
    BY WithinFrame
  <2> QED BY <1>1, <2>1 DEF Behind
<1>5. Reached'
  BY WithinFrame
<1> QED BY <1>1, <1>3, <1>4, <1>5 DEF Within, Mounts

LEMMA FatPassOverStep ==
  ASSUME NEW c, Within(c), FatPassOver
  PROVE  Mounts'
<1>1. Node.kind # "hd" /\ NextNode /\ UNCHANGED mounted
  BY DEF FatPassOver
<1>2. fatAt \notin Nodes("hd")
  BY <1>1 DEF Node, Nodes
<1> QED BY <1>1, <1>2, OnToNext DEF Within, Mounts

LEMMA FatReadStep ==
  ASSUME NEW c, Within(c), FatRead
  PROVE  Mounts'
<1> DEFINE n == Node.n
           unit == IF fatStep = "boot" THEN vol.lba % Offsets ELSE 0
<1>1. /\ fatAt \in Nodes("hd") /\ fatStep \in {"probe", "partitions", "boot"}
      /\ xfer' = [at |-> "select", n |-> n, unit |-> unit, moved |-> "no",
                  package |-> 0, data |-> ZeroSector]
      /\ reading' = TRUE /\ UNCHANGED <<fatAt, fatStep, vol, mounted, running>>
  BY DEF FatRead, StartRead, Node, Nodes
<1>2. /\ fatStep # "probe" => Filled(n)
      /\ fatStep = "boot" => vol.lba = BootPlace(SlotOf(n))
  BY DEF Within, Mounts, AtNode
<1>3. xfer'.at # "idle" /\ xfer'.n = n /\ xfer'.unit = unit
  <2> HIDE DEF n, unit
  <2> QED BY <1>1
<1>4. running' = "fat"
  BY <1>1 DEF Within
<1>5. PICK m : m = n
  OBVIOUS
<1>6. /\ fatStep' # "probe" => Filled(m)
      /\ fatStep' = "boot" => vol'.lba = BootPlace(SlotOf(m))
      /\ fatStep' # "report" /\ xfer'.n = m
      /\ xfer'.unit = IF fatStep' = "boot" THEN vol'.lba % Offsets ELSE 0
  BY <1>1, <1>2, <1>3, <1>5
<1> QED BY <1>1, <1>3, <1>4, <1>5, <1>6, SameNode

\* What a finished read has brought.
LEMMA GotSector ==
  ASSUME NEW c, Within(c), QuietInv, machine.volumes # {}, reading, xfer.at = "done",
         NEW n, n = Node.n
  PROVE  /\ fatAt \in Nodes("hd")
         /\ Buffer = IF xfer.unit < ideDev[n].Size * UnitsPerSector(ideDev[n].Type)
                     THEN Unit(SlotOf(n), xfer.unit) ELSE ZeroSector
         /\ xfer.unit = IF fatStep = "boot" THEN vol.lba % Offsets ELSE 0
<1>1. /\ fatAt \in Nodes("hd") /\ xfer.n = n
      /\ xfer.unit = IF fatStep = "boot" THEN vol.lba % Offsets ELSE 0
  BY DEF Within, Mounts, AtNode
<1>2. IsDrivePresent(n)
  BY <1>1, NodeVolume DEF Within, Node
<1>3. xfer.package = 0
  BY DEF QuietInv
<1>4. AccessHonest
  BY DEF Within, AllProbed, AccessInv, ReadInv
<1>5. (xfer.moved = "drq") = (xfer.unit < ideDev[n].Size * UnitsPerSector(ideDev[n].Type))
  BY <1>1, <1>2, <1>3, <1>4 DEF AccessHonest
<1>6. Buffer = IF xfer.moved = "drq" THEN Unit(SlotOf(n), xfer.unit) ELSE ZeroSector
  BY <1>1, <1>4 DEF AccessHonest
<1> QED BY <1>1, <1>5, <1>6

LEMMA FatGotStep ==
  ASSUME NEW c, Within(c), QuietInv, machine.volumes # {}, FatGot
  PROVE  Mounts'
<1>0. PICK n : n = Node.n
  OBVIOUS
<1>1. /\ reading /\ xfer.at = "done" /\ UNCHANGED mounted /\ reading' = FALSE
      /\ running' = "fat"
  BY DEF FatGot, Mounting
<1>2. /\ fatAt \in Nodes("hd")
      /\ Buffer = IF xfer.unit < ideDev[n].Size * UnitsPerSector(ideDev[n].Type)
                  THEN Unit(SlotOf(n), xfer.unit) ELSE ZeroSector
      /\ xfer.unit = IF fatStep = "boot" THEN vol.lba % Offsets ELSE 0
  BY <1>0, <1>1, GotSector
<1>3. /\ fatStep # "probe" => Filled(n)
      /\ fatStep = "boot" => vol.lba = BootPlace(SlotOf(n))
      /\ fatStep \in {"probe", "partitions", "boot"}
  BY <1>0, <1>1 DEF Within, Mounts, AtNode
<1>4. ideDev[n].Size \in Nat /\ UnitsPerSector(ideDev[n].Type) \in {1, 4}
  <2>1. n \in 0..3
    BY <1>0, <1>2 DEF Within, AllProbed, AccessInv, EntryInv, Node
  <2> QED BY <2>1 DEF Within, AllProbed, AccessInv, EntryInv, Probes, UnitsPerSector
<1>5. ideDev[n].Size > 0 <=> 0 < ideDev[n].Size * UnitsPerSector(ideDev[n].Type)
  BY <1>4
<1>6. fatStep # "boot" => (Filled(n) <=> Buffer.magic)
  <2>1. ZeroSector.magic = FALSE
    BY DEF ZeroSector
  <2> QED BY <1>2, <1>5, <2>1 DEF Filled
<1>7. fatStep # "boot" /\ Filled(n) => Buffer = Unit(SlotOf(n), 0)
  BY <1>2, <1>5 DEF Filled
<1>8. CASE fatStep = "probe" /\ ~Buffer.magic
  <2>1. NextNode
    BY <1>8 DEF FatGot
  <2>2. ~Filled(n)
    BY <1>6, <1>8
  <2> QED BY <1>0, <1>1, <2>1, <2>2, OnToNext DEF Within, Mounts
<1>9. CASE fatStep = "probe" /\ Buffer.magic
  <2>1. fatStep' = "partitions" /\ UNCHANGED fatAt
    BY <1>9 DEF FatGot
  <2>2. Filled(n)
    BY <1>6, <1>9
  <2> QED BY <1>0, <1>1, <1>2, <2>1, <2>2, SameNode
<1>10. CASE fatStep = "partitions"
  <2>1. fatStep' = "boot" /\ vol' = [lba |-> FatParseMBR(Buffer)] /\ UNCHANGED fatAt
    BY <1>10 DEF FatGot
  <2>2. Filled(n)
    BY <1>3, <1>10
  <2>3. vol'.lba = BootPlace(SlotOf(n))
    BY <1>7, <1>10, <2>1, <2>2 DEF BootPlace
  <2> QED BY <1>0, <1>1, <1>2, <2>1, <2>2, <2>3, SameNode
<1>11. CASE fatStep = "boot"
  <2>1. fatStep' = "report" /\ vol' = [lba |-> vol.lba, boot |-> Buffer] /\ UNCHANGED fatAt
    BY <1>11 DEF FatGot
  <2>2. Filled(n) /\ vol.lba = BootPlace(SlotOf(n))
    BY <1>3, <1>11
  <2>3. /\ BootPlace(SlotOf(n)) < Offsets
        /\ BootPlace(SlotOf(n)) < ideDev[n].Size * UnitsPerSector(ideDev[n].Type)
    BY <1>0, <1>2, <2>2, NodeVolume DEF Within, Node
  <2>4. vol.lba \in Nat /\ Offsets \in Nat \ {0}
    BY OffsetsAssumption DEF Within, AllProbed, AccessInv, VolInv
  <2>5. xfer.unit = vol.lba
    BY <1>2, <1>11, <2>2, <2>3, <2>4
  <2>6. Buffer = BootAt(SlotOf(n))
    BY <1>2, <2>2, <2>3, <2>5 DEF BootAt
  <2>7. vol'.boot = BootAt(SlotOf(n))
    BY <2>1, <2>6
  <2> QED BY <1>0, <1>1, <1>2, <2>1, <2>2, <2>7, SameNode
<1> QED BY <1>3, <1>8, <1>9, <1>10, <1>11

LEMMA FatReportStep ==
  ASSUME NEW c, Within(c), FatReport
  PROVE  Mounts'
<1>0. PICK n : n = Node.n
  OBVIOUS
<1>1. fatAt \in Nodes("hd") /\ Filled(n) /\ vol.boot = BootAt(SlotOf(n))
  BY <1>0 DEF FatReport, Within, Mounts, AtNode
<1>2. Told(n) \in machine.volumes /\ Divides(BootAt(SlotOf(n)))
  BY <1>0, <1>1, NodeVolume DEF Within, Node
<1>3. mounted' = mounted \union {Told(n)} /\ NextNode
  BY <1>0, <1>1, <1>2 DEF FatReport, Told
<1> QED BY <1>0, <1>2, <1>3, OnToNext DEF Within, Mounts

LEMMA MountStep ==
  WalkInv /\ DevsInv /\ ScriptInv /\ AccessInv /\ DrivesInv /\ OrderInv /\ QuietInv /\ MountInv
    /\ [Next]_vars => MountInv'
<1> SUFFICES ASSUME WalkInv, DevsInv, ScriptInv, AccessInv, DrivesInv, OrderInv, QuietInv,
                    MountInv, [Next]_vars, machine'.volumes # {}
             PROVE  Mounts'
  BY DEF MountInv
<1>1. machine.volumes # {} /\ Mounts
  BY LoaderMoves DEF MountInv
<1>2. CASE UNCHANGED fatVars
  BY <1>1, <1>2, MountKept
<1>3. CASE Mount /\ (FatStart \/ FatPassOver \/ FatRead \/ FatGot \/ FatReport)
  <2>1. PICK c : Within(c)
    BY <1>1, <1>3, FatSteps
  <2> QED BY <1>1, <1>3, <2>1, FatStartStep, FatPassOverStep, FatReadStep, FatGotStep,
             FatReportStep
<1>4. Mount /\ FatReturn => UNCHANGED fatVars
  BY DEF FatReturn
<1> QED BY <1>2, <1>3, <1>4, WhoMoves DEF Mount, MountNext

LEMMA VolumesImply ==
  WalkInv /\ DevsInv /\ AccessInv /\ DrivesInv /\ MountInv => VolumesAsMade
<1> SUFFICES ASSUME WalkInv, DevsInv, AccessInv, DrivesInv, MountInv,
                    machine.volumes # {}, fatAt > Len(devs)
             PROVE  mounted = machine.volumes
  BY DEF VolumesAsMade
<1>1. Mounts
  BY DEF MountInv
<1>2. PICK S : devs \in Seq(S)
  BY DEF DevsInv
<1>3. fatAt > 0 /\ \A k \in Nodes("hd") : k < fatAt
  <2>1. Len(devs) \in Nat /\ fatAt \in Nat /\ Nodes("hd") \subseteq 1..Len(devs)
    BY <1>1, <1>2 DEF Nodes, Mounts
  <2> QED BY <2>1
<1>4. PICK c : Controllers = {c} /\ VolumesOf(machine, c.slots)
  BY VolumesAre
<1>5. AllProbed(c)
  BY <1>1, <1>3, <1>4 DEF AllProbed, Mounts, Reached
<1>6. ASSUME NEW v \in machine.volumes PROVE v \in mounted
  <2>1. PICK k \in Nodes("hd") : Filled(devs[k].n) /\ v = Told(devs[k].n)
    BY <1>4, <1>5, VolumeNode
  <2> QED BY <1>1, <1>3, <2>1 DEF Mounts, Behind
<1> QED BY <1>1, <1>6 DEF Mounts

(* On every machine whose drives do not fail, and that loads fat behind ide*)
(* behind pci, each volume a maker has put on a drive is reported with the *)
(* type, the areas and the clusters it was made with, and nothing else is. *)
(* (FatParseMBR, FatMount, FatIdentify and the geometry.)                  *)
THEOREM VolumesCorrect == Spec => []VolumesAsMade
<1>1. Init => LinkInv /\ DrivesInv
  BY LoaderAssumption DEF Init, MachineInit, LoaderInit, LinkInv, InitRunsLinked,
                          ATAInit, DrivesInv
<1>2. Spec => [](WalkInv /\ DevsInv /\ ScriptInv /\ AccessInv)
  <2>1. Spec => []ScriptInv
    BY AccessInit, ScriptInvStep, PTL DEF Spec
  <2>2. Spec => [](WalkInv /\ DevsInv)
    BY WalkAlways, Ps2Always, PTL
  <2> QED BY <2>1, <2>2, AccessInit, AccessStep, PTL DEF Spec
<1>3. Spec => [](ListInv /\ LinkInv)
  BY <1>1, <1>2, ListInit, ListStep, LinkStep, PTL DEF Spec
<1>4. Spec => []DrivesInv
  BY <1>1, <1>2, <1>3, DrivesStep, PTL DEF Spec
<1>5. WalkInv /\ DevsInv /\ AccessInv /\ LinkInv /\ OrderInv /\ [Next]_vars => OrderInv'
  BY OrderStep DEF AccessInv
<1>6. Spec => []OrderInv
  BY <1>2, <1>3, <1>5, OrderInit, PTL DEF Spec
<1>7. WalkInv /\ AccessInv /\ QuietInv /\ [Next]_vars => QuietInv'
  BY QuietStep DEF AccessInv
<1>8. Spec => []QuietInv
  BY <1>2, <1>7, QuietInit, PTL DEF Spec
<1>9. Spec => []MountInv
  BY <1>2, <1>4, <1>6, <1>8, MountsInit, MountStep, PTL DEF Spec
<1> QED BY <1>2, <1>4, <1>9, VolumesImply, PTL

=============================================================================
