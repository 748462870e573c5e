----------------------------- MODULE VMemProofs -----------------------------
(***************************************************************************)
(* Theorems about VMem, for any number of pages and any request sizes.     *)
(***************************************************************************)
EXTENDS VMem, FiniteSetTheorems, WellFoundedInduction, TLAPS

\* Every non-empty set of pages has a lowest one, and Min finds it.
LEMMA MinOfNat ==
  ASSUME NEW S \in SUBSET Nat, S # {}
  PROVE  Min(S) \in S /\ \A y \in S : Min(S) <= y
<1> DEFINE R == OpToRel(<, Nat)
<1>1. IsWellFoundedOn(R, Nat)
  BY NatLessThanWellFounded
<1>2. \E x \in S : \A y \in S : ~(<<y, x>> \in R)
  BY <1>1, WFMin
<1>3. \A x, y \in Nat : x < y => <<x, y>> \in R
  BY DEF OpToRel
<1> HIDE DEF R
<1>4. PICK x \in S : \A y \in S : ~(<<y, x>> \in R)
  BY <1>2
<1>5. \A y \in S : ~(y < x)
  BY <1>3, <1>4
<1>6. \A y \in S : x <= y
  BY <1>5
<1> QED BY <1>6 DEF Min

\* A block covers at least one page: kalloc rounds the bytes up.
LEMMA PagesForType ==
  ASSUME NEW t \in Nat, t > 0
  PROVE  PagesFor(t) \in Nat \ {0}
<1>1. PICK P \in Nat \ {0} : P = PageSize
  BY PageSizeAssumption
<1>2. (t + P - 1) \div P \in Int /\ (t + P - 1) % P \in 0..(P - 1)
  BY <1>1
<1>3. t + P - 1 = (P * ((t + P - 1) \div P)) + ((t + P - 1) % P)
  BY <1>1
<1> DEFINE q == (t + P - 1) \div P
<1>4. P * q >= t
  BY <1>1, <1>2, <1>3
<1>5. q <= 0 => P * q <= 0
  BY <1>1, <1>2
<1> QED BY <1>1, <1>2, <1>4, <1>5 DEF PagesFor

\* First fit: free pages only, as many as the bitmap can give, low ones first.
LEMMA LowestFreeFacts ==
  ASSUME NEW n \in Nat \ {0}, n <= MStat
  PROVE  /\ LowestFree(n) \subseteq Free
         /\ LowestFree(n) # {}
         /\ Min(LowestFree(n)) \in LowestFree(n)
         /\ \A p \in LowestFree(n) : Min(LowestFree(n)) <= p
<1>1. Pages \subseteq Nat /\ IsFiniteSet(Pages)
  BY TotalPagesAssumption, FS_Interval DEF Pages
<1>2. Free \subseteq Nat /\ IsFiniteSet(Free)
  BY <1>1, FS_Subset DEF Free
<1>3. Free # {}
  BY <1>2, FS_EmptySet DEF MStat
<1>4. PICK m \in Free : \A q \in Free : m <= q
  BY <1>2, <1>3, MinOfNat
<1>5. {q \in Free : q < m} = {}
  <2>1. ASSUME NEW q \in Free PROVE ~(q < m)
    <3>1. m \in Nat /\ q \in Nat /\ m <= q
      BY <1>2, <1>4
    <3> QED BY <3>1
  <2> QED BY <2>1
<1>6. m \in LowestFree(n)
  BY <1>4, <1>5, FS_EmptySet DEF LowestFree
<1>7. LowestFree(n) \subseteq Free
  BY DEF LowestFree
<1> QED BY <1>2, <1>6, <1>7, MinOfNat

----------------------------------------------------------------------------
\* What makes the safety properties inductive: every block covers a page, and
\* the first page of each carries the header of that block.
Safe == BlocksDisjoint /\ BitmapExact /\ HeaderIntact
IInv == TypeOK /\ (\A b \in live : b.total > 0) /\ Safe

\* The facts about one kalloc that every step below needs.
LEMMA KAllocFacts ==
  ASSUME TypeOK, NEW size \in Sizes, KAlloc(size)
  PROVE  LET total == size + HeaderSize
             taken == LowestFree(PagesFor(total))
             base  == Min(taken)
         IN  /\ total \in Nat /\ total > 0
             /\ PagesFor(total) \in Nat \ {0}
             /\ taken \subseteq Free
             /\ base \in taken
             /\ base \in Pages \ bitmap
<1> DEFINE total == size + HeaderSize
<1>1. total \in Nat /\ total > 0
  BY SizesAssumption, HeaderSizeAssumption, PageSizeAssumption
<1>2. PagesFor(total) \in Nat \ {0}
  BY <1>1, PagesForType
<1>3. PagesFor(total) <= MStat
  BY DEF KAlloc
<1> QED BY <1>1, <1>2, <1>3, LowestFreeFacts DEF Free

\* Spans are sets of numbers that start with their base.
LEMMA SpanFacts ==
  ASSUME NEW b \in Nat, NEW t \in Nat, t > 0
  PROVE  SpanOf(b, t) \subseteq Nat /\ b \in SpanOf(b, t)
<1>1. PICK k \in Nat \ {0} : k = PagesFor(t)
  BY PagesForType
<1> QED BY <1>1 DEF SpanOf

LEMMA InitIInv == Init => IInv
<1> SUFFICES ASSUME Init PROVE IInv
  OBVIOUS
<1> USE DEF Init
<1>1. TypeOK
  BY DEF TypeOK
<1>2. \A b \in live : b.total > 0
  OBVIOUS
<1>3. BlocksDisjoint /\ HeaderIntact
  BY DEF BlocksDisjoint, HeaderIntact
<1>4. UNION {Span(b) : b \in live} = {}
  OBVIOUS
<1>5. BitmapExact
  BY <1>4 DEF BitmapExact
<1> QED BY <1>1, <1>2, <1>3, <1>5 DEF IInv, Safe

LEMMA TypeStep ==
  ASSUME TypeOK, [Next]_vars
  PROVE  TypeOK'
<1> USE DEF TypeOK
<1>1. CASE UNCHANGED vars
  BY <1>1 DEF vars
<1>2. ASSUME NEW size \in Sizes, KAlloc(size) PROVE TypeOK'
  <2>1. size + HeaderSize \in Nat /\ Min(LowestFree(PagesFor(size + HeaderSize))) \in Pages
    BY <1>2, KAllocFacts
  <2>2. LowestFree(PagesFor(size + HeaderSize)) \subseteq Pages
    BY DEF LowestFree, Free
  <2>3. bitmap' \subseteq Pages /\ recycled' \in BOOLEAN /\ panicked' \in BOOLEAN
    BY <1>2, <2>2 DEF KAlloc
  <2>4. header' \in [Pages -> Nat]
    BY <1>2, <2>1 DEF KAlloc
  <2>5. live' \subseteq Block
    BY <1>2, <2>1 DEF KAlloc, Block
  <2>6. fragmented' \in BOOLEAN
    BY <1>2 DEF KAlloc
  <2> QED BY <2>3, <2>4, <2>5, <2>6
<1>3. ASSUME NEW size \in Sizes, KAllocPanics(size) PROVE TypeOK'
  <2>1. size + HeaderSize \in Nat
    BY SizesAssumption, HeaderSizeAssumption, PageSizeAssumption
  <2>2. header' \in [Pages -> Nat]
    BY <1>3, <2>1 DEF KAllocPanics
  <2> QED BY <1>3, <2>2 DEF KAllocPanics
<1>4. ASSUME NEW blk \in live, Write(blk) PROVE TypeOK'
  BY <1>4 DEF Write
<1>5. ASSUME NEW blk \in live, KFree(blk) PROVE TypeOK'
  <2>1. bitmap' \subseteq bitmap
    BY <1>5 DEF KFree, Freed
  <2> QED BY <1>5, <2>1 DEF KFree, Freed
<1> QED BY <1>1, <1>2, <1>3, <1>4, <1>5 DEF Next

\* What the invariant says of one live block.
LEMMA LiveFacts ==
  ASSUME IInv, NEW b \in live
  PROVE  /\ b.base \in Pages /\ b.total \in Nat /\ b.total > 0
         /\ b = [base |-> b.base, total |-> b.total]
         /\ b.base \in Span(b)
         /\ ~fragmented /\ ~panicked => Span(b) \subseteq bitmap
<1>1. b.base \in Pages /\ b.total \in Nat /\ b = [base |-> b.base, total |-> b.total]
  BY DEF IInv, TypeOK, Block
<1>2. b.total > 0
  BY DEF IInv
<1>3. b.base \in Nat
  BY <1>1, TotalPagesAssumption DEF Pages
<1>4. b.base \in Span(b)
  BY <1>1, <1>2, <1>3, SpanFacts DEF Span
<1>5. ~fragmented /\ ~panicked => Span(b) \subseteq bitmap
  BY DEF IInv, Safe, BitmapExact
<1> QED BY <1>1, <1>2, <1>4, <1>5

\* kalloc: as long as it is given consecutive pages, they are nobody's.
LEMMA KAllocSafe ==
  ASSUME IInv, NEW size \in Sizes, KAlloc(size)
  PROVE  (\A b \in live' : b.total > 0) /\ Safe'
<1> DEFINE total == size + HeaderSize
           taken == LowestFree(PagesFor(total))
           base  == Min(taken)
           new   == [base |-> base, total |-> total]
<1>1. /\ total \in Nat /\ total > 0
      /\ taken \subseteq Free /\ base \in taken /\ base \in Pages \ bitmap
  BY KAllocFacts DEF IInv
<1>2. /\ ~panicked /\ ~panicked'
      /\ bitmap' = bitmap \cup taken
      /\ header' = [p \in Pages |-> IF p = base THEN total
                                    ELSE IF p \in taken THEN 0 ELSE header[p]]
      /\ live' = live \cup {new}
      /\ fragmented' = (fragmented \/ taken # SpanOf(base, total))
  BY DEF KAlloc
<1>3. taken \cap bitmap = {}
  BY <1>1 DEF Free
<1> HIDE DEF total, taken, base
<1>4. \A b \in live' : b.total > 0
  BY <1>1, <1>2 DEF IInv
<1>5. CASE fragmented'
  BY <1>4, <1>5 DEF Safe, BlocksDisjoint, BitmapExact, HeaderIntact
<1>6. CASE ~fragmented'
  <2>1. ~fragmented /\ Span(new) = taken
    BY <1>2, <1>6 DEF Span
  <2>2. BlocksDisjoint /\ BitmapExact /\ HeaderIntact
    BY DEF IInv, Safe
  <2>3. \A b \in live : Span(b) \cap taken = {}
    BY <1>2, <1>3, <2>1, LiveFacts
  <2>4. BlocksDisjoint'
    BY <1>2, <2>1, <2>2, <2>3 DEF BlocksDisjoint, Span, SpanOf, PagesFor
  <2>5. BitmapExact'
    <3>1. bitmap = UNION {Span(b) : b \in live}
      BY <1>2, <2>1, <2>2 DEF BitmapExact
    <3>2. UNION {Span(b) : b \in live'} = (UNION {Span(b) : b \in live}) \cup Span(new)
      BY <1>2
    <3> QED BY <1>2, <2>1, <3>1, <3>2 DEF BitmapExact, Span, SpanOf, PagesFor
  <2>6. HeaderIntact'
    <3>1. ASSUME NEW b \in live PROVE header'[b.base] = b.total
      <4>1. b.base \in Pages /\ b.base \in bitmap
        BY <1>2, <2>1, LiveFacts
      <4>2. b.base # base /\ b.base \notin taken
        BY <1>1, <1>3, <4>1
      <4>3. header[b.base] = b.total
        BY <2>1, <2>2 DEF HeaderIntact
      <4> QED BY <1>2, <4>1, <4>2, <4>3
    <3>2. header'[new.base] = new.total
      BY <1>1, <1>2
    <3> QED BY <1>2, <3>1, <3>2 DEF HeaderIntact
  <2> QED BY <1>4, <2>4, <2>5, <2>6 DEF Safe
<1> QED BY <1>5, <1>6

\* kalloc that runs out of pages only writes into pages that were free.
LEMMA KAllocPanicsSafe ==
  ASSUME IInv, NEW size \in Sizes, KAllocPanics(size)
  PROVE  (\A b \in live' : b.total > 0) /\ Safe'
<1>1. /\ ~panicked /\ panicked' /\ live' = live /\ fragmented' = fragmented
      /\ \A p \in Pages : p \notin Free => header'[p] = header[p]
  BY DEF KAllocPanics
<1>2. BlocksDisjoint /\ HeaderIntact /\ \A b \in live : b.total > 0
  BY DEF IInv, Safe
<1>3. BlocksDisjoint' /\ BitmapExact'
  BY <1>1, <1>2 DEF BlocksDisjoint, BitmapExact, Span, SpanOf, PagesFor
<1>4. HeaderIntact'
  <2> SUFFICES ASSUME ~fragmented, NEW b \in live PROVE header'[b.base] = b.total
    BY <1>1 DEF HeaderIntact
  <2>1. b.base \in Pages /\ b.base \notin Free
    BY <1>1, LiveFacts DEF Free
  <2> QED BY <1>1, <1>2, <2>1 DEF HeaderIntact
<1> QED BY <1>1, <1>2, <1>3, <1>4 DEF Safe

\* A holder that fills its block touches no other block's first page.
LEMMA WriteSafe ==
  ASSUME IInv, NEW blk \in live, Write(blk)
  PROVE  (\A b \in live' : b.total > 0) /\ Safe'
<1>1. /\ bitmap' = bitmap /\ live' = live
      /\ fragmented' = fragmented /\ panicked' = panicked
      /\ \A p \in Pages : p \notin Span(blk) \ {blk.base} => header'[p] = header[p]
  BY DEF Write
<1>2. /\ BlocksDisjoint /\ BitmapExact /\ HeaderIntact
      /\ \A b \in live : b.total > 0
  BY DEF IInv, Safe
<1>3. BlocksDisjoint' /\ BitmapExact'
  BY <1>1, <1>2 DEF BlocksDisjoint, BitmapExact, Span, SpanOf, PagesFor
<1>4. HeaderIntact'
  <2> SUFFICES ASSUME ~fragmented, NEW b \in live PROVE header'[b.base] = b.total
    BY <1>1 DEF HeaderIntact
  <2>1. b.base \in Pages /\ b.base \in Span(b)
    BY LiveFacts
  <2>2. b # blk => b.base \notin Span(blk)
    BY <1>2, <2>1 DEF BlocksDisjoint
  <2> QED BY <1>1, <1>2, <2>1, <2>2 DEF HeaderIntact
<1> QED BY <1>1, <1>2, <1>3, <1>4 DEF Safe

\* kfree: the header is the one kalloc wrote, so exactly the block is freed.
LEMMA KFreeSafe ==
  ASSUME IInv, NEW blk \in live, KFree(blk)
  PROVE  (\A b \in live' : b.total > 0) /\ Safe'
<1>1. /\ ~panicked /\ live' = live \ {blk} /\ header' = header
      /\ fragmented' = fragmented /\ panicked' = panicked
  BY DEF KFree, Freed
<1>2. /\ BlocksDisjoint /\ BitmapExact /\ HeaderIntact
      /\ \A b \in live : b.total > 0
  BY DEF IInv, Safe
<1>3. BlocksDisjoint' /\ HeaderIntact'
  BY <1>1, <1>2 DEF BlocksDisjoint, HeaderIntact, Span, SpanOf, PagesFor
<1>4. ASSUME ~fragmented PROVE bitmap' = UNION {Span(b) : b \in live \ {blk}}
  <2>1. header[blk.base] = blk.total /\ blk.total > 0 /\ blk.total \in Nat
    BY <1>2, <1>4, LiveFacts DEF HeaderIntact
  <2>2. header[blk.base] # 0
    BY <2>1
  <2>3. bitmap' = bitmap \ Span(blk)
    BY <2>1, <2>2 DEF KFree, Freed, Span
  <2>4. bitmap = UNION {Span(b) : b \in live}
    BY <1>1, <1>2, <1>4 DEF BitmapExact
  <2>5. \A b \in live \ {blk} : Span(b) \cap Span(blk) = {}
    BY <1>2, <1>4 DEF BlocksDisjoint
  <2> QED BY <2>3, <2>4, <2>5
<1>5. BitmapExact'
  BY <1>1, <1>4 DEF BitmapExact, Span, SpanOf, PagesFor
<1> QED BY <1>1, <1>2, <1>3, <1>5 DEF Safe

LEMMA StepIInv == IInv /\ [Next]_vars => IInv'
<1> SUFFICES ASSUME IInv, [Next]_vars PROVE IInv'
  OBVIOUS
<1>1. TypeOK'
  BY TypeStep DEF IInv
<1>2. (\A b \in live' : b.total > 0) /\ Safe'
  <2>1. CASE UNCHANGED vars
    BY <2>1 DEF vars, IInv, Safe, BlocksDisjoint, BitmapExact, HeaderIntact, Span, SpanOf, PagesFor
  <2>2. ASSUME NEW size \in Sizes, KAlloc(size) \/ KAllocPanics(size)
        PROVE  (\A b \in live' : b.total > 0) /\ Safe'
    BY <2>2, KAllocSafe, KAllocPanicsSafe
  <2>3. ASSUME NEW blk \in live, Write(blk) \/ KFree(blk)
        PROVE  (\A b \in live' : b.total > 0) /\ Safe'
    BY <2>3, WriteSafe, KFreeSafe
  <2> QED BY <2>1, <2>2, <2>3 DEF Next
<1> QED BY <1>1, <1>2 DEF IInv

----------------------------------------------------------------------------
\* Type correctness of the heap (kernel/vmem) for every size of memory.
THEOREM TypeCorrect == Spec => []TypeOK
<1>1. Init => TypeOK
  BY InitIInv DEF IInv
<1>2. TypeOK /\ [Next]_vars => TypeOK'
  BY TypeStep
<1> QED BY <1>1, <1>2, PTL DEF Spec

LEMMA IInvHolds == Spec => []IInv
  BY InitIInv, StepIInv, PTL DEF Spec

\* Until a request straddles a gap, kalloc and kfree (alloc.c) keep the blocks
\* of their callers apart, in any order of calls.
THEOREM BlocksApart == Spec => []BlocksDisjoint
<1>1. IInv => BlocksDisjoint
  BY DEF IInv, Safe
<1> QED BY IInvHolds, <1>1, PTL

\* Until then the bits set are those of the pages callers hold: kfree
\* (alloc.c:36-54) neither leaks a page nor frees one too many.
THEOREM BitmapCorrect == Spec => []BitmapExact
<1>1. IInv => BitmapExact
  BY DEF IInv, Safe
<1> QED BY IInvHolds, <1>1, PTL

\* Until then kfree reads in the first page of a block what kalloc stored.
THEOREM HeadersCorrect == Spec => []HeaderIntact
<1>1. IInv => HeaderIntact
  BY DEF IInv, Safe
<1> QED BY IInvHolds, <1>1, PTL

----------------------------------------------------------------------------
\* Before the first kfree the bitmap is a bump pointer.
Bump == ~recycled => ~fragmented /\ \E k \in 0..TotalPages : bitmap = 0..(k - 1)

\* First fit over a bump pointer takes the next n pages.
LEMMA LowestFreeBump ==
  ASSUME NEW k \in 0..TotalPages, bitmap = 0..(k - 1),
         NEW n \in Nat \ {0}, n <= MStat
  PROVE  /\ LowestFree(n) = k..(k + n - 1)
         /\ Min(LowestFree(n)) = k
         /\ k + n <= TotalPages
<1>1. TotalPages \in Nat /\ k \in Nat
  BY TotalPagesAssumption
<1>2. Free = k..(TotalPages - 1)
  BY <1>1 DEF Free, Pages
<1>3. MStat = TotalPages - k
  BY <1>1, <1>2, FS_Interval DEF MStat
<1>4. k + n <= TotalPages
  BY <1>1, <1>3
<1>5. ASSUME NEW p \in Free
      PROVE  Cardinality({q \in Free : q < p}) < n <=> p \in k..(k + n - 1)
  <2>1. p \in Int /\ k <= p /\ p <= TotalPages - 1
    BY <1>1, <1>2
  <2>2. {q \in Free : q < p} = k..(p - 1)
    BY <1>1, <1>2, <2>1
  <2>3. Cardinality(k..(p - 1)) = p - k
    <3>1. k \in Int /\ p - 1 \in Int
      BY <1>1, <2>1
    <3>2. Cardinality(k..(p - 1)) = IF k > p - 1 THEN 0 ELSE (p - 1) - k + 1
      BY <3>1, FS_Interval
    <3> QED BY <1>1, <2>1, <3>2
  <2>4. p - k < n <=> p \in k..(k + n - 1)
    BY <1>1, <2>1
  <2> QED BY <2>2, <2>3, <2>4
<1>6. k..(k + n - 1) \subseteq Free
  BY <1>1, <1>2, <1>4
<1>7. LowestFree(n) = k..(k + n - 1)
  BY <1>5, <1>6 DEF LowestFree
<1>8. Min(LowestFree(n)) \in LowestFree(n) /\ \A p \in LowestFree(n) : Min(LowestFree(n)) <= p
  BY LowestFreeFacts
<1>9. Min(LowestFree(n)) = k
  <2>1. Min(k..(k + n - 1)) \in k..(k + n - 1) /\ k \in k..(k + n - 1)
    BY <1>1, <1>7, <1>8
  <2>2. Min(k..(k + n - 1)) <= k
    BY <1>7, <1>8, <2>1
  <2>3. Min(k..(k + n - 1)) = k
    BY <1>1, <2>1, <2>2
  <2> QED BY <1>7, <2>3
<1> QED BY <1>4, <1>7, <1>9

LEMMA StepBump ==
  ASSUME TypeOK, Bump, [Next]_vars
  PROVE  Bump'
<1> SUFFICES ASSUME ~recycled'
             PROVE  ~fragmented' /\ \E k \in 0..TotalPages : bitmap' = 0..(k - 1)
  BY DEF Bump
<1>1. CASE UNCHANGED vars
  BY <1>1 DEF vars, Bump
<1>2. ASSUME NEW size \in Sizes, KAlloc(size)
      PROVE  ~fragmented' /\ \E k \in 0..TotalPages : bitmap' = 0..(k - 1)
  <2> DEFINE total == size + HeaderSize
             n     == PagesFor(total)
             taken == LowestFree(n)
  <2>1. /\ bitmap' = bitmap \cup taken
        /\ fragmented' = (fragmented \/ taken # SpanOf(Min(taken), total))
        /\ recycled' = recycled /\ n <= MStat
    BY <1>2 DEF KAlloc
  <2>2. n \in Nat \ {0}
    BY <1>2, KAllocFacts
  <2>3. PICK k \in 0..TotalPages : ~fragmented /\ bitmap = 0..(k - 1)
    BY <2>1 DEF Bump
  <2>4. taken = k..(k + n - 1) /\ Min(taken) = k /\ k + n <= TotalPages
    BY <2>1, <2>2, <2>3, LowestFreeBump
  <2>5. SpanOf(Min(taken), total) = taken
    BY <2>4 DEF SpanOf
  <2> HIDE DEF n
  <2>6. k + n \in 0..TotalPages /\ bitmap' = 0..((k + n) - 1)
    BY <2>1, <2>2, <2>3, <2>4, TotalPagesAssumption
  <2> QED BY <2>1, <2>3, <2>5, <2>6
<1>3. ASSUME NEW size \in Sizes, KAllocPanics(size)
      PROVE  ~fragmented' /\ \E k \in 0..TotalPages : bitmap' = 0..(k - 1)
  <2>1. bitmap' = 0..(TotalPages - 1) /\ TotalPages \in 0..TotalPages
    BY <1>3, TotalPagesAssumption DEF KAllocPanics, Pages
  <2> QED BY <1>3, <2>1 DEF KAllocPanics, Bump
<1>4. ASSUME NEW blk \in live, Write(blk)
      PROVE  ~fragmented' /\ \E k \in 0..TotalPages : bitmap' = 0..(k - 1)
  BY <1>4 DEF Write, Bump
<1>5. ASSUME NEW blk \in live, KFree(blk) PROVE FALSE
  BY <1>5 DEF KFree, Freed
<1> QED BY <1>1, <1>2, <1>3, <1>4, <1>5 DEF Next

\* While nothing has been freed, the pages kalloc collects one by one with
\* GetFreePage (alloc.c:12-21) are consecutive, so every block is what its
\* holder believes, whatever the sizes of the requests.
THEOREM BumpBeforeFirstFree == Spec => []NoGapBeforeFirstFree
<1>1. Init => Bump
  <2>1. Init => 0 \in 0..TotalPages /\ bitmap = 0..(0 - 1) /\ ~fragmented
    BY TotalPagesAssumption DEF Init
  <2> QED BY <2>1 DEF Bump
<1>2. TypeOK /\ Bump /\ [Next]_vars => Bump'
  BY StepBump
<1>3. Bump => NoGapBeforeFirstFree
  BY DEF Bump, NoGapBeforeFirstFree
<1> QED BY TypeCorrect, <1>1, <1>2, <1>3, PTL DEF Spec
=============================================================================
