--------------------------- MODULE PageRaceProofs ---------------------------
(***************************************************************************)
(* The page bitmap under preemption is safe when one task at a time        *)
(* allocates and frees, for any number of tasks and any bitmap.            *)
(***************************************************************************)
EXTENDS PageRace, TLAPS

\* The shipped configuration: every kalloc and kfree of a running program is
\* made by one process, kmain's, which also runs the modules' Init.
SingleAllocator == \A s, t \in Allocators : s = t

\* Tasks in the middle of GetFreePage or FreePage are allocators.
BusyAllocate == \A t \in Tasks : pc[t] \notin {"run", "dead"} => t \in Allocators

\* The page a task is about to set or clear belongs to nobody.
BusyPageFree ==
    \A t \in Tasks : pc[t] \in {"load", "store", "clear"} =>
        page[t] \in Pages /\ \A s \in Tasks : page[t] \notin owns[s]

\* A byte loaded earlier still has the bits of all pages held now: it may
\* have bits too many, of tasks that have exited since, but none missing.
StaleByteCovers ==
    \A s, t \in Tasks : pc[t] \in {"store", "clear"} =>
        owns[s] \cap ByteOf(page[t]) \subseteq byte[t]

Disjoint == \A s, t \in Tasks : s # t => owns[s] \cap owns[t] = {}

IInv ==
    /\ TypeOK /\ Disjoint /\ HeldIsMarked
    /\ BusyAllocate /\ BusyPageFree /\ StaleByteCovers

LEMMA InitIInv == Init => IInv
<1> SUFFICES ASSUME Init PROVE IInv
  OBVIOUS
<1>1. /\ owns = InitialOwner
      /\ \A t \in Tasks : pc[t] = "run"
  BY DEF Init
<1>2. TypeOK
  <2>1. bitmap \subseteq Pages
    BY InitialOwnerAssumption DEF Init
  <2>2. page \in [Tasks -> 0..TotalPages]
    BY TotalPagesAssumption DEF Init
  <2> QED BY <1>1, <2>1, <2>2, InitialOwnerAssumption DEF Init, TypeOK
<1>3. Disjoint
  BY <1>1, InitialOwnerAssumption DEF Disjoint
<1>4. HeldIsMarked
  BY DEF Init, HeldIsMarked
<1> QED BY <1>1, <1>2, <1>3, <1>4 DEF IInv, BusyAllocate, BusyPageFree, StaleByteCovers

\* What a store of a byte that covers the pages held leaves marked.
LEMMA StoreByteKeeps ==
  ASSUME NEW S \in SUBSET bitmap, NEW p, NEW bits, S \cap ByteOf(p) \subseteq bits
  PROVE  S \subseteq StoreByte(p, bits)
BY DEF StoreByte

\* Two tasks are never both inside GetFreePage or FreePage.
LEMMA OneBusy ==
  ASSUME SingleAllocator, BusyAllocate, NEW s \in Tasks, NEW t \in Tasks,
         pc[s] \notin {"run", "dead"}, t \in Allocators
  PROVE  s = t
BY DEF SingleAllocator, BusyAllocate

LEMMA GetFreePageStep ==
  ASSUME IInv, NEW t \in Tasks, GetFreePage(t)
  PROVE  IInv'
<1> USE DEF IInv, GetFreePage, Goto
<1>1. TypeOK'
  BY TotalPagesAssumption DEF TypeOK
<1>2. Disjoint' /\ HeldIsMarked'
  BY DEF Disjoint, HeldIsMarked
<1>3. BusyAllocate' /\ BusyPageFree' /\ StaleByteCovers'
  BY DEF BusyAllocate, BusyPageFree, StaleByteCovers, TypeOK, ByteOf
<1> QED BY <1>1, <1>2, <1>3

LEMMA TestBitStep ==
  ASSUME IInv, NEW t \in Tasks, TestBit(t)
  PROVE  IInv'
<1> USE DEF IInv, TestBit, Goto, AtEnd, IsSet
<1>1. page[t] \in Nat /\ page[t] <= TotalPages
  BY TotalPagesAssumption DEF TypeOK
<1>2. TypeOK'
  <2>1. page' \in [Tasks -> 0..TotalPages]
    <3>1. CASE page' = page
      BY <3>1 DEF TypeOK
    <3>2. CASE page[t] # TotalPages /\ page' = [page EXCEPT ![t] = @ + 1]
      <4>1. page[t] + 1 \in 0..TotalPages
        BY <1>1, <3>2, TotalPagesAssumption
      <4> QED BY <3>2, <4>1 DEF TypeOK
    <3> QED BY <3>1, <3>2
  <2> QED BY <2>1 DEF TypeOK
<1>3. Disjoint' /\ HeldIsMarked'
  BY DEF Disjoint, HeldIsMarked
<1>4. BusyAllocate'
  BY DEF BusyAllocate, TypeOK
<1>5. BusyPageFree'
  BY <1>1, TotalPagesAssumption DEF BusyPageFree, HeldIsMarked, TypeOK, Pages
<1>6. StaleByteCovers'
  BY DEF StaleByteCovers, TypeOK, ByteOf
<1> QED BY <1>2, <1>3, <1>4, <1>5, <1>6

LEMMA LoadToSetStep ==
  ASSUME IInv, NEW t \in Tasks, LoadToSet(t)
  PROVE  IInv'
<1> USE DEF IInv, LoadToSet, Goto
<1>1. TypeOK'
  BY DEF TypeOK
<1>2. Disjoint' /\ HeldIsMarked'
  BY DEF Disjoint, HeldIsMarked
<1>3. BusyAllocate' /\ BusyPageFree'
  BY DEF BusyAllocate, BusyPageFree, TypeOK
<1>4. StaleByteCovers'
  BY DEF StaleByteCovers, HeldIsMarked, TypeOK, ByteOf
<1> QED BY <1>1, <1>2, <1>3, <1>4

LEMMA StoreSetStep ==
  ASSUME SingleAllocator, IInv, NEW t \in Tasks, StoreSet(t)
  PROVE  IInv'
<1> USE DEF IInv
<1>1. /\ pc[t] = "store" /\ t \in Allocators
      /\ page[t] \in Pages /\ \A s \in Tasks : page[t] \notin owns[s]
      /\ \A s \in Tasks : owns[s] \cap ByteOf(page[t]) \subseteq byte[t]
      /\ bitmap' = StoreByte(page[t], byte[t] \cup {page[t]})
      /\ owns' = [owns EXCEPT ![t] = @ \cup {page[t]}]
      /\ pc' = [pc EXCEPT ![t] = "run"]
      /\ page' = page /\ byte' = byte /\ panicked' = panicked
  BY DEF StoreSet, Goto, BusyAllocate, BusyPageFree, StaleByteCovers
<1>2. TypeOK'
  BY <1>1 DEF TypeOK, StoreByte
<1>3. Disjoint'
  BY <1>1 DEF Disjoint, TypeOK
<1>4. HeldIsMarked'
  <2> SUFFICES ASSUME NEW s \in Tasks PROVE owns'[s] \subseteq bitmap'
    BY DEF HeldIsMarked
  <2>1. owns[s] \subseteq bitmap'
    BY <1>1, StoreByteKeeps DEF HeldIsMarked
  <2>2. page[t] \in bitmap'
    BY <1>1 DEF StoreByte
  <2> QED BY <1>1, <2>1, <2>2 DEF TypeOK
<1>5. \A s \in Tasks : s # t => pc[s] \in {"run", "dead"}
  BY <1>1, OneBusy
<1>6. \A s \in Tasks : pc'[s] \in {"run", "dead"}
  BY <1>1, <1>5 DEF TypeOK
<1>7. BusyAllocate' /\ BusyPageFree' /\ StaleByteCovers'
  BY <1>6 DEF BusyAllocate, BusyPageFree, StaleByteCovers
<1> QED BY <1>2, <1>3, <1>4, <1>7

LEMMA FreePageStep ==
  ASSUME SingleAllocator, IInv, NEW t \in Tasks, FreePage(t)
  PROVE  IInv'
<1> USE DEF IInv
<1>1. PICK p \in owns[t] :
        /\ page' = [page EXCEPT ![t] = p]
        /\ owns' = [owns EXCEPT ![t] = @ \ {p}]
        /\ byte' = [byte EXCEPT ![t] = bitmap \cap ByteOf(p)]
  BY DEF FreePage
<1>2. /\ t \in Allocators /\ pc' = [pc EXCEPT ![t] = "clear"]
      /\ bitmap' = bitmap /\ panicked' = panicked
      /\ p \in Pages
  BY DEF FreePage, Goto, TypeOK
<1>3. TypeOK'
  <2>1. p \in 0..TotalPages
    BY <1>2, TotalPagesAssumption DEF Pages
  <2>2. page' \in [Tasks -> 0..TotalPages]
    BY <1>1, <2>1 DEF TypeOK
  <2>3. owns' \in [Tasks -> SUBSET Pages] /\ byte' \in [Tasks -> SUBSET Pages]
    BY <1>1 DEF TypeOK
  <2> QED BY <1>2, <2>2, <2>3 DEF TypeOK
<1>4. Disjoint' /\ HeldIsMarked'
  BY <1>1, <1>2 DEF Disjoint, HeldIsMarked, TypeOK
<1>5. \A s \in Tasks : s # t => pc[s] \in {"run", "dead"}
  BY <1>2, OneBusy
<1>6. \A s \in Tasks : s # t => pc'[s] \in {"run", "dead"}
  BY <1>2, <1>5 DEF TypeOK
<1>7. BusyAllocate'
  BY <1>2, <1>6 DEF BusyAllocate
<1>8. page'[t] = p /\ byte'[t] = bitmap \cap ByteOf(p) /\ ByteOf(p)' = ByteOf(p)
  BY <1>1 DEF TypeOK, ByteOf
<1>9. \A s \in Tasks : p \notin owns'[s] /\ owns'[s] \subseteq bitmap
  BY <1>1 DEF Disjoint, HeldIsMarked, TypeOK
<1>10. BusyPageFree'
  BY <1>2, <1>6, <1>8, <1>9 DEF BusyPageFree
<1>11. StaleByteCovers'
  BY <1>6, <1>8, <1>9 DEF StaleByteCovers, ByteOf
<1> QED BY <1>3, <1>4, <1>7, <1>10, <1>11

LEMMA StoreClearStep ==
  ASSUME SingleAllocator, IInv, NEW t \in Tasks, StoreClear(t)
  PROVE  IInv'
<1> USE DEF IInv
<1>1. /\ t \in Allocators
      /\ \A s \in Tasks : page[t] \notin owns[s]
      /\ \A s \in Tasks : owns[s] \cap ByteOf(page[t]) \subseteq byte[t]
      /\ bitmap' = StoreByte(page[t], byte[t] \ {page[t]})
      /\ owns' = owns
      /\ pc' = [pc EXCEPT ![t] = "run"]
      /\ page' = page /\ byte' = byte /\ panicked' = panicked
  BY DEF StoreClear, Goto, BusyAllocate, BusyPageFree, StaleByteCovers
<1>2. TypeOK'
  BY <1>1 DEF TypeOK, StoreByte
<1>3. Disjoint'
  BY <1>1 DEF Disjoint
<1>4. HeldIsMarked'
  <2> SUFFICES ASSUME NEW s \in Tasks PROVE owns[s] \subseteq bitmap'
    BY <1>1 DEF HeldIsMarked
  <2>1. owns[s] \cap ByteOf(page[t]) \subseteq byte[t] \ {page[t]}
    BY <1>1
  <2> QED BY <1>1, <2>1, StoreByteKeeps DEF HeldIsMarked
<1>5. \A s \in Tasks : s # t => pc[s] \in {"run", "dead"}
  BY <1>1, OneBusy
<1>6. \A s \in Tasks : pc'[s] \in {"run", "dead"}
  BY <1>1, <1>5 DEF TypeOK
<1>7. BusyAllocate' /\ BusyPageFree' /\ StaleByteCovers'
  BY <1>6 DEF BusyAllocate, BusyPageFree, StaleByteCovers
<1> QED BY <1>2, <1>3, <1>4, <1>7

LEMMA ExitStep ==
  ASSUME IInv, NEW t \in Tasks, Exit(t)
  PROVE  IInv'
<1> USE DEF IInv, Exit, Goto
<1>1. TypeOK'
  BY DEF TypeOK
<1>2. Disjoint' /\ HeldIsMarked'
  BY DEF Disjoint, HeldIsMarked, TypeOK
<1>3. BusyAllocate' /\ BusyPageFree'
  BY DEF BusyAllocate, BusyPageFree, TypeOK
<1>4. StaleByteCovers'
  BY DEF StaleByteCovers, TypeOK, ByteOf
<1> QED BY <1>1, <1>2, <1>3, <1>4

LEMMA StepIInv == ASSUME SingleAllocator, IInv, [Next]_vars PROVE IInv'
<1>1. CASE UNCHANGED vars
  BY <1>1 DEF vars, IInv, TypeOK, Disjoint, HeldIsMarked, BusyAllocate, BusyPageFree,
              StaleByteCovers, ByteOf
<1>2. ASSUME NEW t \in Tasks, Step(t) PROVE IInv'
  BY <1>2, GetFreePageStep, TestBitStep, LoadToSetStep, StoreSetStep, FreePageStep,
     StoreClearStep, ExitStep DEF Step
<1> QED BY <1>1, <1>2 DEF Next

LEMMA IInvHolds == ASSUME SingleAllocator PROVE Spec => []IInv
<1>1. IInv /\ [Next]_vars => IInv'
  BY StepIInv
<1> QED BY InitIInv, <1>1, PTL DEF Spec

\* An interrupted GetFreePage (bitmap.c:25-38) never hands a page out twice.
THEOREM PagesOwnedOnce == ASSUME SingleAllocator PROVE Spec => []NoDoubleOwner
<1>1. IInv => NoDoubleOwner
  BY DEF IInv, Disjoint, BusyPageFree, NoDoubleOwner
<1> QED BY <1>1, IInvHolds, PTL

\* No stale byte stored by GetFreePage or FreePage (bitmap.c:33, 46) unmarks
\* a page that is in use.
THEOREM HeldPagesMarked == ASSUME SingleAllocator PROVE Spec => []HeldIsMarked
<1>1. IInv => HeldIsMarked
  BY DEF IInv
<1> QED BY <1>1, IInvHolds, PTL

\* TypeOK holds under preemption.
THEOREM TypeCorrect == ASSUME SingleAllocator PROVE Spec => []TypeOK
<1>1. IInv => TypeOK
  BY DEF IInv
<1> QED BY <1>1, IInvHolds, PTL
=============================================================================
