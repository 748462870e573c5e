-------------------------------- MODULE VMem --------------------------------
(***************************************************************************)
(* The kernel heap: the page bitmap of kernel/vmem/bitmap.c and the block  *)
(* allocator kalloc/kfree of kernel/vmem/alloc.c built on it.              *)
(*                                                                         *)
(* Pages are numbered from MemoryStart.  kalloc takes the lowest free      *)
(* pages one at a time, writes a BlockHeader into the first of them and    *)
(* hands out the bytes after the header as if the pages were consecutive;  *)
(* kfree reads the header back and frees that many consecutive pages.      *)
(* Calls are atomic here: they run with the timer masked, or alone.        *)
(* PageRace models what a timer interrupt inside a call does.              *)
(***************************************************************************)
EXTENDS Integers, FiniteSets, FiniteSetsExt

CONSTANTS
    TotalPages,   \* TOTAL_BITMAP
    PageSize,     \* PAGE_SIZE
    HeaderSize,   \* sizeof(BlockHeader)
    Sizes         \* the byte counts callers ask kalloc for

ASSUME TotalPagesAssumption == TotalPages \in Nat \ {0}
ASSUME PageSizeAssumption   == PageSize \in Nat \ {0}
ASSUME HeaderSizeAssumption == HeaderSize \in 1..PageSize
ASSUME SizesAssumption      == Sizes \subseteq Nat

VARIABLES
    bitmap,       \* PageBitmap: the pages whose bit is set
    header,       \* Header->Size as stored at the start of each page, or 0
    live,         \* the blocks callers hold: what kalloc returned, not freed
    fragmented,   \* history: some kalloc was given pages with a gap
    recycled,     \* history: some kfree has run
    panicked      \* Panic was raised: the machine has stopped

vars == <<bitmap, header, live, fragmented, recycled, panicked>>

Pages == 0..(TotalPages - 1)

\* A block as its holder knows it: first page and bytes with the header.
Block == [base : Pages, total : Nat]

PagesFor(total) == (total + PageSize - 1) \div PageSize

\* The pages a block of `total` bytes that starts on page b is taken to cover.
SpanOf(b, total) == b..(b + PagesFor(total) - 1)
Span(blk) == SpanOf(blk.base, blk.total)

\* Mutant: the scan runs one page past the end.
FreeOffByOne == (0..TotalPages) \ bitmap
Free == Pages \ bitmap

\* Mutant: the scan steps over every other page.
EvenFree(n) ==
    LET even == {p \in Free : p % 2 = 0}
    IN  {p \in even : Cardinality({q \in even : q < p}) < n}
\* What n calls of GetFreePage return: the n lowest pages with a clear bit.
LowestFree(n) ==
    {p \in Free : Cardinality({q \in Free : q < p}) < n}

\* The number of clear bits, which kmain reports as free memory.
MStat == Cardinality(Free)

----------------------------------------------------------------------------
Init ==
    /\ bitmap = {}
    /\ header = [p \in Pages |-> 0]
    /\ live = {}
    /\ fragmented = FALSE
    /\ recycled = FALSE
    /\ panicked = FALSE

(* kalloc(size): the first page's header is set as soon as the page is     *)
(* there; every page is cleared as it is taken.                            *)
KAlloc(size) ==
    LET total == size + HeaderSize
        taken == LowestFree(PagesFor(total))
        base  == Min(taken)
    IN  /\ ~panicked
        /\ size # 0
        /\ PagesFor(total) <= MStat
        /\ bitmap' = bitmap \cup taken
        /\ header' = [p \in Pages |-> IF p = base THEN total
                                      ELSE IF p \in taken THEN 0
                                      ELSE header[p]]
        /\ live' = live \cup {[base |-> base, total |-> total]}
        /\ fragmented' = (fragmented \/ taken # SpanOf(base, total))
        /\ UNCHANGED <<recycled, panicked>>

(* kalloc when the pages run out: AllocatePage itself panics, so the       *)
(* rollback loop after it is never reached and the pages stay marked.      *)
KAllocPanics(size) ==
    /\ ~panicked
    /\ size # 0
    /\ PagesFor(size + HeaderSize) > MStat
    /\ bitmap' = Pages
    /\ header' = [p \in Pages |-> IF p \in Free
                                  THEN IF p = Min(Free) THEN size + HeaderSize ELSE 0
                                  ELSE header[p]]
    /\ panicked' = TRUE
    /\ UNCHANGED <<live, fragmented, recycled>>

(* The holder fills its block.  The pages after the first carry its bytes  *)
(* from end to end: no header of another block survives there (0).         *)
Write(blk) ==
    /\ ~panicked
    /\ header' = [p \in Pages |-> IF p \in Span(blk) \ {blk.base}
                                  THEN 0 ELSE header[p]]
    /\ UNCHANGED <<bitmap, live, fragmented, recycled, panicked>>

\* Mutants: the page count one too large, and rounded down.
FreesOneMore(base, total) == base..(base + PagesFor(total))
FreesOnlyFull(base, total) == base..(base + (total \div PageSize) - 1)
\* The pages kfree clears for a header that says `total' bytes.
Freed(base, total) == SpanOf(base, total)

(* kfree(block): as many consecutive pages as the stored header says, or,  *)
(* where another holder's data replaced the header, any number.            *)
KFree(blk) ==
    /\ ~panicked
    /\ \E total \in IF header[blk.base] = 0
                    THEN {PageSize * n : n \in 0..TotalPages}
                    ELSE {header[blk.base]} :
          bitmap' = bitmap \ Freed(blk.base, total)
    /\ live' = live \ {blk}
    /\ recycled' = TRUE
    /\ UNCHANGED <<header, fragmented, panicked>>

Next ==
    \/ \E size \in Sizes : KAlloc(size) \/ KAllocPanics(size)
    \/ \E blk \in live : Write(blk) \/ KFree(blk)

Spec == Init /\ [][Next]_vars

----------------------------------------------------------------------------
(* The state stays within its types. *)
TypeOK ==
    /\ bitmap \subseteq Pages
    /\ header \in [Pages -> Nat]
    /\ live \subseteq Block
    /\ fragmented \in BOOLEAN
    /\ recycled \in BOOLEAN
    /\ panicked \in BOOLEAN

(* Until a multi-page kalloc straddles a gap, two blocks that callers hold *)
(* at once share no page (kalloc, alloc.c:5-34).                           *)
BlocksDisjoint ==
    ~fragmented => \A a, b \in live : a # b => Span(a) \cap Span(b) = {}

(* Until then the bitmap is exact: a bit is set for the pages of the live  *)
(* blocks and no others, so kfree neither leaks nor frees a page too many. *)
BitmapExact ==
    ~fragmented /\ ~panicked => bitmap = UNION {Span(b) : b \in live}

(* Until then nobody overwrites the header kfree will trust. *)
HeaderIntact ==
    ~fragmented => \A b \in live : header[b.base] = b.total

(* As long as nothing has been freed, first fit is a bump pointer and      *)
(* every block is contiguous, whatever the sizes asked for.                *)
NoGapBeforeFirstFree == ~recycled => ~fragmented
=============================================================================
