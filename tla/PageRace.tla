------------------------------ MODULE PageRace ------------------------------
(***************************************************************************)
(* The page bitmap (kernel/vmem/bitmap.c) shared by preemptible tasks.     *)
(*                                                                         *)
(* The kernel is built with -O0 and nothing in bitmap.c masks the timer,   *)
(* so GetFreePage tests a bit, loads its byte and stores the byte back in  *)
(* three steps, and another task may run between any two of them.  The     *)
(* frees of SchedulerExit run under ArchCli and are one step.              *)
(*                                                                         *)
(* Which task runs when is the scheduler's business: here any task may     *)
(* take the next step.  Blocks are single pages, as for every structure    *)
(* the kernel itself allocates.                                            *)
(***************************************************************************)
EXTENDS Integers, FiniteSets

CONSTANTS
    Tasks,        \* the tasks sharing the bitmap
    Allocators,   \* those that call kalloc and kfree while they run
    TotalPages,   \* TOTAL_BITMAP
    ByteBits,     \* bits per byte of PageBitmap
    InitialOwner  \* which task holds which pages at the start

ASSUME TasksAssumption      == Allocators \subseteq Tasks
ASSUME TotalPagesAssumption == TotalPages \in Nat \ {0}
ASSUME ByteBitsAssumption   == ByteBits \in Nat \ {0}

Pages == 0..(TotalPages - 1)

ASSUME InitialOwnerAssumption ==
    /\ InitialOwner \in [Tasks -> SUBSET Pages]
    /\ \A s, t \in Tasks : s # t => InitialOwner[s] \cap InitialOwner[t] = {}

VARIABLES
    bitmap,   \* PageBitmap: the pages whose bit is set
    owns,     \* the pages each task holds
    pc,       \* where each task is in GetFreePage or FreePage
    page,     \* i in GetFreePage, PageIdx in FreePage
    byte,     \* the byte a task has loaded: the bits set in it
    panicked  \* PANIC_RAN_OUT_OF_MEMORY

vars == <<bitmap, owns, pc, page, byte, panicked>>

ByteOf(p)   == {q \in Pages : q \div ByteBits = p \div ByteBits}
\* Mutant: = in place of |= and &=.
AssignByte(p, bits) == (bitmap \ ByteOf(p)) \cup (bits \cap {p})
\* Storing a byte replaces every bit in it.
StoreByte(p, bits) == (bitmap \ ByteOf(p)) \cup bits

Init ==
    /\ bitmap = UNION {InitialOwner[t] : t \in Tasks}
    /\ owns = InitialOwner
    /\ pc = [t \in Tasks |-> "run"]
    /\ page = [t \in Tasks |-> 0]
    /\ byte = [t \in Tasks |-> {}]
    /\ panicked = FALSE

----------------------------------------------------------------------------
Goto(t, l) == pc' = [pc EXCEPT ![t] = l]

GetFreePage(t) ==
    /\ t \in Allocators
    /\ pc[t] = "run"
    /\ page' = [page EXCEPT ![t] = 0]
    /\ Goto(t, "test")
    /\ UNCHANGED <<bitmap, owns, byte, panicked>>

\* Mutants: i <= TOTAL_BITMAP, and the bit after the one meant.
PastEnd(i) == i = TotalPages + 1
IsNextSet(i) == i + 1 \in bitmap
AtEnd(i) == i = TotalPages
IsSet(i) == i \in bitmap

\* The loop head and the test of bit i.
TestBit(t) ==
    /\ pc[t] = "test"
    /\ IF AtEnd(page[t])
       THEN panicked' = TRUE /\ UNCHANGED <<pc, page>>
       ELSE IF IsSet(page[t])
            THEN page' = [page EXCEPT ![t] = @ + 1] /\ UNCHANGED <<pc, panicked>>
            ELSE Goto(t, "load") /\ UNCHANGED <<page, panicked>>
    /\ UNCHANGED <<bitmap, owns, byte>>

\* PageBitmap[ByteIdx] |= (1 << BitIdx): the load, then the store.
LoadToSet(t) ==
    /\ pc[t] = "load"
    /\ byte' = [byte EXCEPT ![t] = bitmap \cap ByteOf(page[t])]
    /\ Goto(t, "store")
    /\ UNCHANGED <<bitmap, owns, page, panicked>>

StoreSet(t) ==
    /\ pc[t] = "store"
    /\ bitmap' = StoreByte(page[t], byte[t] \cup {page[t]})
    /\ owns' = [owns EXCEPT ![t] = @ \cup {page[t]}]
    /\ Goto(t, "run")
    /\ UNCHANGED <<page, byte, panicked>>

\* FreePage in a running task: PageBitmap[ByteIdx] &= ~(1 << BitIdx).
FreePage(t) ==
    /\ t \in Allocators
    /\ pc[t] = "run"
    /\ \E p \in owns[t] :
          /\ page' = [page EXCEPT ![t] = p]
          /\ owns' = [owns EXCEPT ![t] = @ \ {p}]
          /\ byte' = [byte EXCEPT ![t] = bitmap \cap ByteOf(p)]
    /\ Goto(t, "clear")
    /\ UNCHANGED <<bitmap, panicked>>

StoreClear(t) ==
    /\ pc[t] = "clear"
    /\ bitmap' = StoreByte(page[t], byte[t] \ {page[t]})
    /\ Goto(t, "run")
    /\ UNCHANGED <<owns, page, byte, panicked>>

\* SchedulerExit frees all the task holds with the timer masked.
Exit(t) ==
    /\ t \notin Allocators
    /\ pc[t] = "run"
    /\ bitmap' = bitmap \ owns[t]
    /\ owns' = [owns EXCEPT ![t] = {}]
    /\ Goto(t, "dead")
    /\ UNCHANGED <<page, byte, panicked>>

Step(t) ==
    \/ GetFreePage(t) \/ TestBit(t) \/ LoadToSet(t) \/ StoreSet(t)
    \/ FreePage(t) \/ StoreClear(t)
    \/ Exit(t)

Next == ~panicked /\ \E t \in Tasks : Step(t)

Spec == Init /\ [][Next]_vars

----------------------------------------------------------------------------
(* The state stays within its types. *)
TypeOK ==
    /\ bitmap \subseteq Pages
    /\ owns \in [Tasks -> SUBSET Pages]
    /\ pc \in [Tasks -> {"run", "test", "load", "store", "clear", "dead"}]
    /\ page \in [Tasks -> 0..TotalPages]
    /\ byte \in [Tasks -> SUBSET Pages]
    /\ panicked \in BOOLEAN

(* No page is held by two tasks, or taken by one while another holds it:   *)
(* the interrupted test-and-set of GetFreePage never hands a page out      *)
(* twice (true with a single allocator, the shipped configuration).        *)
NoDoubleOwner ==
    \A s, t \in Tasks : s # t =>
        /\ owns[s] \cap owns[t] = {}
        /\ pc[s] \in {"load", "store"} => page[s] \notin owns[t]

(* A page somebody holds is marked used, whatever stale bytes the          *)
(* interrupted read-modify-writes of the allocator store back.             *)
HeldIsMarked == \A t \in Tasks : owns[t] \subseteq bitmap
=============================================================================
