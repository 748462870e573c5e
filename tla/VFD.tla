--------------------------------- MODULE VFD --------------------------------
(***************************************************************************)
(* File descriptors: open and close of kernel/vfs/vfd.c, and the closing   *)
(* of a process's files in SchedulerExit (kernel/sched/core.c).            *)
(*                                                                         *)
(* Every process has its own list of descriptors; the number of the next   *)
(* one and the VFS_OPENED flag of a VNode are shared.  Neither open nor    *)
(* close masks the timer, so each shared load and store is a step of its   *)
(* own and any process may run next; SchedulerExit masks it.               *)
(***************************************************************************)
EXTENDS Integers, Sequences, FiniteSets, SequencesExt

CONSTANTS
    Procs,      \* the processes
    VNodes,     \* the VNodes they open
    NULL,
    FdMod,      \* a FileDescriptor is an unsigned long: 2^32 on ia32
    MaxFd       \* bound: no file is opened once this many have been

ASSUME NullAssumption == NULL \notin VNodes
ASSUME FdAssumption   == FdMod \in Nat \ {0} /\ MaxFd \in Nat

VARIABLES
    opened,     \* the VNodes with VFS_OPENED set
    files,      \* Task.Files: each process's descriptors in list order
    Current,    \* the static counter of CreateEntry
    pc,         \* where each process is in open or close
    node,       \* Node in open, Target->Reference in close
    count,      \* the counter as `return Current++' has loaded it
    handles,    \* history: <<fd, VNode>> of every open that returned
    panicked,   \* Panic was raised: the machine has stopped
    overlap     \* history: an open began while another one was half done

vars == <<opened, files, Current, pc, node, count, handles, panicked, overlap>>

_FileDescriptor == [Reference : VNodes, FileIndex : 0..(FdMod - 1)]

Opening == {"flag", "entry", "load", "store"}
Points  == Opening \cup {"run", "clear"}

Init ==
    /\ opened = {}
    /\ files = [p \in Procs |-> <<>>]
    /\ Current = 0
    /\ pc = [p \in Procs |-> "run"]
    /\ node = [p \in Procs |-> NULL]
    /\ count = [p \in Procs |-> 0]
    /\ handles = [p \in Procs |-> {}]
    /\ panicked = FALSE
    /\ overlap = FALSE

Goto(p, l) == pc' = [pc EXCEPT ![p] = l]

\* Mutant: <= in place of ==.
FindAtMost(p, fd) == SelectInSeq(files[p], LAMBDA d : d.FileIndex <= fd)
\* findb: the position of the first descriptor numbered fd, 0 if none is.
Find(p, fd) == SelectInSeq(files[p], LAMBDA d : d.FileIndex = fd)

----------------------------------------------------------------------------
(* open(path): RelativeFind has given n; the check for VFS_OPENED.         *)
Open(p, n) ==
    /\ pc[p] = "run"
    /\ Current < MaxFd
    /\ IF n \in opened THEN panicked' = TRUE /\ UNCHANGED pc
                       ELSE Goto(p, "flag") /\ UNCHANGED panicked
    /\ node' = [node EXCEPT ![p] = n]
    /\ overlap' = (overlap \/ \E q \in Procs : pc[q] \in Opening)
    /\ UNCHANGED <<opened, files, Current, count, handles>>

SetFlag(p) ==
    /\ pc[p] = "flag"
    /\ opened' = opened \cup {node[p]}
    /\ Goto(p, "entry")
    /\ UNCHANGED <<files, Current, node, count, handles, panicked, overlap>>

\* Mutant: the descriptor goes to the head of the list.
PrependEntry(p) ==
    /\ pc[p] = "entry"
    /\ files' = [files EXCEPT ![p] = <<[Reference |-> node[p], FileIndex |-> Current]>> \o @]
    /\ Goto(p, "load")
    /\ UNCHANGED <<opened, Current, node, count, handles, panicked, overlap>>
\* The new descriptor takes the counter's value and goes to the list's end.
AppendEntry(p) ==
    /\ pc[p] = "entry"
    /\ files' = [files EXCEPT ![p] = Append(@, [Reference |-> node[p], FileIndex |-> Current])]
    /\ Goto(p, "load")
    /\ UNCHANGED <<opened, Current, node, count, handles, panicked, overlap>>

\* return Current++: load the counter, then store it incremented.
LoadCount(p) ==
    /\ pc[p] = "load"
    /\ count' = [count EXCEPT ![p] = Current]
    /\ Goto(p, "store")
    /\ UNCHANGED <<opened, files, Current, node, handles, panicked, overlap>>

StoreCount(p) ==
    /\ pc[p] = "store"
    /\ Current' = (count[p] + 1) % FdMod
    /\ handles' = [handles EXCEPT ![p] = @ \cup {<<count[p], node[p]>>}]
    /\ Goto(p, "run")
    /\ UNCHANGED <<opened, files, node, count, panicked, overlap>>

(* close(fd) of a file the process holds: unlink the descriptor, then      *)
(* clear the flag of the VNode it refers to.                               *)
Close(p, h) ==
    /\ pc[p] = "run"
    /\ LET i == Find(p, h[1])
       IN  IF i = 0 THEN panicked' = TRUE /\ UNCHANGED <<files, node, pc>>
           ELSE /\ files' = [files EXCEPT ![p] = RemoveAt(@, i)]
                /\ node' = [node EXCEPT ![p] = files[p][i].Reference]
                /\ Goto(p, "clear")
                /\ UNCHANGED panicked
    /\ handles' = [handles EXCEPT ![p] = @ \ {h}]
    /\ UNCHANGED <<opened, Current, count, overlap>>

ClearFlag(p) ==
    /\ pc[p] = "clear"
    /\ opened' = opened \ {node[p]}
    /\ Goto(p, "run")
    /\ UNCHANGED <<files, Current, node, count, handles, panicked, overlap>>

\* Mutant: the descriptors are freed, not closed.
ExitOnlyFrees(p) ==
    /\ pc[p] = "run"
    /\ files' = [files EXCEPT ![p] = <<>>]
    /\ handles' = [handles EXCEPT ![p] = {}]
    /\ UNCHANGED <<opened, Current, pc, node, count, panicked, overlap>>
(* SchedulerExit closes every descriptor, with the timer masked; the next  *)
(* process that lives here starts with an empty list.                      *)
Exit(p) ==
    /\ pc[p] = "run"
    /\ opened' = opened \ {d.Reference : d \in ToSet(files[p])}
    /\ files' = [files EXCEPT ![p] = <<>>]
    /\ handles' = [handles EXCEPT ![p] = {}]
    /\ UNCHANGED <<Current, pc, node, count, panicked, overlap>>

Step(p) ==
    \/ \E n \in VNodes : Open(p, n)
    \/ SetFlag(p) \/ AppendEntry(p) \/ LoadCount(p) \/ StoreCount(p)
    \/ \E h \in handles[p] : Close(p, h)
    \/ ClearFlag(p)
    \/ Exit(p)

Next == ~panicked /\ \E p \in Procs : Step(p)

Spec == Init /\ [][Next]_vars

----------------------------------------------------------------------------
(* The state stays within its types. *)
TypeOK ==
    /\ opened \subseteq VNodes
    /\ files \in [Procs -> Seq(_FileDescriptor)]
    /\ Current \in 0..(FdMod - 1)
    /\ pc \in [Procs -> Points]
    /\ node \in [Procs -> VNodes \cup {NULL}]
    /\ count \in [Procs -> 0..(FdMod - 1)]
    /\ handles \in [Procs -> SUBSET ((0..(FdMod - 1)) \X VNodes)]
    /\ panicked \in BOOLEAN
    /\ overlap \in BOOLEAN

\* Every <<process, position>> of a descriptor that refers to n.
References(n) ==
    UNION {{<<p, i>> : i \in {j \in DOMAIN files[p] : files[p][j].Reference = n}} : p \in Procs}

(* PANIC_DOUBLE_OPEN (vfd.c:70) is there so that a VNode is open once.     *)
OpenedOnce == \A n \in VNodes : Cardinality(References(n)) <= 1

(* The properties below hold as long as no open begins while another one   *)
(* is half done.                                                           *)

(* A VNode has VFS_OPENED exactly while a descriptor refers to it, an open *)
(* is about to add one or a close has just removed it; so a file is never  *)
(* locked with nobody left to close it.                                    *)
FlagMeansOpen ==
    ~overlap /\ ~panicked => \A n \in VNodes :
        n \in opened <=>
            \/ References(n) # {}
            \/ \E p \in Procs : node[p] = n /\ pc[p] \in {"entry", "clear"}

(* Both: the lists and flags that open, close and exit leave behind are of *)
(* their types and agree.                                                  *)
FlagsSound == TypeOK /\ FlagMeansOpen

(* No two open files of the system have the same number, in one process    *)
(* or in two, and each list is in the order of opening.                    *)
NumbersAscend ==
    ~overlap =>
        /\ \A p, q \in Procs : \A i \in DOMAIN files[p], j \in DOMAIN files[q] :
              <<p, i>> # <<q, j>> => files[p][i].FileIndex # files[q][j].FileIndex
        /\ \A p \in Procs : \A i, j \in DOMAIN files[p] :
              i < j => files[p][i].FileIndex < files[p][j].FileIndex

(* The number open returned finds, until it is closed, the VNode that was  *)
(* opened, and close never meets PANIC_FD_NOT_FOUND, whatever the other    *)
(* processes open and close meanwhile.                                     *)
HandlesResolve ==
    ~overlap => \A p \in Procs : \A h \in handles[p] :
        Find(p, h[1]) # 0 /\ files[p][Find(p, h[1])].Reference = h[2]
=============================================================================
