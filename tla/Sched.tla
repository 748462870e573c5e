-------------------------------- MODULE Sched -------------------------------
(***************************************************************************)
(* Processes and the context switch: kernel/sched/core.c with the timer    *)
(* entry of $ARCH/sched/switch.s.                                          *)
(*                                                                         *)
(* A process is a VNode in the list of children of /proc; its registers    *)
(* are stored behind DriverData.  The last child is always /proc/self,     *)
(* which the scheduler skips; the pointer it keeps there nobody follows.   *)
(*                                                                         *)
(* Registers are abstracted to what makes one program different from       *)
(* another: whose code and stack they select, how far into a kernel call   *)
(* that code is, and the one pointer the call keeps in them.  A program's  *)
(* control state has no existence outside its registers: it survives a     *)
(* preemption only through ScratchProc and the Task of its process.        *)
(*                                                                         *)
(* The timer handler runs with interrupts off and is one step, Tick.       *)
(***************************************************************************)
EXTENDS Integers, FiniteSets, Functions

CONSTANTS
    Procs,        \* the VNodes a process can live in
    kmain,        \* the process that boots the kernel; it never exits
    Self,         \* SelfProc, the VNode of /proc/self
    NULL,
    PidMod,       \* ProgramIdentifier is a uint64_t: 2^64
    MaxPid        \* bound: no process is created once this many have been

ASSUME ProcsAssumption == kmain \in Procs /\ Self \notin Procs
ASSUME NullAssumption  == NULL \notin Procs \cup {Self}
ASSUME PidAssumption   == PidMod \in Nat \ {0} /\ MaxPid \in Nat

VARIABLES
    first,        \* Proc->FirstChild
    next,         \* VNode.Next of every child of /proc
    previous,     \* VNode.Previous
    allocated,    \* the process VNodes that exist
    pid,          \* Task.ProgramIdentifier
    name,         \* the number printed into VNode.Name
    ProgramIdentifier,
    CurrentProc,
    link,         \* SelfProc->Link; VTree has the lookup that ignores it
    saved,        \* Task.Registers
    cpu,          \* the registers now: the program that is running
    intr,         \* EFLAGS.IF: the timer interrupt is enabled
    overlap       \* history: a call began while another was creating a process

lists == <<first, next, previous>>
ids   == <<pid, name, ProgramIdentifier>>
sched == <<CurrentProc, link, saved>>
vars  == <<lists, allocated, ids, sched, cpu, intr, overlap>>

Nodes == Procs \cup {Self}

\* How far a program is into SchedulerCreateProc or SchedulerExit.
Creating == {"name", "pid", "count", "link1", "link2", "link3"}
Exiting  == {"unlink", "walk", "release"}
Points   == {"run", "spin"} \cup Creating \cup Exiting

Registers == [prog : Procs, at : Points, ptr : Nodes \cup {NULL}]

\* InitialState: the entry point and stack of the program given to node n.
InitialState(n) == [prog |-> n, at |-> "run", ptr |-> NULL]

\* The state SchedulerInitialise leaves, as ArchSti turns interrupts on.
Init ==
    /\ first = kmain
    /\ next = [n \in Nodes |-> IF n = kmain THEN Self ELSE NULL]
    /\ previous = [n \in Nodes |-> IF n = Self THEN kmain ELSE NULL]
    /\ allocated = {kmain}
    /\ pid = [p \in Procs |-> 0]
    /\ name = [p \in Procs |-> 0]
    /\ ProgramIdentifier = 1 % PidMod
    /\ CurrentProc = kmain
    /\ link = NULL
    /\ saved = [p \in Procs |-> InitialState(p)]
    /\ cpu = InitialState(kmain)
    /\ intr = TRUE
    /\ overlap = FALSE

\* The registers of program p, on the processor or saved.
Context(p) == IF cpu.prog = p THEN cpu ELSE saved[p]

\* The nodes some program, running or preempted, is still creating.
InCreation == {Context(p).ptr : p \in {q \in allocated : Context(q).at \in Creating}}

----------------------------------------------------------------------------
(* The timer interrupt: NextProcess saves the registers to the current     *)
(* process (CommitProcessSave), CommitNextProcess moves on and the         *)
(* registers of its choice are loaded with the interrupt flag set.         *)

\* Mutant: always start over from the head.
SuccessorHead(p) == first
\* CurrentProc->Next, or the head of the list after the last or none.
Successor(p) == IF p = NULL THEN first
                ELSE IF next[p] = NULL THEN first ELSE next[p]

\* Mutant: no loop.
NextProcOnce == Successor(CurrentProc)
\* The do-while loop: move on, and once more if that is /proc/self.
NextProc == IF Successor(CurrentProc) = Self THEN Successor(Self)
                                             ELSE Successor(CurrentProc)

\* Mutant: CurrentProc has already moved on when the registers are saved.
SaveToNext == [saved EXCEPT ![NextProc] = cpu]
CommitProcessSave ==
    IF CurrentProc = NULL THEN saved ELSE [saved EXCEPT ![CurrentProc] = cpu]

Tick ==
    /\ intr
    /\ NextProc \in Procs
    /\ saved' = CommitProcessSave
    /\ CurrentProc' = NextProc
    /\ link' = NextProc
    /\ cpu' = saved'[NextProc]
    /\ UNCHANGED <<lists, allocated, ids, intr, overlap>>

----------------------------------------------------------------------------
(* SchedulerCreateProc, called by the running program.                     *)

\* The program executes up to point l, keeping pointer q.
Goto(l, q) == cpu' = [cpu EXCEPT !.at = l, !.ptr = q]

\* NewVNode, kalloc and the fields of a node nobody else can see yet.
CreateNode(n) ==
    /\ cpu.at = "run"
    /\ n \notin allocated
    /\ ProgramIdentifier < MaxPid
    /\ allocated' = allocated \cup {n}
    /\ next' = [next EXCEPT ![n] = NULL]
    /\ previous' = [previous EXCEPT ![n] = NULL]
    /\ saved' = [saved EXCEPT ![n] = InitialState(n)]
    /\ Goto("name", n)
    /\ overlap' = (overlap \/ InCreation # {})
    /\ UNCHANGED <<first, ids, CurrentProc, link, intr>>

\* Name = UlToString(ProgramIdentifier)
CreateName ==
    /\ cpu.at = "name"
    /\ name' = [name EXCEPT ![cpu.ptr] = ProgramIdentifier]
    /\ Goto("pid", cpu.ptr)
    /\ UNCHANGED <<lists, allocated, pid, ProgramIdentifier, sched, intr, overlap>>

\* Task.ProgramIdentifier = ProgramIdentifier++: the load, then the store.
CreatePid ==
    /\ cpu.at = "pid"
    /\ pid' = [pid EXCEPT ![cpu.ptr] = ProgramIdentifier]
    /\ Goto("count", cpu.ptr)
    /\ UNCHANGED <<lists, allocated, name, ProgramIdentifier, sched, intr, overlap>>

\* Mutants: the increment is lost, or a decrement.
CreateNoCount ==
    /\ cpu.at = "count"
    /\ Goto("link1", cpu.ptr)
    /\ UNCHANGED <<lists, allocated, ids, sched, intr, overlap>>
CreateCountDown ==
    /\ cpu.at = "count"
    /\ ProgramIdentifier' = pid[cpu.ptr] - 1
    /\ Goto("link1", cpu.ptr)
    /\ UNCHANGED <<lists, allocated, pid, name, sched, intr, overlap>>

CreateCount ==
    /\ cpu.at = "count"
    /\ ProgramIdentifier' = (pid[cpu.ptr] + 1) % PidMod
    /\ Goto("link1", cpu.ptr)
    /\ UNCHANGED <<lists, allocated, pid, name, sched, intr, overlap>>

\* Mutants: the first, or the second, of the three stores is missing.
NoLink1 ==
    /\ cpu.at = "link1"
    /\ Goto("link2", cpu.ptr)
    /\ UNCHANGED <<lists, allocated, ids, sched, intr, overlap>>
NoLink2 ==
    /\ cpu.at = "link2"
    /\ Goto("link3", cpu.ptr)
    /\ UNCHANGED <<lists, allocated, ids, sched, intr, overlap>>

\* RegisterChildVNode(Proc, New), one store at a time.
Link1 ==
    /\ cpu.at = "link1"
    /\ previous' = IF first = NULL THEN previous
                   ELSE [previous EXCEPT ![first] = cpu.ptr]
    /\ Goto("link2", cpu.ptr)
    /\ UNCHANGED <<first, next, allocated, ids, sched, intr, overlap>>

Link2 ==
    /\ cpu.at = "link2"
    /\ next' = [next EXCEPT ![cpu.ptr] = first]
    /\ Goto("link3", cpu.ptr)
    /\ UNCHANGED <<first, previous, allocated, ids, sched, intr, overlap>>

Link3 ==
    /\ cpu.at = "link3"
    /\ first' = cpu.ptr
    /\ Goto("run", NULL)
    /\ UNCHANGED <<next, previous, allocated, ids, sched, intr, overlap>>

----------------------------------------------------------------------------
(* SchedulerExit, called by any program but kmain's.                       *)

ExitCli ==
    /\ cpu.at = "run"
    /\ cpu.prog # kmain
    /\ intr' = FALSE
    /\ Goto("unlink", first)
    /\ overlap' = (overlap \/ InCreation # {})
    /\ UNCHANGED <<lists, allocated, ids, sched>>

ExitUnlinkHead ==
    /\ cpu.at = "unlink"
    /\ IF cpu.ptr = CurrentProc
       THEN first' = next[CurrentProc] /\ Goto("release", NULL)
       ELSE Goto("walk", cpu.ptr) /\ UNCHANGED first
    /\ UNCHANGED <<next, previous, allocated, ids, sched, intr, overlap>>

\* Mutant: the loop forgets to advance.
ExitWalkStays ==
    /\ cpu.at = "walk"
    /\ IF cpu.ptr = NULL
       THEN Goto("release", NULL) /\ UNCHANGED next
       ELSE IF next[cpu.ptr] = CurrentProc
            THEN /\ next' = [next EXCEPT ![cpu.ptr] = next[CurrentProc]]
                 /\ Goto("release", NULL)
            ELSE Goto("walk", cpu.ptr) /\ UNCHANGED next
    /\ UNCHANGED <<first, previous, allocated, ids, sched, intr, overlap>>

\* Prev = Prev->Next until Prev is the predecessor or the list ends.
ExitWalk ==
    /\ cpu.at = "walk"
    /\ IF cpu.ptr = NULL
       THEN Goto("release", NULL) /\ UNCHANGED next
       ELSE IF next[cpu.ptr] = CurrentProc
            THEN /\ next' = [next EXCEPT ![cpu.ptr] = next[CurrentProc]]
                 /\ Goto("release", NULL)
            ELSE Goto("walk", next[cpu.ptr]) /\ UNCHANGED next
    /\ UNCHANGED <<first, previous, allocated, ids, sched, intr, overlap>>

(* Descriptors and the Task are freed, UnregisterVNode unlinks the node    *)
(* once more, from both neighbours, DeleteVNode frees it and the program   *)
(* spins on its stack until the next timer interrupt.  Parent is never     *)
(* set, so UnregisterVNode does not look at the head of the list.          *)
ExitRelease ==
    /\ cpu.at = "release"
    /\ next' = [n \in Nodes |-> IF n = CurrentProc THEN NULL
                                ELSE IF n = previous[CurrentProc] THEN next[CurrentProc]
                                ELSE next[n]]
    /\ previous' = [n \in Nodes |-> IF n = CurrentProc THEN NULL
                                    ELSE IF n = next[CurrentProc] THEN previous[CurrentProc]
                                    ELSE previous[n]]
    /\ allocated' = allocated \ {CurrentProc}
    /\ CurrentProc' = NULL
    /\ intr' = TRUE
    /\ Goto("spin", NULL)
    /\ UNCHANGED <<first, ids, link, saved, overlap>>

----------------------------------------------------------------------------
\* The steps of a kernel call after its first.
InCall ==
    \/ CreateName \/ CreatePid \/ CreateCount \/ Link1 \/ Link2 \/ Link3
    \/ ExitUnlinkHead \/ ExitWalk \/ ExitRelease

Next ==
    \/ Tick
    \/ \E n \in Procs : CreateNode(n)
    \/ ExitCli
    \/ InCall

Spec == Init /\ [][Next]_vars

----------------------------------------------------------------------------
(* The state stays within its types. *)
TypeOK ==
    /\ first \in Nodes \cup {NULL}
    /\ next \in [Nodes -> Nodes \cup {NULL}]
    /\ previous \in [Nodes -> Nodes \cup {NULL}]
    /\ allocated \subseteq Procs
    /\ pid \in [Procs -> Nat]
    /\ name \in [Procs -> Nat]
    /\ ProgramIdentifier \in Nat
    /\ CurrentProc \in Procs \cup {NULL}
    /\ link \in Procs \cup {NULL}
    /\ saved \in [Procs -> Registers]
    /\ cpu \in Registers
    /\ intr \in BOOLEAN
    /\ overlap \in BOOLEAN

\* The process whose node is unlinked but not yet freed.
InRelease == IF cpu.at = "release" THEN {CurrentProc} ELSE {}

\* The processes /proc is meant to list.
Registered == (allocated \ InCreation) \ InRelease

\* /proc lists self last and before it the processes, newest first: each
\* Next points at the youngest process older than its own.
Rank(n) == IF n = Self THEN -1 ELSE pid[n]
NewestFirst(L) ==
    /\ first \in L
    /\ next[Self] = NULL
    /\ \A c \in L : Rank(c) <= Rank(first)
    /\ \A a \in L \ {Self} :
          /\ next[a] \in L
          /\ Rank(next[a]) < Rank(a)
          /\ \A c \in L : Rank(c) < Rank(a) => Rank(c) <= Rank(next[a])

\* No call is rebuilding the list.
Quiet == cpu.at \in {"run", "spin"} /\ InCreation = {}

(* The properties below hold as long as no process is created, and none    *)
(* exits, while a preempted SchedulerCreateProc is half done: it does not  *)
(* mask the timer, and its stores to ProgramIdentifier and the list are    *)
(* lost if another call changes them in between.                           *)

(* Whatever is on the processor is the program of CurrentProc, or the last *)
(* instructions of one that has exited: no switch ever loads another       *)
(* program's registers, or those of a process that is gone.                *)
RunsCurrentProc ==
    ~overlap =>
        IF CurrentProc = NULL THEN cpu.at = "spin" /\ cpu.prog \notin allocated
        ELSE cpu.prog = CurrentProc /\ CurrentProc \in allocated /\ cpu.at # "spin"

(* CommitNextProcess always finds a process to run, an existing one: its    *)
(* do-while loop cannot go round forever and never follows a freed node.    *)
PicksAProcess == ~overlap /\ intr => NextProc \in allocated

(* The Task of every process that is not running holds its own registers,  *)
(* as they were at some point with interrupts on: CommitProcessSave never  *)
(* stores another program's there.                                         *)
SavedIsOwn ==
    ~overlap => \A p \in allocated : CurrentProc # p =>
        saved[p].prog = p /\ saved[p].at \in Creating \cup {"run"}

(* The scheduler's list holds every process once created until it exits,   *)
(* and nothing else, also halfway through an exit.                         *)
ProcListed == ~overlap => NewestFirst(Registered \cup {Self})

(* Outside of a call that is rebuilding them the Previous pointers are the *)
(* inverse of the Next pointers, although SchedulerExit unlinks by hand    *)
(* and UnregisterVNode unlinks again.                                      *)
DoublyLinked ==
    ~overlap /\ Quiet =>
        /\ previous[first] = NULL
        /\ \A a, b \in Registered \cup {Self} : next[a] = b <=> previous[b] = a

(* Every process has its own number and is named by it. *)
PidsUnique ==
    ~overlap => \A p, q \in Registered : (p # q => pid[p] # pid[q]) /\ name[p] = pid[p]

(* A process gets the processor or exits: with a bounded number of         *)
(* processes created nobody waits forever.                                 *)
NoStarvation ==
    \A p \in Procs :
        p \in allocated ~> (CurrentProc = p \/ p \notin allocated \/ overlap)

(* SchedulerExit comes to its end: the walk over the list terminates, with *)
(* the timer masked and nothing else able to stop it.                      *)
ExitCompletes == \A p \in Procs : (cpu.prog = p /\ ~intr) ~> (p \notin allocated \/ overlap)

----------------------------------------------------------------------------
\* The processes listed in /proc or just being released, newest first.
Created == allocated \ InCreation
Queue ==
    CHOOSE q \in Bijection(1..Cardinality(Created), Created) :
        \A i, j \in DOMAIN q : i < j => pid[q[i]] >= pid[q[j]]

RR == INSTANCE RoundRobin WITH queue <- Queue, current <- CurrentProc

(* The linked list, the do-while loop of CommitNextProcess and the two     *)
(* unlinkings of SchedulerExit add up to a round-robin queue: a process    *)
(* that is being released leaves it together with its node.                *)
ImplementsRoundRobin == RR!Spec

----------------------------------------------------------------------------
(* README.MD:28 has the processes "as VNodes under /proc": a process that  *)
(* exists, and is not just being created or released, hangs in the list.   *)
ProcessesUnderProc ==
    Quiet => \A p \in allocated : p = first \/ \E a \in allocated : next[a] = p
=============================================================================
