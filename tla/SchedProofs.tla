----------------------------- MODULE SchedProofs ----------------------------
(***************************************************************************)
(* Theorems about Sched, for any set of processes.                         *)
(*                                                                         *)
(* TInv holds whatever calls overlap: types, and when interrupts are off.  *)
(*                                                                         *)
(* ListInv is inductive as long as calls do not overlap.  It adds to the   *)
(* properties about /proc how far the one creation in progress is          *)
(* (Creation), what the walk of SchedulerExit has passed and what it has   *)
(* unlinked (Exit), and what the Previous pointers hold halfway through    *)
(* either (Back).                                                          *)
(***************************************************************************)
EXTENDS Sched, SequenceTheorems, FiniteSetTheorems, WellFoundedInduction, TLAPS

(* What the registers and the interrupt flag say of each other, overlap or *)
(* not: interrupts are off exactly inside SchedulerExit, only a program    *)
(* that has exited runs without a process, no timer interrupt ever saves   *)
(* the registers of an exit, and a creation has a node to work on.         *)
Control ==
    /\ intr <=> cpu.at \notin Exiting
    /\ CurrentProc = NULL <=> cpu.at = "spin"
    /\ \A p \in Procs : saved[p].at \in Creating \cup {"run"}
    /\ cpu.at \in Creating => cpu.ptr \in Procs
    /\ \A p \in Procs : saved[p].at \in Creating => saved[p].ptr \in Procs

TInv == TypeOK /\ Control

LEMMA RegistersFields ==
  /\ \A r \in Registers : r.prog \in Procs /\ r.at \in Points /\ r.ptr \in Nodes \cup {NULL}
  /\ \A p \in Procs, l \in Points, q \in Nodes \cup {NULL} :
        [prog |-> p, at |-> l, ptr |-> q] \in Registers
BY DEF Registers

\* A program that goes to point l with pointer q has legal registers there.
LEMMA GotoType ==
  ASSUME cpu \in Registers, NEW l \in Points, NEW q \in Nodes \cup {NULL}, Goto(l, q)
  PROVE  /\ cpu' \in Registers
         /\ cpu'.at = l /\ cpu'.ptr = q /\ cpu'.prog = cpu.prog
BY DEF Goto, Registers

LEMMA InitTInv == Init => TInv
<1> SUFFICES ASSUME Init PROVE TInv
  OBVIOUS
<1> USE DEF Init
<1>1. \A p \in Procs : InitialState(p) \in Registers /\ InitialState(p).at = "run"
  BY DEF InitialState, Registers, Points, Nodes
<1>2. ProgramIdentifier \in Nat
  BY PidAssumption
<1>3. kmain \in Procs
  BY ProcsAssumption
<1>4. TypeOK
  BY <1>1, <1>2, <1>3 DEF TypeOK, Nodes
<1>5. Control
  BY <1>1, <1>3, NullAssumption DEF Control, Creating, Exiting
<1> QED BY <1>4, <1>5 DEF TInv

\* The timer interrupt (CommitProcessSave, CommitNextProcess, switch.s).
LEMMA TickTInv == ASSUME TInv, Tick PROVE TInv'
<1> USE DEF TInv
<1>1. NextProc \in Procs /\ intr
  BY DEF Tick
<1>2. cpu.at \in Points /\ cpu.at \notin Exiting
  BY <1>1, RegistersFields DEF TypeOK, Control
<1>3. CurrentProc # NULL => CurrentProc \in Procs /\ cpu.at \in Creating \cup {"run"}
  BY <1>2 DEF TypeOK, Control, Points
<1>4. saved' = IF CurrentProc = NULL THEN saved ELSE [saved EXCEPT ![CurrentProc] = cpu]
  BY DEF Tick, CommitProcessSave
<1>5. saved' \in [Procs -> Registers]
  BY <1>4 DEF TypeOK
<1>6. \A p \in Procs : /\ saved'[p].at \in Creating \cup {"run"}
                       /\ saved'[p].at \in Creating => saved'[p].ptr \in Procs
  BY <1>3, <1>4 DEF TypeOK, Control
<1>7. cpu' = saved'[NextProc] /\ CurrentProc' = NextProc /\ link' = NextProc
  BY DEF Tick
<1>8. TypeOK'
  BY <1>1, <1>5, <1>7 DEF TypeOK, Tick, lists, ids
<1>9. Control'
  <2>1. cpu'.at \in Creating \cup {"run"} /\ (cpu'.at \in Creating => cpu'.ptr \in Procs)
    BY <1>1, <1>6, <1>7
  <2>2. cpu'.at \notin Exiting /\ cpu'.at # "spin"
    BY <2>1 DEF Creating, Exiting
  <2>3. CurrentProc' # NULL /\ intr'
    BY <1>1, <1>7, NullAssumption DEF Tick
  <2> QED BY <1>6, <2>1, <2>2, <2>3 DEF Control
<1> QED BY <1>8, <1>9

\* The steps of SchedulerCreateProc, from NewVNode to the last store of
\* RegisterChildVNode.
LEMMA CreateTInv ==
  ASSUME TInv,
         \/ \E n \in Procs : CreateNode(n)
         \/ CreateName \/ CreatePid \/ CreateCount \/ Link1 \/ Link2 \/ Link3
  PROVE  TInv'
<1> USE DEF TInv
<1>1. cpu \in Registers /\ cpu.at \in Points /\ cpu.ptr \in Nodes \cup {NULL} /\ cpu.prog \in Procs
  BY RegistersFields DEF TypeOK
<1>2. ASSUME NEW n \in Procs, CreateNode(n) PROVE TInv'
  <2>1. InitialState(n) \in Registers /\ InitialState(n).at = "run"
    BY DEF InitialState, Registers, Points, Nodes
  <2>2. cpu' \in Registers /\ cpu'.at = "name" /\ cpu'.ptr = n
    BY <1>1, <1>2, GotoType DEF CreateNode, Points, Creating, Nodes
  <2>3. saved' = [saved EXCEPT ![n] = InitialState(n)]
    BY <1>2 DEF CreateNode
  <2>4. /\ next' \in [Nodes -> Nodes \cup {NULL}] /\ previous' \in [Nodes -> Nodes \cup {NULL}]
        /\ allocated' \subseteq Procs /\ saved' \in [Procs -> Registers] /\ overlap' \in BOOLEAN
    BY <1>2, <2>1 DEF CreateNode, TypeOK
  <2>5. TypeOK'
    BY <1>2, <2>2, <2>4 DEF CreateNode, TypeOK, ids
  <2>6. Control'
    BY <1>2, <2>1, <2>2, <2>3 DEF CreateNode, TypeOK, Control, Creating, Exiting
  <2> QED BY <2>5, <2>6
<1>3. ASSUME CreateName \/ CreatePid \/ CreateCount \/ Link1 \/ Link2
      PROVE  TInv'
  <2>1. cpu.at \in Creating /\ cpu.ptr \in Procs
    BY <1>3 DEF CreateName, CreatePid, CreateCount, Link1, Link2, Creating, Control
  <2>2. cpu' \in Registers /\ cpu'.at \in Creating /\ cpu'.ptr = cpu.ptr
    BY <1>1, <1>3, GotoType
    DEF CreateName, CreatePid, CreateCount, Link1, Link2, Points, Creating
  <2>3. UNCHANGED <<sched, intr, allocated, overlap>>
    BY <1>3 DEF CreateName, CreatePid, CreateCount, Link1, Link2
  <2>4. /\ name' \in [Procs -> Nat] /\ pid' \in [Procs -> Nat]
        /\ ProgramIdentifier' \in Nat
    <3>1. (pid[cpu.ptr] + 1) % PidMod \in Nat
      BY <2>1, PidAssumption DEF TypeOK
    <3> QED BY <1>3, <3>1 DEF CreateName, CreatePid, CreateCount, Link1, Link2, TypeOK, ids
  <2>5. /\ first' \in Nodes \cup {NULL} /\ next' \in [Nodes -> Nodes \cup {NULL}]
        /\ previous' \in [Nodes -> Nodes \cup {NULL}]
    BY <1>1, <1>3 DEF CreateName, CreatePid, CreateCount, Link1, Link2, TypeOK, lists
  <2>6. TypeOK'
    BY <2>2, <2>3, <2>4, <2>5 DEF TypeOK, sched
  <2>7. Control'
    <3>1. cpu.at # "spin" /\ cpu'.at # "spin" /\ cpu.at \notin Exiting /\ cpu'.at \notin Exiting
      BY <2>1, <2>2 DEF Creating, Exiting
    <3> QED BY <2>1, <2>2, <2>3, <3>1 DEF Control, sched
  <2> QED BY <2>6, <2>7
<1>4. ASSUME Link3 PROVE TInv'
  <2>1. cpu' \in Registers /\ cpu'.at = "run"
    BY <1>1, <1>4, GotoType DEF Link3, Points
  <2>2. first' \in Nodes \cup {NULL}
    BY <1>1, <1>4 DEF Link3
  <2>3. TypeOK'
    BY <1>4, <2>1, <2>2 DEF Link3, TypeOK, ids, sched
  <2>4. Control'
    BY <1>4, <2>1 DEF Link3, Control, sched, Creating, Exiting
  <2> QED BY <2>3, <2>4
<1> QED BY <1>2, <1>3, <1>4

\* The steps of SchedulerExit.
LEMMA ExitTInv ==
  ASSUME TInv, ExitCli \/ ExitUnlinkHead \/ ExitWalk \/ ExitRelease
  PROVE  TInv'
<1> USE DEF TInv
<1>1. cpu \in Registers /\ cpu.at \in Points /\ cpu.ptr \in Nodes \cup {NULL} /\ cpu.prog \in Procs
  BY RegistersFields DEF TypeOK
<1>2. ASSUME ExitCli PROVE TInv'
  <2>1. cpu' \in Registers /\ cpu'.at = "unlink"
    BY <1>1, <1>2, GotoType DEF ExitCli, TypeOK, Points, Exiting
  <2>2. TypeOK'
    BY <1>2, <2>1 DEF ExitCli, TypeOK, lists, ids, sched
  <2>3. Control'
    BY <1>2, <2>1 DEF ExitCli, Control, sched, Creating, Exiting
  <2> QED BY <2>2, <2>3
<1>3. ASSUME ExitUnlinkHead \/ ExitWalk PROVE TInv'
  <2>1. cpu.at \in {"unlink", "walk"} /\ CurrentProc \in Procs
    BY <1>3 DEF ExitUnlinkHead, ExitWalk, Control, TypeOK
  <2>2. /\ next[CurrentProc] \in Nodes \cup {NULL}
        /\ cpu.ptr # NULL => next[cpu.ptr] \in Nodes \cup {NULL}
    BY <1>1, <2>1 DEF TypeOK, Nodes
  <2>3. cpu' \in Registers /\ cpu'.at \in {"walk", "release"}
    BY <1>1, <1>3, <2>2, GotoType DEF ExitUnlinkHead, ExitWalk, Points, Exiting
  <2>4. first' \in Nodes \cup {NULL} /\ next' \in [Nodes -> Nodes \cup {NULL}]
    BY <1>3, <2>2 DEF ExitUnlinkHead, ExitWalk, TypeOK
  <2>5. UNCHANGED <<previous, allocated, ids, sched, intr, overlap>>
    BY <1>3 DEF ExitUnlinkHead, ExitWalk
  <2>6. TypeOK'
    BY <2>3, <2>4, <2>5 DEF TypeOK, ids, sched
  <2>7. Control'
    BY <2>1, <2>3, <2>5 DEF Control, sched, Creating, Exiting
  <2> QED BY <2>6, <2>7
<1>4. ASSUME ExitRelease PROVE TInv'
  <2>1. CurrentProc \in Procs
    BY <1>4 DEF ExitRelease, Control, TypeOK
  <2>2. next[CurrentProc] \in Nodes \cup {NULL} /\ previous[CurrentProc] \in Nodes \cup {NULL}
    BY <2>1 DEF TypeOK, Nodes
  <2>3. next' \in [Nodes -> Nodes \cup {NULL}] /\ previous' \in [Nodes -> Nodes \cup {NULL}]
    BY <1>4, <2>2 DEF ExitRelease, TypeOK
  <2>4. cpu' \in Registers /\ cpu'.at = "spin"
    BY <1>1, <1>4, GotoType DEF ExitRelease, Points
  <2>5. TypeOK'
    BY <1>4, <2>3, <2>4 DEF ExitRelease, TypeOK, ids
  <2>6. Control'
    BY <1>4, <2>4 DEF ExitRelease, Control, Creating, Exiting
  <2> QED BY <2>5, <2>6
<1> QED BY <1>2, <1>3, <1>4

LEMMA StepTInv == TInv /\ [Next]_vars => TInv'
<1> SUFFICES ASSUME TInv, [Next]_vars PROVE TInv'
  OBVIOUS
<1>1. CASE UNCHANGED vars
  BY <1>1 DEF vars, lists, ids, sched, TInv, TypeOK, Control
<1>2. CASE Next
  BY <1>2, TickTInv, CreateTInv, ExitTInv DEF Next, InCall
<1> QED BY <1>1, <1>2

----------------------------------------------------------------------------
\* Type correctness of the scheduler's state (core.c), also when creations
\* and exits overlap.
THEOREM TypeCorrect == Spec => []TypeOK
<1>1. TInv => TypeOK
  BY DEF TInv
<1> QED BY InitTInv, StepTInv, <1>1, PTL DEF Spec

\* Interrupts are off exactly inside SchedulerExit, and CurrentProc is NULL
\* exactly between its end and the next timer interrupt.
THEOREM ControlCorrect == Spec => []Control
<1>1. TInv => Control
  BY DEF TInv
<1> QED BY InitTInv, StepTInv, <1>1, PTL DEF Spec

----------------------------------------------------------------------------
(* The list of /proc. *)

\* Every non-empty set of numbers has a least one.
LEMMA LeastNatural ==
  ASSUME NEW S \in SUBSET Nat, S # {}
  PROVE  \E m \in S : \A y \in S : m <= y
<1> DEFINE R == OpToRel(<, Nat)
<1>1. \E x \in S : \A y \in S : ~(<<y, x>> \in R)
  BY NatLessThanWellFounded, WFMin
<1>2. \A x, y \in Nat : x < y => <<x, y>> \in R
  BY DEF OpToRel
<1> HIDE DEF R
<1>3. \E x \in S : \A y \in S : ~(y < x)
  BY <1>1, <1>2
<1> QED BY <1>3

\* No process number is used twice: MaxPid, far below 2^64, bounds them.
NoWrap == MaxPid \in 1..(PidMod - 1)

\* The programs, running or preempted, that are in SchedulerCreateProc.
Creators == {q \in allocated : Context(q).at \in Creating}
Listed   == Registered \cup {Self}

Owners ==
    /\ kmain \in allocated
    /\ CurrentProc = NULL => cpu.prog \notin allocated
    /\ CurrentProc # NULL => cpu.prog = CurrentProc /\ CurrentProc \in allocated \ InCreation
    /\ \A p \in allocated : p # CurrentProc => saved[p].prog = p

\* Registers r belong to a creation: how far its node is filled in.
Underway(r) ==
    /\ r.ptr \in allocated \ (Creators \cup {kmain})
    /\ previous[r.ptr] = NULL
    /\ r.at \in {"name", "pid", "count"} => ProgramIdentifier < MaxPid
    /\ r.at \in {"pid", "count"} => name[r.ptr] = ProgramIdentifier
    /\ r.at = "count" => pid[r.ptr] = ProgramIdentifier
    /\ r.at \in {"link1", "link2", "link3"} =>
          /\ name[r.ptr] = pid[r.ptr]
          /\ pid[r.ptr] < ProgramIdentifier
          /\ \A q \in Registered : pid[q] < pid[r.ptr]
    /\ r.at = "link3" => next[r.ptr] = first

Creation ==
    /\ \A p, q \in Creators : p = q
    /\ \A p \in Creators : Underway(Context(p))

Numbers ==
    /\ \A p \in Registered : pid[p] < ProgramIdentifier /\ name[p] = pid[p]
    /\ \A p, q \in Registered : p # q => pid[p] # pid[q]

Exit ==
    /\ cpu.at \in Exiting => Creators = {} /\ cpu.prog # kmain
    /\ cpu.at = "unlink" => cpu.ptr = first
    /\ cpu.at = "walk" => cpu.ptr \in Registered /\ pid[cpu.ptr] > pid[CurrentProc]
    /\ cpu.at = "release" =>
          /\ next[CurrentProc] \in Listed
          /\ previous[CurrentProc] = NULL => first = next[CurrentProc]
          /\ previous[CurrentProc] # NULL =>
                /\ previous[CurrentProc] \in Registered
                /\ next[previous[CurrentProc]] = next[CurrentProc]

\* The node in front of which an unlinked one still stands.
BehindReleased(b) == cpu.at = "release" /\ b = next[CurrentProc]

Back ==
    /\ \A a \in Registered :
          previous[next[a]] = IF BehindReleased(next[a]) THEN CurrentProc ELSE a
    /\ BehindReleased(first) => previous[first] = CurrentProc
    /\ \A p \in Creators : Context(p).at \in {"link2", "link3"} => previous[first] = Context(p).ptr
    /\ ~BehindReleased(first) /\ (\A p \in Creators : Context(p).at \notin {"link2", "link3"})
          => previous[first] = NULL

Order == NewestFirst(Listed)

ListInv == Owners /\ Creation /\ Numbers /\ Exit /\ Back /\ Order

----------------------------------------------------------------------------
\* The nodes in creation are those the creators point at: one or none.
LEMMA CreationSet ==
  ASSUME Creation
  PROVE  /\ Creators = {} => InCreation = {}
         /\ \A p \in Creators : InCreation = {Context(p).ptr}
<1>1. InCreation = {Context(p).ptr : p \in Creators}
  BY DEF InCreation, Creators
<1>2. ASSUME NEW p \in Creators PROVE Creators = {p}
  BY <1>2 DEF Creation
<1> QED BY <1>1, <1>2

\* The shape of the list.
LEMMA ListFacts ==
  ASSUME TInv, ListInv
  PROVE  /\ Registered \subseteq Procs /\ Registered \subseteq allocated
         /\ Self \notin Registered /\ NULL \notin Listed
         /\ \A x \in Registered : Rank(x) = pid[x] /\ pid[x] \in Nat
         /\ Rank(Self) = -1
         /\ kmain \in Registered
         /\ first \in Registered
         /\ \A a \in Registered : next[a] \in Listed /\ next[a] # first
         /\ \A a, b \in Registered : next[a] = next[b] => a = b
<1>1. Registered \subseteq allocated /\ Registered \subseteq Procs
  BY DEF Registered, TInv, TypeOK
<1>2. Self \notin Registered /\ NULL \notin Listed
  BY <1>1, ProcsAssumption, NullAssumption DEF Listed
<1>3. /\ \A x \in Registered : Rank(x) = pid[x] /\ pid[x] \in Nat
      /\ Rank(Self) = -1
  BY <1>1, <1>2 DEF Rank, TInv, TypeOK
<1>4. kmain \in Registered
  <2>1. kmain \in allocated /\ kmain \notin InCreation
    BY CreationSet DEF ListInv, Owners, Creation, Underway
  <2>2. kmain \notin InRelease
    <3> SUFFICES ASSUME cpu.at = "release" PROVE CurrentProc # kmain
      BY DEF InRelease
    <3>1. cpu.prog # kmain /\ CurrentProc # NULL
      BY DEF ListInv, Exit, Exiting, TInv, Control
    <3> QED BY <3>1 DEF ListInv, Owners
  <2> QED BY <2>1, <2>2 DEF Registered
<1>5. /\ first \in Listed
      /\ \A c \in Listed : Rank(c) <= Rank(first)
      /\ \A a \in Listed \ {Self} :
            /\ next[a] \in Listed
            /\ Rank(next[a]) < Rank(a)
            /\ \A c \in Listed : Rank(c) < Rank(a) => Rank(c) <= Rank(next[a])
  BY DEF ListInv, Order, NewestFirst
<1>6. first \in Registered
  <2>1. Rank(kmain) <= Rank(first) /\ Rank(kmain) \in Nat
    BY <1>3, <1>4, <1>5 DEF Listed
  <2> QED BY <1>3, <1>5, <2>1 DEF Listed
<1>7. \A x \in Listed : Rank(x) \in Int
  BY <1>3 DEF Listed
<1>8. Registered = Listed \ {Self}
  BY <1>2 DEF Listed
<1>9. \A a \in Registered : next[a] \in Listed /\ next[a] # first
  <2> SUFFICES ASSUME NEW a \in Registered PROVE next[a] \in Listed /\ next[a] # first
    OBVIOUS
  <2>1. next[a] \in Listed /\ Rank(next[a]) < Rank(a) /\ Rank(a) <= Rank(first)
    BY <1>5, <1>8
  <2>2. Rank(next[a]) \in Int /\ Rank(a) \in Int /\ Rank(first) \in Int
    BY <1>5, <1>7, <1>8, <2>1
  <2> QED BY <2>1, <2>2
<1>10. \A a, b \in Registered : next[a] = next[b] => a = b
  <2> SUFFICES ASSUME NEW a \in Registered, NEW b \in Registered,
                      next[a] = next[b], pid[a] < pid[b]
               PROVE  FALSE
    BY <1>3 DEF ListInv, Numbers
  <2>1. Rank(a) < Rank(b) /\ Rank(a) \in Int /\ Rank(next[a]) \in Int
    BY <1>3, <1>5, <1>7, <1>8
  <2>2. Rank(a) <= Rank(next[b]) /\ Rank(next[a]) < Rank(a)
    BY <1>5, <1>8, <2>1
  <2> QED BY <2>1, <2>2
<1> QED BY <1>1, <1>2, <1>3, <1>4, <1>6, <1>9, <1>10

\* The do-while loop of CommitNextProcess ends with a process in the list.
LEMMA NextProcListed ==
  ASSUME TInv, ListInv, intr
  PROVE  NextProc \in Registered
<1>1. CurrentProc # NULL => CurrentProc \in Registered
  BY DEF ListInv, Owners, Registered, InRelease, TInv, Control, Exiting
<1>2. Successor(CurrentProc) \in Listed
  BY <1>1, ListFacts DEF Successor, Listed
<1>3. next[Self] = NULL
  BY DEF ListInv, Order, NewestFirst
<1>4. Successor(Self) = first
  BY <1>3 DEF Successor
<1> QED BY <1>2, <1>4, ListFacts DEF NextProc, Listed

----------------------------------------------------------------------------
LEMMA InitListInv == ASSUME NoWrap, Init PROVE ListInv
<1> USE DEF Init
<1>1. kmain \in Procs /\ Self \notin Procs /\ NULL \notin Procs /\ NULL # Self /\ kmain # Self
  BY ProcsAssumption, NullAssumption
<1>2. Creators = {}
  BY DEF Creators, Context, InitialState, Creating
<1>3. InCreation = {} /\ InRelease = {}
  BY <1>2 DEF InCreation, Creators, InRelease, InitialState
<1>4. Registered = {kmain}
  BY <1>3 DEF Registered
<1>5. cpu.at = "run" /\ cpu.prog = kmain
  BY DEF InitialState
<1>6. Owners /\ Creation /\ Exit
  BY <1>1, <1>2, <1>3, <1>5 DEF Owners, Creation, Exit, Exiting
<1>7. ProgramIdentifier = 1
  BY PidAssumption DEF NoWrap
<1>8. Numbers
  BY <1>1, <1>4, <1>7 DEF Numbers
<1>9. Back
  BY <1>1, <1>2, <1>4, <1>5 DEF Back, BehindReleased, Nodes
<1>10. Order
  BY <1>1, <1>4 DEF Order, NewestFirst, Listed, Rank, Nodes
<1> QED BY <1>6, <1>8, <1>9, <1>10 DEF ListInv

\* Registers that the list does not depend on: it stays in order if the
\* members, their numbers and the Next pointers among them do.
LEMMA OrderFrame ==
  ASSUME TInv, ListInv, Registered' = Registered, first' = first,
         \A x \in Listed : next'[x] = next[x],
         \A x \in Registered : pid'[x] = pid[x]
  PROVE  Order'
<1>1. Listed' = Listed
  BY DEF Listed
<1>2. \A x \in Listed : Rank(x)' = Rank(x)
  BY DEF Listed, Rank
<1>3. Self \in Listed
  BY DEF Listed
<1>4. NewestFirst(Listed)
  BY DEF ListInv, Order
<1> QED BY <1>1, <1>2, <1>3, <1>4 DEF Order, NewestFirst

\* A switch changes the place of registers and nobody's control state.
LEMMA TickContexts ==
  ASSUME TInv, ListInv, Tick
  PROVE  /\ \A p \in allocated : Context(p)' = Context(p)
         /\ cpu'.prog = NextProc
         /\ \A p \in allocated : p # NextProc => saved'[p].prog = p
<1>1. intr /\ NextProc \in Registered /\ NextProc \in allocated /\ NextProc \in Procs
  BY NextProcListed, ListFacts DEF Tick
<1>2. /\ saved' = IF CurrentProc = NULL THEN saved ELSE [saved EXCEPT ![CurrentProc] = cpu]
      /\ cpu' = saved'[NextProc]
  BY DEF Tick, CommitProcessSave
<1>3. CurrentProc # NULL => CurrentProc \in Procs /\ cpu.prog = CurrentProc
  BY DEF TInv, TypeOK, ListInv, Owners
<1>4. \A p \in Procs : saved'[p] = IF p = CurrentProc THEN cpu ELSE saved[p]
  BY <1>2, <1>3, NullAssumption DEF TInv, TypeOK
<1>5. \A p \in allocated : p \in Procs /\ saved'[p].prog = p
  BY <1>3, <1>4, NullAssumption DEF TInv, TypeOK, ListInv, Owners
<1>6. \A p \in allocated : saved'[p] = Context(p)
  <2> SUFFICES ASSUME NEW p \in allocated PROVE saved'[p] = Context(p)
    OBVIOUS
  <2>1. CASE p = CurrentProc
    BY <1>3, <1>4, <1>5, <2>1, NullAssumption DEF Context
  <2>2. CASE p # CurrentProc
    <3>1. cpu.prog # p
      BY <2>2 DEF ListInv, Owners
    <3> QED BY <1>4, <1>5, <2>2, <3>1 DEF Context
  <2> QED BY <2>1, <2>2
<1>7. cpu'.prog = NextProc
  BY <1>1, <1>2, <1>5
<1>8. \A p \in allocated : Context(p)' = saved'[p]
  BY <1>2, <1>7 DEF Context
<1> QED BY <1>5, <1>6, <1>7, <1>8

LEMMA TickListInv == ASSUME TInv, TInv', ListInv, Tick PROVE ListInv'
<1>1. intr /\ NextProc \in Registered /\ CurrentProc' = NextProc /\ intr' = intr
  BY NextProcListed DEF Tick
<1>2. UNCHANGED <<first, next, previous, allocated, pid, name, ProgramIdentifier>>
  BY DEF Tick, lists, ids
<1>3. \A p \in allocated : Context(p)' = Context(p)
  BY TickContexts
<1>4. cpu.at \notin Exiting /\ cpu'.at \notin Exiting
  BY <1>1 DEF TInv, Control
<1>5. Creators' = Creators
  BY <1>2, <1>3 DEF Creators
<1>6. InCreation' = InCreation
  BY <1>2, <1>3 DEF InCreation
<1>7. InRelease = {} /\ InRelease' = {}
  BY <1>4 DEF InRelease, Exiting
<1>8. Registered' = Registered
  BY <1>2, <1>6, <1>7 DEF Registered
<1>9. Owners'
  <2>1. NextProc \in allocated \ InCreation /\ NextProc # NULL
    BY <1>1, ListFacts DEF Registered, Listed
  <2>2. cpu'.prog = NextProc /\ \A p \in allocated : p # NextProc => saved'[p].prog = p
    BY TickContexts
  <2>3. kmain \in allocated
    BY DEF ListInv, Owners
  <2> QED BY <1>1, <1>2, <1>6, <2>1, <2>2, <2>3 DEF Owners
<1>10. Creation'
  <2>1. \A p \in Creators : p \in allocated
    BY DEF Creators
  <2> QED BY <1>2, <1>3, <1>5, <1>8, <2>1 DEF Creation, Underway, ListInv
<1>11. Numbers'
  BY <1>2, <1>8 DEF Numbers, ListInv
<1>12. Exit'
  BY <1>4 DEF Exit, Exiting
<1>13. Back'
  <2>1. \A p \in Creators : p \in allocated
    BY DEF Creators
  <2>2. cpu.at # "release" /\ cpu'.at # "release"
    BY <1>4 DEF Exiting
  <2> QED BY <1>2, <1>3, <1>5, <1>8, <2>1, <2>2 DEF Back, BehindReleased, ListInv
<1>14. Order'
  BY <1>2, <1>8, OrderFrame
<1> QED BY <1>9, <1>10, <1>11, <1>12, <1>13, <1>14 DEF ListInv

----------------------------------------------------------------------------
\* The program on the processor, unless it has exited.
LEMMA RunningFacts ==
  ASSUME TInv, ListInv, cpu.at # "spin"
  PROVE  /\ CurrentProc \in allocated /\ CurrentProc \in Procs /\ CurrentProc # NULL
         /\ CurrentProc \notin InCreation
         /\ cpu.prog = CurrentProc /\ Context(CurrentProc) = cpu
         /\ \A p \in allocated : p # CurrentProc => saved[p].prog = p /\ Context(p) = saved[p]
BY DEF TInv, TypeOK, Control, ListInv, Owners, Context

\* SchedulerCreateProc begins: the new node is allocated but not yet listed.
LEMMA CreateNodeListInv ==
  ASSUME TInv, TInv', ListInv, NEW n \in Procs, CreateNode(n), ~overlap'
  PROVE  ListInv'
<1>1. /\ cpu.at = "run" /\ n \notin allocated /\ ProgramIdentifier < MaxPid
      /\ allocated' = allocated \cup {n}
      /\ next' = [next EXCEPT ![n] = NULL] /\ previous' = [previous EXCEPT ![n] = NULL]
      /\ saved' = [saved EXCEPT ![n] = InitialState(n)]
      /\ first' = first /\ pid' = pid /\ name' = name
      /\ ProgramIdentifier' = ProgramIdentifier /\ CurrentProc' = CurrentProc
      /\ InCreation = {}
  BY DEF CreateNode, ids
<1>2. cpu'.prog = cpu.prog /\ cpu'.at = "name" /\ cpu'.ptr = n
  BY <1>1, GotoType DEF CreateNode, TInv, TypeOK, Points, Creating, Nodes
<1>3. Creators = {}
  BY <1>1, CreationSet DEF ListInv
<1>4. /\ CurrentProc \in allocated /\ CurrentProc # n /\ CurrentProc # NULL
      /\ cpu.prog = CurrentProc
      /\ \A p \in allocated : p # CurrentProc => saved[p].prog = p /\ Context(p) = saved[p]
  BY <1>1, RunningFacts
<1>5. \A p \in allocated : p \in Procs /\ p # n /\ saved'[p] = saved[p]
  BY <1>1 DEF TInv, TypeOK
<1>6. saved'[n] = InitialState(n)
  BY <1>1 DEF TInv, TypeOK
<1>7. /\ Context(CurrentProc)' = cpu' /\ Context(n)' = InitialState(n)
      /\ \A p \in allocated : p # CurrentProc => Context(p)' = Context(p)
  BY <1>1, <1>2, <1>4, <1>5, <1>6 DEF Context
<1>8. Creators' = {CurrentProc}
  <2>1. InitialState(n).at \notin Creating /\ cpu'.at \in Creating
    BY <1>2 DEF InitialState, Creating
  <2>2. \A p \in allocated : p # CurrentProc => Context(p)'.at \notin Creating
    BY <1>3, <1>7 DEF Creators
  <2> QED BY <1>1, <1>4, <1>7, <2>1, <2>2 DEF Creators
<1>9. InCreation' = {n}
  <2>1. InCreation' = {Context(p)'.ptr : p \in Creators'}
    BY DEF InCreation, Creators
  <2> QED BY <1>1, <1>2, <1>7, <1>8, <2>1
<1>10. Registered' = Registered /\ n \notin Listed
  <2>1. InRelease = {} /\ InRelease' = {}
    BY <1>1, <1>2 DEF InRelease
  <2>2. Registered = allocated /\ Registered' = allocated
    BY <1>1, <1>9, <2>1 DEF Registered
  <2> QED BY <1>1, <2>2, ProcsAssumption DEF Listed
<1>11. /\ \A x \in Listed : next'[x] = next[x] /\ previous'[x] = previous[x]
       /\ previous'[n] = NULL
  BY <1>1, <1>10, ListFacts DEF Listed, TInv, TypeOK, Nodes
<1>12. Owners'
  BY <1>1, <1>2, <1>4, <1>5, <1>6, <1>9 DEF Owners, ListInv, InitialState
<1>13. Creation'
  <2>1. n # kmain
    BY <1>1 DEF ListInv, Owners
  <2>2. Underway(cpu)'
    BY <1>1, <1>2, <1>4, <1>8, <1>11, <2>1 DEF Underway
  <2> QED BY <1>1, <1>7, <1>8, <2>2 DEF Creation, Underway
<1>14. Numbers' /\ Order'
  BY <1>1, <1>10, <1>11, OrderFrame DEF Numbers, ListInv
<1>15. Exit'
  BY <1>2 DEF Exit, Exiting
<1>16. Back'
  <2>1. \A a \in Registered : next[a] \in Listed /\ a \in Listed /\ first \in Listed
    BY ListFacts DEF Listed
  <2>2. previous[first] = NULL /\ \A a \in Registered : previous[next[a]] = a
    BY <1>1, <1>3 DEF ListInv, Back, BehindReleased
  <2>3. first \in Listed
    BY ListFacts DEF Listed
  <2> QED BY <1>1, <1>2, <1>7, <1>8, <1>10, <1>11, <2>1, <2>2, <2>3 DEF Back, BehindReleased
<1> QED BY <1>12, <1>13, <1>14, <1>15, <1>16 DEF ListInv

\* The program on the processor is inside SchedulerCreateProc.
LEMMA CreatorRunning ==
  ASSUME TInv, ListInv, cpu.at \in Creating
  PROVE  /\ Creators = {CurrentProc} /\ InCreation = {cpu.ptr} /\ InRelease = {}
         /\ Registered = allocated \ {cpu.ptr}
         /\ Underway(cpu) /\ cpu.ptr \in Procs /\ cpu.ptr \notin Listed
         /\ CurrentProc \in allocated /\ cpu.prog = CurrentProc
<1>1. cpu.at # "spin" /\ cpu.at # "release"
  BY DEF Creating
<1>2. CurrentProc \in allocated /\ cpu.prog = CurrentProc /\ Context(CurrentProc) = cpu
  BY <1>1, RunningFacts
<1>3. CurrentProc \in Creators
  BY <1>2 DEF Creators
<1>4. Creators = {CurrentProc} /\ Underway(Context(CurrentProc))
  BY <1>3 DEF ListInv, Creation
<1>5. InCreation = {cpu.ptr}
  BY <1>2, <1>3, CreationSet DEF ListInv
<1>6. InRelease = {}
  BY <1>1 DEF InRelease
<1>7. Registered = allocated \ {cpu.ptr}
  BY <1>5, <1>6 DEF Registered
<1>8. cpu.ptr \in Procs
  BY DEF TInv, Control
<1>9. cpu.ptr \notin Listed
  BY <1>7, <1>8, ProcsAssumption DEF Listed
<1> QED BY <1>2, <1>4, <1>5, <1>6, <1>7, <1>8, <1>9

\* It takes another step inside.
LEMMA CreatorStays ==
  ASSUME TInv, ListInv, cpu.at \in Creating,
         cpu'.at \in Creating, cpu'.ptr = cpu.ptr, cpu'.prog = cpu.prog,
         UNCHANGED <<saved, allocated, CurrentProc>>
  PROVE  /\ Creators' = {CurrentProc} /\ Context(CurrentProc)' = cpu'
         /\ Registered' = Registered /\ Listed' = Listed
         /\ Owners' /\ Exit'
<1>1. /\ CurrentProc \in allocated /\ cpu.prog = CurrentProc
      /\ Creators = {CurrentProc} /\ InCreation = {cpu.ptr} /\ InRelease = {}
  BY CreatorRunning
<1>2. \A p \in allocated : Context(p)' = IF p = CurrentProc THEN cpu' ELSE Context(p)
  BY <1>1 DEF Context
<1>3. Creators' = {CurrentProc}
  BY <1>1, <1>2 DEF Creators
<1>4. InCreation' = {Context(p)'.ptr : p \in Creators'}
  BY DEF InCreation, Creators
<1>5. InCreation' = {cpu.ptr}
  BY <1>1, <1>2, <1>3, <1>4
<1>6. InRelease' = {}
  BY DEF InRelease, Creating
<1>7. Registered' = Registered
  BY <1>1, <1>5, <1>6 DEF Registered
<1>8. Owners'
  BY <1>1, <1>5 DEF Owners, ListInv
<1>9. Exit'
  BY DEF Exit, Exiting, Creating
<1> QED BY <1>1, <1>2, <1>3, <1>7, <1>8, <1>9 DEF Listed

\* Name and number of the new process.
LEMMA NumberListInv ==
  ASSUME TInv, TInv', ListInv, NoWrap, CreateName \/ CreatePid \/ CreateCount
  PROVE  ListInv'
<1> DEFINE n == cpu.ptr
<1>1. /\ cpu.at \in {"name", "pid", "count"} /\ cpu.at \in Creating
      /\ UNCHANGED <<first, next, previous, allocated, CurrentProc, saved>>
  BY DEF CreateName, CreatePid, CreateCount, Creating, lists, sched
<1>2. /\ cpu'.prog = cpu.prog /\ cpu'.ptr = n
      /\ cpu'.at = CASE cpu.at = "name" -> "pid" [] cpu.at = "pid" -> "count"
                     [] cpu.at = "count" -> "link1"
  BY GotoType DEF CreateName, CreatePid, CreateCount, TInv, TypeOK, Points, Creating, Registers
<1>3. cpu'.at \in Creating /\ cpu'.at \in {"pid", "count", "link1"}
  BY <1>1, <1>2 DEF Creating
<1>4. /\ Creators = {CurrentProc} /\ Underway(cpu) /\ n \in Procs /\ n \notin Listed
      /\ Registered \subseteq Procs /\ n \notin Registered
  BY <1>1, CreatorRunning, ListFacts DEF Listed
<1>5. /\ Creators' = {CurrentProc} /\ Context(CurrentProc)' = cpu'
      /\ Registered' = Registered /\ Listed' = Listed /\ Owners' /\ Exit'
  BY <1>1, <1>2, <1>3, CreatorStays
<1>6. \A q \in Registered : name'[q] = name[q] /\ pid'[q] = pid[q]
  BY <1>4 DEF CreateName, CreatePid, CreateCount, TInv, TypeOK
<1>7. Numbers /\ \A q \in Registered : pid[q] < ProgramIdentifier
  BY DEF ListInv, Numbers
<1>8. Back'
  <2>1. Context(CurrentProc) = cpu /\ cpu.at # "release" /\ cpu'.at # "release"
    BY <1>1, <1>3, RunningFacts DEF Creating
  <2>2. previous[first] = NULL /\ \A p \in Registered : previous[next[p]] = p
    BY <1>1, <1>4, <2>1 DEF ListInv, Back, BehindReleased
  <2> QED BY <1>1, <1>3, <1>5, <2>1, <2>2 DEF Back, BehindReleased
<1>9. Order'
  BY <1>1, <1>5, <1>6, OrderFrame
<1>10. ASSUME CreateName PROVE Underway(cpu)' /\ Numbers'
  <2>1. ProgramIdentifier' = ProgramIdentifier /\ name'[n] = ProgramIdentifier /\ cpu.at = "name"
    BY <1>4, <1>10 DEF CreateName, TInv, TypeOK
  <2>2. Underway(cpu)'
    BY <1>1, <1>2, <1>4, <1>5, <2>1 DEF Underway
  <2>3. Numbers'
    BY <1>5, <1>6, <1>7, <2>1 DEF Numbers
  <2> QED BY <2>2, <2>3
<1>11. ASSUME CreatePid PROVE Underway(cpu)' /\ Numbers'
  <2>1. /\ ProgramIdentifier' = ProgramIdentifier /\ pid'[n] = ProgramIdentifier
        /\ name' = name /\ cpu.at = "pid"
    BY <1>4, <1>11 DEF CreatePid, TInv, TypeOK
  <2>2. Underway(cpu)'
    BY <1>1, <1>2, <1>4, <1>5, <2>1 DEF Underway
  <2>3. Numbers'
    BY <1>5, <1>6, <1>7, <2>1 DEF Numbers
  <2> QED BY <2>2, <2>3
<1>12. ASSUME CreateCount PROVE Underway(cpu)' /\ Numbers'
  <2>1. ProgramIdentifier' = (pid[n] + 1) % PidMod /\ name' = name /\ pid' = pid /\ cpu.at = "count"
    BY <1>12 DEF CreateCount
  <2>2. /\ pid[n] = ProgramIdentifier /\ name[n] = ProgramIdentifier
        /\ ProgramIdentifier < MaxPid /\ ProgramIdentifier \in Nat
    BY <1>4, <2>1 DEF Underway, TInv, TypeOK
  <2>3. ProgramIdentifier' = ProgramIdentifier + 1
    BY <2>1, <2>2, PidAssumption DEF NoWrap
  <2>4. \A q \in Registered : pid[q] \in Nat
    BY <1>4 DEF TInv, TypeOK
  <2>5. Underway(cpu)'
    BY <1>1, <1>2, <1>4, <1>5, <1>7, <2>1, <2>2, <2>3 DEF Underway
  <2>6. Numbers'
    BY <1>5, <1>6, <1>7, <2>1, <2>2, <2>3, <2>4 DEF Numbers
  <2> QED BY <2>5, <2>6
<1>13. Underway(cpu)' /\ Numbers'
  BY <1>10, <1>11, <1>12
<1>14. Creation'
  BY <1>1, <1>5, <1>13 DEF Creation, Underway
<1> QED BY <1>5, <1>8, <1>9, <1>13, <1>14 DEF ListInv

\* The first two stores of RegisterChildVNode: the old head points back at
\* the new node, and the new node forward to it.
LEMMA LinkListInv ==
  ASSUME TInv, TInv', ListInv, Link1 \/ Link2
  PROVE  ListInv'
<1> DEFINE n == cpu.ptr
<1>1. /\ cpu.at \in {"link1", "link2"} /\ cpu.at \in Creating
      /\ UNCHANGED <<first, allocated, CurrentProc, saved, pid, name, ProgramIdentifier>>
  BY DEF Link1, Link2, Creating, sched, ids
<1>2. /\ cpu'.prog = cpu.prog /\ cpu'.ptr = n
      /\ cpu'.at = IF cpu.at = "link1" THEN "link2" ELSE "link3"
  BY GotoType DEF Link1, Link2, TInv, TypeOK, Points, Creating, Registers
<1>3. cpu'.at \in Creating /\ cpu'.at \in {"link2", "link3"}
  BY <1>1, <1>2 DEF Creating
<1>4. /\ Creators = {CurrentProc} /\ Underway(cpu) /\ n \in Procs /\ n \notin Listed
      /\ first \in Registered /\ first \in Listed /\ first # NULL
      /\ Registered \subseteq Procs /\ n \notin Registered
      /\ \A a \in Registered : next[a] \in Listed /\ next[a] # first
      /\ Listed \subseteq Nodes
  BY <1>1, CreatorRunning, ListFacts DEF Listed, Nodes
<1>5. /\ Creators' = {CurrentProc} /\ Context(CurrentProc)' = cpu'
      /\ Registered' = Registered /\ Listed' = Listed /\ Owners' /\ Exit'
  BY <1>1, <1>2, <1>3, CreatorStays
<1>6. Numbers'
  BY <1>1, <1>5 DEF Numbers, ListInv
<1>7. \A a \in Registered : previous[next[a]] = a
  BY <1>1 DEF ListInv, Back, BehindReleased
<1>8. CASE Link1
  <2>1. next' = next /\ previous' = [previous EXCEPT ![first] = n] /\ cpu.at = "link1"
    BY <1>4, <1>8 DEF Link1
  <2>2. previous'[first] = n /\ \A x \in Nodes : x # first => previous'[x] = previous[x]
    BY <1>4, <2>1 DEF TInv, TypeOK, Nodes
  <2>3. Underway(cpu)'
    <3>1. n # first /\ n \in Nodes
      BY <1>4 DEF Nodes
    <3> QED BY <1>1, <1>2, <1>4, <1>5, <2>1, <2>2, <3>1 DEF Underway
  <2>4. Creation'
    BY <1>1, <1>5, <2>3 DEF Creation, Underway
  <2>5. Back'
    <3>1. \A a \in Registered : previous'[next[a]] = a
      BY <1>4, <1>7, <2>2
    <3> QED BY <1>1, <1>2, <1>3, <1>5, <2>1, <2>2, <3>1 DEF Back, BehindReleased
  <2> QED BY <1>1, <1>5, <1>6, <2>1, <2>4, <2>5, OrderFrame DEF ListInv
<1>9. CASE Link2
  <2>1. previous' = previous /\ next' = [next EXCEPT ![n] = first] /\ cpu.at = "link2"
    BY <1>9 DEF Link2, lists
  <2>2. next'[n] = first /\ \A x \in Listed : next'[x] = next[x]
    BY <1>4, <2>1 DEF TInv, TypeOK, Nodes
  <2>3. Underway(cpu)'
    BY <1>1, <1>2, <1>4, <1>5, <2>1, <2>2 DEF Underway
  <2>4. Creation'
    BY <1>1, <1>5, <2>3 DEF Creation, Underway
  <2>5. Back'
    <3>1. previous[first] = n
      <4>1. CurrentProc \in Creators /\ Context(CurrentProc) = cpu
        BY <1>1, <1>4, RunningFacts DEF Creating
      <4> QED BY <2>1, <4>1 DEF ListInv, Back
    <3>2. \A a \in Registered : next'[a] = next[a]
      BY <2>2 DEF Listed
    <3> QED BY <1>1, <1>2, <1>3, <1>5, <1>7, <2>1, <3>1, <3>2 DEF Back, BehindReleased
  <2> QED BY <1>1, <1>5, <1>6, <2>2, <2>4, <2>5, OrderFrame DEF ListInv
<1> QED BY <1>8, <1>9

\* The last store puts the new process at the head of the list.
LEMMA Link3ListInv == ASSUME TInv, TInv', ListInv, Link3 PROVE ListInv'
<1> DEFINE n == cpu.ptr
<1>1. /\ cpu.at = "link3" /\ cpu.at \in Creating
      /\ UNCHANGED <<next, previous, allocated, CurrentProc, saved, pid, name, ProgramIdentifier>>
      /\ first' = n
  BY DEF Link3, Creating, sched, ids
<1>2. cpu'.prog = cpu.prog /\ cpu'.at = "run"
  BY GotoType, NullAssumption DEF Link3, TInv, TypeOK, Points, Registers
<1>3. /\ Creators = {CurrentProc} /\ Registered = allocated \ {n}
      /\ Underway(cpu) /\ n \in Procs /\ n \notin Listed /\ n # Self
      /\ CurrentProc \in allocated /\ cpu.prog = CurrentProc
      /\ Context(CurrentProc) = cpu /\ CurrentProc # NULL
  BY <1>1, CreatorRunning, RunningFacts, ProcsAssumption DEF Creating
<1>4. \A p \in allocated : Context(p)' = IF p = CurrentProc THEN cpu' ELSE Context(p)
  BY <1>1, <1>2, <1>3 DEF Context
<1>5. Creators' = {}
  BY <1>1, <1>2, <1>3, <1>4 DEF Creators, Creating
<1>6. InCreation' = {} /\ InRelease' = {}
  BY <1>2, <1>5 DEF InCreation, Creators, InRelease
<1>7. Registered' = Registered \cup {n} /\ Listed' = Listed \cup {n}
  BY <1>1, <1>3, <1>6 DEF Registered, Listed, Underway
<1>8. /\ name[n] = pid[n] /\ pid[n] < ProgramIdentifier /\ next[n] = first /\ previous[n] = NULL
      /\ \A q \in Registered : pid[q] < pid[n]
  BY <1>1, <1>3 DEF Underway
<1>9. /\ \A q \in Registered : pid[q] \in Nat /\ Rank(q) = pid[q] /\ q # Self
      /\ pid[n] \in Nat /\ Rank(n) = pid[n] /\ Rank(Self) = -1
      /\ first \in Registered
  BY <1>3, ListFacts DEF TInv, TypeOK, Rank
<1>10. Owners' /\ Creation' /\ Exit'
  BY <1>1, <1>2, <1>5, <1>6 DEF Owners, Creation, Exit, Exiting, ListInv
<1>11. Numbers'
  BY <1>1, <1>7, <1>8, <1>9 DEF Numbers, ListInv
<1>12. Back'
  <2>1. previous[first] = n /\ \A a \in Registered : previous[next[a]] = a
    BY <1>1, <1>3 DEF ListInv, Back, BehindReleased
  <2>2. cpu'.at # "release"
    BY <1>2
  <2> QED BY <1>1, <1>5, <1>7, <1>8, <2>1, <2>2 DEF Back, BehindReleased
<1>13. Order'
  <2>1. NewestFirst(Listed)
    BY DEF ListInv, Order
  <2>2. \A x \in Listed' : Rank(x)' = Rank(x) /\ Rank(x) \in Int
    BY <1>1, <1>7, <1>9 DEF Rank, Listed
  <2>3. \A c \in Listed : Rank(c) < Rank(n)
    BY <1>8, <1>9 DEF Listed
  <2>4. first' \in Listed' /\ next'[Self] = NULL /\ \A c \in Listed' : Rank(c)' <= Rank(first)'
    BY <1>1, <1>7, <2>1, <2>2, <2>3 DEF NewestFirst
  <2>5. ASSUME NEW a \in Listed' \ {Self}
        PROVE  /\ next'[a] \in Listed' /\ Rank(next'[a]) < Rank(a)
               /\ \A c \in Listed' : Rank(c) < Rank(a) => Rank(c) <= Rank(next'[a])
    <3>1. CASE a = n
      <4>1. next'[a] = first /\ first \in Listed
        BY <1>1, <1>8, <1>9, <3>1 DEF Listed
      <4> QED BY <1>7, <2>1, <2>2, <2>3, <3>1, <4>1 DEF NewestFirst
    <3>2. CASE a \in Listed \ {Self}
      <4>1. next'[a] = next[a] /\ next[a] \in Listed
        BY <1>1, <2>1, <3>2 DEF NewestFirst
      <4>2. ~(Rank(n) < Rank(a))
        BY <1>7, <2>2, <2>3, <3>2
      <4> QED BY <1>7, <2>1, <3>2, <4>1, <4>2 DEF NewestFirst
    <3> QED BY <1>7, <3>1, <3>2
  <2>6. \A a \in Listed' \ {Self} : next'[a] \in Listed'
    BY <2>5
  <2> QED BY <2>2, <2>4, <2>5, <2>6 DEF Order, NewestFirst
<1> QED BY <1>10, <1>11, <1>12, <1>13 DEF ListInv

----------------------------------------------------------------------------
\* SchedulerExit: while it runs nothing is being created, and it is the
\* program of CurrentProc.
LEMMA ExitRunning ==
  ASSUME TInv, ListInv, cpu.at \in Exiting
  PROVE  /\ Creators = {} /\ InCreation = {}
         /\ Registered = allocated \ InRelease
         /\ CurrentProc \in allocated /\ CurrentProc \in Procs /\ CurrentProc # NULL
         /\ cpu.prog = CurrentProc /\ CurrentProc # kmain
<1>1. Creators = {} /\ cpu.prog # kmain /\ cpu.at # "spin"
  BY DEF ListInv, Exit, Exiting
<1>2. InCreation = {}
  BY <1>1, CreationSet DEF ListInv
<1> QED BY <1>1, <1>2, RunningFacts DEF Registered

\* A step of the exit changes no other program's control state.
LEMMA ExitStays ==
  ASSUME TInv, ListInv, Creators = {}, cpu.at # "spin",
         cpu'.at \notin Creating, cpu'.prog = cpu.prog,
         saved' = saved, allocated' \subseteq allocated
  PROVE  Creators' = {} /\ InCreation' = {} /\ Creation'
<1>1. \A p \in allocated' : Context(p)' = IF p = cpu.prog THEN cpu' ELSE Context(p)
  BY DEF Context
<1>2. Creators' = {}
  BY <1>1 DEF Creators
<1> QED BY <1>2 DEF InCreation, Creators, Creation

LEMMA ExitCliListInv == ASSUME TInv, TInv', ListInv, ExitCli, ~overlap' PROVE ListInv'
<1>1. /\ cpu.at = "run" /\ cpu.prog # kmain /\ InCreation = {}
      /\ UNCHANGED <<first, next, previous, allocated, CurrentProc, saved, pid, name, ProgramIdentifier>>
  BY DEF ExitCli, lists, ids, sched
<1>2. Creators = {}
  BY <1>1, CreationSet DEF ListInv
<1>3. cpu'.at = "unlink" /\ cpu'.ptr = first /\ cpu'.prog = cpu.prog
  BY GotoType DEF ExitCli, TInv, TypeOK, Points, Exiting
<1>4. Creators' = {} /\ InCreation' = {} /\ Creation'
  BY <1>1, <1>2, <1>3, ExitStays DEF Creating
<1>5. InRelease = {} /\ InRelease' = {}
  BY <1>1, <1>3 DEF InRelease
<1>6. Registered' = Registered
  BY <1>1, <1>4, <1>5 DEF Registered
<1>7. Owners' /\ Numbers' /\ Exit'
  BY <1>1, <1>3, <1>4, <1>6 DEF Owners, Numbers, Exit, ListInv
<1>8. Back'
  BY <1>1, <1>2, <1>3, <1>4, <1>6 DEF Back, BehindReleased, ListInv
<1>9. Order'
  BY <1>1, <1>6, OrderFrame
<1> QED BY <1>4, <1>7, <1>8, <1>9 DEF ListInv

\* The facts both ways of unlinking use: the process leaves the list, whose
\* other members keep their places and their Previous pointers.
LEMMA UnlinkFacts ==
  ASSUME TInv, ListInv, cpu.at \in {"unlink", "walk"}
  PROVE  /\ CurrentProc \in Registered /\ Registered = allocated
         /\ next[CurrentProc] \in Listed /\ next[CurrentProc] # CurrentProc
         /\ previous[first] = NULL
         /\ \A a \in Registered : previous[next[a]] = a
         /\ \A x \in Listed : Rank(x) \in Int
         /\ \A x, y \in Listed : Rank(x) = Rank(y) => x = y
<1>1. cpu.at \in Exiting /\ cpu.at # "release"
  BY DEF Exiting
<1>2. Registered = allocated /\ CurrentProc \in Registered /\ Creators = {}
  BY <1>1, ExitRunning DEF InRelease
<1>3. previous[first] = NULL /\ \A a \in Registered : previous[next[a]] = a
  BY <1>1, <1>2 DEF ListInv, Back, BehindReleased
<1>4. \A x \in Listed : Rank(x) \in Int
  BY ListFacts DEF Listed
<1>5. \A x, y \in Listed : Rank(x) = Rank(y) => x = y
  <2>1. \A x, y \in Registered : pid[x] = pid[y] => x = y
    BY DEF ListInv, Numbers
  <2>2. \A x \in Registered : Rank(x) = pid[x] /\ pid[x] # Rank(Self)
    BY ListFacts
  <2> QED BY <2>1, <2>2 DEF Listed
<1>6. next[CurrentProc] \in Listed /\ Rank(next[CurrentProc]) < Rank(CurrentProc)
  BY <1>2, ListFacts DEF ListInv, Order, NewestFirst, Listed
<1> QED BY <1>2, <1>3, <1>4, <1>5, <1>6 DEF Listed

\* The head of the list exits.
LEMMA UnlinkHeadListInv ==
  ASSUME TInv, TInv', ListInv, ExitUnlinkHead, cpu.ptr = CurrentProc
  PROVE  ListInv'
<1> DEFINE c == CurrentProc
<1>1. /\ cpu.at = "unlink" /\ cpu.at \in Exiting
      /\ UNCHANGED <<next, previous, allocated, CurrentProc, saved, pid, name, ProgramIdentifier>>
      /\ first' = next[c]
  BY DEF ExitUnlinkHead, Exiting, ids, sched
<1>2. cpu'.at = "release" /\ cpu'.prog = cpu.prog
  BY GotoType DEF ExitUnlinkHead, TInv, TypeOK, Points, Exiting
<1>3. first = c /\ first \in Registered
  BY <1>1, ListFacts DEF ListInv, Exit
<1>4. /\ c \in Registered /\ Registered = allocated
      /\ next[c] \in Listed /\ next[c] # c /\ previous[c] = NULL
      /\ \A a \in Registered : previous[next[a]] = a
      /\ \A x \in Listed : Rank(x) \in Int
      /\ \A x, y \in Listed : Rank(x) = Rank(y) => x = y
  BY <1>1, <1>3, UnlinkFacts
<1>5. Creators = {} /\ cpu.prog = c /\ c # kmain /\ c # NULL
  BY <1>1, ExitRunning
<1>6. Creators' = {} /\ InCreation' = {} /\ Creation'
  BY <1>1, <1>2, <1>5, ExitStays DEF Creating, Exiting
<1>7. Registered' = Registered \ {c} /\ Listed' = Listed \ {c} /\ c # Self
  <2>1. InRelease' = {c}
    BY <1>1, <1>2 DEF InRelease
  <2> QED BY <1>1, <1>4, <1>6, <2>1, ListFacts DEF Registered, Listed
<1>8. Owners' /\ Numbers'
  BY <1>1, <1>2, <1>6, <1>7 DEF Owners, Numbers, ListInv
<1>9. Exit'
  BY <1>1, <1>2, <1>4, <1>5, <1>6, <1>7 DEF Exit, Exiting
<1>10. \A a \in Registered : a # c => next[a] \in Listed /\ next[a] # next[c] /\ next[a] # c
  BY <1>3, <1>4, ListFacts
<1>11. Back'
  <2>1. previous[next[c]] = c
    BY <1>4
  <2> QED BY <1>1, <1>2, <1>4, <1>6, <1>7, <1>10, <2>1 DEF Back, BehindReleased
<1>12. Order'
  <2>1. NewestFirst(Listed)
    BY DEF ListInv, Order
  <2>2. \A x \in Listed' : Rank(x)' = Rank(x)
    BY <1>1 DEF Rank
  <2>3. c \in Listed /\ Self \in Listed
    BY <1>4 DEF Listed
  <2>4. \A x \in Listed' : Rank(x) <= Rank(next[c])
    <3>1. \A x \in Listed' : Rank(x) <= Rank(c) /\ Rank(x) # Rank(c)
      BY <1>3, <1>4, <1>7, <2>1, <2>3 DEF NewestFirst
    <3>2. \A x \in Listed' : Rank(x) < Rank(c)
      BY <1>4, <1>7, <2>3, <3>1
    <3> QED BY <1>7, <2>1, <2>3, <3>2 DEF NewestFirst
  <2>5. first' \in Listed' /\ next'[Self] = NULL /\ \A x \in Listed' : Rank(x)' <= Rank(first)'
    BY <1>1, <1>4, <1>7, <2>1, <2>2, <2>4 DEF NewestFirst
  <2>6. \A a \in Listed' \ {Self} :
           /\ next'[a] \in Listed' /\ Rank(next'[a]) < Rank(a)
           /\ \A x \in Listed' : Rank(x) < Rank(a) => Rank(x) <= Rank(next'[a])
    BY <1>1, <1>7, <1>10, <2>1 DEF NewestFirst, Listed
  <2> QED BY <2>2, <2>5, <2>6 DEF Order, NewestFirst
<1> QED BY <1>6, <1>8, <1>9, <1>11, <1>12 DEF ListInv

\* The walk of SchedulerExit starts, or goes on, in front of the process.
LEMMA WalkOnListInv ==
  ASSUME TInv, TInv', ListInv,
         \/ ExitUnlinkHead /\ cpu.ptr # CurrentProc
         \/ ExitWalk /\ cpu.ptr # NULL /\ next[cpu.ptr] # CurrentProc
  PROVE  ListInv'
<1> DEFINE c == CurrentProc
<1>1. /\ cpu.at \in {"unlink", "walk"} /\ cpu.at \in Exiting
      /\ UNCHANGED <<first, next, previous, allocated, CurrentProc, saved, pid, name, ProgramIdentifier>>
  BY DEF ExitUnlinkHead, ExitWalk, Exiting, ids, sched
<1>2. /\ c \in Registered /\ \A x \in Listed : Rank(x) \in Int
      /\ \A x, y \in Listed : Rank(x) = Rank(y) => x = y
  BY <1>1, UnlinkFacts
<1>3. Creators = {} /\ cpu.prog = c /\ c # kmain
  BY <1>1, ExitRunning
<1>4. cpu'.at = "walk" /\ cpu'.prog = cpu.prog
      /\ cpu'.ptr = IF cpu.at = "unlink" THEN first ELSE next[cpu.ptr]
  <2>1. cpu.ptr \in Nodes \cup {NULL} /\ (cpu.ptr # NULL => next[cpu.ptr] \in Nodes \cup {NULL})
    BY RegistersFields DEF TInv, TypeOK
  <2>2. cpu.at = "unlink" => cpu.ptr = first
    BY DEF ListInv, Exit
  <2> QED BY <2>1, <2>2, GotoType DEF ExitUnlinkHead, ExitWalk, TInv, TypeOK, Points, Exiting
<1>5. Creators' = {} /\ InCreation' = {} /\ Creation'
  BY <1>1, <1>3, <1>4, ExitStays DEF Creating, Exiting
<1>6. InRelease = {} /\ InRelease' = {}
  BY <1>1, <1>4 DEF InRelease
<1>7. Registered' = Registered
  BY <1>1, <1>5, <1>6, ExitRunning DEF Registered
<1>8. cpu'.ptr \in Registered /\ pid[cpu'.ptr] > pid[c]
  <2>1. NewestFirst(Listed) /\ c \in Listed /\ Rank(c) = pid[c] /\ pid[c] \in Nat
    BY <1>2, ListFacts DEF ListInv, Order, Listed
  <2>2. CASE cpu.at = "unlink"
    <3>1. cpu'.ptr = first /\ first # c
      BY <1>4, <2>2 DEF ListInv, Exit, ExitUnlinkHead, ExitWalk
    <3>2. first \in Registered /\ Rank(first) = pid[first] /\ pid[first] \in Nat /\ first \in Listed
      BY ListFacts DEF Listed
    <3>3. Rank(c) <= Rank(first) /\ Rank(c) # Rank(first)
      BY <1>2, <2>1, <3>1, <3>2 DEF NewestFirst
    <3> QED BY <2>1, <3>1, <3>2, <3>3
  <2>3. CASE cpu.at = "walk"
    <3>1. cpu.ptr \in Registered /\ pid[cpu.ptr] > pid[c] /\ cpu'.ptr = next[cpu.ptr]
          /\ next[cpu.ptr] # c
      BY <1>4, <2>3 DEF ListInv, Exit, ExitUnlinkHead
    <3>2. next[cpu.ptr] \in Listed /\ cpu.ptr \in Listed \ {Self} /\ Rank(cpu.ptr) = pid[cpu.ptr]
          /\ pid[cpu.ptr] \in Nat
      BY <3>1, ListFacts DEF Listed
    <3>3. Rank(c) < Rank(cpu.ptr)
      BY <2>1, <3>1, <3>2
    <3>4. Rank(c) <= Rank(next[cpu.ptr]) /\ Rank(c) # Rank(next[cpu.ptr])
      BY <1>2, <2>1, <3>1, <3>2, <3>3 DEF NewestFirst
    <3>5. next[cpu.ptr] \in Registered
      BY <2>1, <3>2, <3>4, ListFacts DEF Listed
    <3> QED BY <2>1, <3>1, <3>4, <3>5, ListFacts
  <2> QED BY <1>1, <2>2, <2>3
<1>9. Owners' /\ Numbers' /\ Exit'
  BY <1>1, <1>3, <1>4, <1>5, <1>7, <1>8 DEF Owners, Numbers, Exit, ListInv
<1>10. Back'
  BY <1>1, <1>3, <1>4, <1>5, <1>7 DEF Back, BehindReleased, ListInv
<1>11. Order'
  BY <1>1, <1>7, OrderFrame
<1> QED BY <1>5, <1>9, <1>10, <1>11 DEF ListInv

\* The walk has found the predecessor, and unlinks the process.
LEMMA UnlinkListInv ==
  ASSUME TInv, TInv', ListInv, ExitWalk, cpu.ptr # NULL, next[cpu.ptr] = CurrentProc
  PROVE  ListInv'
<1> DEFINE c == CurrentProc
           q == cpu.ptr
<1>1. /\ cpu.at = "walk" /\ cpu.at \in Exiting
      /\ UNCHANGED <<first, previous, allocated, CurrentProc, saved, pid, name, ProgramIdentifier>>
      /\ next' = [next EXCEPT ![q] = next[c]]
  BY DEF ExitWalk, Exiting, ids, sched
<1>2. cpu'.at = "release" /\ cpu'.prog = cpu.prog
  BY GotoType DEF ExitWalk, TInv, TypeOK, Points, Exiting
<1>3. q \in Registered /\ pid[q] > pid[c]
  BY <1>1 DEF ListInv, Exit
<1>4. /\ c \in Registered /\ Registered = allocated
      /\ next[c] \in Listed /\ next[c] # c
      /\ previous[first] = NULL
      /\ \A a \in Registered : previous[next[a]] = a
      /\ \A x \in Listed : Rank(x) \in Int
      /\ \A x, y \in Listed : Rank(x) = Rank(y) => x = y
  BY <1>1, UnlinkFacts
<1>5. Creators = {} /\ cpu.prog = c /\ c # kmain /\ c # NULL
  BY <1>1, ExitRunning
<1>6. Creators' = {} /\ InCreation' = {} /\ Creation'
  BY <1>1, <1>2, <1>5, ExitStays DEF Creating, Exiting
<1>7. Registered' = Registered \ {c} /\ Listed' = Listed \ {c} /\ c # Self /\ q # Self
  <2>1. InRelease' = {c}
    BY <1>1, <1>2 DEF InRelease
  <2> QED BY <1>1, <1>3, <1>4, <1>6, <2>1, ListFacts DEF Registered, Listed
<1>8. q # c /\ first # c
  <2>1. pid[q] \in Nat /\ pid[c] \in Nat
    BY <1>3, <1>4, ListFacts
  <2> QED BY <1>3, <2>1, ListFacts
<1>9. /\ next'[q] = next[c]
      /\ \A x \in Nodes : x # q => next'[x] = next[x]
  BY <1>1, <1>3, ListFacts DEF TInv, TypeOK, Nodes
<1>10. \A x \in Listed : x \in Nodes
  BY <1>4 DEF Listed, TInv, TypeOK, Nodes
<1>11. /\ next'[c] = next[c] /\ next'[Self] = next[Self]
       /\ \A a \in Registered : a # q => next'[a] = next[a]
  BY <1>4, <1>7, <1>8, <1>9, <1>10 DEF Listed
<1>12. \A a \in Registered : a # c => next[a] \in Listed /\ next[a] # next[c]
  BY <1>4, ListFacts
<1>13. \A a \in Registered : a # q => next[a] # c
  BY <1>3, ListFacts
<1>14. Owners' /\ Numbers'
  BY <1>1, <1>2, <1>6, <1>7 DEF Owners, Numbers, ListInv
<1>15. previous[c] = q /\ q # NULL
  BY <1>3, <1>4
<1>16. Exit'
  BY <1>1, <1>2, <1>3, <1>4, <1>5, <1>6, <1>7, <1>8, <1>9, <1>11, <1>15 DEF Exit, Exiting
<1>17. Back'
  <2>1. first # next[c]
    BY <1>4, ListFacts
  <2>2. ~BehindReleased(first)'
    BY <1>1, <1>11, <2>1 DEF BehindReleased
  <2>3. ASSUME NEW a \in Registered'
        PROVE  previous'[next'[a]] = IF cpu'.at = "release" /\ next'[a] = next'[c] THEN c ELSE a
    <3>1. a \in Registered /\ a # c
      BY <1>7
    <3>2. CASE a = q
      BY <1>1, <1>2, <1>4, <1>9, <1>11, <3>2
    <3>3. CASE a # q
      BY <1>1, <1>4, <1>11, <1>12, <3>1, <3>3
    <3> QED BY <3>2, <3>3
  <2> QED BY <1>1, <1>4, <1>6, <2>2, <2>3 DEF Back, BehindReleased
<1>18. Order'
  <2>1. NewestFirst(Listed)
    BY DEF ListInv, Order
  <2>2. \A x \in Listed' : Rank(x)' = Rank(x)
    BY <1>1 DEF Rank
  <2>3. c \in Listed /\ q \in Listed /\ first \in Listed
    BY <1>3, <1>4, ListFacts DEF Listed
  <2>4. first' \in Listed' /\ next'[Self] = NULL /\ \A x \in Listed' : Rank(x)' <= Rank(first)'
    BY <1>1, <1>7, <1>8, <1>11, <2>1, <2>2, <2>3 DEF NewestFirst
  <2>5. ASSUME NEW a \in Listed' \ {Self}
        PROVE  /\ next'[a] \in Listed' /\ Rank(next'[a]) < Rank(a)
               /\ \A x \in Listed' : Rank(x) < Rank(a) => Rank(x) <= Rank(next'[a])
    <3>1. a \in Listed \ {Self} /\ a \in Registered /\ a # c
      BY <1>7 DEF Listed
    <3>2. CASE a # q
      <4>1. next'[a] = next[a] /\ next[a] # c
        BY <1>11, <1>13, <3>1, <3>2
      <4> QED BY <1>7, <2>1, <3>1, <4>1 DEF NewestFirst
    <3>3. CASE a = q
      <4>1. Rank(c) < Rank(q) /\ Rank(next[c]) < Rank(c)
        BY <1>7, <2>1, <2>3 DEF NewestFirst
      <4>2. Rank(next[c]) \in Int /\ Rank(c) \in Int /\ Rank(q) \in Int
        BY <1>4, <2>3
      <4>3. ASSUME NEW x \in Listed', Rank(x) < Rank(q) PROVE Rank(x) <= Rank(next[c])
        <5>1. x \in Listed /\ x # c /\ Rank(x) \in Int /\ Rank(x) # Rank(c)
          BY <1>4, <1>7, <2>3
        <5>2. Rank(x) <= Rank(c)
          BY <1>7, <2>1, <2>3, <4>3, <5>1 DEF NewestFirst
        <5>3. Rank(x) < Rank(c)
          BY <4>2, <5>1, <5>2
        <5> QED BY <1>7, <2>1, <2>3, <5>1, <5>3 DEF NewestFirst
      <4> QED BY <1>4, <1>7, <1>9, <3>3, <4>1, <4>2, <4>3
    <3> QED BY <3>2, <3>3
  <2>6. \A a \in Listed' \ {Self} : next'[a] \in Listed'
    BY <2>5
  <2> QED BY <2>2, <2>4, <2>5, <2>6 DEF Order, NewestFirst
<1> QED BY <1>6, <1>14, <1>16, <1>17, <1>18 DEF ListInv

\* UnregisterVNode and DeleteVNode: the second unlinking repeats the first
\* and repairs the Previous pointer behind the process.
LEMMA ReleaseListInv == ASSUME TInv, TInv', ListInv, ExitRelease PROVE ListInv'
<1> DEFINE c == CurrentProc
<1>1. /\ cpu.at = "release" /\ cpu.at \in Exiting
      /\ UNCHANGED <<first, saved, pid, name, ProgramIdentifier>>
      /\ allocated' = allocated \ {c} /\ CurrentProc' = NULL
  BY DEF ExitRelease, Exiting, ids
<1>2. cpu'.at = "spin" /\ cpu'.prog = cpu.prog
  BY GotoType DEF ExitRelease, TInv, TypeOK, Points
<1>3. Creators = {} /\ cpu.prog = c /\ c # kmain /\ c # NULL /\ c \in Procs
  BY <1>1, ExitRunning
<1>4. Creators' = {} /\ InCreation' = {} /\ Creation'
  BY <1>1, <1>2, <1>3, ExitStays DEF Creating
<1>5. Registered' = Registered /\ c \notin Listed /\ Listed' = Listed
  <2>1. InRelease = {c} /\ InRelease' = {}
    BY <1>1, <1>2 DEF InRelease
  <2> QED BY <1>1, <1>3, <1>4, <2>1, ExitRunning, ProcsAssumption DEF Registered, Listed
<1>6. \A x \in Listed : x \in Nodes /\ x # c
  BY <1>5, ListFacts DEF Listed, Nodes
<1>7. /\ \A x \in Listed : next'[x] = IF x = previous[c] THEN next[c] ELSE next[x]
      /\ \A x \in Listed : previous'[x] = IF x = next[c] THEN previous[c] ELSE previous[x]
  BY <1>6 DEF ExitRelease
<1>8. /\ next[c] \in Listed
      /\ previous[c] = NULL => first = next[c]
      /\ previous[c] # NULL => previous[c] \in Registered /\ next[previous[c]] = next[c]
  BY <1>1 DEF ListInv, Exit
<1>9. \A x \in Listed : next'[x] = next[x]
  BY <1>7, <1>8, ListFacts
<1>10. Owners' /\ Numbers' /\ Exit'
  BY <1>1, <1>2, <1>3, <1>4, <1>5 DEF Owners, Numbers, Exit, Exiting, ListInv
<1>11. Back'
  <2>1. \A a \in Registered : /\ previous[next[a]] = IF next[a] = next[c] THEN c ELSE a
                              /\ next[a] \in Listed /\ next'[a] = next[a]
    BY <1>1, <1>9, ListFacts DEF ListInv, Back, BehindReleased, Listed
  <2>2. \A a \in Registered : next[a] = next[c] => previous[c] = a
    BY <1>8, ListFacts
  <2>3. \A a \in Registered : previous'[next'[a]] = a
    BY <1>7, <2>1, <2>2
  <2>4. first # next[c] => previous[first] = NULL
    BY <1>1, <1>3 DEF ListInv, Back, BehindReleased
  <2>5. first = next[c] => previous[c] = NULL
    BY <1>8, ListFacts
  <2>6. previous'[first] = NULL
    BY <1>7, <2>4, <2>5, ListFacts DEF Listed
  <2> QED BY <1>1, <1>2, <1>4, <1>5, <2>3, <2>6 DEF Back, BehindReleased
<1>12. Order'
  BY <1>1, <1>5, <1>9, OrderFrame
<1> QED BY <1>4, <1>10, <1>11, <1>12 DEF ListInv

----------------------------------------------------------------------------
\* Once a call has overlapped a creation nothing more is claimed.
LInv == ~overlap => ListInv

LEMMA StepLInv == ASSUME NoWrap, TInv, TInv', LInv, [Next]_vars PROVE LInv'
<1> SUFFICES ASSUME ~overlap' PROVE ListInv'
  BY DEF LInv
<1>1. CASE UNCHANGED vars
  <2>1. overlap' = overlap /\ ListInv
    BY <1>1 DEF vars, LInv
  <2> QED BY <1>1, <2>1
          DEF vars, lists, ids, sched, ListInv, Owners, Creation, Underway, Numbers, Exit, Back,
              BehindReleased, Order, NewestFirst, Listed, Registered, InRelease, InCreation,
              Creators, Context, Rank
<1>2. CASE Next
  <2>1. ~overlap
    BY <1>2 DEF Next, InCall, Tick, CreateNode, CreateName, CreatePid, CreateCount, Link1, Link2,
                Link3, ExitCli, ExitUnlinkHead, ExitWalk, ExitRelease
  <2>2. ListInv
    BY <2>1 DEF LInv
  <2>3. cpu.at = "walk" => cpu.ptr # NULL
    BY <2>2, ListFacts DEF ListInv, Exit, Listed
  <2>4. CASE Tick
    BY <2>2, <2>4, TickListInv
  <2>5. CASE (\E n \in Procs : CreateNode(n)) \/ CreateName \/ CreatePid \/ CreateCount
    BY <2>2, <2>5, CreateNodeListInv, NumberListInv
  <2>6. CASE Link1 \/ Link2 \/ Link3
    BY <2>2, <2>6, LinkListInv, Link3ListInv
  <2>7. CASE ExitCli \/ ExitUnlinkHead
    BY <2>2, <2>7, ExitCliListInv, UnlinkHeadListInv, WalkOnListInv
  <2>8. CASE ExitWalk
    <3>1. cpu.ptr # NULL
      BY <2>3, <2>8 DEF ExitWalk
    <3> QED BY <2>2, <2>8, <3>1, WalkOnListInv, UnlinkListInv
  <2>9. CASE ExitRelease
    BY <2>2, <2>9, ReleaseListInv
  <2> QED BY <1>2, <2>4, <2>5, <2>6, <2>7, <2>8, <2>9 DEF Next, InCall
<1> QED BY <1>1, <1>2

LEMMA ListInvHolds == ASSUME NoWrap PROVE Spec => [](TInv /\ LInv)
<1>1. Init => TInv /\ LInv
  BY InitTInv, InitListInv DEF LInv
<1>2. TInv /\ LInv /\ [Next]_vars => (TInv /\ LInv)'
  BY StepTInv, StepLInv
<1> QED BY <1>1, <1>2, PTL DEF Spec

\* The list of /proc (core.c:102, 118-129, 139) holds the processes that
\* exist, newest first, between any two stores that creating and exiting do.
THEOREM ListCorrect == ASSUME NoWrap PROVE Spec => []ProcListed
<1>1. TInv /\ LInv => ProcListed
  BY DEF LInv, ListInv, Order, Listed, ProcListed
<1> QED BY <1>1, ListInvHolds, PTL

\* CommitNextProcess (core.c:27-45) always reaches an existing process.
THEOREM PickCorrect == ASSUME NoWrap PROVE Spec => []PicksAProcess
<1>1. TInv /\ LInv => PicksAProcess
  BY NextProcListed, ListFacts DEF LInv, PicksAProcess
<1> QED BY <1>1, ListInvHolds, PTL

\* A context switch (switch.s, core.c:15-25) gives the processor to the
\* program of CurrentProc and to nobody else's.
THEOREM SwitchCorrect == ASSUME NoWrap PROVE Spec => []RunsCurrentProc
<1>1. TInv /\ LInv => RunsCurrentProc
  BY DEF LInv, ListInv, Owners, RunsCurrentProc, TInv, Control
<1> QED BY <1>1, ListInvHolds, PTL

\* The registers of a process that waits are its own (CommitProcessSave).
THEOREM SavedCorrect == ASSUME NoWrap PROVE Spec => []SavedIsOwn
<1>1. TInv /\ LInv => SavedIsOwn
  BY DEF LInv, ListInv, Owners, SavedIsOwn, TInv, TypeOK, Control
<1> QED BY <1>1, ListInvHolds, PTL

\* Process numbers are unique (core.c:97), and name the processes.
THEOREM PidsCorrect == ASSUME NoWrap PROVE Spec => []PidsUnique
<1>1. TInv /\ LInv => PidsUnique
  BY DEF LInv, ListInv, Numbers, PidsUnique
<1> QED BY <1>1, ListInvHolds, PTL

\* Every node but the head is the Next of one before it.
LEMMA HasPredecessor ==
  ASSUME TInv, ListInv, NEW b \in Listed, b # first
  PROVE  \E a \in Registered : next[a] = b
<1>1. /\ \A x \in Registered : Rank(x) \in Nat
      /\ \A x \in Listed : Rank(x) \in Int
      /\ \A x, y \in Listed : Rank(x) = Rank(y) => x = y
  <2>1. \A x \in Registered : Rank(x) = pid[x] /\ pid[x] \in Nat
    BY ListFacts
  <2>2. Rank(Self) = -1
    BY DEF Rank
  <2>3. \A x, y \in Registered : pid[x] = pid[y] => x = y
    BY DEF ListInv, Numbers
  <2>4. \A x \in Registered : Rank(x) \in Nat
    BY <2>1
  <2>5. \A x \in Listed : Rank(x) \in Int
    BY <2>2, <2>4 DEF Listed
  <2>6. ASSUME NEW x \in Listed, NEW y \in Listed, Rank(x) = Rank(y)
        PROVE  x = y
    <3>1. CASE x = Self
      BY <2>2, <2>4, <2>6, <3>1 DEF Listed
    <3>2. CASE y = Self
      BY <2>2, <2>4, <2>6, <3>2 DEF Listed
    <3>3. CASE x # Self /\ y # Self
      BY <2>1, <2>3, <2>6, <3>3 DEF Listed
    <3> QED BY <3>1, <3>2, <3>3
  <2> QED BY <2>4, <2>5, <2>6
<1>2. NewestFirst(Listed) /\ first \in Registered /\ Registered = Listed \ {Self}
  BY ListFacts DEF ListInv, Order, Listed
<1> DEFINE S == {Rank(a) : a \in {x \in Registered : Rank(b) < Rank(x)}}
<1>3. S \subseteq Nat /\ S # {}
  <2>1. Rank(b) <= Rank(first) /\ Rank(b) # Rank(first)
    BY <1>1, <1>2 DEF NewestFirst
  <2>2. Rank(b) < Rank(first)
    BY <1>1, <1>2, <2>1
  <2> QED BY <1>1, <1>2, <2>2
<1>4. PICK m \in S : \A y \in S : m <= y
  BY <1>3, LeastNatural
<1>5. PICK a \in Registered : Rank(b) < Rank(a) /\ m = Rank(a)
  BY <1>4
<1>6. /\ next[a] \in Listed /\ Rank(next[a]) < Rank(a) /\ Rank(b) <= Rank(next[a])
  BY <1>2, <1>5 DEF NewestFirst
<1>7. ~(Rank(b) < Rank(next[a]))
  <2> SUFFICES ASSUME Rank(b) < Rank(next[a]) PROVE FALSE
    OBVIOUS
  <2>1. next[a] \in Registered
    <3>1. next[a] = Self => ~(Rank(b) < Rank(Self))
      BY <1>1 DEF Rank, Listed
    <3> QED BY <1>2, <1>6, <3>1
  <2>2. Rank(next[a]) \in S
    BY <2>1
  <2>3. m <= Rank(next[a])
    BY <1>4, <2>2
  <2> QED BY <1>1, <1>5, <1>6, <2>1, <2>3
<1>8. Rank(next[a]) = Rank(b)
  BY <1>1, <1>6, <1>7
<1> QED BY <1>1, <1>6, <1>8

\* Previous mirrors Next between calls (vnode.c:230-238, 271-283).
THEOREM LinksCorrect == ASSUME NoWrap PROVE Spec => []DoublyLinked
<1>1. TInv /\ LInv => DoublyLinked
  <2> SUFFICES ASSUME TInv, LInv, ~overlap, Quiet
               PROVE  /\ previous[first] = NULL
                      /\ \A a, b \in Listed : next[a] = b <=> previous[b] = a
    BY DEF DoublyLinked, Listed
  <2>1. ListInv /\ cpu.at # "release" /\ InCreation = {}
    BY DEF LInv, Quiet
  <2>2. Creators = {}
    BY <2>1, CreationSet DEF ListInv
  <2>3. previous[first] = NULL /\ \A a \in Registered : previous[next[a]] = a
    BY <2>1, <2>2 DEF ListInv, Back, BehindReleased
  <2>4. /\ Self \notin Registered /\ NULL \notin Listed
        /\ \A a \in Registered : next[a] \in Listed
    BY <2>1, ListFacts
  <2>5. next[Self] = NULL
    BY <2>1 DEF ListInv, Order, NewestFirst
  <2>6. \A b \in Listed : b # first => \E a \in Registered : next[a] = b
    BY <2>1, HasPredecessor
  <2> QED BY <2>3, <2>4, <2>5, <2>6 DEF Listed
<1> QED BY <1>1, ListInvHolds, PTL
----------------------------------------------------------------------------
(* The queue of RoundRobin.                                                *)

\* q lists the processes S by descending number.
Lists(q, S, f) ==
    /\ q \in Seq(S)
    /\ \A p \in S : \E i \in 1..Len(q) : q[i] = p
    /\ \A i, j \in 1..Len(q) : i < j => f[q[i]] > f[q[j]]

Numbering(S, f) ==
    /\ \A p \in S : f[p] \in Nat
    /\ \A p, q \in S : f[p] = f[q] => p = q

LEMMA ListsFacts ==
  ASSUME NEW S, NEW f, NEW u, Lists(u, S, f)
  PROVE  /\ u \in Seq(S)
         /\ Len(u) \in Nat /\ \A k \in 1..Len(u) : u[k] \in S
         /\ \A p \in S : \E k \in 1..Len(u) : u[k] = p
         /\ \A k, l \in 1..Len(u) : k < l => f[u[k]] > f[u[l]]
<1>1. u \in Seq(S)
  BY DEF Lists
<1>2. Len(u) \in Nat /\ \A k \in 1..Len(u) : u[k] \in S
  BY <1>1
<1>3. \A p \in S : \E k \in 1..Len(u) : u[k] = p
  BY DEF Lists
<1>4. \A k, l \in 1..Len(u) : k < l => f[u[k]] > f[u[l]]
  BY DEF Lists
<1> QED BY <1>1, <1>2, <1>3, <1>4

\* Two such sequences are one: there is no first difference.
LEMMA SortedSame ==
  ASSUME NEW S, NEW f, Numbering(S, f), NEW s, NEW t, Lists(s, S, f), Lists(t, S, f),
         NEW i \in 1..Len(s), \A j \in 1..(i - 1) : j \in 1..Len(t) /\ t[j] = s[j]
  PROVE  i \in 1..Len(t) /\ t[i] = s[i]
<1> DEFINE m == Len(s)
           n == Len(t)
<1>1. /\ m \in Nat /\ n \in Nat
      /\ \A k \in 1..m : s[k] \in S
      /\ \A k \in 1..n : t[k] \in S
      /\ \A p \in S : \E k \in 1..m : s[k] = p
      /\ \A p \in S : \E k \in 1..n : t[k] = p
      /\ \A k, l \in 1..m : k < l => f[s[k]] > f[s[l]]
      /\ \A k, l \in 1..n : k < l => f[t[k]] > f[t[l]]
  <2>1. m \in Nat /\ n \in Nat
    BY ListsFacts
  <2>2. (\A k \in 1..m : s[k] \in S) /\ \A k \in 1..n : t[k] \in S
    BY ListsFacts
  <2>3. \A p \in S : \E k \in 1..m : s[k] = p
    BY ListsFacts
  <2>3a. \A p \in S : \E k \in 1..n : t[k] = p
    BY ListsFacts
  <2>4. \A k, l \in 1..m : k < l => f[s[k]] > f[s[l]]
    BY ListsFacts
  <2>5. \A k, l \in 1..n : k < l => f[t[k]] > f[t[l]]
    BY ListsFacts
  <2> QED BY <2>1, <2>2, <2>3, <2>3a, <2>4, <2>5
<1>2. i \in 1..m /\ \A j \in 1..(i - 1) : j \in 1..n /\ t[j] = s[j]
  OBVIOUS
<1> HIDE DEF m, n
<1>3. \A p \in S : f[p] \in Nat
  BY DEF Numbering
<1>4. PICK k \in 1..n : t[k] = s[i]
  BY <1>1, <1>2
<1>5. ~(k < i)
  <2> SUFFICES ASSUME k < i PROVE FALSE
    OBVIOUS
  <2>1. k \in 1..(i - 1) /\ k \in 1..m
    BY <1>1, <1>2
  <2>2. s[k] = s[i] /\ f[s[k]] > f[s[i]]
    BY <1>1, <1>2, <1>4, <2>1
  <2> QED BY <1>1, <1>2, <1>3, <2>2
<1>6. i \in 1..n
  BY <1>1, <1>2, <1>4, <1>5
<1>7. ASSUME k # i PROVE FALSE
  <2>1. i < k /\ f[t[i]] > f[s[i]]
    BY <1>1, <1>4, <1>5, <1>6, <1>7
  <2>2. PICK l \in 1..m : s[l] = t[i]
    BY <1>1, <1>6
  <2>3. l < i
    <3> SUFFICES ASSUME ~(l < i) PROVE FALSE
      OBVIOUS
    <3>1. l = i \/ i < l
      BY <1>1, <1>2
    <3>2. l = i \/ f[s[i]] > f[s[l]]
      BY <1>1, <1>2, <3>1
    <3>3. f[s[i]] \in Nat /\ f[s[l]] \in Nat
      BY <1>1, <1>2, <1>3
    <3> QED BY <2>1, <2>2, <3>2, <3>3
  <2>4. l \in 1..(i - 1) /\ l \in 1..n /\ t[l] = s[l]
    BY <1>1, <1>2, <2>3
  <2>5. f[t[l]] > f[t[i]] /\ t[l] = t[i] /\ f[t[i]] \in Nat
    BY <1>1, <1>3, <1>6, <2>2, <2>3, <2>4
  <2> QED BY <2>5
<1> QED BY <1>4, <1>6, <1>7 DEF n

LEMMA SortedUnique ==
  ASSUME NEW S, NEW f, Numbering(S, f), NEW s, NEW t, Lists(s, S, f), Lists(t, S, f)
  PROVE  s = t
<1>1. ASSUME NEW u, NEW v, Lists(u, S, f), Lists(v, S, f)
      PROVE  \A i \in 1..Len(u) : i \in 1..Len(v) /\ v[i] = u[i]
  <2> DEFINE Differs == {i \in 1..Len(u) : ~(i \in 1..Len(v) /\ v[i] = u[i])}
  <2>1. Len(u) \in Nat /\ Differs \subseteq Nat
    BY <1>1 DEF Lists
  <2>2. ASSUME Differs # {} PROVE FALSE
    <3>1. PICK i \in Differs : \A j \in Differs : i <= j
      <4> HIDE DEF Differs
      <4> QED BY <2>1, <2>2, LeastNatural
    <3>2. \A j \in 1..(i - 1) : j \in 1..Len(v) /\ v[j] = u[j]
      BY <2>1, <3>1
    <3> QED BY <1>1, <3>1, <3>2, SortedSame
  <2> QED BY <2>2
<1>2. /\ \A i \in 1..Len(s) : i \in 1..Len(t) /\ t[i] = s[i]
      /\ \A i \in 1..Len(t) : i \in 1..Len(s) /\ s[i] = t[i]
  BY <1>1
<1>3. s \in Seq(S) /\ t \in Seq(S) /\ Len(s) \in Nat /\ Len(t) \in Nat
  BY DEF Lists
<1>4. Len(s) = Len(t)
  BY <1>2, <1>3
<1> QED BY <1>2, <1>3, <1>4

\* Queue is that sequence, if there is one.
LEMMA QueueIs ==
  ASSUME NEW q, Lists(q, Created, pid), Numbering(Created, pid)
  PROVE  Queue = q
<1> DEFINE S == Created
           n == Len(q)
           Sorted(t) == \A i, j \in DOMAIN t : i < j => pid[t[i]] >= pid[t[j]]
<1>1. /\ q \in [1..n -> S] /\ n \in Nat
      /\ \A p \in S : \E i \in 1..n : q[i] = p
      /\ \A i, j \in 1..n : i < j => pid[q[i]] > pid[q[j]]
  BY DEF Lists
<1>2. \A p \in S : pid[p] \in Nat
  BY DEF Numbering
<1>3. \A i, j \in 1..n : q[i] = q[j] => i = j
  BY <1>1, <1>2
<1>4. q \in Bijection(1..n, S)
  BY <1>1, <1>3 DEF Bijection, Injection, Surjection, IsInjective
<1>5. Cardinality(S) = n
  BY <1>1, <1>4, FS_CountingElements DEF ExistsBijection
<1>6. Sorted(q)
  BY <1>1, <1>2
<1>7. ASSUME NEW t \in Bijection(1..n, S), Sorted(t) PROVE Lists(t, S, pid)
  <2>1. /\ t \in [1..n -> S] /\ \A p \in S : \E i \in 1..n : t[i] = p
        /\ \A i, j \in 1..n : t[i] = t[j] => i = j
    BY DEF Bijection, Injection, Surjection, IsInjective
  <2>2. t \in Seq(S) /\ Len(t) = n
    BY <1>1, <2>1
  <2>3. ASSUME NEW i \in 1..n, NEW j \in 1..n, i < j PROVE pid[t[i]] > pid[t[j]]
    <3>1. t[i] \in S /\ t[j] \in S /\ t[i] # t[j] /\ pid[t[i]] >= pid[t[j]]
      <4>1. i # j /\ DOMAIN t = 1..n
        BY <1>1, <2>1, <2>3
      <4> QED BY <1>7, <2>1, <2>3, <4>1
    <3>2. pid[t[i]] # pid[t[j]] /\ pid[t[i]] \in Nat /\ pid[t[j]] \in Nat
      BY <3>1 DEF Numbering
    <3> QED BY <3>1, <3>2
  <2> QED BY <2>1, <2>2, <2>3 DEF Lists
<1>8. Queue = CHOOSE t \in Bijection(1..n, S) : Sorted(t)
  BY <1>5 DEF Queue
<1>9. Queue \in Bijection(1..n, S) /\ Sorted(Queue)
  <2> HIDE DEF S, Sorted
  <2> QED BY <1>4, <1>6, <1>8
<1>10. Lists(Queue, Created, pid)
  BY <1>7, <1>9
<1> QED BY <1>10, SortedUnique

LEMMA QueueFound ==
  TypeOK => \A q : Lists(q, Created, pid) => Queue = q /\ Numbering(Created, pid)
<1> SUFFICES ASSUME TypeOK, NEW q, Lists(q, Created, pid)
             PROVE  Queue = q /\ Numbering(Created, pid)
  OBVIOUS
<1>1. \A p \in Created : pid[p] \in Nat
  BY DEF TypeOK, Created
<1>2. ASSUME NEW p \in Created, NEW r \in Created, pid[p] = pid[r] PROVE p = r
  <2>1. /\ Len(q) \in Nat
        /\ \A x \in Created : \E i \in 1..Len(q) : q[i] = x
        /\ \A i, j \in 1..Len(q) : i < j => pid[q[i]] > pid[q[j]]
    <3>1. Len(q) \in Nat
      BY ListsFacts
    <3>2. \A x \in Created : \E i \in 1..Len(q) : q[i] = x
      BY ListsFacts
    <3>3. \A i, j \in 1..Len(q) : i < j => pid[q[i]] > pid[q[j]]
      BY ListsFacts
    <3> QED BY <3>1, <3>2, <3>3
  <2>2. PICK i \in 1..Len(q) : q[i] = p
    BY <2>1
  <2>3. PICK j \in 1..Len(q) : q[j] = r
    BY <2>1
  <2>4. pid[p] \in Nat
    BY <1>1
  <2>5. ~(i < j) /\ ~(j < i)
    BY <1>2, <2>1, <2>2, <2>3, <2>4
  <2> QED BY <2>1, <2>2, <2>3, <2>5
<1>3. Numbering(Created, pid)
  BY <1>1, <1>2 DEF Numbering
<1> QED BY <1>3, QueueIs

LEMMA QueueFoundNext ==
  (TypeOK => \A q : Lists(q, Created, pid) => Queue = q /\ Numbering(Created, pid))'
BY QueueFound, PTL

\* While a program creates a process, it is the one in creation.
LEMMA NodeInCreation ==
  TInv /\ ListInv /\ cpu.at \in Creating => InCreation = {cpu.ptr}
BY CreatorRunning

LEMMA NodeInCreationNext ==
  (TInv /\ ListInv /\ cpu.at \in Creating => InCreation = {cpu.ptr})'
BY NodeInCreation, PTL

\* Until its last store a creation changes nothing the queue is made of.
LEMMA CreateKeepsCreated ==
  ASSUME TInv, TInv', ListInv, ListInv', ~overlap',
         \/ \E n \in Procs : CreateNode(n)
         \/ CreateName \/ CreatePid \/ CreateCount \/ Link1 \/ Link2
  PROVE  /\ Created' = Created /\ CurrentProc' = CurrentProc
         /\ \A p \in Created : pid'[p] = pid[p]
<1>0. cpu \in Registers /\ cpu.ptr \in Nodes \cup {NULL}
  BY RegistersFields DEF TInv, TypeOK
<1>1. ASSUME NEW n \in Procs, CreateNode(n)
      PROVE  /\ Created' = Created /\ CurrentProc' = CurrentProc
             /\ \A p \in Created : pid'[p] = pid[p]
  <2>1. cpu'.at = "name" /\ cpu'.ptr = n
    BY <1>0, <1>1, GotoType DEF CreateNode, Points, Creating, Nodes
  <2>2. InCreation' = {n}
    BY <2>1, NodeInCreationNext DEF Creating
  <2>3. InCreation = {} /\ allocated' = allocated \cup {n} /\ n \notin allocated
    BY <1>1 DEF CreateNode
  <2> QED BY <1>1, <2>2, <2>3 DEF CreateNode, Created, ids
<1>2. ASSUME CreateName \/ CreatePid \/ CreateCount \/ Link1 \/ Link2
      PROVE  /\ Created' = Created /\ CurrentProc' = CurrentProc
             /\ \A p \in Created : pid'[p] = pid[p]
  <2>1. cpu.at \in Creating
    BY <1>2 DEF CreateName, CreatePid, CreateCount, Link1, Link2, Creating
  <2>2. cpu'.at \in Creating /\ cpu'.ptr = cpu.ptr
    BY <1>0, <1>2, GotoType
    DEF CreateName, CreatePid, CreateCount, Link1, Link2, Points, Creating
  <2>3. InCreation = {cpu.ptr} /\ InCreation' = {cpu.ptr}
    BY <2>1, <2>2, NodeInCreation, NodeInCreationNext
  <2>4. /\ allocated' = allocated /\ CurrentProc' = CurrentProc
        /\ \A p \in Procs : p # cpu.ptr => pid'[p] = pid[p]
    BY <1>2 DEF CreateName, CreatePid, CreateCount, Link1, Link2, sched, ids, TInv, TypeOK
  <2> QED BY <2>3, <2>4 DEF Created, TInv, TypeOK
<1> QED BY <1>1, <1>2

\* The last store of a creation puts the newest process into the queue.
LEMMA LinkCreated ==
  ASSUME TInv, TInv', ListInv, Link3
  PROVE  /\ cpu.ptr \in Procs \ Created /\ Created' = Created \cup {cpu.ptr}
         /\ CurrentProc' = CurrentProc /\ CurrentProc # NULL /\ pid' = pid
         /\ \A p \in Created : pid[p] < pid[cpu.ptr]
<1> DEFINE n == cpu.ptr
<1>1. /\ cpu.at = "link3" /\ cpu.at \in Creating
      /\ UNCHANGED <<allocated, CurrentProc, saved, pid>>
  BY DEF Link3, Creating, sched, ids
<1>2. cpu'.prog = cpu.prog /\ cpu'.at = "run"
  BY GotoType, NullAssumption DEF Link3, TInv, TypeOK, Points, Registers
<1>3. /\ Creators = {CurrentProc} /\ InCreation = {n} /\ InRelease = {}
      /\ Underway(cpu) /\ n \in Procs /\ cpu.prog = CurrentProc
  BY <1>1, CreatorRunning
<1>4. n \in allocated /\ \A p \in Registered : pid[p] < pid[n]
  BY <1>1, <1>3 DEF Underway
<1>5. \A p \in allocated' : Context(p)' = IF p = cpu.prog THEN cpu' ELSE Context(p)
  BY <1>1, <1>2 DEF Context
<1>6. Creators' = {}
  BY <1>1, <1>2, <1>3, <1>5 DEF Creators, Creating
<1>7. InCreation' = {}
  BY <1>6 DEF InCreation, Creators
<1>8. CurrentProc # NULL
  BY <1>1 DEF TInv, Control
<1>9. Created = allocated \ {n} /\ Created' = allocated /\ Registered = Created
  BY <1>1, <1>3, <1>7 DEF Created, Registered
<1> QED BY <1>1, <1>3, <1>4, <1>8, <1>9

\* Until it frees the node an exit changes nothing the queue is made of.
LEMMA ExitKeepsCreated ==
  ASSUME TInv, TInv', ListInv, ~overlap', ExitCli \/ ExitUnlinkHead \/ ExitWalk
  PROVE  Created' = Created /\ CurrentProc' = CurrentProc /\ pid' = pid
<1>0. cpu \in Registers /\ cpu.ptr \in Nodes \cup {NULL}
  BY RegistersFields DEF TInv, TypeOK
<1>1. UNCHANGED <<allocated, CurrentProc, saved, pid>>
  BY DEF ExitCli, ExitUnlinkHead, ExitWalk, ids, sched
<1>2. InCreation = {}
  <2>1. CASE ExitCli
    BY <2>1 DEF ExitCli
  <2>2. CASE ExitUnlinkHead \/ ExitWalk
    BY <2>2, ExitRunning DEF ExitUnlinkHead, ExitWalk, Exiting
  <2> QED BY <2>1, <2>2
<1>3. cpu'.at \in Exiting /\ cpu'.prog = cpu.prog /\ cpu.at # "spin"
  BY <1>0, TInv' DEF ExitCli, ExitUnlinkHead, ExitWalk, Goto, Exiting, Registers
<1>4. Creators = {}
  <2>1. CASE ExitCli
    BY <1>2, CreationSet DEF ListInv
  <2>2. CASE ExitUnlinkHead \/ ExitWalk
    BY <2>2, ExitRunning DEF ExitUnlinkHead, ExitWalk, Exiting
  <2> QED BY <2>1, <2>2
<1>5. InCreation' = {}
  BY <1>1, <1>3, <1>4, ExitStays DEF Creating, Exiting
<1> QED BY <1>1, <1>2, <1>5 DEF Created

\* DeleteVNode takes the process out of the queue.
LEMMA ReleaseCreated ==
  ASSUME TInv, TInv', ListInv, ExitRelease
  PROVE  /\ CurrentProc \in Created /\ CurrentProc \notin {NULL, kmain}
         /\ Created' = Created \ {CurrentProc}
         /\ CurrentProc' = NULL /\ pid' = pid
<1>1. /\ cpu.at = "release" /\ cpu.at \in Exiting
      /\ saved' = saved /\ pid' = pid
      /\ allocated' = allocated \ {CurrentProc} /\ CurrentProc' = NULL
  BY DEF ExitRelease, Exiting, ids
<1>2. cpu'.at = "spin" /\ cpu'.prog = cpu.prog
  BY GotoType DEF ExitRelease, TInv, TypeOK, Points
<1>3. /\ Creators = {} /\ InCreation = {} /\ CurrentProc \in allocated
      /\ CurrentProc # NULL /\ CurrentProc # kmain
  BY <1>1, ExitRunning
<1>4. InCreation' = {}
  BY <1>1, <1>2, <1>3, ExitStays DEF Creating
<1> QED BY <1>1, <1>3, <1>4 DEF Created

\* While no process is being released the queue is the chain of Next pointers.
LEMMA QueueLinks ==
  ASSUME TInv, ListInv, cpu.at # "release", NEW q, Lists(q, Created, pid)
  PROVE  /\ Len(q) \in Nat \ {0} /\ first = q[1]
         /\ \A i \in 1..Len(q) : next[q[i]] = IF i < Len(q) THEN q[i + 1] ELSE Self
<1> DEFINE n == Len(q)
<1>1. /\ n \in Nat /\ \A i \in 1..n : q[i] \in Created
      /\ \A p \in Created : \E i \in 1..n : q[i] = p
      /\ \A i, j \in 1..n : i < j => pid[q[i]] > pid[q[j]]
  <2>1. n \in Nat
    BY ListsFacts
  <2>2. \A i \in 1..n : q[i] \in Created
    BY ListsFacts
  <2>3. \A p \in Created : \E i \in 1..n : q[i] = p
    BY ListsFacts
  <2>4. \A i, j \in 1..n : i < j => pid[q[i]] > pid[q[j]]
    BY ListsFacts
  <2> QED BY <2>1, <2>2, <2>3, <2>4
<1> HIDE DEF n
<1>2. Created = Registered /\ Listed = Registered \cup {Self}
  BY DEF Created, Registered, InRelease, Listed
<1>3. /\ \A p \in Created : p \in Listed \ {Self} /\ Rank(p) = pid[p] /\ pid[p] \in Nat
      /\ Rank(Self) = -1 /\ first \in Created
  BY <1>2, ListFacts
<1>4. /\ \A c \in Listed : Rank(c) <= Rank(first)
      /\ \A a \in Listed \ {Self} :
            /\ next[a] \in Listed
            /\ Rank(next[a]) < Rank(a)
            /\ \A c \in Listed : Rank(c) < Rank(a) => Rank(c) <= Rank(next[a])
  BY DEF ListInv, Order, NewestFirst
<1>5. \A i \in 1..n : pid[q[i]] \in Nat /\ q[i] \in Listed \ {Self} /\ Rank(q[i]) = pid[q[i]]
  BY <1>1, <1>3
<1>6. PICK k \in 1..n : q[k] = first
  BY <1>1, <1>3
<1>7. n \in Nat \ {0} /\ 1 \in 1..n
  BY <1>1, <1>6
<1>8. k = 1
  <2> SUFFICES ASSUME k # 1 PROVE FALSE
    OBVIOUS
  <2>1. 1 < k
    BY <1>1, <1>6
  <2>2. pid[q[1]] > pid[q[k]]
    BY <1>1, <1>7, <2>1
  <2>3. Rank(q[1]) <= Rank(q[k])
    BY <1>4, <1>5, <1>6, <1>7
  <2> QED BY <1>5, <1>7, <2>2, <2>3
<1>9. ASSUME NEW i \in 1..n PROVE next[q[i]] = IF i < n THEN q[i + 1] ELSE Self
  <2>1. /\ q[i] \in Listed \ {Self} /\ next[q[i]] \in Listed /\ Rank(next[q[i]]) < pid[q[i]]
        /\ \A c \in Listed : Rank(c) < pid[q[i]] => Rank(c) <= Rank(next[q[i]])
        /\ pid[q[i]] \in Nat
    BY <1>4, <1>5
  <2>2. ASSUME NEW j \in 1..n, next[q[i]] = q[j] PROVE i < j
    <3>1. pid[q[j]] < pid[q[i]] /\ pid[q[j]] \in Nat
      BY <1>5, <2>1, <2>2
    <3>2. ~(j < i) /\ j # i
      BY <1>1, <2>1, <3>1
    <3> QED BY <1>1, <3>2
  <2>3. CASE i < n
    <3>1. i + 1 \in 1..n /\ i < i + 1
      BY <1>1, <2>3
    <3>2. pid[q[i + 1]] < pid[q[i]] /\ pid[q[i + 1]] \in Nat
      BY <1>1, <1>5, <3>1
    <3>3. Rank(q[i + 1]) = pid[q[i + 1]] /\ q[i + 1] \in Listed
      BY <1>5, <3>1
    <3>4. pid[q[i + 1]] <= Rank(next[q[i]])
      BY <2>1, <3>2, <3>3
    <3>5. next[q[i]] # Self
      BY <1>3, <3>2, <3>4
    <3>6. PICK j \in 1..n : q[j] = next[q[i]]
      BY <1>1, <1>2, <2>1, <3>5
    <3>7. i < j /\ Rank(next[q[i]]) = pid[q[j]] /\ pid[q[j]] \in Nat
      BY <1>5, <2>2, <3>6
    <3>8. ~(i + 1 < j)
      BY <1>1, <3>1, <3>2, <3>4, <3>7
    <3>9. j = i + 1
      BY <1>1, <3>7, <3>8
    <3> QED BY <2>3, <3>6, <3>9
  <2>4. CASE ~(i < n)
    <3>1. ASSUME next[q[i]] # Self PROVE FALSE
      <4>1. PICK j \in 1..n : q[j] = next[q[i]]
        BY <1>1, <1>2, <2>1, <3>1
      <4>2. i < j
        BY <2>2, <4>1
      <4> QED BY <1>1, <2>4, <4>2
    <3> QED BY <2>4, <3>1
  <2> QED BY <2>3, <2>4
<1> QED BY <1>6, <1>7, <1>8, <1>9 DEF n

\* The do-while loop of CommitNextProcess takes the turn of the queue.
LEMMA TurnIsNextProc ==
  ASSUME TInv, ListInv, intr, NEW q, Lists(q, Created, pid), Queue = q
  PROVE  RR!Turn = NextProc
<1> DEFINE n == Len(q)
<1>1. cpu.at # "release" /\ cpu.at \notin Exiting
  BY DEF TInv, Control, Exiting
<1>2. /\ n \in Nat \ {0} /\ first = q[1]
      /\ \A i \in 1..n : next[q[i]] = IF i < n THEN q[i + 1] ELSE Self
  BY <1>1, QueueLinks
<1>3. /\ \A i \in 1..n : q[i] \in Created
      /\ \A p \in Created : \E i \in 1..n : q[i] = p
      /\ \A i, j \in 1..n : i < j => pid[q[i]] > pid[q[j]]
  <2>1. \A i \in 1..n : q[i] \in Created
    BY ListsFacts
  <2>2. \A p \in Created : \E i \in 1..n : q[i] = p
    BY ListsFacts
  <2>3. \A i, j \in 1..n : i < j => pid[q[i]] > pid[q[j]]
    BY ListsFacts
  <2> QED BY <2>1, <2>2, <2>3
<1> HIDE DEF n
<1>4. Head(q) = q[1] /\ RR!Last(q) = q[n]
  BY DEF RR!Last, n
<1>5. /\ \A p \in Created : p # Self /\ p # NULL /\ pid[p] \in Nat
      /\ next[Self] = NULL
  <2>1. Created \subseteq Procs
    BY DEF Created, TInv, TypeOK
  <2> QED BY <2>1, ProcsAssumption, NullAssumption DEF TInv, TypeOK, ListInv, Order, NewestFirst
<1>6. \A i, j \in 1..n : q[i] = q[j] => i = j
  <2> SUFFICES ASSUME NEW i \in 1..n, NEW j \in 1..n, q[i] = q[j] PROVE i = j
    OBVIOUS
  <2>1. pid[q[i]] \in Nat /\ ~(pid[q[i]] > pid[q[j]]) /\ ~(pid[q[j]] > pid[q[i]])
    BY <1>3, <1>5
  <2>2. ~(i < j) /\ ~(j < i)
    BY <1>3, <2>1
  <2> QED BY <1>2, <2>2
<1>7. 1 \in 1..n /\ n \in 1..n /\ q[1] # Self
  BY <1>2, <1>3, <1>5
<1>8. CASE CurrentProc = NULL
  <2>1. RR!Turn = q[1]
    BY <1>4, <1>8 DEF RR!Turn
  <2>2. NextProc = first
    BY <1>2, <1>7, <1>8 DEF NextProc, Successor
  <2> QED BY <1>2, <2>1, <2>2
<1>9. CASE CurrentProc # NULL
  <2>1. CurrentProc \in Created
    BY <1>9 DEF ListInv, Owners, Created
  <2>2. PICK k \in 1..n : q[k] = CurrentProc
    BY <1>3, <2>1
  <2>3. CASE k = n
    <3>1. RR!Turn = q[1]
      BY <1>4, <2>2, <2>3 DEF RR!Turn
    <3>2. next[CurrentProc] = Self /\ Self # NULL
      BY <1>2, <2>2, <2>3, NullAssumption
    <3>3. Successor(CurrentProc) = Self /\ Successor(Self) = first
      BY <1>5, <1>9, <3>2 DEF Successor
    <3> QED BY <1>2, <3>1, <3>3 DEF NextProc
  <2>4. CASE k # n
    <3>1. k < n /\ k + 1 \in 2..n /\ k + 1 \in 1..n /\ (k + 1) - 1 = k
      BY <1>2, <2>4
    <3>2. CurrentProc # q[n]
      BY <1>6, <1>7, <2>2, <2>4
    <3>3. \A i \in 2..n : q[i - 1] = CurrentProc => i = k + 1
      <4> SUFFICES ASSUME NEW i \in 2..n, q[i - 1] = CurrentProc PROVE i = k + 1
        OBVIOUS
      <4>1. i - 1 \in 1..n
        BY <1>2
      <4>2. i - 1 = k
        BY <1>6, <2>2, <4>1
      <4> QED BY <1>2, <4>2
    <3>4. (CHOOSE i \in 2..n : q[i - 1] = CurrentProc) = k + 1
      BY <2>2, <3>1, <3>3
    <3>5. RR!Turn = q[k + 1]
      BY <1>4, <1>9, <3>2, <3>4 DEF RR!Turn, n
    <3>6. next[CurrentProc] = q[k + 1] /\ q[k + 1] # Self /\ q[k + 1] # NULL
      BY <1>2, <1>3, <1>5, <2>2, <3>1
    <3>7. Successor(CurrentProc) = q[k + 1]
      BY <1>9, <3>6 DEF Successor
    <3> QED BY <3>5, <3>6, <3>7 DEF NextProc
  <2> QED BY <2>3, <2>4
<1> QED BY <1>8, <1>9

\* The queue of a state: some sequence lists what is created.
QInv == \E q : Lists(q, Created, pid)

\* The four ways a queue changes.
LEMMA ListsKept ==
  ASSUME NEW S, NEW f, NEW g, NEW q, Lists(q, S, f), \A p \in S : g[p] = f[p]
  PROVE  Lists(q, S, g)
<1>1. /\ q \in Seq(S) /\ \A k \in 1..Len(q) : q[k] \in S
      /\ \A k, l \in 1..Len(q) : k < l => f[q[k]] > f[q[l]]
  <2>1. q \in Seq(S)
    BY ListsFacts
  <2>2. \A k \in 1..Len(q) : q[k] \in S
    BY ListsFacts
  <2>3. \A k, l \in 1..Len(q) : k < l => f[q[k]] > f[q[l]]
    BY ListsFacts
  <2> QED BY <2>1, <2>2, <2>3
<1>2. \A k, l \in 1..Len(q) : k < l => g[q[k]] > g[q[l]]
  BY <1>1
<1>3. \A p \in S : \E k \in 1..Len(q) : q[k] = p
  BY ListsFacts
<1> QED BY <1>1, <1>2, <1>3 DEF Lists

LEMMA ListsAdded ==
  ASSUME NEW S, NEW f, NEW q, Lists(q, S, f), NEW n, n \notin S,
         \A p \in S : f[p] < f[n] /\ f[p] \in Nat, f[n] \in Nat
  PROVE  Lists(<<n>> \o q, S \cup {n}, f)
<1> DEFINE t == <<n>> \o q
           m == Len(q)
<1>1. /\ m \in Nat /\ \A k \in 1..m : q[k] \in S
      /\ \A k, l \in 1..m : k < l => f[q[k]] > f[q[l]]
      /\ q \in Seq(S)
  <2>1. m \in Nat
    BY ListsFacts
  <2>2. \A k \in 1..m : q[k] \in S
    BY ListsFacts
  <2>3. \A k, l \in 1..m : k < l => f[q[k]] > f[q[l]]
    BY ListsFacts
  <2>4. q \in Seq(S)
    BY ListsFacts
  <2> QED BY <2>1, <2>2, <2>3, <2>4
<1>1a. \A p \in S : \E k \in 1..m : q[k] = p
  BY ListsFacts
<1>2. t \in Seq(S \cup {n}) /\ Len(t) = m + 1
  <2>1. <<n>> \in Seq(S \cup {n}) /\ q \in Seq(S \cup {n}) /\ Len(<<n>>) = 1
    BY <1>1
  <2> QED BY <1>1, <2>1, ConcatProperties
<1>3. \A i \in 1..(m + 1) : t[i] = IF i = 1 THEN n ELSE q[i - 1]
  BY <1>1
<1> HIDE DEF t, m
<1>4. \A k \in 1..m : k + 1 \in 1..(m + 1) /\ t[k + 1] = q[k]
  <2> SUFFICES ASSUME NEW k \in 1..m PROVE k + 1 \in 1..(m + 1) /\ t[k + 1] = q[k]
    OBVIOUS
  <2>1. k + 1 \in 1..(m + 1) /\ k + 1 # 1 /\ (k + 1) - 1 = k
    BY <1>1
  <2> QED BY <1>3, <2>1
<1>5. \A p \in S \cup {n} : \E i \in 1..(m + 1) : t[i] = p
  <2>1. 1 \in 1..(m + 1) /\ t[1] = n
    BY <1>1, <1>3
  <2>2. \A p \in S : \E i \in 1..(m + 1) : t[i] = p
    BY <1>1a, <1>4
  <2> QED BY <2>1, <2>2
<1>6. ASSUME NEW i \in 1..(m + 1), NEW j \in 1..(m + 1), i < j PROVE f[t[i]] > f[t[j]]
  <2>1. j # 1 /\ j - 1 \in 1..m /\ t[j] = q[j - 1]
    <3>1. j # 1 /\ j - 1 \in 1..m
      BY <1>1, <1>6
    <3> QED BY <1>3, <3>1
  <2>2. CASE i = 1
    BY <1>1, <1>3, <2>1, <2>2
  <2>3. CASE i # 1
    <3>1. i - 1 \in 1..m /\ i - 1 < j - 1
      BY <1>1, <1>6, <2>3
    <3>2. t[i] = q[i - 1]
      BY <1>3, <2>3
    <3> QED BY <1>1, <2>1, <3>1, <3>2
  <2> QED BY <2>2, <2>3
<1>7. Len(t) = m + 1
  BY <1>2
<1> QED BY <1>2, <1>5, <1>6, <1>7 DEF Lists, t

LEMMA ListsRemoved ==
  ASSUME NEW S, NEW f, NEW q, Lists(q, S, f), NEW c \in S, Numbering(S, f)
  PROVE  \E i \in 1..Len(q) : q[i] = c /\ Lists(RR!RemoveAt(q, i), S \ {c}, f)
<1> DEFINE n == Len(q)
<1>1. /\ n \in Nat /\ \A k \in 1..n : q[k] \in S
      /\ \A k, l \in 1..n : k < l => f[q[k]] > f[q[l]]
      /\ q \in Seq(S)
  <2>1. n \in Nat
    BY ListsFacts
  <2>2. \A k \in 1..n : q[k] \in S
    BY ListsFacts
  <2>3. \A k, l \in 1..n : k < l => f[q[k]] > f[q[l]]
    BY ListsFacts
  <2>4. q \in Seq(S)
    BY ListsFacts
  <2> QED BY <2>1, <2>2, <2>3, <2>4
<1>2. \A p \in S : \E k \in 1..n : q[k] = p
  BY ListsFacts
<1>3. PICK i \in 1..n : q[i] = c
  BY <1>2
<1> DEFINE t == RR!RemoveAt(q, i)
           at(k) == IF k < i THEN k ELSE k + 1
<1>4. t = [k \in 1..(n - 1) |-> q[at(k)]]
  <2>1. t = SubSeq(q, 1, i - 1) \o SubSeq(q, i + 1, n)
    BY DEF RR!RemoveAt
  <2>2. /\ SubSeq(q, 1, i - 1) \in Seq(S) /\ Len(SubSeq(q, 1, i - 1)) = i - 1
        /\ \A k \in 1..(i - 1) : SubSeq(q, 1, i - 1)[k] = q[k]
    BY <1>1, <1>3
  <2>3. /\ SubSeq(q, i + 1, n) \in Seq(S) /\ Len(SubSeq(q, i + 1, n)) = n - i
        /\ \A k \in 1..(n - i) : SubSeq(q, i + 1, n)[k] = q[i + k]
    BY <1>1, <1>3
  <2> DEFINE u == SubSeq(q, 1, i - 1)
             v == SubSeq(q, i + 1, n)
  <2>4. /\ u \o v \in Seq(S) /\ Len(u \o v) = n - 1
        /\ \A k \in 1..(n - 1) : (u \o v)[k] = IF k <= i - 1 THEN u[k] ELSE v[k - (i - 1)]
    <3> HIDE DEF u, v
    <3>1. u \in Seq(S) /\ v \in Seq(S) /\ Len(u) = i - 1 /\ Len(v) = n - i
      BY <2>2, <2>3 DEF u, v
    <3>2. Len(u) + Len(v) = n - 1
      BY <1>1, <1>3, <3>1
    <3>3. u \o v \in Seq(S) /\ Len(u \o v) = Len(u) + Len(v)
      BY <3>1, ConcatProperties
    <3>4. \A k \in 1..(Len(u) + Len(v)) :
             (u \o v)[k] = IF k <= Len(u) THEN u[k] ELSE v[k - Len(u)]
      BY <3>1, ConcatProperties
    <3> QED BY <3>1, <3>2, <3>3, <3>4
  <2>5. ASSUME NEW k \in 1..(n - 1) PROVE (u \o v)[k] = q[at(k)]
    <3>1. CASE k < i
      <4>1. k <= i - 1 /\ k \in 1..(i - 1)
        BY <1>1, <1>3, <3>1
      <4> QED BY <2>2, <2>4, <3>1, <4>1
    <3>2. CASE ~(k < i)
      <4>1. ~(k <= i - 1) /\ k - (i - 1) \in 1..(n - i) /\ i + (k - (i - 1)) = k + 1
        BY <1>1, <1>3, <3>2
      <4> QED BY <2>3, <2>4, <3>2, <4>1
    <3> QED BY <3>1, <3>2
  <2>6. (i - 1) + (n - i) = n - 1 /\ n - 1 \in Nat
    BY <1>1, <1>3
  <2>7. u \o v = [k \in 1..(n - 1) |-> q[at(k)]]
    <3> DEFINE w == u \o v
    <3>1. w \in Seq(S) /\ Len(w) = n - 1 /\ \A k \in 1..(n - 1) : w[k] = q[at(k)]
      BY <2>4, <2>5
    <3> HIDE DEF w, at
    <3>2. w = [k \in 1..(n - 1) |-> w[k]]
      BY <2>6, <3>1
    <3>3. w = [k \in 1..(n - 1) |-> q[at(k)]]
      BY <3>1, <3>2
    <3> QED BY <3>3 DEF w
  <2> QED BY <2>1, <2>7
<1>5. /\ \A k \in 1..(n - 1) : at(k) \in 1..n /\ at(k) # i
      /\ \A k, l \in 1..(n - 1) : k < l => at(k) < at(l)
      /\ \A j \in 1..n : j # i => \E k \in 1..(n - 1) : at(k) = j
      /\ n - 1 \in Nat
  <2>1. /\ \A k \in 1..(n - 1) : at(k) \in 1..n /\ at(k) # i
        /\ \A k, l \in 1..(n - 1) : k < l => at(k) < at(l)
        /\ n - 1 \in Nat
    BY <1>1, <1>3
  <2>2. ASSUME NEW j \in 1..n, j # i PROVE \E k \in 1..(n - 1) : at(k) = j
    <3>1. CASE j < i
      <4>1. j \in 1..(n - 1) /\ at(j) = j
        BY <1>1, <1>3, <3>1
      <4> QED BY <4>1
    <3>2. CASE ~(j < i)
      <4>1. j - 1 \in 1..(n - 1) /\ at(j - 1) = j
        BY <1>1, <1>3, <2>2, <3>2
      <4> QED BY <4>1
    <3> QED BY <3>1, <3>2
  <2> QED BY <2>1, <2>2
<1> HIDE DEF at, t, n
<1>6. \A k, l \in 1..n : q[k] = q[l] => k = l
  <2> SUFFICES ASSUME NEW k \in 1..n, NEW l \in 1..n, q[k] = q[l] PROVE k = l
    OBVIOUS
  <2>1. f[q[k]] \in Nat /\ f[q[l]] = f[q[k]]
    BY <1>1 DEF Numbering
  <2>2. ~(k < l) /\ ~(l < k)
    BY <1>1, <2>1
  <2> QED BY <1>1, <2>2
<1>7. ASSUME NEW k \in 1..(n - 1) PROVE t[k] = q[at(k)] /\ t[k] \in S \ {c}
  <2>1. PICK j \in 1..n : j = at(k) /\ j # i
    BY <1>5
  <2>2. t[k] = q[j] /\ q[j] # q[i] /\ q[j] \in S
    BY <1>1, <1>4, <1>6, <2>1
  <2> QED BY <1>3, <2>1, <2>2
<1>8. t \in Seq(S \ {c}) /\ Len(t) = n - 1
  <2>1. t \in [1..(n - 1) -> S \ {c}]
    <3>1. DOMAIN t = 1..(n - 1) /\ t = [k \in DOMAIN t |-> t[k]]
      BY <1>4
    <3> QED BY <1>7, <3>1
  <2> QED BY <1>5, <2>1
<1>9. ASSUME NEW p \in S \ {c} PROVE \E k \in 1..(n - 1) : t[k] = p
  <2>1. PICK j \in 1..n : q[j] = p
    BY <1>2
  <2>2. j # i
    BY <1>3, <2>1
  <2>3. PICK k \in 1..(n - 1) : at(k) = j
    BY <1>5, <2>2
  <2> QED BY <1>7, <2>1, <2>3
<1>10. ASSUME NEW k \in 1..(n - 1), NEW l \in 1..(n - 1), k < l PROVE f[t[k]] > f[t[l]]
  <2>1. PICK a \in 1..n : a = at(k)
    BY <1>5
  <2>2. PICK b \in 1..n : b = at(l)
    BY <1>5
  <2>3. a < b
    BY <1>5, <1>10, <2>1, <2>2
  <2>4. t[k] = q[a] /\ t[l] = q[b]
    BY <1>7, <2>1, <2>2
  <2> QED BY <1>1, <2>3, <2>4
<1>11. Lists(t, S \ {c}, f)
  BY <1>8, <1>9, <1>10 DEF Lists
<1> QED BY <1>3, <1>11 DEF n, t

LEMMA InitQueue == ASSUME NoWrap, Init PROVE QInv /\ RR!Init
<1>1. TypeOK /\ kmain \in Procs
  BY InitTInv, ProcsAssumption DEF TInv
<1>2. InCreation = {}
  BY DEF Init, InCreation, Context, InitialState, Creating
<1>3. Created = {kmain} /\ CurrentProc = kmain
  BY <1>2 DEF Created, Init
<1>4. Lists(<<kmain>>, Created, pid)
  BY <1>3 DEF Lists
<1>5. Queue = <<kmain>>
  BY <1>1, <1>4, QueueFound
<1> QED BY <1>3, <1>4, <1>5 DEF QInv, RR!Init

\* Each step of Sched is one of RoundRobin or leaves the queue alone.
LEMMA QueueStep ==
  ASSUME TInv, TInv', ListInv, ListInv', QInv, Next, ~overlap'
  PROVE  QInv' /\ (RR!Next \/ UNCHANGED RR!vars)
<1>1. PICK q : Lists(q, Created, pid)
  BY DEF QInv
<1>2. Queue = q /\ Numbering(Created, pid)
  BY <1>1, QueueFound DEF TInv
<1>3. ASSUME NEW t, Lists(t, Created', pid') PROVE QInv' /\ Queue' = t
  <2>1. Queue' = t
    BY <1>3, QueueFoundNext DEF TInv
  <2> QED BY <1>3, <2>1 DEF QInv
<1>4. ASSUME Created' = Created, \A p \in Created : pid'[p] = pid[p]
      PROVE  QInv' /\ Queue' = Queue
  <2>1. Lists(q, Created', pid')
    BY <1>1, <1>4, ListsKept
  <2> QED BY <1>2, <1>3, <2>1
<1>5. CASE Tick
  <2>1. InCreation' = InCreation
    <3>1. \A p \in allocated : Context(p)' = Context(p)
      BY <1>5, TickContexts
    <3>2. allocated' = allocated
      BY <1>5 DEF Tick
    <3> QED BY <3>1, <3>2 DEF InCreation
  <2>2. Created' = Created /\ pid' = pid /\ CurrentProc' = NextProc /\ intr
    BY <1>5, <2>1 DEF Tick, Created, ids
  <2>3. QInv' /\ Queue' = Queue
    BY <1>4, <2>2
  <2>4. RR!Turn = NextProc
    BY <1>1, <1>2, <2>2, TurnIsNextProc
  <2> QED BY <2>2, <2>3, <2>4 DEF RR!Next, RR!Switch
<1>6. CASE \/ \E n \in Procs : CreateNode(n)
           \/ CreateName \/ CreatePid \/ CreateCount \/ Link1 \/ Link2
           \/ ExitCli \/ ExitUnlinkHead \/ ExitWalk
  <2>1. /\ Created' = Created /\ CurrentProc' = CurrentProc
        /\ \A p \in Created : pid'[p] = pid[p]
    BY <1>6, CreateKeepsCreated, ExitKeepsCreated
  <2>2. QInv' /\ Queue' = Queue
    BY <1>4, <2>1
  <2> QED BY <2>1, <2>2 DEF RR!vars
<1>7. CASE Link3
  <2> DEFINE n == cpu.ptr
  <2>1. /\ n \in Procs /\ n \notin Created /\ Created' = Created \cup {n}
        /\ CurrentProc' = CurrentProc /\ CurrentProc # NULL /\ pid' = pid
        /\ \A p \in Created : pid[p] < pid[n]
    BY <1>7, LinkCreated
  <2> HIDE DEF n
  <2>2. \A p \in Procs : pid[p] \in Nat
    BY DEF TInv, TypeOK
  <2>3. Created \subseteq Procs
    BY DEF Created, TInv, TypeOK
  <2>4. Lists(<<n>> \o q, Created \cup {n}, pid)
    BY <1>1, <2>1, <2>2, <2>3, ListsAdded
  <2>5. QInv' /\ Queue' = <<n>> \o q
    BY <1>3, <2>1, <2>4
  <2>6. ~RR!Contains(q, n)
    <3>1. \A k \in 1..Len(q) : q[k] \in Created
      BY <1>1, ListsFacts
    <3> QED BY <2>1, <3>1 DEF RR!Contains
  <2>7. RR!Spawn(n)
    BY <1>2, <2>1, <2>5, <2>6 DEF RR!Spawn
  <2> QED BY <2>1, <2>5, <2>7 DEF RR!Next
<1>8. CASE ExitRelease
  <2>1. /\ CurrentProc \in Created /\ CurrentProc \notin {NULL, kmain}
        /\ Created' = Created \ {CurrentProc} /\ CurrentProc' = NULL /\ pid' = pid
    BY <1>8, ReleaseCreated
  <2>2. PICK i \in 1..Len(q) :
           /\ q[i] = CurrentProc
           /\ Lists(RR!RemoveAt(q, i), Created \ {CurrentProc}, pid)
    BY <1>1, <1>2, <2>1, ListsRemoved
  <2>3. QInv' /\ Queue' = RR!RemoveAt(q, i)
    BY <1>3, <2>1, <2>2
  <2>4. i \in DOMAIN q
    BY <1>1, <2>2, ListsFacts
  <2>5. RR!Retire
    BY <1>2, <2>1, <2>2, <2>3, <2>4 DEF RR!Retire
  <2> QED BY <2>3, <2>5 DEF RR!Next
<1> QED BY <1>5, <1>6, <1>7, <1>8 DEF Next, InCall

QueueInv == ~overlap => QInv

LEMMA QueueInvStep ==
  ASSUME TInv, TInv', LInv, LInv', QueueInv, [Next]_vars, ~overlap'
  PROVE  QInv' /\ [RR!Next]_RR!vars
<1>1. CASE UNCHANGED vars
  <2>1. QInv
    BY <1>1 DEF vars, QueueInv
  <2>2. PICK q : Lists(q, Created, pid)
    BY <2>1 DEF QInv
  <2>3. /\ allocated' = allocated /\ pid' = pid /\ cpu' = cpu /\ saved' = saved
        /\ CurrentProc' = CurrentProc
    BY <1>1 DEF vars, ids, sched
  <2>4. Created' = Created
    BY <2>3 DEF Created, InCreation, Context
  <2>5. Queue' = Queue
    BY <2>3, <2>4 DEF Queue
  <2> QED BY <2>2, <2>3, <2>4, <2>5 DEF QInv, RR!vars
<1>2. CASE Next
  <2>1. ~overlap
    BY <1>2 DEF Next, InCall, Tick, CreateNode, CreateName, CreatePid, CreateCount, Link1, Link2,
                Link3, ExitCli, ExitUnlinkHead, ExitWalk, ExitRelease
  <2> QED BY <1>2, <2>1, QueueStep DEF LInv, QueueInv
<1> QED BY <1>1, <1>2

\* As long as no call overlaps a creation, the list of /proc, the do-while
\* loop of CommitNextProcess (core.c:30-41) and the two unlinkings of
\* SchedulerExit (core.c:118-141) are a round-robin queue.
THEOREM QueueCorrect ==
  ASSUME NoWrap PROVE Spec /\ []~overlap => ImplementsRoundRobin
<1>1. Init => RR!Init /\ QueueInv
  BY InitQueue DEF QueueInv
<1>2. /\ TInv /\ LInv /\ (TInv /\ LInv)' /\ QueueInv /\ [Next]_vars => QueueInv'
  BY QueueInvStep DEF QueueInv
<1>3. /\ TInv /\ LInv /\ (TInv /\ LInv)' /\ QueueInv /\ [Next]_vars /\ (~overlap)'
      => [RR!Next]_RR!vars
  BY QueueInvStep
<1> QED BY <1>1, <1>2, <1>3, ListInvHolds, PTL DEF Spec, ImplementsRoundRobin, RR!Spec

=============================================================================
