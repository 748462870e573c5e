------------------------------ MODULE RoundRobin ----------------------------
(***************************************************************************)
(* What the scheduler promises: the processes take turns in the order of a *)
(* queue.  A new process enters at the front, a process that exits leaves  *)
(* the queue, and the turn after an exit goes to the front again.          *)
(* Sched implements this with the children of /proc.                       *)
(***************************************************************************)
EXTENDS Sequences, Naturals, SequencesExt

CONSTANTS
    Procs,    \* the processes there can be
    kmain,    \* the first of them; it never exits
    NULL

VARIABLES
    queue,    \* the processes, newest first
    current   \* the one whose turn it is, NULL after an exit

vars == <<queue, current>>

Init == queue = <<kmain>> /\ current = kmain

\* A process that is running creates process p.
Spawn(p) ==
    /\ current # NULL
    /\ ~Contains(queue, p)
    /\ queue' = <<p>> \o queue
    /\ UNCHANGED current

\* The running process exits.
Retire ==
    /\ current \notin {NULL, kmain}
    /\ \E i \in DOMAIN queue : queue[i] = current /\ queue' = RemoveAt(queue, i)
    /\ current' = NULL

\* Whose turn is next: the neighbour of the current process, or the front.
Turn == IF current = NULL \/ current = Last(queue) THEN Head(queue)
        ELSE queue[CHOOSE i \in 2..Len(queue) : queue[i - 1] = current]

Switch == current' = Turn /\ UNCHANGED queue

Next == Switch \/ Retire \/ \E p \in Procs : Spawn(p)

Spec == Init /\ [][Next]_vars
=============================================================================
