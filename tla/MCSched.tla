------------------------------- MODULE MCSched ------------------------------
(* Instances of Sched for TLC. *)
EXTENDS Sched, TLC

CONSTANTS p1, p2, p3

\* Processes other than kmain are interchangeable; liveness cannot use it.
Symmetry == Permutations(Procs \ {kmain})

(* Fairness: the PIT keeps firing, and a program that gets the processor   *)
(* again and again executes the instructions of the call it is in, a time  *)
(* slice being 10 ms.  Programs need not call anything.                    *)
(* Nothing is claimed once calls have overlapped: from then on a behaviour *)
(* may stop.                                                               *)
Cut(A) == ~overlap /\ A
LiveSpec ==
    /\ Init /\ [][Cut(Next)]_vars
    /\ WF_vars(Cut(Tick))
    /\ \A p \in Procs : SF_vars(Cut(cpu.prog = p /\ InCall))
=============================================================================
