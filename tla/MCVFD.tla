-------------------------------- MODULE MCVFD -------------------------------
(* Instances of VFD for TLC.                                               *)
EXTENDS VFD, TLC

CONSTANTS p1, p2, p3, tty0, null, random

\* Processes and VNodes are interchangeable.
Symmetry == Permutations(Procs) \cup Permutations(VNodes)

\* Nothing is claimed once opens have overlapped: do not explore further.
UntilOverlap == ~overlap
=============================================================================
