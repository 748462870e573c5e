------------------------------- MODULE MCVMem -------------------------------
(* Instances of VMem for TLC: 5 pages of 4 bytes, a header of 1 byte.      *)
EXTENDS VMem

\* 0 is refused, 3 fills one page exactly, 4 spills into a second.
MCSizes == {0, 3, 4}
=============================================================================
