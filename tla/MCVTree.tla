------------------------------- MODULE MCVTree ------------------------------
(* Instances of VTree for TLC.                                             *)
EXTENDS VTree, TLC

CONSTANTS n1, n2, n3, n4

Symmetry == Permutations(Others)
=============================================================================
