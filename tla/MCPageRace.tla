----------------------------- MODULE MCPageRace -----------------------------
(* Instances of PageRace for TLC.                                          *)
EXTENDS PageRace, TLC

CONSTANTS kmain, p1, p2

\* kmain allocates; two processes created earlier hold their VNode and Task
\* pages, interleaved within the bytes of the bitmap, and will exit.
MCInitialOwner == (kmain :> {0}) @@ (p1 :> {1, 3}) @@ (p2 :> {2})
=============================================================================
