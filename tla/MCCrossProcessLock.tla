------------------------- MODULE MCCrossProcessLock -------------------------
(* Interchangeable processes. *)
EXTENDS CrossProcessLock, TLC

CONSTANTS p1, p2, p3, p4

MCProcs == {p1, p2, p3, p4}
Interchangeable == Permutations(MCProcs)
=============================================================================
