---------------------------- MODULE MCSchoolMode ----------------------------
(* Two applications and two credentials, interchangeable. *)
EXTENDS SchoolMode, TLC

CONSTANTS store, office, pinA, pinB

MCProcs == {store, office}
MCSecrets == {pinA, pinB}
Interchangeable == Permutations(MCProcs) \cup Permutations(MCSecrets)
=============================================================================
