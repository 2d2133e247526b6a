---------------------------- MODULE MCSourceJobs ----------------------------
(* Each kind of misfortune once. *)
EXTENDS SourceJobs

MCLimit == [kind \in Kinds |-> 1]
=============================================================================
