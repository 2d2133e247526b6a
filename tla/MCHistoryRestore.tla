--------------------------- MODULE MCHistoryRestore ---------------------------
(* Bounded instances of HistoryRestore for TLC. *)
EXTENDS HistoryRestoreRefinement, TLC

CONSTANTS a, b

MCValues == {a, b}

(* A revision of equal files and a mixed one. *)
MCRevisions == {[f \in Files |-> b], [f \in Files |-> IF f = 1 THEN a ELSE b]}

(* Crashes and forward failures, no abandoned rollback. *)
CrashLimit == [kind \in Kinds |->
    CASE kind = "rollbackFault" -> 0
      [] kind \in {"fault", "save"} -> 1
      [] OTHER -> 2]

(* Rollbacks may be abandoned too. *)
FaultLimit == [kind \in Kinds |->
    IF kind \in {"restore", "fault"} THEN 2 ELSE 1]
=============================================================================
