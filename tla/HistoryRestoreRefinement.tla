----------------------- MODULE HistoryRestoreRefinement -----------------------
(***************************************************************************)
(* The journaled restore implements AtomicRestore as long as no rollback   *)
(* is abandoned half-way by a running process (Limit.rollbackFault = 0);   *)
(* crashes and failures anywhere else are allowed.  The durable state is   *)
(* what the journal says recovery would make of the files, so the restore  *)
(* takes effect at the git commit, not while the files are being replaced. *)
(***************************************************************************)
EXTENDS HistoryRestore
CONSTANT NoRequest

ASSUME NoRequestAssumption == NoRequest \notin [from : States, to : States]

DurableState ==
    CASE journal.phase = "recording" /\ head.label = journal.label -> journal.next
      [] journal.phase \in Unsettled /\ ~(journal.phase = "recording"
                                          /\ head.label = journal.label) -> journal.prev
      [] OTHER -> live

PendingRequest ==
    IF journal.phase \in Unsettled
    THEN [from |-> journal.prev, to |-> journal.next]
    ELSE NoRequest

Atomic == INSTANCE AtomicRestore
              WITH state <- DurableState, request <- PendingRequest

(* Every restore is all or nothing, crashes included, and no save is lost.  *)
AllOrNothing == Atomic!Spec
=============================================================================
