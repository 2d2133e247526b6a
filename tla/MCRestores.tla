----------------------------- MODULE MCRestores -----------------------------
(* The history services with their restores, or the queue of state         *)
(* mutations that a restore bars, with the two tasks of the scheduler: one *)
(* in each behaviour.  They meet in main.ts, where the barrier lets no     *)
(* save run beside a restore; HistoryRestore has that in its guards.       *)
EXTENDS MCHistoryRestore, MutationQueue

CONSTANTS selfUpdate, catalogRefresh

MCTasks == {selfUpdate, catalogRefresh}

VARIABLE queued      \* is it the queue

MCvars == <<vars, queueVars, queued>>

MCInit == /\ queued \in BOOLEAN
          /\ Init /\ QueueInit
          /\ IF queued THEN live = [f \in Files |-> a] ELSE enabled = {}

(* main.ts starts what uses the queue when the recovery has ended. *)
Running == queued /\ pc = "idle"

MCNext == /\ \/ ~queued /\ Next /\ UNCHANGED queueVars
             \/ queued /\ Recovery /\ UNCHANGED queueVars
             \/ Running /\ QueueNext /\ UNCHANGED vars
          /\ UNCHANGED queued

(* Only a part that runs is owed its steps. *)
MCSpec == /\ MCInit /\ [][MCNext]_MCvars
          /\ WF_vars(Restore) /\ WF_vars(Recovery)
          /\ WF_queueVars(Running /\ Operation)
          /\ WF_queueVars(Running /\ StartupTimer)
=============================================================================
