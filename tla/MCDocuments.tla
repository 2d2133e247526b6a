------------------------------ MODULE MCDocuments ------------------------------
(* The restores of the history services, the reducer of the tab workspace  *)
(* or the saving of it: one in each behaviour, the others stay in a first  *)
(* state.                                                                  *)
EXTENDS MCHistoryRestore, TabLayout, WorkspaceDraft

VARIABLE document      \* which of them it is

MCvars == <<vars, layoutVars, workspaceVars, document>>

(* The initial states of HistoryRestore are what AllOrNothing starts from, *)
(* and they stay the same in the other behaviours.                         *)
MCInit == /\ document \in {"history", "layout", "workspace"}
          /\ Init /\ LayoutInit /\ WorkspaceInit
          /\ document # "history" => live = [f \in Files |-> a]
          /\ document # "workspace" => onDisk = Original

MCNext == /\ \/ /\ document = "history"
                /\ Next /\ UNCHANGED <<layoutVars, workspaceVars>>
             \/ /\ document = "layout"
                /\ LayoutNext /\ UNCHANGED <<vars, workspaceVars>>
             \/ /\ document = "workspace"
                /\ WorkspaceNext /\ UNCHANGED <<vars, layoutVars>>
          /\ UNCHANGED document

MCSpec == MCInit /\ [][MCNext]_MCvars
=============================================================================
