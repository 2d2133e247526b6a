---------------------------- MODULE WorkspaceDraft ----------------------------
(***************************************************************************)
(* When the tab workspace is saved: useWorkspace of use-workspace.ts, with *)
(* its delayed save, against workspace-service.ts behind the queue of      *)
(* main.ts.  A layout is a value; TabLayout has what is in one.            *)
(*                                                                         *)
(* Main runs save, reset and import one after the other and reads the file *)
(* at any time.  A restore of local history bars the queue: what waits is  *)
(* run first, what comes meanwhile is refused at once.  Answers reach the  *)
(* renderer in the order in which main gives them.                         *)
(***************************************************************************)
EXTENDS Naturals, Sequences

CONSTANTS Workspaces,         \* the layouts that edits make
          Original,        \* DEFAULT_TAB_WORKSPACE
          Former,          \* the layout of a revision
          NoDraft,
          MaxEdits,        \* bounds the edits,
          MaxReplaced,     \*   the resets and imports, and
          WorkspaceFaults  \*   the writes that fail

ASSUME WorkspaceDraftAssumption ==
    /\ Original \notin Workspaces /\ Former \notin Workspaces /\ Original # Former
    /\ MaxEdits \in Nat /\ MaxReplaced \in Nat /\ WorkspaceFaults \in Nat

VARIABLES
    onDisk,      \* what workspace.v1.json holds
    workspace,   \* what is shown
    lastGood,    \* the value a refused save falls back to
    ready,       \* a first load has been answered
    autosave,    \* the timer: what it will save, and for which requestId
    requestId,   \* how often reload was called
    calls,       \* the requests in the queue of main
    reading,     \* the loads that have not read the file yet
    replies,     \* what main has answered and the renderer not yet taken
    restore,     \* "none", or how far a restore is
    crossed,     \* ghost: a save was sent beside an unanswered replacement
    spent        \* counts what is bounded

workspaceVars == <<onDisk, workspace, lastGood, ready, autosave, requestId,
                   calls, reading, replies, restore, crossed, spent>>
rendererVars == <<workspace, lastGood, ready, autosave, requestId, crossed>>
-----------------------------------------------------------------------------
Every == Workspaces \cup {Original, Former}
CallKinds == {"save", "reset", "import"}
Idle == [value |-> NoDraft, id |-> 0]
Spending(kind, most) ==
    /\ spent[kind] < most
    /\ spent' = [spent EXCEPT ![kind] = @ + 1]
Say(kind, ok, value, id) ==
    replies' = Append(replies, [kind |-> kind, ok |-> ok, value |-> value, id |-> id])
Unanswered == {calls[i].kind : i \in 1..Len(calls)}
              \cup {replies[i].kind : i \in 1..Len(replies)}
              \cup (IF reading = {} THEN {} ELSE {"load"})

(* The earlier requests lose their say, the timer is cleared. *)
Reload == /\ requestId' = requestId + 1
          /\ autosave' = Idle
          /\ reading' = reading \cup {requestId + 1}

(* A dispatched replacement is the last good value, so that the effect on  *)
(* it only clears the timer.                                               *)
ShowSaved(value) == workspace' = value /\ autosave' = Idle

WorkspaceInit ==
    /\ onDisk \in Every
    /\ workspace = Original /\ lastGood = Original
    /\ ready = FALSE
    /\ autosave = Idle
    /\ requestId = 1 /\ reading = {1}      \* the reload of the first effect
    /\ calls = << >> /\ replies = << >>
    /\ restore = "none"
    /\ crossed = FALSE
    /\ spent = [edit |-> 0, replaced |-> 0, fault |-> 0]
-----------------------------------------------------------------------------
(* The user. *)
EditLayout(value) ==
    /\ Spending("edit", MaxEdits)
    /\ workspace' = value
    /\ autosave' = IF ready THEN [value |-> value, id |-> requestId] ELSE autosave
    /\ UNCHANGED <<onDisk, lastGood, ready, requestId, calls, reading, replies,
                   restore, crossed>>

(* The queue refuses while it is barred. *)
Send(kind, value, id) ==
    IF restore = "barred"
    THEN Say(kind, FALSE, value, id) /\ UNCHANGED calls
    ELSE /\ calls' = Append(calls, [kind |-> kind, value |-> value, id |-> id])
         /\ UNCHANGED replies

ResetLayout ==
    /\ Spending("replaced", MaxReplaced)
    /\ Send("reset", Original, 0)
    /\ UNCHANGED <<rendererVars, onDisk, reading, restore>>

ImportLayout(value) ==
    /\ Spending("replaced", MaxReplaced)
    /\ Send("import", value, 0)
    /\ UNCHANGED <<rendererVars, onDisk, reading, restore>>

(* 300 ms after the last edit. *)
AutosaveFires ==
    /\ autosave # Idle
    /\ autosave' = Idle
    /\ Send("save", autosave.value, autosave.id)
    /\ crossed' = (crossed \/ Unanswered \cap {"reset", "import", "load", "restore"} # {})
    /\ UNCHANGED <<onDisk, workspace, lastGood, ready, requestId, reading, restore, spent>>
-----------------------------------------------------------------------------
(* Main. *)
Served(ok) ==
    LET call == Head(calls)
    IN  /\ calls # << >>
        /\ calls' = Tail(calls)
        /\ onDisk' = IF ok THEN call.value ELSE onDisk
        /\ Say(call.kind, ok, call.value, call.id)
        /\ UNCHANGED <<rendererVars, reading, restore>>

ServeCall == Served(TRUE) /\ UNCHANGED spent
CallFails == Served(FALSE) /\ Spending("fault", WorkspaceFaults)

ReadLayout(id) ==
    /\ id \in reading
    /\ reading' = reading \ {id}
    /\ Say("load", TRUE, onDisk, id)
    /\ UNCHANGED <<rendererVars, onDisk, calls, restore, spent>>

(* A restore is asked for in the history page. *)
BarQueue ==
    /\ restore = "none"
    /\ restore' = "barred"
    /\ UNCHANGED <<rendererVars, onDisk, calls, reading, replies, spent>>

(* It waits for the queue, replaces the files and lifts the barrier, in    *)
(* both outcomes.                                                          *)
RestoreLayout ==
    /\ restore = "barred" /\ calls = << >>
    /\ restore' = "over"
    /\ onDisk' = Former
    /\ Say("restore", TRUE, Former, 0)
    /\ UNCHANGED <<rendererVars, calls, reading, spent>>

RestoreRefused ==
    /\ restore = "barred" /\ calls = << >>
    /\ restore' = "over"
    /\ Say("restore", FALSE, Former, 0)
    /\ UNCHANGED <<rendererVars, onDisk, calls, reading, spent>>
-----------------------------------------------------------------------------
(* The renderer takes an answer. *)
Took(kind, ok) ==
    /\ replies # << >>
    /\ Head(replies).kind = kind /\ Head(replies).ok = ok
    /\ replies' = Tail(replies)
    /\ UNCHANGED <<onDisk, calls, restore, spent>>
Reply == Head(replies)

LoadAnswered ==
    /\ Took("load", TRUE)
    /\ IF Reply.id = requestId
       THEN ShowSaved(Reply.value) /\ lastGood' = Reply.value /\ ready' = TRUE
       ELSE UNCHANGED <<workspace, autosave, lastGood, ready>>
    /\ UNCHANGED <<requestId, reading, crossed>>

SaveAnswered ==
    /\ Took("save", TRUE)
    /\ lastGood' = IF Reply.id = requestId THEN Reply.value ELSE lastGood
    /\ UNCHANGED <<workspace, ready, autosave, requestId, reading, crossed>>

(* Mutant: a refused draft stays on the screen. *)
SaveRefusedKept ==
    /\ Took("save", FALSE)
    /\ UNCHANGED <<workspace, ready, autosave, lastGood, requestId, reading>>
    /\ crossed' = (crossed \/ "save" \in Unanswered')

(* Falls back.  A save sent meanwhile may still succeed: what is shown and *)
(* what is stored part then.                                               *)
SaveRefused ==
    /\ Took("save", FALSE)
    /\ UNCHANGED <<lastGood, ready, requestId, reading>>
    /\ IF Reply.id = requestId
       THEN ShowSaved(lastGood) /\ crossed' = (crossed \/ "save" \in Unanswered')
       ELSE UNCHANGED <<workspace, autosave, crossed>>

(* reset and import look at no requestId. *)
ReplaceAnswered ==
    /\ Took("reset", TRUE) \/ Took("import", TRUE)
    /\ lastGood' = Reply.value
    /\ ShowSaved(Reply.value)
    /\ UNCHANGED <<ready, requestId, reading, crossed>>

ReplaceRefused ==
    /\ Took("reset", FALSE) \/ Took("import", FALSE)
    /\ UNCHANGED <<workspace, lastGood, ready, autosave, requestId, reading, crossed>>

(* App.refreshRestored. *)
RestoreAnswered ==
    /\ Took("restore", TRUE)
    /\ Reload
    /\ UNCHANGED <<workspace, lastGood, ready, crossed>>

RestoreRefusalAnswered ==
    /\ Took("restore", FALSE)
    /\ UNCHANGED <<workspace, lastGood, ready, autosave, requestId, reading, crossed>>

WorkspaceNext ==
    \/ \E value \in Workspaces : EditLayout(value) \/ ImportLayout(value)
    \/ ResetLayout \/ AutosaveFires
    \/ ServeCall \/ CallFails \/ \E id \in reading : ReadLayout(id)
    \/ BarQueue \/ RestoreLayout \/ RestoreRefused
    \/ LoadAnswered \/ SaveAnswered \/ SaveRefused
    \/ ReplaceAnswered \/ ReplaceRefused
    \/ RestoreAnswered \/ RestoreRefusalAnswered

WorkspaceSpec == WorkspaceInit /\ [][WorkspaceNext]_workspaceVars
-----------------------------------------------------------------------------
WorkspaceTypeOK ==
    /\ {onDisk, workspace, lastGood} \subseteq Every
    /\ ready \in BOOLEAN /\ crossed \in BOOLEAN
    /\ autosave \in [value : Every \cup {NoDraft}, id : Nat]
    /\ requestId \in Nat /\ reading \subseteq 1..requestId
    /\ calls \in Seq([kind : CallKinds, value : Every, id : Nat])
    /\ restore \in {"none", "barred", "over"}

(* When the renderer has nothing under way, neither a timer nor a request, *)
(* it shows what the file holds: no draft of before a restore, no refused  *)
(* edit and no late answer stays on the screen or in the file.  Except     *)
(* after the crossings that the code does not order: a save sent beside an *)
(* unanswered load, reset, import or restore, or beside a save that is     *)
(* refused.                                                                *)
QuietShowsStored ==
    /\ WorkspaceTypeOK
    /\ ready /\ ~crossed /\ autosave = Idle /\ restore # "barred"
       /\ calls = << >> /\ replies = << >> /\ reading = {}
       => workspace = onDisk

(* Not true.  history-versioning.md:19, "stale autosave drafts are fenced  *)
(* out": after a restore nothing of before it is saved.  Main lifts its    *)
(* barrier before the renderer has heard of the restore and called reload, *)
(* so that a draft of 300 ms before may still be saved over the file.      *)
DraftsAreFenced ==
    [][onDisk = Former /\ onDisk' # onDisk /\ Head(calls).kind = "save"
        => ~ \E i \in 1..Len(replies) : replies[i].kind = "restore"]_workspaceVars
=============================================================================
