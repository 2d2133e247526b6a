--------------------------- MODULE AppearanceDraft ---------------------------
(***************************************************************************)
(* The appearance editor: useAppearance in the renderer, the fields of     *)
(* AppearancePanel that call it, and AppearanceService behind the queue of *)
(* state mutations in the main process.                                    *)
(*                                                                         *)
(* The renderer shows its copy of the document with a draft on top, saves  *)
(* the draft after a delay, and takes an answer only if nothing was asked  *)
(* since.  A handler sees the draft of the render it belongs to: a field   *)
(* that calls setToken and commit at once commits the draft before.        *)
(* The tokens of an element's override are one value.                      *)
(***************************************************************************)
EXTENDS Naturals, Sequences

CONSTANTS Elements, Looks,
          Plain,            \* an override without tokens
          NoElement,
          MaxAsked,         \* bound on the calls to the main process
          AppearanceFaults  \* bound on the calls that are rejected

ASSUME AppearanceAssumption ==
    /\ Plain \notin Looks /\ NoElement \notin Elements
    /\ MaxAsked \in Nat \ {0} /\ AppearanceFaults \in Nat

VARIABLES
    stored,     \* appearance.v1.json
    document,   \* the renderer's copy
    selected,   \* selectedKey
    draft,      \* draft, of one element
    delayed,    \* what the timer of setToken is going to save
    undoable,   \* undoRef
    latest,     \* requestId
    asked,      \* how many calls were made
    requests,   \* the calls the main process has yet to serve
    answers,    \* those the renderer has yet to hear of
    loose,      \* was the draft left behind by a commit
    drifted,     \* did a call fail, or an answer pass another one by
    appearanceFaults

shownVars == <<document, selected, draft, delayed, undoable>>
ghosts == <<loose, drifted>>
appearanceVars == <<stored, shownVars, latest, asked, requests, answers, ghosts,
                    appearanceFaults>>
-----------------------------------------------------------------------------
Overrides == Looks \cup {Plain}
Documents == [Elements -> Overrides]
NoDraft == [key |-> NoElement, look |-> Plain]
Drafts == [key : Elements, look : Overrides] \cup {NoDraft}

(* A call gives the elements in keys this look; its kind says how the      *)
(* answer is taken.                                                        *)
CallOf(kind, id, keys, look) ==
    [kind |-> kind, id |-> id, keys |-> keys, look |-> look]

Ask(call) == /\ asked < MaxAsked
             /\ asked' = asked + 1
             /\ requests' = Append(requests, call)

(* run: only the answer to the last of these calls will be taken. *)
Run(keys, look) == /\ Ask(CallOf("run", latest + 1, keys, look))
                   /\ latest' = latest + 1
DoNotAsk == UNCHANGED <<latest, asked, requests>>
Flush(d) == IF d = NoDraft THEN DoNotAsk ELSE Run({d.key}, d.look)

AppearanceInit ==
    /\ stored \in Documents
    /\ document = [e \in Elements |-> Plain]
    /\ selected = NoElement
    /\ draft = NoDraft
    /\ delayed = NoDraft
    /\ undoable = NoDraft
    /\ latest = 1
    /\ asked = 1
    /\ requests = <<CallOf("run", 1, {}, Plain)>>
    /\ answers = <<>>
    /\ loose = FALSE
    /\ drifted = FALSE
    /\ appearanceFaults = 0
-----------------------------------------------------------------------------
(* select saves the draft of the element that is left.                     *)
Select(key) ==
    /\ selected' = key
    /\ IF draft.key \in Elements \ {key}
       THEN /\ Flush(draft)
            /\ delayed' = NoDraft
            /\ draft' = NoDraft
            /\ loose' = FALSE
       ELSE DoNotAsk /\ UNCHANGED <<delayed, draft, loose>>
    /\ UNCHANGED <<stored, document, undoable, answers, drifted, appearanceFaults>>

(* setToken alone, as a slider's moves call it. *)
SetToken(look) ==
    /\ selected # NoElement
    /\ draft' = [key |-> selected, look |-> look]
    /\ delayed' = draft'
    /\ loose' = FALSE
    /\ DoNotAsk
    /\ UNCHANGED <<stored, document, selected, undoable, answers, drifted,
                   appearanceFaults>>

(* commit alone, as leaving the slider calls it. *)
Commit ==
    /\ Flush(draft)
    /\ delayed' = NoDraft
    /\ loose' = FALSE
    /\ UNCHANGED <<stored, document, selected, draft, undoable, answers, drifted,
                   appearanceFaults>>

(* setToken and commit in one handler, as all other fields call them.      *)
Pick(look) ==
    /\ selected # NoElement
    /\ draft' = [key |-> selected, look |-> look]
    /\ delayed' = NoDraft
    /\ Flush(draft)
    /\ loose' = TRUE
    /\ UNCHANGED <<stored, document, selected, undoable, answers, drifted,
                   appearanceFaults>>

TimerFires ==
    /\ delayed # NoDraft
    /\ Flush(delayed)
    /\ delayed' = NoDraft
    /\ UNCHANGED <<stored, document, selected, draft, undoable, answers, ghosts,
                   appearanceFaults>>

ResetElement ==
    /\ selected # NoElement
    /\ undoable' = IF document[selected] = Plain THEN undoable
                   ELSE [key |-> selected, look |-> document[selected]]
    /\ draft' = NoDraft
    /\ loose' = FALSE
    /\ Run({selected}, Plain)
    /\ UNCHANGED <<stored, document, selected, delayed, answers, drifted,
                   appearanceFaults>>

ResetAll ==
    /\ undoable' = NoDraft
    /\ draft' = NoDraft
    /\ loose' = FALSE
    /\ Run(Elements, Plain)
    /\ UNCHANGED <<stored, document, selected, delayed, answers, drifted,
                   appearanceFaults>>

(* The draft that was made since is still shown on top. *)
UndoReset ==
    /\ undoable # NoDraft
    /\ Flush(undoable)
    /\ undoable' = NoDraft
    /\ drifted' = (drifted \/ (draft.key = undoable.key /\ delayed = NoDraft))
    /\ UNCHANGED <<stored, document, selected, draft, delayed, answers, loose,
                   appearanceFaults>>

UndoExpires ==
    /\ undoable # NoDraft
    /\ undoable' = NoDraft
    /\ DoNotAsk
    /\ UNCHANGED <<stored, document, selected, draft, delayed, answers, ghosts,
                   appearanceFaults>>

(* A document is imported, or comes back with a restore of the history.    *)
Replace(kind, look) ==
    /\ Ask(CallOf(kind, 0, Elements, look))
    /\ UNCHANGED <<stored, shownVars, latest, answers, ghosts, appearanceFaults>>
-----------------------------------------------------------------------------
(* The queue runs the call at its head.  A lock of the appearance or a     *)
(* failing write rejects it.                                               *)
Answer(call, ok, doc) == [kind |-> call.kind, id |-> call.id, ok |-> ok, doc |-> doc]

Serve ==
    /\ requests # <<>>
    /\ LET call == Head(requests)
       IN  /\ stored' = [e \in Elements |-> IF e \in call.keys THEN call.look
                                            ELSE stored[e]]
           /\ answers' = Append(answers, Answer(call, TRUE, stored'))
    /\ requests' = Tail(requests)
    /\ UNCHANGED <<shownVars, latest, asked, ghosts, appearanceFaults>>

ServeFails ==
    /\ requests # <<>>
    /\ appearanceFaults < AppearanceFaults
    /\ appearanceFaults' = appearanceFaults + 1
    /\ answers' = Append(answers, Answer(Head(requests), FALSE, stored))
    /\ requests' = Tail(requests)
    /\ drifted' = TRUE
    /\ UNCHANGED <<stored, shownVars, latest, asked, loose>>

Heard == answers # <<>> /\ answers' = Tail(answers)
OnItsWay(id) == \/ \E i \in DOMAIN requests : requests[i].id = id
                \/ \E i \in 2..Len(answers) : answers[i].id = id

(* accept, or the notice of a rejection. *)
Accept ==
    /\ Heard
    /\ LET answer == Head(answers)
       IN  /\ answer.kind = "run" \/ ~answer.ok
           /\ document' = IF answer.ok /\ answer.id = latest THEN answer.doc
                          ELSE document
    /\ UNCHANGED <<stored, selected, draft, delayed, undoable, latest, asked,
                   requests, ghosts, appearanceFaults>>

(* importDocument; an answer on its way will not be taken any more.        *)
Imported ==
    /\ Heard
    /\ Head(answers).kind = "import" /\ Head(answers).ok
    /\ document' = Head(answers).doc
    /\ draft' = NoDraft
    /\ loose' = FALSE
    /\ latest' = latest + 1
    /\ drifted' = (drifted \/ OnItsWay(latest))
    /\ UNCHANGED <<stored, selected, delayed, undoable, asked, requests,
                   appearanceFaults>>

(* Mutant: the draft outlives a reload. *)
RestoredUnderDraft ==
    /\ Heard
    /\ Head(answers).kind = "restore" /\ Head(answers).ok
    /\ Run({}, Plain)
    /\ delayed' = NoDraft
    /\ undoable' = NoDraft
    /\ UNCHANGED <<stored, document, selected, draft, ghosts, appearanceFaults>>

(* reload, once the restore has answered. *)
Restored ==
    /\ Heard
    /\ Head(answers).kind = "restore" /\ Head(answers).ok
    /\ Run({}, Plain)
    /\ delayed' = NoDraft
    /\ draft' = NoDraft
    /\ undoable' = NoDraft
    /\ loose' = FALSE
    /\ UNCHANGED <<stored, document, selected, drifted, appearanceFaults>>

AppearanceNext ==
    \/ \E key \in Elements \cup {NoElement} : Select(key)
    \/ \E look \in Overrides : SetToken(look) \/ Pick(look)
    \/ Commit \/ TimerFires \/ ResetElement \/ ResetAll \/ UndoReset \/ UndoExpires
    \/ \E look \in Looks : Replace("import", look) \/ Replace("restore", look)
    \/ Serve \/ ServeFails \/ Accept \/ Imported \/ Restored

AppearanceSpec == AppearanceInit /\ [][AppearanceNext]_appearanceVars
-----------------------------------------------------------------------------
AppearanceTypeOK ==
    /\ stored \in Documents /\ document \in Documents
    /\ selected \in Elements \cup {NoElement}
    /\ draft \in Drafts /\ delayed \in Drafts /\ undoable \in Drafts
    /\ latest \in Nat /\ asked \in 0..MaxAsked
    /\ requests \in Seq([kind : {"run", "import", "restore"}, id : Nat,
                         keys : SUBSET Elements, look : Overrides])
    /\ answers \in Seq([kind : {"run", "import", "restore"}, id : Nat,
                        ok : BOOLEAN, doc : Documents])
    /\ loose \in BOOLEAN /\ drifted \in BOOLEAN
    /\ appearanceFaults \in 0..AppearanceFaults

Shown == [e \in Elements |-> IF e = draft.key THEN draft.look ELSE document[e]]
Quiet == requests = <<>> /\ answers = <<>> /\ delayed = NoDraft

(* However changes, resets, imports and restores overlap with saves that   *)
(* are under way: once all is quiet the editor shows what is stored,       *)
(* unless a call was rejected, an import or an undo has come across a      *)
(* save, or a commit has left the draft behind.  An answer that is dropped *)
(* is made up for by the one it was dropped for (use-appearance.ts:40-44). *)
ShownIsStored ==
    /\ AppearanceTypeOK
    /\ Quiet /\ ~drifted /\ ~loose => Shown = stored

(* Not true (see the README): a change that is shown is saved, or about to *)
(* be.  "These values are persisted as strict tokens"                      *)
(* (appearance-editor.md:21).                                              *)
ChangesAreSaved ==
    Quiet /\ ~drifted /\ draft # NoDraft => stored[draft.key] = draft.look
=============================================================================
