----------------------------- MODULE Authenticator -----------------------------
(***************************************************************************)
(* The saved entries of the authenticator: AuthenticatorService over       *)
(* SafeStorageAuthenticatorVault, with the IPC handlers of main.ts that    *)
(* call it.                                                                *)
(*                                                                         *)
(* An entry is a ciphertext file and a line of the metadata file.  One     *)
(* operation at a time holds withMetadataSerial; lists, pairing previews   *)
(* and the undoing of a pairing run beside it, and School mode or a        *)
(* history restore may fence everything between two of its awaits.  An     *)
(* action ends where the code awaits.  What follows the renaming of the    *)
(* metadata file runs in the same turn of the event loop, so that the      *)
(* checks made there cannot fail, and belongs to the action that renames.  *)
(*                                                                         *)
(* Labels, orders, codes and the forms of an export are data, and left     *)
(* out.  A registration is named by the entry it is for, both being drawn  *)
(* at random by prepare.                                                   *)
(***************************************************************************)
EXTENDS FiniteSets, Naturals

CONSTANTS Ids,         \* the entries there may ever be
          Saved,       \* what the metadata file may say at the beginning
          Selections,  \* the sets of entries a request may name
          Groups,      \* the groups there may be
          MaxEntries,  \* AUTHENTICATOR_MAX_ENTRIES
          MaxPending,  \* MAX_PENDING_REGISTRATIONS
          Limit        \* bound on the uses of each kind in one behaviour

(* What a behaviour does a bounded number of times: requests for saved     *)
(* entries, lists, fences, resets by a restored history, and faults of the *)
(* disk or ends of the process.                                            *)
Kinds == {"request", "list", "fence", "reset", "fault"}

ASSUME IdsAssumption == /\ IsFiniteSet(Ids)
                        /\ Saved \subseteq [ids: SUBSET Ids,
                                            groups: SUBSET Groups]
                        /\ Selections \subseteq SUBSET Ids
ASSUME BoundsAssumption == {MaxEntries, MaxPending} \subseteq Nat
ASSUME LimitAssumption == Limit \in [Kinds -> Nat]

VARIABLES
    doc,         \* authenticator.v1.json: its entries and its groups
    cipher,      \* the entries with a whole ciphertext file
    damaged,     \* those whose ciphertext file was cut short while rewritten
    restricted,  \* AuthenticatorService.restricted
    leases,      \* historyRestoreLeases
    gen,         \* restrictionGeneration
    reg,         \* where the pairing of each entry is
    asked,       \* the generation prepare captured
    answer,      \* what confirm answered last
    waiting,     \* the requests queued in metadataMutationSerial
    op,          \* the operation that holds it
    undo,        \* the pairings whose publication is being undone
    groups,      \* AuthenticatorService.groups
    list,        \* the call of list that runs
    shown,       \* has the renderer been answered the entries
    token,       \* is there a secret-export authorization
    file,        \* the destination of the last secret export
    exported,    \* what secretExport answered it
    doubt,       \* the entries reported uncertain, or cut short by a crash
    used         \* the uses of each kind so far

fence == <<restricted, leases, gen>>
vault == <<doc, cipher, damaged>>
pairing == <<reg, asked, answer, undo>>
export == <<token, file, exported>>
vars == <<doc, cipher, damaged, restricted, leases, gen, reg, asked, answer,
          waiting, op, undo, groups, list, shown, token, file, exported,
          doubt, used>>
-----------------------------------------------------------------------------
Documents == [ids: SUBSET Ids, groups: SUBSET Groups]
Blank == [ids |-> {}, groups |-> {}]

(* What the ciphertext file of an entry holds. *)
Held == {"nothing", "whole", "cut"}

HeldFor(i) == CASE i \in cipher                -> "whole"
                [] i \in damaged \ cipher      -> "cut"
                [] i \notin cipher \cup damaged -> "nothing"

(* A confirm captures its generation when it is called, the others when    *)
(* their turn comes.                                                       *)
Requests == [kind: {"confirm", "edit", "group", "remove", "secrets"},
             left: SUBSET Ids, gen: Nat]
Ops == [kind: {"none", "confirm", "edit", "group", "remove", "secrets"},
        left: SUBSET Ids, gen: Nat,
        step: {"idle", "read", "seal", "write", "rollback", "rewrite", "next",
               "save", "check", "record"},
        before: Documents,         \* the metadata it has read
        groups: SUBSET Groups,     \* the groups it will publish
        now: SUBSET Ids,           \* the entry vault.remove works on
        had: Held]                 \* previousSecret, read of its ciphertext

NoOp == [kind |-> "none", left |-> {}, gen |-> 0, step |-> "idle",
         before |-> Blank, groups |-> {}, now |-> {},
         had |-> "nothing"]

Free == [step |-> "off", gen |-> 0]

Spend(kind) == /\ used[kind] < Limit[kind]
               /\ used' = [used EXCEPT ![kind] = @ + 1]

(* authenticatorAllowed, which every handler but cancel-attempt awaits.    *)
Allowed == ~restricted /\ leases = 0

(* capabilityIsLive. *)
Live(g) == Allowed /\ gen = g

Open == {i \in Ids : reg[i] \in {"open", "confirming"}}

(* removePending of several registrations: a confirm under way keeps its   *)
(* record and finds it cancelled.                                          *)
Removed(S) == [i \in Ids |-> IF i \in S \cap Open THEN "gone" ELSE reg[i]]

Init == /\ doc \in Saved
        /\ cipher = doc.ids
        /\ damaged = {}
        /\ restricted \in BOOLEAN
        /\ leases = 0
        /\ gen = 0
        /\ reg = [i \in Ids |-> IF i \in doc.ids THEN "gone" ELSE "none"]
        /\ asked = [i \in Ids |-> 0]
        /\ answer = [i \in Ids |-> IF i \in doc.ids THEN "saved" ELSE "none"]
        /\ waiting = {}
        /\ op = NoOp
        /\ undo = {}
        /\ groups = {}
        /\ list = Free
        /\ shown = FALSE
        /\ token = FALSE
        /\ file = "none"
        /\ exported = "none"
        /\ doubt = {}
        /\ used = [kind \in Kinds |-> 0]
-----------------------------------------------------------------------------
(* The fences. *)

(* setRestricted, from the School-mode observer or from a handler.         *)
SetRestricted ==
    /\ Spend("fence")
    /\ restricted' = ~restricted
    /\ gen' = gen + 1
    /\ reg' = IF restricted' THEN Removed(Ids) ELSE reg
    /\ UNCHANGED <<vault, leases, asked, answer, undo, waiting, op,
                   groups, list, shown, export, doubt>>

(* setHistoryRestoreInProgress(true).                                      *)
RestoreBegin ==
    /\ Spend("fence")
    /\ leases' = leases + 1
    /\ gen' = gen + 1
    /\ reg' = Removed(Ids)
    /\ token' = FALSE
    /\ UNCHANGED <<vault, restricted, asked, answer, undo, waiting, op,
                   groups, list, shown, file, exported, doubt>>

(* resetAfterHistoryRestore, once a revision has been restored.            *)
RestoreReset ==
    /\ leases > 0
    /\ Spend("reset")
    /\ gen' = gen + 1
    /\ reg' = Removed(Ids)
    /\ token' = FALSE
    /\ groups' = {}
    /\ UNCHANGED <<vault, restricted, leases, asked, answer, undo,
                   waiting, op, list, shown, file, exported, doubt>>

(* setHistoryRestoreInProgress(false).                                     *)
RestoreEnd ==
    /\ leases > 0
    /\ leases' = leases - 1
    /\ gen' = gen + 1
    /\ reg' = IF leases' > 0 THEN Removed(Ids) ELSE reg
    /\ token' = FALSE
    /\ UNCHANGED <<vault, restricted, asked, answer, undo, waiting, op,
                   groups, list, shown, file, exported, doubt, used>>
-----------------------------------------------------------------------------
(* Pairing: prepare, confirm, cancel. *)
Elsewhere == <<vault, fence, op, groups, list, shown, export, doubt, used>>

Prepare(i) ==
    /\ Allowed
    /\ reg[i] = "none"
    /\ reg' = [reg EXCEPT ![i] = "asked"]
    /\ asked' = [asked EXCEPT ![i] = gen]
    /\ UNCHANGED <<Elsewhere, answer, undo, waiting>>

(* The vault has answered its status: too many open pairings are refused.  *)
PrepareChecked(i) ==
    /\ reg[i] = "asked"
    /\ reg' = [reg EXCEPT ![i] =
                 IF Live(asked[i]) /\ Cardinality(Open) < MaxPending
                 THEN "checked" ELSE "gone"]
    /\ UNCHANGED <<Elsewhere, asked, answer, undo, waiting>>

(* Mutant: the fence is not checked again after the metadata are read.     *)
PrepareDoneLate(i) ==
    /\ reg[i] = "checked"
    /\ reg' = [reg EXCEPT ![i] =
                 IF Cardinality(doc.ids) < MaxEntries THEN "open" ELSE "gone"]
    /\ asked' = [asked EXCEPT ![i] = 0]
    /\ UNCHANGED <<Elsewhere, answer, undo, waiting>>

(* The metadata have been read: the preview is kept until its timer fires. *)
PrepareDone(i) ==
    /\ reg[i] = "checked"
    /\ reg' = [reg EXCEPT ![i] =
                 IF Live(asked[i]) /\ Cardinality(doc.ids) < MaxEntries
                 THEN "open" ELSE "gone"]
    /\ asked' = [asked EXCEPT ![i] = 0]
    /\ UNCHANGED <<Elsewhere, answer, undo, waiting>>

(* The code matches, and the confirmation queues.                          *)
Confirm(i) ==
    /\ Allowed
    /\ reg[i] = "open"
    /\ reg' = [reg EXCEPT ![i] = "confirming"]
    /\ waiting' = waiting \cup {[kind |-> "confirm", left |-> {i}, gen |-> gen]}
    /\ UNCHANGED <<Elsewhere, asked, answer, undo>>

(* The wrong code that reaches MAX_CONFIRM_ATTEMPTS, whichever it is: the  *)
(* attempts before it change nothing but their number.                     *)
ConfirmWrong(i) ==
    /\ Allowed
    /\ reg[i] = "open"
    /\ reg' = Removed({i})
    /\ UNCHANGED <<Elsewhere, asked, answer, undo, waiting>>

(* cancel, cancelAttempt, or the expiry timer.                             *)
Discard(i) ==
    /\ i \in Open
    /\ reg' = Removed({i})
    /\ UNCHANGED <<Elsewhere, asked, answer, undo, waiting>>
-----------------------------------------------------------------------------
(* The requests for entries and groups that the renderer has been shown.   *)
Enqueue(r) == waiting' = waiting \cup {r}

RequestChange ==
    /\ Allowed
    /\ shown
    /\ Spend("request")
    /\ \/ Enqueue([kind |-> "group", left |-> {}, gen |-> 0])
       \/ \E S \in Selections :
             \/ Cardinality(S) = 1 /\ Enqueue([kind |-> "edit", left |-> S, gen |-> 0])
             \/ Enqueue([kind |-> "remove", left |-> S, gen |-> 0])
    /\ UNCHANGED <<vault, fence, pairing, op, groups, list, shown, export,
                   doubt>>

(* A secret export, one at a time, to a name the save dialog has given.    *)
RequestExport ==
    /\ Allowed
    /\ shown
    /\ token
    /\ op.kind # "secrets" /\ \A r \in waiting : r.kind # "secrets"
    /\ Spend("request")
    /\ \E S \in Selections : Enqueue([kind |-> "secrets", left |-> S, gen |-> 0])
    /\ file' = "none"
    /\ exported' = "none"
    /\ UNCHANGED <<vault, fence, pairing, op, groups, list, shown, token,
                   doubt>>

(* authorizeSecretExport. *)
Authorize ==
    /\ Allowed
    /\ shown
    /\ token' = TRUE
    /\ UNCHANGED <<vault, fence, pairing, waiting, op, groups, list, shown,
                   file, exported, doubt, used>>

(* revokeSecretExportAuthorization, the save dialog having been cancelled. *)
Revoke ==
    /\ token
    /\ token' = FALSE
    /\ UNCHANGED <<vault, fence, pairing, waiting, op, groups, list, shown,
                   file, exported, doubt, used>>
-----------------------------------------------------------------------------
(* The operation that holds the serial. *)
At(kind, step) == op.kind = kind /\ op.step = step
To(step) == op' = [op EXCEPT !.step = step]

(* Another operation's turn.  A secret export uses up its authorization.   *)
Start(r) ==
    /\ op = NoOp
    /\ r \in waiting
    /\ waiting' = waiting \ {r}
    /\ op' = IF r.kind = "secrets" /\ ~token
             THEN NoOp
             ELSE [NoOp EXCEPT !.kind = r.kind, !.left = r.left, !.step = "read",
                               !.gen = IF r.kind = "confirm" THEN r.gen ELSE gen]
    /\ token' = (token /\ r.kind # "secrets")
    /\ exported' = IF r.kind = "secrets" /\ ~token THEN "refused" ELSE exported
    /\ UNCHANGED <<vault, fence, pairing, groups, list, shown, file, doubt,
                   used>>

(* Mutant: a cancelled pairing may still be published. *)
CommitCancelled(i) == Live(op.gen) /\ reg[i] # "checked"

(* shouldCommit of a confirmation. *)
Commit(i) == Live(op.gen) /\ reg[i] = "confirming"

(* An await fails for the disk, or the check after it for a fence.         *)
Stopped(live) == \/ Spend("fault")
                 \/ ~live /\ UNCHANGED used

Going(live) == live /\ UNCHANGED used

(* Mutant: a rejected operation is not taken off the serial. *)
GiveUpStuck(i) ==
    /\ op' = [op EXCEPT !.step = "idle"]
    /\ reg' = IF Commit(i) THEN [reg EXCEPT ![i] = "open"] ELSE Removed({i})
    /\ answer' = [answer EXCEPT ![i] = IF Commit(i) THEN "failed" ELSE "discarded"]

(* A save that has failed and left nothing behind is answered.             *)
GiveUp(i) ==
    /\ op' = NoOp
    /\ reg' = IF Commit(i) THEN [reg EXCEPT ![i] = "open"] ELSE Removed({i})
    /\ answer' = [answer EXCEPT ![i] = IF Commit(i) THEN "failed" ELSE "discarded"]

Confirming(step, i) == At("confirm", step) /\ op.left = {i}

OutsideSave == <<fence, asked, waiting, groups, list, shown, export>>

ConfirmRead(i) ==
    /\ Confirming("read", i)
    /\ \/ Stopped(Commit(i)) /\ GiveUp(i)
       \/ /\ Going(Commit(i))
          /\ Cardinality(doc.ids) >= MaxEntries
          /\ op' = NoOp
          /\ reg' = Removed({i})
          /\ answer' = [answer EXCEPT ![i] = "full"]
       \/ /\ Going(Commit(i))
          /\ Cardinality(doc.ids) < MaxEntries
          /\ To("seal")
          /\ UNCHANGED <<reg, answer>>
    /\ UNCHANGED <<OutsideSave, vault, undo, doubt>>

(* The ciphertext is written aside and renamed to its name. *)
SealSecret(i) ==
    /\ Confirming("seal", i)
    /\ \/ Stopped(Commit(i)) /\ GiveUp(i) /\ UNCHANGED <<cipher, damaged>>
       \/ /\ Going(Commit(i))
          /\ cipher' = cipher \cup {i}
          /\ damaged' = damaged \ {i}
          /\ To("write")
          /\ UNCHANGED <<reg, answer>>
    /\ UNCHANGED <<OutsideSave, doc, undo, doubt>>

(* The metadata are published and the registration forgotten. *)
PublishEntry(i) ==
    /\ Confirming("write", i)
    /\ \/ Stopped(Commit(i)) /\ To("rollback") /\ UNCHANGED <<doc, reg, answer>>
       \/ /\ Going(Commit(i))
          /\ doc' = [doc EXCEPT !.ids = @ \cup {i}]
          /\ reg' = Removed({i})
          /\ answer' = [answer EXCEPT ![i] = "saved"]
          /\ To("record")
    /\ UNCHANGED <<OutsideSave, cipher, damaged, undo, doubt>>

(* The ciphertext is unlinked again, or the vault is left in doubt.  There *)
(* was none before it to write back, the identifier being new.             *)
RollBackSave(i) ==
    /\ Confirming("rollback", i)
    /\ \/ /\ cipher' = cipher \ {i}
          /\ GiveUp(i)
          /\ UNCHANGED <<undo, used>>
       \/ /\ Spend("fault")
          /\ undo' = undo \cup {i}
          /\ op' = NoOp
          /\ UNCHANGED <<cipher, reg, answer>>
    /\ UNCHANGED <<OutsideSave, doc, damaged, doubt>>

(* rollbackAfterRestriction, outside the serial: vault.remove does nothing *)
(* for an entry that the metadata do not list.                             *)
Undo(i) ==
    /\ i \in undo
    /\ undo' = undo \ {i}
    /\ reg' = Removed({i})
    /\ \/ /\ answer' = [answer EXCEPT ![i] = "discarded"]
          /\ UNCHANGED <<doubt, used>>
       \/ /\ Spend("fault")
          /\ answer' = [answer EXCEPT ![i] = "uncertain"]
          /\ doubt' = doubt \cup {i}
    /\ UNCHANGED <<OutsideSave, vault, op>>
-----------------------------------------------------------------------------
(* Changes of the metadata alone: rename and reorder, and the groups.      *)
OutsideEdit == <<cipher, damaged, fence, pairing, waiting, list, shown, export,
                 doubt>>

(* readMutableMetadata.  The operations on groups read the groups too; a   *)
(* legacy label given to setGroup makes a group in memory at once.         *)
EditRead ==
    /\ op.kind \in {"edit", "group"} /\ op.step = "read"
    /\ \/ /\ Stopped(Live(op.gen) /\ (op.kind = "edit" => op.left \subseteq doc.ids))
          /\ op' = NoOp
          /\ UNCHANGED groups
       \/ /\ op.kind = "edit"
          /\ Going(Live(op.gen) /\ op.left \subseteq doc.ids)
          /\ op' = [op EXCEPT !.step = "write", !.before = doc, !.groups = groups]
          /\ UNCHANGED groups
       \/ /\ op.kind = "group"
          /\ Going(Live(op.gen))
          /\ \E G \in {{}} \cup {{g} : g \in Groups} :
             \E next \in {doc.groups \cup G, doc.groups \ G} :
                /\ op' = [op EXCEPT !.step = "write", !.before = doc, !.groups = next]
                /\ groups' \in {doc.groups, doc.groups \cup next}
    /\ UNCHANGED <<OutsideEdit, doc>>

(* publishMetadataMutation. *)
PublishEdit ==
    /\ op.kind \in {"edit", "group"} /\ op.step = "write"
    /\ \/ /\ Stopped(Live(op.gen))
          /\ op' = NoOp
          /\ UNCHANGED <<doc, groups>>
       \/ /\ Going(Live(op.gen))
          /\ doc' = [ids |-> op.before.ids, groups |-> op.groups]
          /\ groups' = IF op.kind = "group" THEN op.groups ELSE groups
          /\ To("record")
    /\ UNCHANGED OutsideEdit
-----------------------------------------------------------------------------
(* remove and bulkRemove: vault.remove of one entry after another. *)
OutsideRemove == <<fence, pairing, waiting, groups, list, shown, export>>

RemoveRead ==
    /\ At("remove", "read")
    /\ \/ Stopped(Live(op.gen)) /\ op' = NoOp
       \/ /\ Going(Live(op.gen))
          /\ op' = [op EXCEPT !.step = "next", !.before = doc]
    /\ UNCHANGED <<OutsideRemove, vault, doubt>>

(* The ciphertext is read and unlinked.  An unknown entry is skipped, and  *)
(* so is one whose removal is refused or fails before the unlinking.  When *)
(* the unlinking itself fails, the catch that follows writes the           *)
(* ciphertext over itself.                                                 *)
UnlinkSecret(i) ==
    /\ At("remove", "next")
    /\ i \in op.left
    /\ LET ready == Live(op.gen) /\ i \in op.before.ids \cap doc.ids
           Take(step) == op' = [op EXCEPT !.step = step, !.left = @ \ {i},
                                          !.now = {i}, !.had = HeldFor(i)]
       IN \/ /\ Stopped(ready)
             /\ op' = [op EXCEPT !.left = @ \ {i}]
             /\ UNCHANGED <<cipher, damaged>>
          \/ /\ ready /\ Spend("fault")
             /\ Take("rewrite")
             /\ UNCHANGED <<cipher, damaged>>
          \/ /\ Going(ready)
             /\ Take("write")
             /\ cipher' = cipher \ {i}
             /\ damaged' = damaged \ {i}
    /\ UNCHANGED <<OutsideRemove, doc, doubt>>

PublishRemoval ==
    /\ At("remove", "write")
    /\ \/ Stopped(Live(op.gen)) /\ To("rollback") /\ UNCHANGED doc
       \/ /\ Going(Live(op.gen))
          /\ doc' = [doc EXCEPT !.ids = @ \ op.now]
          /\ op' = [op EXCEPT !.step = "next", !.now = {}]
    /\ UNCHANGED <<OutsideRemove, cipher, damaged, doubt>>

(* Mutant: the ciphertext is not written back. *)
RollBackNothing ==
    /\ op.kind = "remove" /\ op.step \in {"rollback", "rewrite"}
    /\ op' = [op EXCEPT !.step = "next", !.now = {}]
    /\ UNCHANGED <<OutsideRemove, vault, doubt, used>>

(* writeFile of previousSecret truncates the file first, so that a failure *)
(* or the end of the process may leave only a part of it.                  *)
CutShort == /\ op.had # "nothing"
            /\ cipher' = cipher \ op.now
            /\ damaged' = damaged \cup op.now

(* previousSecret is written back.  The first rewriting that fails after   *)
(* the ciphertext was unlinked ends the removal and is answered as         *)
(* uncertain.  After an unlinking that failed, `committed` is false: the   *)
(* entry is answered as skipped, whatever became of its file.              *)
RollBackRemoval ==
    /\ op.kind = "remove" /\ op.step \in {"rollback", "rewrite"}
    /\ \/ /\ cipher' = IF op.had = "whole" THEN cipher \cup op.now ELSE cipher
          /\ damaged' = IF op.had = "cut" THEN damaged \cup op.now ELSE damaged
          /\ op' = [op EXCEPT !.step = "next", !.now = {}]
          /\ UNCHANGED <<doubt, used>>
       \/ /\ op.had # "nothing" /\ Spend("fault")
          /\ CutShort \/ UNCHANGED <<cipher, damaged>>
          /\ \/ /\ op.step = "rollback"
                /\ doubt' = doubt \cup op.now
                /\ op' = [op EXCEPT !.step = "next", !.left = {}, !.now = {}]
             \/ /\ op.step = "rewrite"
                /\ op' = [op EXCEPT !.step = "next", !.now = {}]
                /\ UNCHANGED doubt
    /\ UNCHANGED <<OutsideRemove, doc>>

RemoveDone ==
    /\ At("remove", "next")
    /\ op.left = {}
    /\ To("record")
    /\ UNCHANGED <<OutsideRemove, vault, doubt, used>>

(* recordActivity, best effort, and the answer. *)
Record ==
    /\ op.step = "record"
    /\ op' = NoOp
    /\ UNCHANGED <<vault, fence, pairing, waiting, groups, list, shown,
                   export, doubt, used>>
-----------------------------------------------------------------------------
(* secretExport, and list. *)
OutsideExport == <<vault, fence, pairing, waiting, groups, list, shown, token,
                   doubt>>

(* The secrets are read, one after another. *)
ReadSecrets ==
    /\ At("secrets", "read")
    /\ LET ready == Live(op.gen) /\ op.left \subseteq doc.ids \cap cipher
       IN \/ Stopped(ready) /\ op' = NoOp /\ exported' = "refused"
          \/ Going(ready) /\ To("save") /\ UNCHANGED exported
    /\ UNCHANGED <<OutsideExport, file>>

(* They are written aside and renamed to the chosen name.  A name in use   *)
(* is refused, like a fault of the disk.                                   *)
SaveFile ==
    /\ At("secrets", "save")
    /\ \/ /\ Stopped(Live(op.gen))
          /\ op' = NoOp /\ exported' = "refused"
          /\ UNCHANGED file
       \/ /\ Going(Live(op.gen))
          /\ To("check")
          /\ file' = "written"
          /\ UNCHANGED exported
    /\ UNCHANGED OutsideExport

(* Mutant: the file of a refused export is kept. *)
CheckFileKept ==
    /\ At("secrets", "check")
    /\ exported' = IF Live(op.gen) THEN "ok" ELSE "refused"
    /\ IF Live(op.gen) THEN To("record") ELSE op' = NoOp
    /\ UNCHANGED <<OutsideExport, file, used>>

(* A fence that came meanwhile takes the file away, if it can be removed.  *)
CheckFile ==
    /\ At("secrets", "check")
    /\ \/ /\ Going(Live(op.gen))
          /\ exported' = "ok"
          /\ To("record")
          /\ UNCHANGED file
       \/ /\ ~Live(op.gen)
          /\ exported' = "refused"
          /\ op' = NoOp
          /\ \/ file' = "none" /\ UNCHANGED used
             \/ Spend("fault") /\ file' = "stray"
    /\ UNCHANGED OutsideExport

OutsideList == <<vault, fence, pairing, waiting, op, export, doubt>>

ListCall ==
    /\ Allowed
    /\ list = Free
    /\ Spend("list")
    /\ list' = [step |-> "read", gen |-> gen]
    /\ UNCHANGED <<OutsideList, groups, shown>>

(* The metadata and the secrets are read, and the fence checked last.      *)
ListRead ==
    /\ list.step = "read"
    /\ \/ Stopped(Live(list.gen)) /\ list' = Free
       \/ Going(Live(list.gen)) /\ list' = [list EXCEPT !.step = "groups"]
    /\ UNCHANGED <<OutsideList, groups, shown>>

(* The groups are read, and everything answered. *)
ListAnswer ==
    /\ list.step = "groups"
    /\ list' = Free
    /\ groups' = doc.groups
    /\ shown' = TRUE
    /\ UNCHANGED <<OutsideList, used>>
-----------------------------------------------------------------------------
(* The process ends and starts again: only the files are left, and what    *)
(* the renderer was answered.                                              *)
Crash ==
    /\ Spend("fault")
    /\ leases' = 0
    /\ gen' = 0
    /\ reg' = [i \in Ids |-> IF reg[i] = "none" THEN "none" ELSE "gone"]
    /\ asked' = [i \in Ids |-> 0]
    /\ waiting' = {}
    /\ op' = NoOp
    /\ undo' = {}
    /\ groups' = {}
    /\ list' = Free
    /\ shown' = FALSE
    /\ token' = FALSE
    /\ file' = IF file = "written" /\ exported # "ok" THEN "stray" ELSE file
    /\ exported' = IF exported = "none" /\ op.kind = "secrets" THEN "lost" ELSE exported
    /\ doubt' = doubt \cup op.now
    /\ \/ UNCHANGED <<cipher, damaged>>
       \/ op.step \in {"rollback", "rewrite"} /\ CutShort
    /\ UNCHANGED <<doc, restricted, answer>>
-----------------------------------------------------------------------------
Fence == SetRestricted \/ RestoreBegin \/ RestoreReset \/ RestoreEnd

Pairing == \E i \in Ids : \/ Prepare(i) \/ PrepareChecked(i) \/ PrepareDone(i)
                         \/ Confirm(i) \/ ConfirmWrong(i) \/ Discard(i)

(* What goes on in withMetadataSerial. *)
Serial == \/ \E r \in waiting : Start(r)
          \/ \E i \in Ids : \/ ConfirmRead(i) \/ SealSecret(i)
                           \/ PublishEntry(i) \/ RollBackSave(i)
                           \/ UnlinkSecret(i)
          \/ EditRead \/ PublishEdit
          \/ RemoveRead \/ PublishRemoval \/ RollBackRemoval \/ RemoveDone
          \/ ReadSecrets \/ SaveFile \/ CheckFile
          \/ Record

Undoing == \E i \in Ids : Undo(i)

Listing == ListCall \/ ListRead \/ ListAnswer

Next == \/ Fence \/ Pairing \/ RequestChange \/ RequestExport
        \/ Authorize \/ Revoke \/ Serial \/ Undoing \/ Listing \/ Crash

(* The disk answers each await with a result or an error.                  *)
Fairness == WF_vars(Serial) /\ WF_vars(Undoing)

Spec == Init /\ [][Next]_vars /\ Fairness
-----------------------------------------------------------------------------
(* Every variable has its type, and the working fields of the operation    *)
(* are blank when they are not in use.                                     *)
TypeOK ==
    /\ doc \in Documents
    /\ cipher \subseteq Ids /\ damaged \subseteq Ids
    /\ restricted \in BOOLEAN /\ leases \in Nat /\ gen \in Nat
    /\ reg \in [Ids -> {"none", "asked", "checked", "open", "confirming", "gone"}]
    /\ asked \in [Ids -> Nat]
    /\ answer \in [Ids -> {"none", "saved", "failed", "discarded", "full", "uncertain"}]
    /\ waiting \subseteq Requests
    /\ op \in Ops
    /\ undo \subseteq Ids
    /\ groups \subseteq Groups
    /\ list \in [step: {"off", "read", "groups"}, gen: Nat]
    /\ shown \in BOOLEAN /\ token \in BOOLEAN
    /\ file \in {"none", "written", "stray"}
    /\ exported \in {"none", "ok", "refused", "lost"}
    /\ doubt \subseteq Ids
    /\ used \in [Kinds -> Nat]

(* While School mode is on or a history restore runs, no pairing is kept,  *)
(* and so no registration's plaintext secret or code confirmation.         *)
FencedMeansCleared == ~Allowed => Open = {}

(* Every entry that the metadata list has its whole ciphertext, except the *)
(* one being removed, those reported uncertain and those whose ciphertext  *)
(* was cut short while it was rewritten: whatever fails or is fenced on    *)
(* the way, a code can be calculated for what the list shows               *)
(* (authenticator-vault.ts:274-320).  One failure, or one end of the       *)
(* process, never damages an entry that is not reported: it takes an       *)
(* unlinking and a rewriting that both fail.  Types are part of it.        *)
VaultIsWhole ==
    /\ TypeOK
    /\ doc.ids \subseteq cipher \cup op.now \cup doubt \cup damaged
    /\ damaged \subseteq doubt \/ used["fault"] > 1

(* Nothing comes back: an entry that was removed, or whose pairing was     *)
(* cancelled, cleared by a fence, expired, refused or lost with the        *)
(* process, is not listed again, whatever was queued or read before.       *)
NothingComesBack ==
    [][\A i \in Ids : reg[i] = "gone" /\ i \notin doc.ids => i \notin doc'.ids]_vars

(* The chosen file is there only while the export runs or once it has been *)
(* answered as done, unless its removal failed or the process ended.       *)
ExportIsTruthful ==
    file = "written" => exported = "ok" \/ At("secrets", "check")

(* Every request queued behind another one is answered in the end.         *)
RequestsEnd == (waiting # {} \/ op # NoOp \/ undo # {})
                   ~> (waiting = {} /\ op = NoOp /\ undo = {})

(***************************************************************************)
(* What the documentation says and the code does not do (see the README)   *)
(***************************************************************************)

(* A discarded pairing leaves no ciphertext behind: "a failed registration *)
(* cannot leave an orphan secret file".                                    *)
DiscardedLeavesNothing ==
    \A i \in Ids : answer[i] = "discarded" => i \notin cipher

(* An entry whose ciphertext a removal has damaged is answered as          *)
(* uncertain.                                                              *)
DamageIsAnswered == damaged \subseteq doubt

(* The groups are stable: renaming or moving an entry changes none.        *)
EditsKeepGroups ==
    [][op.kind = "edit" => doc'.groups = doc.groups]_vars

(* A list is discarded rather than answered after a fence. *)
ListIsFenced ==
    [][list.step = "groups" /\ shown' /\ ~shown => Live(list.gen)]_vars
=============================================================================
