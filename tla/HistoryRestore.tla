--------------------------- MODULE HistoryRestore ---------------------------
(***************************************************************************)
(* The journaled restore of a local-history revision:                      *)
(* HistoryService.restoreUnlocked and recoverPendingRestore over the       *)
(* durable journal of history-restore-transaction.ts.                      *)
(*                                                                         *)
(* One step per file-system effect.  Between two steps the process may     *)
(* crash; every step that touches the disk may fail instead.  File         *)
(* contents are opaque values; digests and JSON are abstracted away, the   *)
(* order of the files, of the manifest phases and of the answers is kept.  *)
(* The state-mutation queue fences saves out while a restore runs, so the  *)
(* user's saves happen only when pc = "idle".                              *)
(*                                                                         *)
(* The authenticator slot is absent: the production vault constructor      *)
(* fixes atomicNoFollow to false, so no production journal holds it.       *)
(***************************************************************************)
EXTENDS Naturals

CONSTANTS N,          \* number of restored files (CORE_RESTORE_TARGET_NAMES)
          Values,     \* file contents
          Absent,     \* the file does not exist
          Fallback,   \* what a snapshot records for an absent file
          Revisions,  \* the states that the history repository can restore
          Limit       \* bound on each kind of environment step

Files == 1..N
Contents == Values \cup {Absent}
States == [Files -> Contents]
Kinds == {"fault", "rollbackFault", "crash", "save", "restore"}

ASSUME NAssumption == N \in Nat \ {0}
ASSUME ValuesAssumption == Absent \notin Values /\ Fallback \in Values
ASSUME RevisionsAssumption == Revisions \subseteq [Files -> Values]
ASSUME LimitAssumption == Limit \in [Kinds -> Nat]

VARIABLES
    live,     \* the files below userData
    journal,  \* the restore-transaction directory
    head,     \* HEAD of the history repository: its tree and its subject
    staged,   \* the index of that repository
    pc,       \* where the main process is
    caller,   \* who runs the rollback: "startup", "restore" or "nobody"
    idx,      \* the next file of the apply or rollback loop
    txn,      \* the in-memory request: previous bytes, restored bytes and,
              \* for the properties, which of its snapshots missed a file
    answer,   \* the last HistoryMutationResult shown to the user
    used      \* how many environment steps of each kind happened

vars == <<live, journal, head, staged, pc, caller, idx, txn, answer, used>>
-----------------------------------------------------------------------------
Nothing == [f \in Files |-> Absent]
NoTxn == [prev |-> Nothing, next |-> Nothing, missed |-> {}]

Snapshots == {"current", "restored"}

(* "none": no directory; "debris": a directory without a manifest. *)
ManifestPhases == {"prepared", "applying", "applied", "recording",
                   "recorded", "rolling-back", "rolled-back"}
NoManifest(phase) == [phase |-> phase, prev |-> Nothing, next |-> Nothing,
                      label |-> 0]

(* Phases whose manifest still directs recovery to undo the restore. *)
Unsettled == {"prepared", "applying", "applied", "recording", "rolling-back"}

TreeOf(files) ==
    [f \in Files |-> IF files[f] = Absent THEN Fallback ELSE files[f]]

Spend(kind) == /\ used[kind] < Limit[kind]
               /\ used' = [used EXCEPT ![kind] = @ + 1]

(* A failure met while rolling back in-process leaves the journal behind;  *)
(* one met at startup aborts the startup.                                  *)
SpendRollbackFault ==
    Spend(IF caller = "restore" THEN "rollbackFault" ELSE "fault")

Init == /\ live \in States
        /\ journal = NoManifest("none")
        /\ head = [tree |-> TreeOf(live), label |-> 0]
        /\ staged = head.tree
        /\ pc = "down"
        /\ caller = "nobody"
        /\ idx = 1
        /\ txn = NoTxn
        /\ answer = "none"
        /\ used = [kind \in Kinds |-> 0]
-----------------------------------------------------------------------------
Goto(label) == pc' = label /\ UNCHANGED <<caller, idx, txn, answer>>

Answer(a) == /\ pc' = "idle"
             /\ caller' = "nobody"
             /\ idx' = 1
             /\ txn' = NoTxn
             /\ answer' = a

(* Services start once recoverPendingRestore returns. *)
StartServices == /\ pc' = "idle"
                 /\ caller' = "nobody"
                 /\ idx' = 1
                 /\ UNCHANGED <<txn, answer>>

StopProcess == /\ pc' = "down"
               /\ caller' = "nobody"
               /\ idx' = 1
               /\ txn' = NoTxn
               /\ UNCHANGED answer

(* How the recovery or rollback ends for whoever called it. *)
RollbackReturns ==
    \/ caller = "startup" /\ StartServices
    \/ caller = "restore" /\ Answer("reinstated")

(* Mutant: the startup swallows a failed recovery. *)
RollbackThrowsSwallowed ==
    \/ caller = "startup" /\ StartServices
    \/ caller = "restore" /\ Answer("incomplete")

RollbackThrows ==
    \/ caller = "startup" /\ StopProcess
    \/ caller = "restore" /\ Answer("incomplete")
-----------------------------------------------------------------------------
(* The serving application. *)

Save(f, v) ==
    /\ pc = "idle"
    /\ live[f] # v
    /\ Spend("save")
    /\ live' = [live EXCEPT ![f] = v]
    /\ UNCHANGED <<journal, head, staged, pc, caller, idx, txn, answer>>

(* A snapshot stages what it reads.  A file that it cannot read counts as   *)
(* an empty one, and a git add that fails leaves the index as it was: the   *)
(* code notices neither.                                                    *)
StageLive ==
    \/ /\ staged' = TreeOf(live)
       /\ UNCHANGED used
    \/ /\ Spend("fault")
       /\ \/ UNCHANGED staged
          \/ \E unread \in SUBSET Files :
                staged' = [f \in Files |->
                             IF f \in unread THEN Fallback ELSE TreeOf(live)[f]]

(* HistoryService.record of a successful operation; its commit may fail.    *)
Snapshot ==
    /\ pc = "idle"
    /\ StageLive
    /\ UNCHANGED <<live, journal, head, pc, caller, idx, txn, answer>>

(* The commit of such a snapshot, or of a label: each takes the whole index.*)
CommitStaged ==
    /\ pc = "idle"
    /\ head' = [tree |-> staged, label |-> 0]
    /\ UNCHANGED <<live, journal, staged, pc, caller, idx, txn, answer, used>>

Crash ==
    /\ pc # "down"
    /\ Spend("crash")
    /\ StopProcess
    /\ UNCHANGED <<live, journal, head, staged>>
-----------------------------------------------------------------------------
(* restoreUnlocked, up to the published journal. *)

Begin(revision) ==
    /\ pc = "idle"
    /\ Spend("restore")
    /\ pc' = "before"
    /\ caller' = "restore"
    /\ txn' = [prev |-> live, next |-> revision, missed |-> {}]
    /\ answer' = "none"
    /\ UNCHANGED <<live, journal, head, staged, idx>>

(* A restore takes two snapshots; the second one is forced.                 *)
StageSnapshot(snapshot) ==
    /\ StageLive
    /\ txn' = [txn EXCEPT !.missed =
                 IF staged' = TreeOf(live) THEN @ ELSE @ \cup {snapshot}]
    /\ UNCHANGED <<live, journal, head, caller, idx, answer>>

(* The snapshot that makes this restore undoable. *)
StageCurrent == pc = "before" /\ pc' = "preserve" /\ StageSnapshot("current")

(* Mutant: the snapshot is not committed. *)
PreserveCurrentUncommitted ==
    pc = "preserve" /\ Goto("prepare") /\ UNCHANGED <<live, journal, head, staged, used>>

(* No commit if HEAD has what is staged. *)
PreserveCurrent ==
    /\ pc = "preserve"
    /\ head' = IF head.tree = staged THEN head
               ELSE [tree |-> staged, label |-> 0]
    /\ Goto("prepare")
    /\ UNCHANGED <<live, journal, staged, used>>

PreserveFails ==
    /\ pc \in {"before", "preserve"}
    /\ Spend("fault")
    /\ Answer("refused")
    /\ UNCHANGED <<live, journal, head, staged>>

(* A directory left by an earlier restore makes prepare throw EINTEGRITY,   *)
(* and the catch recovers that older journal.                               *)
FindRetainedJournal ==
    /\ pc = "prepare"
    /\ journal.phase # "none"
    /\ Goto("recover")
    /\ UNCHANGED <<live, journal, head, staged, used>>

StageFiles ==
    /\ pc = "prepare"
    /\ journal.phase = "none"
    /\ journal' = NoManifest("debris")
    /\ Goto("publish")
    /\ UNCHANGED <<live, head, staged, used>>

PublishPrepared ==
    /\ pc = "publish"
    /\ journal' = [phase |-> "prepared", prev |-> txn.prev,
                   next |-> txn.next, label |-> 0]
    /\ Goto("apply")
    /\ UNCHANGED <<live, head, staged, used>>

(* The in-memory transaction is still null: the catch calls recover. *)
PrepareFails ==
    /\ pc \in {"prepare", "publish"}
    /\ Spend("fault")
    /\ Goto("recover")
    /\ UNCHANGED <<live, journal, head, staged>>
-----------------------------------------------------------------------------
(* applyRestoreTransaction and the durable record. *)

WritePhase(phase) == journal' = [journal EXCEPT !.phase = phase]

BeginApply ==
    /\ pc = "apply"
    /\ WritePhase("applying")
    /\ pc' = "replace"
    /\ idx' = 1
    /\ UNCHANGED <<live, head, staged, caller, txn, answer, used>>

ReplaceFile ==
    /\ pc \in {"replace", "replaceRetry"}
    /\ idx <= N
    /\ live' = [live EXCEPT ![idx] = journal.next[idx]]
    /\ pc' = "replace"
    /\ idx' = idx + 1
    /\ UNCHANGED <<journal, head, staged, caller, txn, answer, used>>

(* rename was refused: replaceFromStage removes the target and retries. *)
ReplaceRemoves ==
    /\ pc = "replace"
    /\ idx <= N
    /\ live' = [live EXCEPT ![idx] = Absent]
    /\ Goto("replaceRetry")
    /\ UNCHANGED <<journal, head, staged, used>>

FinishApply ==
    /\ pc = "replace"
    /\ idx > N
    /\ WritePhase("applied")
    /\ Goto("recording")
    /\ UNCHANGED <<live, head, staged, used>>

MarkRecording ==
    /\ pc = "recording"
    /\ journal' = [journal EXCEPT !.phase = "recording",
                                  !.label = used["restore"]]
    /\ Goto("stage")
    /\ UNCHANGED <<live, head, staged, used>>

StageRestored == pc = "stage" /\ pc' = "commit" /\ StageSnapshot("restored")

(* git commit --allow-empty with the restore's unique subject. *)
CommitRestored ==
    /\ pc = "commit"
    /\ head' = [tree |-> staged, label |-> journal.label]
    /\ Goto("recorded")
    /\ UNCHANGED <<live, journal, staged, used>>

MarkRecorded ==
    /\ pc = "recorded"
    /\ WritePhase("recorded")
    /\ Goto("cleanup")
    /\ UNCHANGED <<live, head, staged, used>>

(* The directory goes, or stays behind: the error is swallowed. *)
CleanupRecorded ==
    /\ pc = "cleanup"
    /\ \/ /\ journal' = NoManifest("none")
          /\ UNCHANGED used
       \/ Spend("fault") /\ UNCHANGED journal
    /\ Answer("ok")
    /\ UNCHANGED <<live, head, staged>>

(* Mutant: the failures of recording go straight to the cleanup. *)
ForwardFailsUnnoticed ==
    /\ pc \in {"apply", "replace", "replaceRetry", "recording", "stage",
              "commit", "recorded"}
    /\ Spend("fault")
    /\ Goto(IF pc = "recorded" THEN "cleanup" ELSE "rollback")
    /\ UNCHANGED <<live, journal, head, staged>>

(* Mutant: the catch removes the journal without rolling it back. *)
ForwardFailsUnrolled ==
    /\ pc \in {"apply", "replace", "replaceRetry", "recording", "stage",
              "commit", "recorded"}
    /\ Spend("fault")
    /\ Goto("remove")
    /\ UNCHANGED <<live, journal, head, staged>>

(* Every catch between the published journal and the recorded one. *)
ForwardFails ==
    /\ pc \in {"apply", "replace", "replaceRetry", "recording", "stage",
              "commit", "recorded"}
    /\ Spend("fault")
    /\ Goto("rollback")
    /\ UNCHANGED <<live, journal, head, staged>>
-----------------------------------------------------------------------------
(* recoverRestoreTransaction and rollbackRestoreTransaction. *)

Start ==
    /\ pc = "down"
    /\ pc' = "recover"
    /\ caller' = "startup"
    /\ UNCHANGED <<live, journal, head, staged, idx, txn, answer, used>>

(* Mutant: a recording journal is kept without reading the git log. *)
KeepRecordedUnchecked == caller = "startup" /\ journal.phase = "recording"

(* Only the startup call passes keepRecorded. *)
KeepRecorded == /\ caller = "startup"
                /\ journal.phase = "recording"
                /\ head.label = journal.label

(* Mutant: a directory without a manifest is an integrity error. *)
RecoverStrict ==
    /\ pc = "recover"
    /\ IF journal.phase = "debris" THEN RollbackThrows
       ELSE Goto(IF journal.phase \in Unsettled /\ ~KeepRecorded
                 THEN "rollback" ELSE "remove")
    /\ UNCHANGED <<live, journal, head, staged, used>>

Recover ==
    /\ pc = "recover"
    /\ Goto(IF journal.phase \in Unsettled /\ ~KeepRecorded
            THEN "rollback" ELSE "remove")
    /\ UNCHANGED <<live, journal, head, staged, used>>

(* git log yields nothing, so the recorded restore is not recognised. *)
KeepRecordedUnreadable ==
    /\ pc = "recover"
    /\ KeepRecorded
    /\ SpendRollbackFault
    /\ Goto("rollback")
    /\ UNCHANGED <<live, journal, head, staged>>

BeginRollback ==
    /\ pc = "rollback"
    /\ WritePhase("rolling-back")
    /\ pc' = "reinstate"
    /\ idx' = 1
    /\ UNCHANGED <<live, head, staged, caller, txn, answer, used>>

ReinstateFile ==
    /\ pc \in {"reinstate", "reinstateRetry"}
    /\ idx <= N
    /\ live' = [live EXCEPT ![idx] = journal.prev[idx]]
    /\ pc' = "reinstate"
    /\ idx' = idx + 1
    /\ UNCHANGED <<journal, head, staged, caller, txn, answer, used>>

(* Mutant: the removed target is not replaced again. *)
ReinstateRemovesOnly ==
    /\ pc = "reinstate"
    /\ idx <= N
    /\ journal.prev[idx] # Absent
    /\ live' = [live EXCEPT ![idx] = Absent]
    /\ idx' = idx + 1
    /\ UNCHANGED <<pc, caller, txn, answer, journal, head, staged, used>>

ReinstateRemoves ==
    /\ pc = "reinstate"
    /\ idx <= N
    /\ journal.prev[idx] # Absent
    /\ live' = [live EXCEPT ![idx] = Absent]
    /\ Goto("reinstateRetry")
    /\ UNCHANGED <<journal, head, staged, used>>

FinishRollback ==
    /\ pc = "reinstate"
    /\ idx > N
    /\ WritePhase("rolled-back")
    /\ Goto("remove")
    /\ UNCHANGED <<live, head, staged, used>>

(* rm -r deletes the manifest before the other entries. *)
RemovePartly ==
    /\ pc \in {"remove", "cleanup"}
    /\ journal.phase \in ManifestPhases
    /\ journal' = NoManifest("debris")
    /\ UNCHANGED <<live, head, staged, pc, caller, idx, txn, answer, used>>

RemoveJournal ==
    /\ pc = "remove"
    /\ journal' = NoManifest("none")
    /\ RollbackReturns
    /\ UNCHANGED <<live, head, staged, used>>

RollbackFails ==
    /\ pc \in {"recover", "remove", "rollback", "reinstate",
              "reinstateRetry"}
    /\ SpendRollbackFault
    /\ RollbackThrows
    /\ UNCHANGED <<live, journal, head, staged>>
-----------------------------------------------------------------------------
(* What the process does by itself, and what its environment does to it. *)
Restore == \/ StageCurrent \/ PreserveCurrent \/ FindRetainedJournal \/ StageFiles
           \/ PublishPrepared \/ BeginApply \/ ReplaceFile
           \/ ReplaceRemoves \/ FinishApply \/ MarkRecording
           \/ StageRestored \/ CommitRestored \/ MarkRecorded \/ CleanupRecorded
Recovery == \/ Start \/ Recover \/ BeginRollback \/ ReinstateFile
            \/ ReinstateRemoves \/ FinishRollback \/ RemovePartly
            \/ RemoveJournal
Failure == \/ PreserveFails \/ PrepareFails \/ ForwardFails
           \/ KeepRecordedUnreadable \/ RollbackFails \/ Crash
User == \/ \E f \in Files, v \in Values : Save(f, v)
        \/ Snapshot
        \/ CommitStaged
        \/ \E revision \in Revisions : Begin(revision)

Next == Restore \/ Recovery \/ Failure \/ User

Spec == Init /\ [][Next]_vars
FairSpec == Spec /\ WF_vars(Restore) /\ WF_vars(Recovery)
-----------------------------------------------------------------------------
RollbackPcs == {"recover", "remove", "rollback", "reinstate",
                "reinstateRetry"}
RestorePcs == {"before", "preserve", "prepare", "publish", "apply",
               "replace", "replaceRetry", "recording", "stage", "commit",
               "recorded", "cleanup"}

TypeOK ==
    /\ live \in States
    /\ journal \in [phase : ManifestPhases \cup {"none", "debris"},
                     prev : States, next : States, label : Nat]
    /\ head \in [tree : [Files -> Values], label : Nat]
    /\ staged \in [Files -> Values]
    /\ pc \in RollbackPcs \cup RestorePcs \cup {"idle", "down"}
    /\ caller \in {"startup", "restore", "nobody"}
    /\ idx \in 1..(N + 1)
    /\ txn \in [prev : States, next : States, missed : SUBSET Snapshots]
    /\ answer \in {"none", "ok", "reinstated", "incomplete", "refused"}
    /\ used \in [Kinds -> Nat]

(***************************************************************************)
(* Properties                                                              *)
(***************************************************************************)

(* A journal that declares itself rolled back or recorded tells the truth   *)
(* about every file: no crash, retry or failure in either loop leaves one   *)
(* of them with the other side's bytes, or missing.  A recorded restore is  *)
(* HEAD's own commit, and its tree is the live one unless the snapshot that *)
(* made it missed a file.                                                   *)
SettledIsWhole ==
    [][/\ journal'.phase = "rolled-back" /\ journal.phase # "rolled-back"
            => live' = journal'.prev
       /\ journal'.phase = "recorded" /\ journal.phase # "recorded"
            => /\ live' = journal'.next
               /\ head'.label = journal'.label
               /\ "restored" \in txn.missed \/ head'.tree = TreeOf(live')]_vars

(* Once the user was told that a restore succeeded, nothing that survives   *)
(* on disk makes a later startup or a later restore undo it.                *)
OkIsDurable == answer = "ok" => journal.phase \notin Unsettled

(* From the first replaced file until the restore's own commit, HEAD holds  *)
(* the state that the restore is about to overwrite (history-service.ts     *)
(* promises that a restore "can itself be undone").  It does not when the   *)
(* snapshot of that state missed a file, which the restore never learns.    *)
CurrentIsPreserved ==
    /\ pc \in {"apply", "replace", "replaceRetry", "recording", "stage", "commit"}
    /\ "current" \notin txn.missed
    => head.tree = TreeOf(txn.prev)

(* "The prior state was reinstated": when the user reads this, the files    *)
(* are what they were when that restore was requested.                      *)
ReinstatedIsPrior ==
    [][answer' = "reinstated" /\ answer # "reinstated"
        => live' = txn.prev]_vars

(* The services never run on files that the next recovery would replace.    *)
ServesSettled == pc = "idle" => journal.phase \notin Unsettled

(* Startup recovery ends with the services running: no journal, whatever    *)
(* crash left it behind, makes every launch abort.                          *)
RecoveryTerminates == pc = "down" ~> pc = "idle"

(***************************************************************************)
(* Inductive invariants                                                    *)
(***************************************************************************)

(* Where the process is fixes who called it and what is on disk: each       *)
(* manifest phase is published by the step before, never out of order.      *)
PhaseInv ==
    /\ pc \in {"idle", "down"} <=> caller = "nobody"
    /\ pc \in RestorePcs => caller = "restore"
    /\ caller = "restore" => answer = "none"
    /\ pc = "publish" => journal.phase = "debris"
    /\ pc = "apply" => journal.phase = "prepared"
    /\ pc \in {"replace", "replaceRetry"} => journal.phase = "applying"
    /\ pc = "recording" => journal.phase = "applied"
    /\ pc \in {"stage", "commit", "recorded"} => journal.phase = "recording"
    /\ pc = "cleanup" => journal.phase \in {"recorded", "debris"}
    /\ pc = "rollback" => journal.phase \in Unsettled
    /\ pc \in {"reinstate", "reinstateRetry"} => journal.phase = "rolling-back"
    /\ pc = "remove" => journal.phase \notin Unsettled \/ KeepRecorded

(* Both loops have finished with every file below idx. *)
ProgressInv ==
    /\ pc \in {"apply", "replace", "replaceRetry", "recording", "stage", "commit", "recorded"}
        => journal.prev = txn.prev /\ journal.next = txn.next
    /\ pc \in {"replace", "replaceRetry"}
        => \A f \in Files : f < idx => live[f] = journal.next[f]
    /\ pc \in {"recording", "stage", "commit", "recorded"} => live = journal.next
    /\ pc \in {"reinstate", "reinstateRetry"}
        => \A f \in Files : f < idx => live[f] = journal.prev[f]

(* What the snapshots took reaches HEAD: the one before ahead of the first  *)
(* replacement, the restored one ahead of the recorded manifest.            *)
HeadInv ==
    /\ pc \in {"before", "preserve", "prepare", "publish"} => live = txn.prev
    /\ pc = "preserve" /\ "current" \notin txn.missed => staged = TreeOf(txn.prev)
    /\ pc \in {"prepare", "publish"} /\ "current" \notin txn.missed
        => head.tree = TreeOf(txn.prev)
    /\ CurrentIsPreserved
    /\ pc = "commit" /\ "restored" \notin txn.missed => staged = TreeOf(live)
    /\ pc = "recorded" => /\ head.label = journal.label
                          /\ "restored" \notin txn.missed => head.tree = TreeOf(live)

(* An answer "ok" leaves nothing that recovery would undo. *)
OkInv == OkIsDurable /\ (answer = "ok" => pc \in {"idle", "down", "recover", "remove"})

JournalInv == TypeOK /\ PhaseInv /\ ProgressInv /\ HeadInv /\ OkInv

(* What holds besides when no rollback is abandoned by a running process.   *)
SettledInv ==
    /\ used["rollbackFault"] = 0
    /\ journal.phase = "recording" => live = journal.next
    /\ pc \in {"idle", "before", "preserve", "prepare"} => journal.phase \notin Unsettled
    /\ caller = "restore" /\ pc \in {"recover", "remove"}
        => live = txn.prev /\ journal.phase \notin Unsettled
    /\ caller = "restore" /\ pc \in {"rollback", "reinstate", "reinstateRetry"}
        => journal.prev = txn.prev
=============================================================================
