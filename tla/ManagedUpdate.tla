---------------------------- MODULE ManagedUpdate ----------------------------
(***************************************************************************)
(* Staged per-application updates: ManagedUpdateService's restore,         *)
(* checkApp, download, cancel and install over managed-updates.v1.json and *)
(* the staging directories.                                                *)
(*                                                                         *)
(* main.ts submits everything but cancel to the state-mutation queue, so   *)
(* one of them runs at a time (the task) and the generations of checks     *)
(* never differ.  An action ends where the files change or a cancellation  *)
(* may come in between.  Leases and unknown outcomes are AppOperations'.   *)
(* A release is a number that grows with its version; states that offer    *)
(* nothing (idle, blocked, offline) are one.                               *)
(***************************************************************************)
EXTENDS Naturals

CONSTANTS Apps, NoApp,
          MaxRelease,    \* bound on the releases of an application
          MaxDownloads,  \* bound on staging directories
          Limit          \* bound on each kind of environment step

(* A misfortune is an application changed from outside, a staged file that  *)
(* somebody spoils, an end of the process, or a failing save.               *)
Kinds == {"request", "misfortune"}

ASSUME NoAppAssumption == NoApp \notin Apps
ASSUME BoundsAssumption == MaxRelease \in Nat \ {0} /\ MaxDownloads \in Nat
ASSUME LimitAssumption == Limit \in [Kinds -> Nat]

VARIABLES
    release,    \* the latest stable release of each application
    installed,  \* the release that is installed, or 0
    saved,      \* managed-updates.v1.json
    disk,       \* the staged file of each operationId
    drawn,      \* how many operationIds were drawn
    stage,      \* ManagedUpdateService.stages
    candidate,  \* ManagedUpdateService.candidates: the release, or 0
    status,     \* ManagedUpdateService.states
    task,        \* the queued operation being run
    aborted,    \* the AbortSignal of its download
    pending,    \* what a restore has read and not yet looked at
    unsaved,    \* did saving the list fail since the process began
    used        \* how many environment steps of each kind happened

managedVars == <<release, installed, saved, disk, drawn, stage, candidate, status,
          task, aborted, pending, unsaved, used>>
world == <<release, installed>>
inMemory == <<stage, candidate>>
-----------------------------------------------------------------------------
Ids == 1..MaxDownloads
Stages == [rel : 1..MaxRelease, id : Ids]
NoStage == [rel |-> 0, id |-> 0]
NoStages == [a \in Apps |-> NoStage]

NoTask == [op |-> "none", app |-> NoApp, step |-> "none", rel |-> 0, id |-> 0]
Down == [NoTask EXCEPT !.op = "down"]
Task(op, a, step) == [NoTask EXCEPT !.op = op, !.app = a, !.step = step]

Idle == task = NoTask
At(step) == task.step = step
Goto(step) == task' = [task EXCEPT !.step = step]
Publish(s) == status' = [status EXCEPT ![task.app] = s]
Conclude(s) == Publish(s) /\ task' = NoTask

Spend(kind) == /\ used[kind] < Limit[kind]
               /\ used' = [used EXCEPT ![kind] = @ + 1]

(* persistStages writes what is in memory, or throws. *)
Persist == saved' = stage /\ UNCHANGED <<unsaved, used>>
PersistFails == Spend("misfortune") /\ unsaved' = TRUE /\ UNCHANGED saved

(* rm -r of a staging directory; its errors are swallowed. *)
RemoveFiles(id) ==
    \E left \in {"absent", "spoilt", "good"} :
        /\ left = "good" => disk[id] = "good"
        /\ left = "spoilt" => disk[id] # "absent"
        /\ disk' = [disk EXCEPT ![id] = left]

(* removeStage, up to the persistStages that follows. *)
RemoveStage(a, s) == /\ stage' = [stage EXCEPT ![a] = NoStage]
                     /\ RemoveFiles(s.id)

ManagedInit == /\ release = [a \in Apps |-> 1]
               /\ installed \in [Apps -> {0, 1}]
               /\ saved = NoStages
               /\ disk = [id \in Ids |-> "absent"]
               /\ drawn = 0
               /\ stage = NoStages
               /\ candidate = [a \in Apps |-> 0]
               /\ status = [a \in Apps |-> "idle"]
               /\ task = Down
               /\ aborted = FALSE
               /\ pending = NoStages
               /\ unsaved = FALSE
               /\ used = [kind \in Kinds |-> 0]
-----------------------------------------------------------------------------
(* restore, at startup. *)

Start ==
    /\ task = Down
    /\ task' = Task("restore", NoApp, "load")
    /\ pending' = saved
    /\ UNCHANGED <<world, saved, disk, drawn, inMemory, status, aborted, unsaved, used>>

Restorable(a) == /\ disk[pending[a].id] = "good"
                 /\ installed[a] # 0 /\ installed[a] < pending[a].rel

RestoreStage(a) ==
    /\ At("load")
    /\ pending[a] # NoStage /\ Restorable(a)
    /\ stage' = [stage EXCEPT ![a] = pending[a]]
    /\ candidate' = [candidate EXCEPT ![a] = pending[a].rel]
    /\ status' = [status EXCEPT ![a] = "ready"]
    /\ pending' = [pending EXCEPT ![a] = NoStage]
    /\ UNCHANGED <<world, saved, disk, drawn, task, aborted, unsaved, used>>

(* The stage is of no use any more, or something could not be read. *)
DropStored(a) ==
    /\ At("load")
    /\ pending[a] # NoStage
    /\ RemoveStage(a, pending[a])
    /\ pending' = [pending EXCEPT ![a] = NoStage]
    /\ Goto("dropped")
    /\ UNCHANGED <<world, saved, drawn, candidate, status, aborted, unsaved, used>>

(* Every removeStage saves the stages that were loaded so far, and drops     *)
(* from the file those not yet looked at; if it cannot save, the restore     *)
(* rejects, and with it the rest of the startup.                             *)
SaveDropped ==
    /\ At("dropped")
    /\ \/ Persist /\ Goto("load") /\ UNCHANGED pending
       \/ PersistFails /\ task' = NoTask /\ pending' = NoStages
    /\ UNCHANGED <<world, disk, drawn, inMemory, status, aborted>>

FinishRestore ==
    /\ At("load")
    /\ pending = NoStages
    /\ Persist \/ PersistFails
    /\ task' = NoTask
    /\ UNCHANGED <<world, disk, drawn, inMemory, status, aborted, pending>>
-----------------------------------------------------------------------------
(* checkApp: alone, one application of checkAll, or the start of a download. *)

BeginCheck(a) ==
    /\ Idle
    /\ Spend("request")
    /\ task' = Task("check", a, "checking")
    /\ UNCHANGED <<world, saved, disk, drawn, inMemory, status, aborted, pending, unsaved>>

(* An update that is ready is not downloaded again. *)
BeginDownload(a) ==
    /\ Idle
    /\ status[a] # "ready" /\ drawn < MaxDownloads
    /\ Spend("request")
    /\ task' = Task("download", a, "checking")
    /\ UNCHANGED <<world, saved, disk, drawn, inMemory, status, aborted, pending, unsaved>>

CheckFails ==
    /\ At("checking")
    /\ Conclude("failed")
    /\ UNCHANGED <<world, saved, disk, drawn, inMemory, aborted, pending, unsaved, used>>

(* Not installed, no stable release, no adapter, no verified evidence. *)
NothingToOffer ==
    /\ At("checking")
    /\ Conclude("idle")
    /\ UNCHANGED <<world, saved, disk, drawn, inMemory, aborted, pending, unsaved, used>>

(* A download goes on, a check has its answer. *)
Offer == IF task.op = "check" THEN Conclude("available")
         ELSE Publish("available") /\ Goto("begin")

(* Mutant: any staged update is offered again. *)
MatchesAny(a) == stage[a] # NoStage

Matches(a) == stage[a] # NoStage /\ stage[a].rel = release[a]

Compare ==
    /\ At("checking")
    /\ installed[task.app] # 0
    /\ candidate' = [candidate EXCEPT ![task.app] = release[task.app]]
    /\ CASE release[task.app] <= installed[task.app]
                -> Conclude("up-to-date") /\ UNCHANGED <<stage, disk>>
         [] release[task.app] > installed[task.app] /\ Matches(task.app)
                -> Conclude("ready") /\ UNCHANGED <<stage, disk>>
         [] release[task.app] > installed[task.app] /\ stage[task.app] = NoStage
                -> Offer /\ UNCHANGED <<stage, disk>>
         [] OTHER
                -> /\ RemoveStage(task.app, stage[task.app])
                   /\ Goto("superseded")
                   /\ UNCHANGED status
    /\ UNCHANGED <<world, saved, drawn, aborted, pending, unsaved, used>>

SaveSuperseded ==
    /\ At("superseded")
    /\ \/ Persist /\ Offer
       \/ PersistFails /\ Conclude("failed")
    /\ UNCHANGED <<world, disk, drawn, inMemory, aborted, pending>>
-----------------------------------------------------------------------------
(* download. *)

BeginFetch ==
    /\ At("begin")
    /\ drawn' = drawn + 1
    /\ task' = [task EXCEPT !.step = "fetch", !.rel = candidate[task.app], !.id = drawn']
    /\ Publish("downloading")
    /\ UNCHANGED <<world, saved, disk, inMemory, aborted, pending, unsaved, used>>

Cancelled == IF aborted THEN "cancelled" ELSE "failed"

(* The signal is seen with the next chunk, or the network fails. *)
FetchFails ==
    /\ At("fetch") \/ At("verify")
    /\ Conclude(Cancelled)
    /\ aborted' = FALSE
    /\ UNCHANGED <<world, saved, disk, drawn, inMemory, pending, unsaved, used>>

(* Mutant: the entry is made before the digest is compared. *)
LastByteEntered ==
    /\ At("fetch")
    /\ ~aborted
    /\ disk' = [disk EXCEPT ![task.id] = "good"]
    /\ stage' = [stage EXCEPT ![task.app] = [rel |-> task.rel, id |-> task.id]]
    /\ Goto("verify")
    /\ UNCHANGED <<world, saved, drawn, candidate, status, aborted, pending, unsaved, used>>

(* The last byte is in; from here on a cancellation comes too late. *)
LastByte ==
    /\ At("fetch")
    /\ ~aborted
    /\ Goto("verify")
    /\ UNCHANGED <<world, saved, disk, drawn, inMemory, status, aborted, pending, unsaved, used>>

(* The digests agree and the file gets its name. *)
StageFile ==
    /\ At("verify")
    /\ disk' = [disk EXCEPT ![task.id] = "good"]
    /\ stage' = [stage EXCEPT ![task.app] = [rel |-> task.rel, id |-> task.id]]
    /\ Goto("stage")
    /\ UNCHANGED <<world, saved, drawn, candidate, status, aborted, pending, unsaved, used>>

(* Mutant: the stage is published before it is saved. *)
SaveStageUnsaved ==
    /\ At("stage")
    /\ Conclude("ready") /\ aborted' = FALSE
    /\ UNCHANGED <<world, saved, disk, drawn, inMemory, pending, unsaved, used>>

(* If the list cannot be saved the files go, and the entry in memory stays. *)
SaveStage ==
    /\ At("stage")
    /\ \/ Persist /\ Conclude("ready") /\ UNCHANGED disk
       \/ PersistFails /\ Conclude(Cancelled) /\ RemoveFiles(task.id)
    /\ aborted' = FALSE
    /\ UNCHANGED <<world, drawn, inMemory, pending>>

(* cancel: the only request that does not wait in the queue. *)
Cancel ==
    /\ task.id # 0 /\ task.op = "download"
    /\ ~aborted
    /\ aborted' = TRUE
    /\ UNCHANGED <<world, saved, disk, drawn, inMemory, status, task, pending, unsaved, used>>
-----------------------------------------------------------------------------
(* install. *)

FileVerified(a) == candidate[a] = stage[a].rel /\ disk[stage[a].id] = "good"

InstallJob(a, step) ==
    task' = [Task("install", a, step) EXCEPT !.rel = stage[a].rel, !.id = stage[a].id]

BeginInstall(a) ==
    /\ Idle
    /\ status[a] = "ready" /\ stage[a] # NoStage
    /\ FileVerified(a)
    /\ Spend("request")
    /\ status' = [status EXCEPT ![a] = "installing"]
    /\ InstallJob(a, "running")
    /\ UNCHANGED <<world, saved, disk, drawn, inMemory, aborted, pending, unsaved>>

(* The bytes changed, or cannot be read: the stage is discarded. *)
DiscardSpoilt(a) ==
    /\ Idle
    /\ status[a] = "ready" /\ stage[a] # NoStage
    /\ Spend("request")
    /\ RemoveStage(a, stage[a])
    /\ InstallJob(a, "spoilt")
    /\ UNCHANGED <<world, saved, drawn, candidate, status, aborted, pending, unsaved>>

(* A stage that did not match its candidate is discarded without a word. *)
SaveDiscarded ==
    /\ At("spoilt")
    /\ \/ /\ Persist
          /\ IF task.rel = candidate[task.app] THEN Conclude("failed")
             ELSE task' = NoTask /\ UNCHANGED status
       \/ PersistFails /\ task' = NoTask /\ UNCHANGED status
    /\ UNCHANGED <<world, disk, drawn, inMemory, aborted, pending>>

(* An external installer may have changed the application all the same. *)
InstallFails ==
    /\ At("running")
    /\ \E now \in {installed[task.app], task.rel} :
          installed' = [installed EXCEPT ![task.app] = now]
    /\ Conclude("failed")
    /\ UNCHANGED <<release, saved, disk, drawn, inMemory, aborted, pending, unsaved, used>>

(* Mutant: the entry in memory is forgotten, the record is not. *)
InstallAppliesUnsaved ==
    /\ At("running")
    /\ installed' = [installed EXCEPT ![task.app] = task.rel]
    /\ RemoveStage(task.app, stage[task.app])
    /\ Conclude("up-to-date")
    /\ UNCHANGED <<release, saved, drawn, candidate, aborted, pending, unsaved, used>>

InstallApplies ==
    /\ At("running")
    /\ installed' = [installed EXCEPT ![task.app] = task.rel]
    /\ RemoveStage(task.app, stage[task.app])
    /\ Goto("clear")
    /\ UNCHANGED <<release, saved, drawn, candidate, status, aborted, pending, unsaved, used>>

SaveCleared ==
    /\ At("clear")
    /\ \/ Persist /\ Conclude("up-to-date")
       \/ PersistFails /\ Conclude("failed")
    /\ UNCHANGED <<world, disk, drawn, inMemory, aborted, pending>>
-----------------------------------------------------------------------------
(* The environment. *)

NewRelease(a) ==
    /\ release[a] < MaxRelease
    /\ release' = [release EXCEPT ![a] = @ + 1]
    /\ UNCHANGED <<installed, saved, disk, drawn, inMemory, status, task, aborted, pending, unsaved, used>>

(* Installed, uninstalled, or updated by itself. *)
ApplicationChanges(a) ==
    /\ Spend("misfortune")
    /\ \E now \in 0..release[a] \ {installed[a]} :
          installed' = [installed EXCEPT ![a] = now]
    /\ UNCHANGED <<release, saved, disk, drawn, inMemory, status, task, aborted, pending, unsaved>>

Spoil(id) ==
    /\ disk[id] = "good"
    /\ Spend("misfortune")
    /\ disk' = [disk EXCEPT ![id] = "spoilt"]
    /\ UNCHANGED <<world, saved, drawn, inMemory, status, task, aborted, pending, unsaved>>

(* The process quits or crashes; only the files are left. *)
Crash ==
    /\ task # Down
    /\ Spend("misfortune")
    /\ stage' = NoStages
    /\ candidate' = [a \in Apps |-> 0]
    /\ status' = [a \in Apps |-> "idle"]
    /\ task' = Down
    /\ aborted' = FALSE
    /\ pending' = NoStages
    /\ unsaved' = FALSE
    /\ UNCHANGED <<world, saved, disk, drawn>>
-----------------------------------------------------------------------------
Restoring == \/ Start \/ SaveDropped \/ FinishRestore
             \/ \E a \in Apps : RestoreStage(a) \/ DropStored(a)
Checking == CheckFails \/ NothingToOffer \/ Compare \/ SaveSuperseded
Downloading == \/ BeginFetch \/ FetchFails \/ LastByte \/ StageFile \/ SaveStage
               \/ Cancel
Installing == SaveDiscarded \/ InstallFails \/ InstallApplies \/ SaveCleared
Request(a) == BeginCheck(a) \/ BeginDownload(a) \/ BeginInstall(a) \/ DiscardSpoilt(a)
Environment == \/ \E a \in Apps : NewRelease(a) \/ ApplicationChanges(a)
               \/ \E id \in Ids : Spoil(id)
               \/ Crash

ManagedNext == \/ Restoring \/ Checking \/ Downloading \/ Installing
               \/ \E a \in Apps : Request(a)
               \/ Environment

ManagedSpec == ManagedInit /\ [][ManagedNext]_managedVars
-----------------------------------------------------------------------------
Ops == {"none", "down", "restore", "check", "download", "install"}
TaskSteps == {"none", "load", "dropped", "checking", "superseded", "begin", "fetch",
              "verify", "stage", "running", "spoilt", "clear"}
Statuses == {"idle", "available", "up-to-date", "ready", "downloading",
             "cancelled", "failed", "installing"}

ManagedTypeOK ==
    /\ release \in [Apps -> 1..MaxRelease] /\ installed \in [Apps -> 0..MaxRelease]
    /\ saved \in [Apps -> Stages \cup {NoStage}]
    /\ disk \in [Ids -> {"absent", "good", "spoilt"}]
    /\ drawn \in 0..MaxDownloads
    /\ stage \in [Apps -> Stages \cup {NoStage}]
    /\ candidate \in [Apps -> 0..MaxRelease]
    /\ status \in [Apps -> Statuses]
    /\ task \in [op : Ops, app : Apps \cup {NoApp}, step : TaskSteps,
                rel : 0..MaxRelease, id : 0..MaxDownloads]
    /\ aborted \in BOOLEAN
    /\ pending \in [Apps -> Stages \cup {NoStage}]
    /\ unsaved \in BOOLEAN
    /\ used \in [Kinds -> Nat]

(***************************************************************************)
(* Properties                                                              *)
(***************************************************************************)

(* The properties speak of a process that could save its list so far: the   *)
(* next start makes good what a failed save has left.                       *)
Settled(a) == a # task.app /\ ~unsaved

Backed(a) == /\ stage[a] # NoStage
             /\ candidate[a] = stage[a].rel
             /\ disk[stage[a].id] # "absent"

(* What is offered for installation is there: the entry, a candidate that   *)
(* it matches, and its file, be it spoilt by others.                        *)
ReadyIsBacked == \A a \in Apps : Settled(a) /\ status[a] = "ready" => Backed(a)

(* Except while a restore rewrites the list, the process may end at any     *)
(* time, in the middle of an operation on another application too, and the  *)
(* next start still finds on record what this one offers.                   *)
ReadySurvivesCrash ==
    task.op # "restore" => \A a \in Apps :
        Settled(a) /\ status[a] = "ready" => saved[a] = stage[a]

(* A download that ended as cancelled left nothing behind that a later      *)
(* check, a restart or another application's save would offer.              *)
CancelLeavesNothing ==
    \A a \in Apps : Settled(a) /\ status[a] = "cancelled" =>
        stage[a] = NoStage /\ saved[a] = NoStage

(* Not true (see the README):                                               *)
(* "A verified artifact moves to an app-owned staging directory and         *)
(* persists as ready" (per-app-update-checker.md), whatever fails: nothing  *)
(* that failed or was discarded is shown as ready.                          *)
ReadyIsAlwaysBacked ==
    \A a \in Apps \ {task.app} : status[a] = "ready" => Backed(a)
=============================================================================
