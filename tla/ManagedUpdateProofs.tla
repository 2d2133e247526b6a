-------------------------- MODULE ManagedUpdateProofs --------------------------
(***************************************************************************)
(* Managed updates, for any set of applications, any number of releases,   *)
(* downloads, crashes and failed saves.                                    *)
(***************************************************************************)
EXTENDS ManagedUpdate, TLAPS

(* Where the task is, and what it may count on there.                      *)
Fetching == task.op = "download" /\ task.id # 0
JobInv ==
    /\ task.op \in {"none", "down"} => task \in {NoTask, Down}
    /\ task.op = "restore" => task.step \in {"load", "dropped"}
    /\ task.op = "check" => task.step \in {"checking", "superseded"}
    /\ task.op = "download" => task.step \in {"checking", "superseded", "begin",
                                              "fetch", "verify", "stage"}
    /\ task.op = "install" => task.step \in {"running", "spoilt", "clear"}
    /\ task.op \in {"none", "down", "restore"} <=> task.app = NoApp
    /\ task.op = "download" => (task.id # 0 <=> task.step \in {"fetch", "verify", "stage"})
    /\ Fetching => task.rel = candidate[task.app] /\ task.rel # 0 /\ task.id = drawn
    /\ task.step \in {"superseded", "begin"} => candidate[task.app] # 0
    /\ task.op = "download" /\ ~Fetching => drawn < MaxDownloads
    /\ aborted => Fetching
    /\ task.op # "restore" => pending = NoStages
    /\ task.op = "down" => stage = NoStages /\ \A a \in Apps : status[a] = "idle"
    /\ task.op = "restore" => \A a \in Apps : status[a] \in {"idle", "ready"}

(* No two applications share a staging directory, and the one that is      *)
(* being filled belongs to no entry yet.                                   *)
Owned(a, id) == stage[a].id = id \/ saved[a].id = id \/ pending[a].id = id
IdsInv ==
    /\ \A a, b \in Apps : \A id \in Ids : Owned(a, id) /\ Owned(b, id) => a = b
    /\ \A a \in Apps : \A id \in Ids : Owned(a, id) =>
          id <= drawn /\ (Fetching /\ id = task.id => a = task.app /\ At("stage"))

(* As long as every save has succeeded: an entry in memory has its files,  *)
(* memory and record only differ for the application whose operation is    *)
(* about to save, and the others are shown as what they are.               *)
Saving == {"superseded", "stage", "spoilt", "clear"}
Sound(a) ==
    /\ stage[a] # NoStage => disk[stage[a].id] # "absent"
    /\ task.op \notin {"down", "restore"} /\ (a # task.app \/ task.step \notin Saving)
        => saved[a] = stage[a]
    /\ a # task.app /\ status[a] = "ready" => Backed(a)
    /\ a # task.app /\ status[a] = "cancelled" => stage[a] = NoStage /\ saved[a] = NoStage
EntryInv ==
    /\ \A a \in Apps : pending[a] # NoStage => stage[a] = NoStage
    /\ task.step \in {"begin", "fetch", "verify", "superseded"} => stage[task.app] = NoStage
    /\ At("stage") => stage[task.app] = [rel |-> task.rel, id |-> task.id]
RecordInv ==
    ~unsaved => /\ At("spoilt") => candidate[task.app] = task.rel
                /\ \A a \in Apps : Sound(a)

UpdateInv == ManagedTypeOK /\ JobInv /\ IdsInv /\ EntryInv /\ RecordInv
-----------------------------------------------------------------------------
Entries == Stages \cup {NoStage}
Tasks == [op : Ops, app : Apps \cup {NoApp}, step : TaskSteps,
          rel : 0..MaxRelease, id : 0..MaxDownloads]

LEMMA EntryTyped ==
    ASSUME NEW s \in Entries
    PROVE  /\ s.rel \in 0..MaxRelease /\ s.id \in 0..MaxDownloads
           /\ s # NoStage => s.rel \in 1..MaxRelease /\ s.id \in Ids
           /\ s = NoStage => s.rel = 0 /\ s.id = 0
BY BoundsAssumption DEF Entries, Stages, NoStage, Ids

LEMMA TasksTyped ==
    ASSUME NEW op \in Ops, NEW a \in Apps \cup {NoApp}, NEW s \in TaskSteps
    PROVE  /\ NoTask \in Tasks /\ Down \in Tasks
           /\ Task(op, a, s) \in Tasks
           /\ Task(op, a, s).op = op /\ Task(op, a, s).app = a /\ Task(op, a, s).step = s
           /\ Task(op, a, s).rel = 0 /\ Task(op, a, s).id = 0
<1>1. 0 \in 0..MaxRelease /\ 0 \in 0..MaxDownloads
  BY BoundsAssumption
<1>2. NoTask \in Tasks
  BY <1>1 DEF NoTask, Tasks, Ops, TaskSteps
<1>3. Down \in Tasks
  BY <1>2 DEF Down, Tasks, Ops
<1>4. Task(op, a, s) \in Tasks
  BY <1>2 DEF Task, Tasks
<1>5. NoTask.rel = 0 /\ NoTask.id = 0
  BY DEF NoTask
<1>6. /\ Task(op, a, s).op = op /\ Task(op, a, s).app = a /\ Task(op, a, s).step = s
      /\ Task(op, a, s).rel = 0 /\ Task(op, a, s).id = 0
  BY <1>2, <1>5 DEF Task, Tasks
<1> QED
  BY <1>2, <1>3, <1>4, <1>6

(* rm -r of one directory leaves the others. *)
LEMMA FilesLeft ==
    ASSUME ManagedTypeOK, NEW i \in Nat, RemoveFiles(i)
    PROVE  /\ disk' \in [Ids -> {"absent", "good", "spoilt"}]
           /\ \A j \in Ids : j # i => disk'[j] = disk[j]
BY DEF RemoveFiles, ManagedTypeOK

LEMMA SpendTyped ==
    ASSUME ManagedTypeOK, NEW kind \in Kinds, Spend(kind)
    PROVE  used' \in [Kinds -> Nat]
BY DEF Spend, ManagedTypeOK

LEMMA SaveTyped ==
    ASSUME ManagedTypeOK, Persist \/ PersistFails
    PROVE  /\ saved' \in [Apps -> Entries]
           /\ unsaved' \in BOOLEAN /\ used' \in [Kinds -> Nat]
<1>1. CASE Persist
  BY <1>1 DEF Persist, ManagedTypeOK, Entries
<1>2. CASE PersistFails
  <2>1. used' \in [Kinds -> Nat]
    BY <1>2, SpendTyped DEF PersistFails, Kinds
  <2> QED
    BY <1>2, <2>1 DEF PersistFails, ManagedTypeOK, Entries
<1> QED
  BY <1>1, <1>2

(* What each action writes has its type. *)
LEMMA TypeStep == ManagedTypeOK /\ JobInv /\ [ManagedNext]_managedVars => ManagedTypeOK'
<1> SUFFICES ASSUME ManagedTypeOK, JobInv, [ManagedNext]_managedVars PROVE ManagedTypeOK'
  OBVIOUS
<1> USE DEF world, inMemory
<1>0. /\ task \in Tasks /\ NoTask \in Tasks /\ Down \in Tasks
      /\ stage \in [Apps -> Entries] /\ saved \in [Apps -> Entries]
      /\ pending \in [Apps -> Entries] /\ NoStages \in [Apps -> Entries]
  BY TasksTyped DEF ManagedTypeOK, Tasks, Entries, NoStages, Ops, TaskSteps
<1>1. CASE Restoring
  <2>1. CASE Start
    <3>1. task' \in Tasks
      BY <2>1, TasksTyped DEF Start, Ops, TaskSteps
    <3> QED
      BY <2>1, <3>1 DEF Start, ManagedTypeOK, Tasks
  <2>2. ASSUME NEW a \in Apps, RestoreStage(a) PROVE ManagedTypeOK'
    <3>1. pending[a].rel \in 0..MaxRelease
      BY <1>0, EntryTyped
    <3> QED
      BY <2>2, <3>1 DEF RestoreStage, ManagedTypeOK, Statuses
  <2>3. ASSUME NEW a \in Apps, DropStored(a) PROVE ManagedTypeOK'
    <3>1. disk' \in [Ids -> {"absent", "good", "spoilt"}]
      BY <1>0, <2>3, EntryTyped, FilesLeft DEF DropStored, RemoveStage
    <3> QED
      BY <2>3, <3>1 DEF DropStored, RemoveStage, ManagedTypeOK, Goto, TaskSteps
  <2>4. CASE SaveDropped
    <3>1. Persist \/ PersistFails
      BY <2>4 DEF SaveDropped
    <3>2. task' \in Tasks /\ pending' \in [Apps -> Entries]
      BY <1>0, <2>4 DEF SaveDropped, Goto, Tasks, TaskSteps
    <3> QED
      BY <2>4, <3>1, <3>2, SaveTyped DEF SaveDropped, ManagedTypeOK, Tasks, Entries
  <2>5. CASE FinishRestore
    BY <1>0, <2>5, SaveTyped DEF FinishRestore, ManagedTypeOK, Tasks, Entries
  <2> QED
    BY <1>1, <2>1, <2>2, <2>3, <2>4, <2>5 DEF Restoring
<1>2. CASE Checking
  <2>1. CASE CheckFails \/ NothingToOffer
    BY <1>0, <2>1 DEF CheckFails, NothingToOffer, Conclude, Publish, ManagedTypeOK, Tasks,
                      Statuses
  <2>2. ASSUME Offer PROVE task' \in Tasks /\ status' \in [Apps -> Statuses]
    BY <1>0, <2>2 DEF Offer, Conclude, Publish, Goto, ManagedTypeOK, Tasks, TaskSteps, Statuses
  <2>3. CASE Compare
    <3>1. task.app \in Apps
      BY <1>0, <2>3 DEF Compare, At, JobInv, Tasks, Ops, NoTask, Down
    <3>2. candidate' \in [Apps -> 0..MaxRelease]
      BY <2>3, <3>1 DEF Compare, ManagedTypeOK
    <3>3. /\ stage' \in [Apps -> Entries]
          /\ disk' \in [Ids -> {"absent", "good", "spoilt"}]
      <4>1. CASE UNCHANGED <<stage, disk>>
        BY <1>0, <4>1 DEF ManagedTypeOK
      <4>2. CASE RemoveStage(task.app, stage[task.app])
        <5>1. stage[task.app].id \in Nat
          BY <1>0, <3>1, EntryTyped
        <5> QED
          BY <1>0, <4>2, <5>1, FilesLeft DEF RemoveStage, Entries
      <4> QED
        BY <2>3, <4>1, <4>2 DEF Compare
    <3>4. task' \in Tasks /\ status' \in [Apps -> Statuses]
      <4>1. CASE Conclude("up-to-date") \/ Conclude("ready")
        BY <1>0, <4>1 DEF Conclude, Publish, ManagedTypeOK, Statuses
      <4>2. CASE Goto("superseded") /\ UNCHANGED status
        BY <1>0, <4>2 DEF Goto, ManagedTypeOK, Tasks, TaskSteps
      <4> QED
        BY <2>2, <2>3, <4>1, <4>2 DEF Compare
    <3> QED
      BY <2>3, <3>2, <3>3, <3>4 DEF Compare, ManagedTypeOK, Tasks, Entries
  <2>4. CASE SaveSuperseded
    <3>1. task' \in Tasks /\ status' \in [Apps -> Statuses]
      BY <1>0, <2>2, <2>4 DEF SaveSuperseded, Conclude, Publish, ManagedTypeOK, Statuses
    <3> QED
      BY <2>4, <3>1, SaveTyped DEF SaveSuperseded, ManagedTypeOK, Tasks, Entries
  <2> QED
    BY <1>2, <2>1, <2>3, <2>4 DEF Checking
<1>3. CASE Downloading
  <2>1. CASE BeginFetch
    <3>1. task.app \in Apps /\ drawn < MaxDownloads
      BY <1>0, <2>1 DEF BeginFetch, At, JobInv, Tasks, Ops, NoTask, Down, Fetching
    <3>2. drawn' \in 0..MaxDownloads /\ candidate[task.app] \in 0..MaxRelease
      BY <2>1, <3>1, BoundsAssumption DEF BeginFetch, ManagedTypeOK
    <3>3. task' \in Tasks
      BY <1>0, <2>1, <3>2 DEF BeginFetch, Tasks, TaskSteps
    <3> QED
      BY <2>1, <3>2, <3>3 DEF BeginFetch, Publish, ManagedTypeOK, Statuses, Tasks
  <2>2. CASE FetchFails
    BY <1>0, <2>2 DEF FetchFails, Cancelled, Conclude, Publish, ManagedTypeOK, Tasks, Statuses
  <2>3. CASE LastByte
    BY <1>0, <2>3 DEF LastByte, Goto, ManagedTypeOK, Tasks, TaskSteps
  <2>4. CASE StageFile
    <3>1. task.app \in Apps /\ Fetching /\ task.rel # 0
      BY <1>0, <2>4 DEF StageFile, At, JobInv, Tasks, Ops, NoTask, Down, Fetching
    <3>2. [rel |-> task.rel, id |-> task.id] \in Entries
      BY <1>0, <3>1 DEF Tasks, Entries, Stages, Ids, Fetching
    <3>3. stage' \in [Apps -> Entries] /\ task' \in Tasks
      BY <1>0, <2>4, <3>2 DEF StageFile, Goto, Tasks, TaskSteps
    <3> QED
      BY <2>4, <3>3 DEF StageFile, ManagedTypeOK, Tasks, Entries
  <2>5. CASE SaveStage
    <3>1. disk' \in [Ids -> {"absent", "good", "spoilt"}]
      BY <1>0, <2>5, FilesLeft DEF SaveStage, ManagedTypeOK, Tasks
    <3>2. task' \in Tasks /\ status' \in [Apps -> Statuses]
      BY <1>0, <2>5 DEF SaveStage, Cancelled, Conclude, Publish, ManagedTypeOK, Statuses
    <3> QED
      BY <2>5, <3>1, <3>2, SaveTyped DEF SaveStage, ManagedTypeOK, Tasks, Entries
  <2>6. CASE Cancel
    BY <2>6 DEF Cancel, ManagedTypeOK
  <2> QED
    BY <1>3, <2>1, <2>2, <2>3, <2>4, <2>5, <2>6 DEF Downloading
<1>4. CASE Installing
  <2>1. CASE SaveDiscarded \/ SaveCleared
    <3>1. task' \in Tasks /\ status' \in [Apps -> Statuses]
      BY <1>0, <2>1
      DEF SaveDiscarded, SaveCleared, Conclude, Publish, ManagedTypeOK, Statuses
    <3> QED
      BY <2>1, <3>1, SaveTyped DEF SaveDiscarded, SaveCleared, ManagedTypeOK, Tasks, Entries
  <2>2. CASE InstallFails
    <3>1. installed' \in [Apps -> 0..MaxRelease]
      BY <1>0, <2>2 DEF InstallFails, ManagedTypeOK, Tasks
    <3> QED
      BY <1>0, <2>2, <3>1 DEF InstallFails, Conclude, Publish, ManagedTypeOK, Tasks, Statuses
  <2>3. CASE InstallApplies
    <3>1. task.app \in Apps
      BY <1>0, <2>3 DEF InstallApplies, At, JobInv, Tasks, Ops, NoTask, Down
    <3>2. disk' \in [Ids -> {"absent", "good", "spoilt"}]
      BY <1>0, <2>3, <3>1, EntryTyped, FilesLeft DEF InstallApplies, RemoveStage
    <3>3. task' \in Tasks /\ installed' \in [Apps -> 0..MaxRelease]
      BY <1>0, <2>3 DEF InstallApplies, Goto, Tasks, TaskSteps, ManagedTypeOK
    <3> QED
      BY <2>3, <3>2, <3>3 DEF InstallApplies, RemoveStage, ManagedTypeOK, Tasks
  <2> QED
    BY <1>4, <2>1, <2>2, <2>3 DEF Installing
<1>5. ASSUME NEW a \in Apps, Request(a) PROVE ManagedTypeOK'
  <2>0. "request" \in Kinds
    BY DEF Kinds
  <2>1. /\ Task("check", a, "checking") \in Tasks
        /\ Task("download", a, "checking") \in Tasks
        /\ \A s \in {"running", "spoilt"} :
              [Task("install", a, s) EXCEPT !.rel = stage[a].rel, !.id = stage[a].id] \in Tasks
    <3>1. ASSUME NEW op \in Ops, NEW s \in TaskSteps PROVE Task(op, a, s) \in Tasks
      BY TasksTyped
    <3>2. stage[a].rel \in 0..MaxRelease /\ stage[a].id \in 0..MaxDownloads
      BY <1>0, EntryTyped
    <3>3. {"check", "download", "install"} \subseteq Ops
          /\ {"checking", "running", "spoilt"} \subseteq TaskSteps
      BY DEF Ops, TaskSteps
    <3>4. ASSUME NEW s \in {"running", "spoilt"}
          PROVE  [Task("install", a, s) EXCEPT !.rel = stage[a].rel, !.id = stage[a].id]
                    \in Tasks
      <4>1. Task("install", a, s) \in Tasks
        BY <3>1, <3>3
      <4> QED
        BY <3>2, <4>1 DEF Tasks
    <3> QED
      BY <3>1, <3>3, <3>4
  <2>2. CASE BeginCheck(a) \/ BeginDownload(a)
    BY <2>0, <2>1, <2>2, SpendTyped DEF BeginCheck, BeginDownload, ManagedTypeOK, Tasks
  <2>3. CASE BeginInstall(a)
    BY <2>0, <2>1, <2>3, SpendTyped
    DEF BeginInstall, InstallJob, ManagedTypeOK, Tasks, Statuses
  <2>4. CASE DiscardSpoilt(a)
    <3>1. disk' \in [Ids -> {"absent", "good", "spoilt"}]
      BY <1>0, <2>4, EntryTyped, FilesLeft DEF DiscardSpoilt, RemoveStage
    <3> QED
      BY <1>0, <2>0, <2>1, <2>4, <3>1, SpendTyped
      DEF DiscardSpoilt, RemoveStage, InstallJob, ManagedTypeOK, Tasks, Entries
  <2> QED
    BY <1>5, <2>2, <2>3, <2>4 DEF Request
<1>6. CASE Environment
  <2>0. "misfortune" \in Kinds
    BY DEF Kinds
  <2>1. ASSUME NEW a \in Apps, NewRelease(a) \/ ApplicationChanges(a) PROVE ManagedTypeOK'
    <3>1. CASE NewRelease(a)
      BY <3>1, BoundsAssumption DEF NewRelease, ManagedTypeOK
    <3>2. CASE ApplicationChanges(a)
      <4>1. installed' \in [Apps -> 0..MaxRelease]
        BY <3>2, BoundsAssumption DEF ApplicationChanges, ManagedTypeOK
      <4> QED
        BY <2>0, <3>2, <4>1, SpendTyped DEF ApplicationChanges, ManagedTypeOK
    <3> QED
      BY <2>1, <3>1, <3>2
  <2>2. ASSUME NEW id \in Ids, Spoil(id) PROVE ManagedTypeOK'
    BY <2>0, <2>2, SpendTyped DEF Spoil, ManagedTypeOK
  <2>3. CASE Crash
    <3>1. [a \in Apps |-> 0] \in [Apps -> 0..MaxRelease]
      BY BoundsAssumption
    <3> QED
      BY <1>0, <2>0, <2>3, <3>1, SpendTyped DEF Crash, ManagedTypeOK, Tasks, Entries, Statuses
  <2> QED
    BY <1>6, <2>1, <2>2, <2>3 DEF Environment
<1>7. CASE UNCHANGED managedVars
  BY <1>7 DEF managedVars, ManagedTypeOK
<1> QED
  BY <1>1, <1>2, <1>3, <1>4, <1>5, <1>6, <1>7 DEF ManagedNext

-----------------------------------------------------------------------------
LEMMA TaskFacts ==
    ASSUME ManagedTypeOK, JobInv
    PROVE  /\ task \in Tasks
           /\ task.app \in Apps <=> task.op \in {"check", "download", "install"}
           /\ task.op \in {"none", "down", "restore", "check", "download", "install"}
           /\ NoTask.op = "none" /\ NoTask.app = NoApp /\ NoTask.step = "none" /\ NoTask.id = 0
           /\ Down.op = "down" /\ Down.app = NoApp /\ Down.step = "none" /\ Down.id = 0
<1>1. /\ task \in Tasks /\ NoTask \in Tasks
      /\ NoTask.op = "none" /\ NoTask.app = NoApp /\ NoTask.step = "none" /\ NoTask.id = 0
  BY TasksTyped DEF ManagedTypeOK, Tasks, NoTask, Ops, TaskSteps
<1>2. Down.op = "down" /\ Down.app = NoApp /\ Down.step = "none" /\ Down.id = 0
  BY <1>1 DEF Down, Tasks
<1> QED
  BY <1>1, <1>2, NoAppAssumption DEF JobInv, Tasks, Ops

(* Where nothing is left to do, nothing is claimed. *)
LEMMA JobEnds ==
    ASSUME ManagedTypeOK, JobInv, task' = NoTask, ~aborted', pending' = NoStages
    PROVE  JobInv'
BY TaskFacts DEF JobInv, Fetching, At

(* The task moves on as its steps follow each other. *)
LEMMA JobStep == ManagedTypeOK /\ JobInv /\ [ManagedNext]_managedVars => JobInv'
<1> SUFFICES ASSUME ManagedTypeOK, JobInv, [ManagedNext]_managedVars PROVE JobInv'
  OBVIOUS
<1> USE DEF world, inMemory
<1>0. /\ task \in Tasks
      /\ task.app \in Apps <=> task.op \in {"check", "download", "install"}
      /\ task.op \in {"none", "down", "restore", "check", "download", "install"}
      /\ NoTask.op = "none" /\ NoTask.app = NoApp /\ NoTask.step = "none" /\ NoTask.id = 0
      /\ Down.op = "down" /\ Down.app = NoApp /\ Down.step = "none" /\ Down.id = 0
  BY TaskFacts
<1>1. CASE Restoring
  <2>1. CASE Start
    <3>1. /\ task'.op = "restore" /\ task'.app = NoApp /\ task'.step = "load" /\ task'.id = 0
      BY <2>1, TasksTyped DEF Start, Ops, TaskSteps
    <3>2. ~aborted /\ \A a \in Apps : status[a] = "idle"
      BY <1>0, <2>1 DEF Start, JobInv, Fetching
    <3> QED
      BY <2>1, <3>1, <3>2 DEF Start, JobInv, Fetching, At
  <2>2. ASSUME NEW a \in Apps, RestoreStage(a) PROVE JobInv'
    BY <1>0, <2>2 DEF RestoreStage, JobInv, Fetching, At, ManagedTypeOK
  <2>3. ASSUME NEW a \in Apps, DropStored(a) PROVE JobInv'
    BY <1>0, <2>3 DEF DropStored, RemoveStage, Goto, JobInv, Fetching, At, Tasks
  <2>4. CASE SaveDropped \/ FinishRestore
    <3>1. task.op = "restore" /\ ~aborted
      BY <1>0, <2>4 DEF SaveDropped, FinishRestore, At, JobInv, Fetching
    <3>2. CASE task' = NoTask /\ pending' = NoStages
      BY <2>4, <3>1, <3>2, JobEnds DEF SaveDropped, FinishRestore
    <3>3. CASE SaveDropped /\ Goto("load") /\ UNCHANGED pending
      BY <1>0, <3>1, <3>3 DEF SaveDropped, Goto, JobInv, Fetching, At, Tasks
    <3> QED
      BY <2>4, <3>2, <3>3 DEF SaveDropped, FinishRestore
  <2> QED
    BY <1>1, <2>1, <2>2, <2>3, <2>4 DEF Restoring
<1>2. CASE Checking
  <2>0. task.step \in {"checking", "superseded"} /\ UNCHANGED <<pending, aborted, drawn>>
    BY <1>2 DEF Checking, CheckFails, NothingToOffer, Compare, SaveSuperseded, At
  <2>1. /\ task.op \in {"check", "download"} /\ task.app \in Apps
        /\ task.op = "download" => task.id = 0
        /\ pending = NoStages /\ ~aborted
        /\ task.step \in {"checking", "superseded"} /\ UNCHANGED <<pending, aborted, drawn>>
        /\ task.op = "download" => drawn < MaxDownloads
        /\ task.app # NoApp
    BY <1>0, <2>0, NoAppAssumption DEF JobInv, Fetching
  <2>2. CASE task' = NoTask
    BY <2>1, <2>2, JobEnds
  <2>3. ASSUME Goto("begin"), task.op = "download", candidate'[task.app] # 0 PROVE JobInv'
    <3>1. /\ task'.op = "download" /\ task'.app = task.app /\ task'.step = "begin"
          /\ task'.id = 0
      BY <1>0, <2>1, <2>3 DEF Goto, Tasks
    <3> QED
      BY <2>1, <2>3, <3>1 DEF JobInv, Fetching, At
  <2>4. ASSUME Goto("superseded"), candidate'[task.app] # 0 PROVE JobInv'
    <3>1. /\ task'.op = task.op /\ task'.app = task.app /\ task'.step = "superseded"
          /\ task'.id = task.id
      BY <1>0, <2>1, <2>4 DEF Goto, Tasks
    <3> QED
      BY <2>1, <2>4, <3>1 DEF JobInv, Fetching, At
  <2>5. ASSUME Offer PROVE task' = NoTask \/ (Goto("begin") /\ task.op = "download")
    BY <2>1, <2>5 DEF Offer, Conclude
  <2>6. CASE Compare
    <3>1. candidate'[task.app] # 0
      BY <2>1, <2>6, BoundsAssumption DEF Compare, ManagedTypeOK
    <3> QED
      BY <2>2, <2>3, <2>4, <2>5, <2>6, <3>1 DEF Compare, Conclude
  <2>7. CASE SaveSuperseded
    <3>1. candidate'[task.app] # 0
      BY <2>7 DEF SaveSuperseded, JobInv, At
    <3> QED
      BY <2>2, <2>3, <2>5, <2>7, <3>1 DEF SaveSuperseded, Conclude
  <2> QED
    BY <1>2, <2>2, <2>6, <2>7 DEF Checking, CheckFails, NothingToOffer, Conclude
<1>3. CASE Downloading
  <2>1. CASE BeginFetch
    <3>1. /\ task.op = "download" /\ task.app \in Apps /\ ~aborted /\ pending = NoStages
          /\ candidate[task.app] # 0 /\ drawn \in Nat
      BY <1>0, <2>1 DEF BeginFetch, At, JobInv, Fetching, ManagedTypeOK
    <3>2. /\ task'.op = "download" /\ task'.app = task.app /\ task'.step = "fetch"
          /\ task'.rel = candidate[task.app] /\ task'.id = drawn' /\ drawn' # 0
      BY <1>0, <2>1, <3>1 DEF BeginFetch, Tasks
    <3>3. /\ UNCHANGED <<candidate, aborted, pending>> /\ task.app # NoApp
      BY <2>1, <3>1, NoAppAssumption DEF BeginFetch
    <3> QED
      BY <3>1, <3>2, <3>3 DEF JobInv, Fetching, At
  <2>2. CASE FetchFails \/ SaveStage
    <3>1. task.op = "download" /\ pending = NoStages
      BY <1>0, <2>2 DEF FetchFails, SaveStage, At, JobInv
    <3> QED
      BY <2>2, <3>1, JobEnds DEF FetchFails, SaveStage, Conclude
  <2>3. CASE LastByte \/ StageFile
    <3>1. /\ task.op = "download" /\ task.id # 0
          /\ task' = [task EXCEPT !.step = "verify"] \/ task' = [task EXCEPT !.step = "stage"]
          /\ UNCHANGED <<candidate, aborted, pending, drawn>>
      BY <1>0, <2>3 DEF LastByte, StageFile, Goto, At, JobInv, Fetching
    <3>2. /\ task'.op = "download" /\ task'.app = task.app /\ task'.step \in {"verify", "stage"}
          /\ task'.rel = task.rel /\ task'.id = task.id
      BY <1>0, <3>1 DEF Tasks
    <3> QED
      BY <1>0, <3>1, <3>2 DEF JobInv, Fetching, At
  <2>4. CASE Cancel
    BY <2>4 DEF Cancel, JobInv, Fetching, At
  <2> QED
    BY <1>3, <2>1, <2>2, <2>3, <2>4 DEF Downloading
<1>4. CASE Installing
  <2>1. task.op = "install" /\ ~aborted /\ pending = NoStages /\ UNCHANGED <<aborted, pending>>
    BY <1>0, <1>4
    DEF Installing, SaveDiscarded, InstallFails, InstallApplies, SaveCleared, At, JobInv, Fetching
  <2>2. CASE InstallApplies
    BY <1>0, <2>1, <2>2 DEF InstallApplies, Goto, JobInv, Fetching, At, Tasks
  <2>3. CASE SaveDiscarded \/ InstallFails \/ SaveCleared
    BY <2>1, <2>3, JobEnds DEF SaveDiscarded, InstallFails, SaveCleared, Conclude
  <2> QED
    BY <1>4, <2>2, <2>3 DEF Installing
<1>5. ASSUME NEW a \in Apps, Request(a) PROVE JobInv'
  <2>1. /\ ~aborted /\ pending = NoStages /\ a # NoApp /\ UNCHANGED <<aborted, pending, drawn>>
    BY <1>0, <1>5, NoAppAssumption
    DEF Request, BeginCheck, BeginDownload, BeginInstall, DiscardSpoilt, Idle, JobInv, Fetching
  <2>2. CASE BeginCheck(a) \/ BeginDownload(a)
    <3>1. /\ task'.op \in {"check", "download"} /\ task'.app = a /\ task'.step = "checking"
          /\ task'.id = 0
          /\ task'.op = "download" => drawn < MaxDownloads
      BY <2>2, TasksTyped DEF BeginCheck, BeginDownload, Ops, TaskSteps
    <3> QED
      BY <2>1, <3>1 DEF JobInv, Fetching, At
  <2>3. CASE BeginInstall(a) \/ DiscardSpoilt(a)
    <3>1. PICK s \in {"running", "spoilt"} :
             task' = [Task("install", a, s) EXCEPT !.rel = stage[a].rel, !.id = stage[a].id]
      BY <2>3 DEF BeginInstall, DiscardSpoilt, InstallJob
    <3>2. /\ Task("install", a, s) \in Tasks /\ Task("install", a, s).op = "install"
          /\ Task("install", a, s).app = a /\ Task("install", a, s).step = s
      BY TasksTyped DEF Ops, TaskSteps
    <3>3. task'.op = "install" /\ task'.app = a /\ task'.step \in {"running", "spoilt"}
      BY <3>1, <3>2 DEF Tasks
    <3> QED
      BY <2>1, <3>3 DEF JobInv, Fetching, At
  <2> QED
    BY <1>5, <2>2, <2>3 DEF Request
<1>6. CASE Environment
  <2>1. CASE Crash
    <3>1. Down # NoTask
      BY <1>0
    <3> QED
      BY <1>0, <2>1 DEF Crash, JobInv, Fetching, At
  <2>2. CASE ~Crash
    <3>1. UNCHANGED <<task, candidate, drawn, aborted, pending, stage, status>>
      BY <1>6, <2>2 DEF Environment, NewRelease, ApplicationChanges, Spoil
    <3> QED
      BY <3>1 DEF JobInv, Fetching, At
  <2> QED
    BY <2>1, <2>2
<1>7. CASE UNCHANGED managedVars
  BY <1>7 DEF managedVars, JobInv, Fetching, At
<1> QED
  BY <1>1, <1>2, <1>3, <1>4, <1>5, <1>6, <1>7 DEF ManagedNext

-----------------------------------------------------------------------------
(* Entries that only move between memory, record and restore stay apart.   *)
LEMMA IdsKept ==
    ASSUME IdsInv, drawn' = drawn,
           \A a \in Apps : {stage'[a], saved'[a], pending'[a]}
                            \subseteq {NoStage, stage[a], saved[a], pending[a]},
           Fetching' => /\ Fetching /\ task'.id = task.id /\ task'.app = task.app
                        /\ At("stage") => At("stage")'
    PROVE  IdsInv'
<1>1. ASSUME NEW a \in Apps, NEW id \in Ids, Owned(a, id)' PROVE Owned(a, id)
  <2>1. NoStage.id # id
    BY DEF NoStage, Ids
  <2> QED
    BY <1>1, <2>1 DEF Owned
<1> QED
  BY <1>1 DEF IdsInv

(* An operation that is not a download, or has ended, fetches nothing. *)
LEMMA NotFetching ==
    ASSUME IdsInv, drawn' = drawn, ~Fetching',
           \A a \in Apps : {stage'[a], saved'[a], pending'[a]}
                            \subseteq {NoStage, stage[a], saved[a], pending[a]}
    PROVE  IdsInv'
BY IdsKept

(* A step forward is one of the same operation. *)
LEMMA SameOperation ==
    ASSUME ManagedTypeOK, NEW s, task' = [task EXCEPT !.step = s]
    PROVE  /\ task'.op = task.op /\ task'.app = task.app /\ task'.step = s
           /\ task'.rel = task.rel /\ task'.id = task.id
           /\ Fetching' <=> Fetching
<1>1. task \in Tasks
  BY DEF ManagedTypeOK, Tasks
<1>2. /\ task'.op = task.op /\ task'.app = task.app /\ task'.step = s
      /\ task'.rel = task.rel /\ task'.id = task.id
  BY <1>1 DEF Tasks
<1> QED
  BY <1>2 DEF Fetching

LEMMA Ended == NoTask.op = "none" /\ (task' = NoTask => ~Fetching')
BY DEF NoTask, Fetching

LEMMA IdsStep ==
    ManagedTypeOK /\ JobInv /\ JobInv' /\ IdsInv /\ [ManagedNext]_managedVars => IdsInv'
<1> SUFFICES ASSUME ManagedTypeOK, JobInv, JobInv', IdsInv, [ManagedNext]_managedVars
             PROVE  IdsInv'
  OBVIOUS
<1> USE DEF world, inMemory
<1>0. /\ task \in Tasks
      /\ task.app \in Apps <=> task.op \in {"check", "download", "install"}
      /\ NoTask.op = "none" /\ NoTask.app = NoApp /\ NoTask.step = "none" /\ NoTask.id = 0
      /\ Down.op = "down" /\ Down.app = NoApp /\ Down.step = "none" /\ Down.id = 0
      /\ task.op \in {"none", "down", "restore", "check", "download", "install"}
      /\ stage \in [Apps -> Entries] /\ saved \in [Apps -> Entries]
      /\ pending \in [Apps -> Entries] /\ \A a \in Apps : NoStages[a] = NoStage
  BY TaskFacts DEF ManagedTypeOK, Entries, NoStages
<1> DEFINE Moved == \A a \in Apps : {stage'[a], saved'[a], pending'[a]}
                                     \subseteq {NoStage, stage[a], saved[a], pending[a]}
<1>1. CASE Restoring
  <2>1. Moved /\ drawn' = drawn
    BY <1>0, <1>1 DEF Restoring, Start, RestoreStage, DropStored, RemoveStage, SaveDropped,
                      FinishRestore, Persist, PersistFails
  <2>2. ~Fetching'
    <3>1. CASE Start
      BY <3>1, TasksTyped DEF Start, Fetching, Ops, TaskSteps
    <3>2. CASE ~Start
      <4>1. task.step \in {"load", "dropped"}
        BY <1>1, <3>2 DEF Restoring, RestoreStage, DropStored, SaveDropped, FinishRestore, At
      <4>2. task.op = "restore"
        BY <1>0, <4>1 DEF JobInv
      <4>3. task' = task \/ task' = NoTask \/ Goto("load") \/ Goto("dropped")
        BY <1>1, <3>2 DEF Restoring, RestoreStage, DropStored, SaveDropped, FinishRestore
      <4> QED
        BY <4>2, <4>3, SameOperation, Ended DEF Goto, Fetching
    <3> QED
      BY <3>1, <3>2
  <2> QED
    BY <2>1, <2>2, NotFetching
<1>2. CASE Checking
  <2>1. Moved /\ drawn' = drawn
    BY <1>0, <1>2 DEF Checking, CheckFails, NothingToOffer, Compare, RemoveStage, SaveSuperseded,
                      Persist, PersistFails
  <2>2. ~Fetching
    BY <1>2 DEF Checking, CheckFails, NothingToOffer, Compare, SaveSuperseded, At, JobInv, Fetching
  <2>3. task' = NoTask \/ Goto("superseded") \/ Goto("begin")
    BY <1>2 DEF Checking, CheckFails, NothingToOffer, Compare, SaveSuperseded, Offer, Conclude
  <2>4. ~Fetching'
    BY <2>2, <2>3, SameOperation, Ended DEF Goto
  <2> QED
    BY <2>1, <2>4, NotFetching
<1>3. CASE Downloading
  <2>1. CASE BeginFetch
    <3>1. UNCHANGED <<stage, saved, pending>> /\ drawn' = drawn + 1 /\ drawn \in Nat
      BY <2>1 DEF BeginFetch, ManagedTypeOK
    <3>2. task'.id = drawn' /\ \A a \in Apps, id \in Ids : Owned(a, id)' <=> Owned(a, id)
      BY <1>0, <2>1, <3>1 DEF BeginFetch, Tasks, Owned
    <3>3. \A a \in Apps : \A id \in Ids : Owned(a, id) => id <= drawn /\ id # task'.id
      BY <3>1, <3>2 DEF IdsInv, Ids
    <3> QED
      BY <3>1, <3>2, <3>3 DEF IdsInv, Ids
  <2>2. CASE StageFile
    <3>0. task.step = "verify" /\ UNCHANGED <<saved, pending, drawn>>
      BY <2>2 DEF StageFile, At
    <3>1. /\ task.app \in Apps /\ task.step = "verify" /\ Fetching /\ task.id = drawn
          /\ UNCHANGED <<saved, pending, drawn>>
          /\ task.id \in Ids
      <4>1. task.op = "download" /\ task.id # 0 /\ task.id \in 0..MaxDownloads
        BY <1>0, <3>0 DEF JobInv, Tasks
      <4> QED
        BY <1>0, <3>0, <4>1, BoundsAssumption DEF JobInv, Fetching, Ids
    <3>2. task'.step = "stage" /\ task'.id = task.id /\ task'.app = task.app
      BY <1>0, <2>2 DEF StageFile, Goto, Tasks
    <3>3. /\ stage'[task.app].id = task.id
          /\ \A a \in Apps \ {task.app} : stage'[a] = stage[a]
      BY <1>0, <2>2, <3>1 DEF StageFile
    <3>4. \A a \in Apps : ~Owned(a, task.id)
      BY <3>1 DEF IdsInv, At
    <3>5. \A a \in Apps : \A id \in Ids : Owned(a, id)' =>
             Owned(a, id) \/ (a = task.app /\ id = task.id)
      BY <3>1, <3>3 DEF Owned
    <3>6. \A a \in Apps : \A id \in Ids : Owned(a, id) => id <= drawn /\ id # task.id
      BY <3>1, <3>4 DEF IdsInv
    <3>7. drawn <= drawn
      BY DEF ManagedTypeOK
    <3> QED
      BY <3>1, <3>2, <3>4, <3>5, <3>6, <3>7 DEF IdsInv, At
  <2>3. CASE FetchFails \/ SaveStage
    <3>1. Moved /\ drawn' = drawn
      BY <1>0, <2>3 DEF FetchFails, SaveStage, Persist, PersistFails
    <3>2. ~Fetching'
      BY <1>0, <2>3 DEF FetchFails, SaveStage, Conclude, Fetching
    <3> QED
      BY <3>1, <3>2, NotFetching
  <2>4. CASE LastByte \/ Cancel
    <3>1. UNCHANGED <<stage, saved, pending, drawn>>
      BY <2>4 DEF LastByte, Cancel
    <3>2. task' = task \/ (task.step = "fetch" /\ Goto("verify"))
      BY <2>4 DEF LastByte, Cancel, At
    <3>3. Fetching' => /\ Fetching /\ task'.id = task.id /\ task'.app = task.app
                       /\ At("stage") => At("stage")'
      BY <3>2, SameOperation DEF Goto, At, Fetching
    <3> QED
      BY <3>1, <3>3, IdsKept
  <2> QED
    BY <1>3, <2>1, <2>2, <2>3, <2>4 DEF Downloading
<1>4. CASE Installing
  <2>1. Moved /\ drawn' = drawn
    BY <1>0, <1>4 DEF Installing, SaveDiscarded, InstallFails, InstallApplies, RemoveStage,
                      SaveCleared, Persist, PersistFails
  <2>2. ~Fetching
    BY <1>4 DEF Installing, SaveDiscarded, InstallFails, InstallApplies, SaveCleared, At, JobInv,
                Fetching
  <2>3. task' = NoTask \/ Goto("clear")
    BY <1>4 DEF Installing, SaveDiscarded, InstallFails, InstallApplies, SaveCleared, Conclude
  <2>4. ~Fetching'
    BY <2>2, <2>3, SameOperation, Ended DEF Goto
  <2> QED
    BY <2>1, <2>4, NotFetching
<1>5. ASSUME NEW a \in Apps, Request(a) PROVE IdsInv'
  <2>1. Moved /\ drawn' = drawn
    BY <1>0, <1>5 DEF Request, BeginCheck, BeginDownload, BeginInstall, DiscardSpoilt, RemoveStage
  <2>2. \A op \in {"check", "download", "install"} :
           \A s \in {"checking", "running", "spoilt"} :
              /\ Task(op, a, s) \in Tasks /\ Task(op, a, s).op = op /\ Task(op, a, s).id = 0
    BY TasksTyped DEF Ops, TaskSteps
  <2>3. ~Fetching'
    BY <1>5, <2>2 DEF Request, BeginCheck, BeginDownload, BeginInstall, DiscardSpoilt, InstallJob,
                      Fetching, Tasks
  <2> QED
    BY <2>1, <2>3, NotFetching
<1>6. CASE Environment
  <2>1. CASE Crash
    BY <1>0, <2>1, NotFetching DEF Crash, Fetching
  <2>2. CASE ~Crash
    <3>1. UNCHANGED <<task, drawn, stage, saved, pending>>
      BY <1>6, <2>2 DEF Environment, NewRelease, ApplicationChanges, Spoil
    <3> QED
      BY <3>1, IdsKept DEF Fetching, At
  <2> QED
    BY <2>1, <2>2
<1>7. CASE UNCHANGED managedVars
  BY <1>7, IdsKept DEF managedVars, Fetching, At
<1> QED
  BY <1>1, <1>2, <1>3, <1>4, <1>5, <1>6, <1>7 DEF ManagedNext

-----------------------------------------------------------------------------
(* Which entries there may be in memory. *)
LEMMA EntryStep ==
    ASSUME ManagedTypeOK, JobInv, JobInv', EntryInv, [ManagedNext]_managedVars
    PROVE  EntryInv'
<1> USE DEF world, inMemory
<1>0. /\ task \in Tasks
      /\ task.app \in Apps <=> task.op \in {"check", "download", "install"}
      /\ NoTask.step = "none" /\ Down.step = "none" /\ Down.op = "down" /\ NoTask.op = "none"
      /\ stage \in [Apps -> Entries] /\ saved \in [Apps -> Entries]
      /\ pending \in [Apps -> Entries] /\ \A a \in Apps : NoStages[a] = NoStage
  BY TaskFacts DEF ManagedTypeOK, Entries, NoStages
<1>1. ASSUME UNCHANGED <<stage, pending>>,
             task'.step \notin {"begin", "fetch", "verify", "superseded", "stage"}
      PROVE  EntryInv'
  BY <1>1 DEF EntryInv, At
<1>2. ASSUME task' = NoTask, UNCHANGED <<stage, pending>> PROVE EntryInv'
  BY <1>0, <1>1, <1>2
<1>3. CASE Restoring
  <2>1. CASE Start
    <3>1. task'.step = "load"
      BY <2>1, TasksTyped DEF Start, Ops, TaskSteps
    <3> QED
      BY <1>0, <2>1, <3>1 DEF Start, EntryInv, At, JobInv
  <2>2. ASSUME NEW a \in Apps, RestoreStage(a) PROVE EntryInv'
    BY <1>0, <2>2 DEF RestoreStage, EntryInv, At
  <2>3. ASSUME NEW a \in Apps, DropStored(a) PROVE EntryInv'
    BY <1>0, <2>3 DEF DropStored, RemoveStage, Goto, EntryInv, At, Tasks
  <2>4. CASE SaveDropped \/ FinishRestore
    <3>1. /\ (task' = NoTask \/ Goto("load")) /\ UNCHANGED stage
          /\ pending' = NoStages \/ UNCHANGED pending
      BY <2>4 DEF SaveDropped, FinishRestore
    <3>2. task'.step \in {"none", "load"}
      BY <1>0, <3>1, SameOperation DEF Goto
    <3> QED
      BY <1>0, <3>1, <3>2 DEF EntryInv, At
  <2> QED
    BY <1>3, <2>1, <2>2, <2>3, <2>4 DEF Restoring
<1>4. CASE Checking
  <2>1. task.app \in Apps /\ pending' = pending /\ task.step \in {"checking", "superseded"}
        /\ pending = NoStages
    <3>1. task.step \in {"checking", "superseded"} /\ pending' = pending
      BY <1>4 DEF Checking, CheckFails, NothingToOffer, Compare, SaveSuperseded, At
    <3> QED
      BY <1>0, <3>1, TaskFacts DEF JobInv
  <2>2. ASSUME Offer, stage'[task.app] = NoStage, UNCHANGED stage PROVE EntryInv'
    <3>1. task' = NoTask \/ Goto("begin")
      BY <2>2 DEF Offer, Conclude
    <3>2. task' = NoTask \/ (task'.step = "begin" /\ task'.app = task.app)
      BY <3>1, SameOperation DEF Goto
    <3> QED
      BY <1>2, <2>1, <2>2, <3>2 DEF EntryInv, At
  <2>3. CASE Compare
    <3>1. CASE Goto("superseded") /\ RemoveStage(task.app, stage[task.app])
      <4>1. task'.step = "superseded" /\ task'.app = task.app
            /\ stage' = [stage EXCEPT ![task.app] = NoStage]
        BY <1>0, <3>1 DEF Goto, Tasks, RemoveStage
      <4> QED
        BY <1>0, <2>1, <4>1 DEF EntryInv, At
    <3> QED
      BY <1>2, <2>1, <2>2, <2>3, <3>1 DEF Compare, Conclude
  <2>4. CASE SaveSuperseded
    BY <1>2, <2>1, <2>2, <2>4 DEF SaveSuperseded, Conclude, EntryInv, At
  <2>5. CASE CheckFails \/ NothingToOffer
    BY <1>2, <2>1, <2>5 DEF CheckFails, NothingToOffer, Conclude
  <2> QED
    BY <1>4, <2>3, <2>4, <2>5 DEF Checking
<1>5. CASE Downloading
  <2>1. CASE BeginFetch \/ LastByte
    <3>1. CASE BeginFetch
      <4>1. task'.step = "fetch" /\ task'.app = task.app
        BY <1>0, <3>1 DEF BeginFetch, Tasks
      <4> QED
        BY <3>1, <4>1 DEF BeginFetch, EntryInv, At
    <3>2. CASE LastByte
      <4>1. task'.step = "verify" /\ task'.app = task.app
        BY <3>2, SameOperation DEF LastByte, Goto
      <4> QED
        BY <3>2, <4>1 DEF LastByte, EntryInv, At
    <3> QED
      BY <2>1, <3>1, <3>2
  <2>2. CASE StageFile
    <3>1. task.step = "verify" /\ task.app \in Apps /\ pending = NoStages
      <4>1. task.step = "verify"
        BY <2>2 DEF StageFile, At
      <4> QED
        BY <1>0, <4>1, TaskFacts DEF JobInv
    <3>2. /\ task'.step = "stage" /\ task'.app = task.app /\ task'.rel = task.rel
          /\ task'.id = task.id
      BY <1>0, <2>2 DEF StageFile, Goto, Tasks
    <3>3. stage'[task.app] = [rel |-> task.rel, id |-> task.id] /\ pending' = pending
      BY <1>0, <2>2, <3>1 DEF StageFile
    <3> QED
      BY <1>0, <3>1, <3>2, <3>3 DEF EntryInv, At
  <2>3. CASE FetchFails \/ SaveStage
    BY <1>2, <2>3 DEF FetchFails, SaveStage, Conclude
  <2>4. CASE Cancel
    BY <2>4 DEF Cancel, EntryInv, At
  <2> QED
    BY <1>5, <2>1, <2>2, <2>3, <2>4 DEF Downloading
<1>6. CASE Installing
  <2>1. CASE InstallApplies
    <3>1. task'.step = "clear" /\ pending' = pending
          /\ stage' = [stage EXCEPT ![task.app] = NoStage]
      BY <1>0, <2>1 DEF InstallApplies, Goto, Tasks, RemoveStage
    <3> QED
      BY <1>0, <3>1 DEF EntryInv, At
  <2> QED
    BY <1>2, <1>6, <2>1 DEF Installing, SaveDiscarded, InstallFails, SaveCleared, Conclude
<1>7. ASSUME NEW a \in Apps, Request(a) PROVE EntryInv'
  <2>1. \A op \in {"check", "download", "install"} :
           \A s \in {"checking", "running", "spoilt"} :
              Task(op, a, s) \in Tasks /\ Task(op, a, s).step = s
    BY TasksTyped DEF Ops, TaskSteps
  <2>2. task'.step \in {"checking", "running", "spoilt"}
    BY <1>7, <2>1 DEF Request, BeginCheck, BeginDownload, BeginInstall, DiscardSpoilt, InstallJob,
                      Tasks
  <2>3. /\ UNCHANGED pending
        /\ UNCHANGED stage \/ stage' = [stage EXCEPT ![a] = NoStage]
    BY <1>7 DEF Request, BeginCheck, BeginDownload, BeginInstall, DiscardSpoilt, RemoveStage
  <2> QED
    BY <1>0, <2>2, <2>3 DEF EntryInv, At
<1>8. CASE Environment
  <2>1. CASE Crash
    BY <1>0, <2>1 DEF Crash, EntryInv, At
  <2> QED
    BY <1>8, <2>1 DEF Environment, NewRelease, ApplicationChanges, Spoil, EntryInv, At
<1>9. CASE UNCHANGED managedVars
  BY <1>9 DEF managedVars, EntryInv, At
<1> QED
  BY <1>3, <1>4, <1>5, <1>6, <1>7, <1>8, <1>9 DEF ManagedNext

-----------------------------------------------------------------------------
(* What one application shows stays sound while nothing of it changes and  *)
(* no operation on it ends.                                                *)
LEMMA SoundKept ==
    ASSUME NEW a \in Apps, Sound(a),
           stage'[a] = stage[a], saved'[a] = saved[a],
           candidate'[a] = candidate[a], status'[a] = status[a],
           stage[a] # NoStage /\ disk[stage[a].id] # "absent"
               => disk'[stage[a].id] # "absent",
           a # task'.app => a # task.app,
           task'.op \notin {"down", "restore"} /\ (a # task'.app \/ task'.step \notin Saving)
               => task.op \notin {"down", "restore"} /\ (a # task.app \/ task.step \notin Saving)
    PROVE  Sound(a)'
BY DEF Sound, Backed

(* An operation on one application, or its end, leaves the others sound. *)
LEMMA OthersKept ==
    ASSUME NEW a \in Apps, Sound(a), a # task.app,
           task.op \in {"check", "download", "install"},
           task' = NoTask \/ (task'.op = task.op /\ task'.app = task.app),
           stage'[a] = stage[a], saved'[a] \in {saved[a], stage[a]},
           candidate'[a] = candidate[a], status'[a] = status[a],
           stage[a] # NoStage /\ disk[stage[a].id] # "absent"
               => disk'[stage[a].id] # "absent"
    PROVE  Sound(a)'
<1>1. saved[a] = stage[a]
  BY DEF Sound
<1> QED
  BY <1>1, SoundKept

(* Removing the directory of one application's entry leaves those of the   *)
(* others.                                                                 *)
LEMMA OthersFiles ==
    ASSUME ManagedTypeOK, IdsInv, NEW b \in Apps,
           NEW s \in {stage[b], pending[b]}, RemoveFiles(s.id),
           NEW a \in Apps, a # b, stage[a] # NoStage
    PROVE  disk'[stage[a].id] = disk[stage[a].id]
<1>1. /\ stage[a] \in Entries /\ s \in Entries
  BY DEF ManagedTypeOK, Entries
<1>2. stage[a].id \in Ids /\ s.id \in Nat
  BY <1>1, EntryTyped
<1>3. s.id # stage[a].id
  BY <1>2 DEF IdsInv, Owned
<1> QED
  BY <1>2, <1>3, FilesLeft

(* What is shown stays sound. *)
LEMMA RecordStep ==
    ASSUME UpdateInv, JobInv', EntryInv', [ManagedNext]_managedVars
    PROVE  RecordInv'
<1> USE DEF world, inMemory
<1> SUFFICES ASSUME ~unsaved'
             PROVE  /\ At("spoilt")' => candidate'[task'.app] = task'.rel
                    /\ \A a \in Apps : Sound(a)'
  BY DEF RecordInv
<1>0. /\ ManagedTypeOK /\ JobInv /\ IdsInv /\ EntryInv /\ RecordInv
      /\ task \in Tasks
      /\ task.app \in Apps <=> task.op \in {"check", "download", "install"}
      /\ task.op \in {"none", "down", "restore", "check", "download", "install"}
      /\ NoTask.step = "none" /\ NoTask.op = "none" /\ NoTask.app = NoApp
      /\ Down.step = "none" /\ Down.op = "down" /\ Down.app = NoApp
      /\ stage \in [Apps -> Entries] /\ saved \in [Apps -> Entries]
      /\ pending \in [Apps -> Entries] /\ \A a \in Apps : NoStages[a] = NoStage
      /\ NoApp \notin Apps
  BY TaskFacts, NoAppAssumption DEF UpdateInv, ManagedTypeOK, Entries, NoStages
<1>a. ASSUME unsaved' = unsaved
      PROVE  /\ ~unsaved /\ \A a \in Apps : Sound(a)
             /\ At("spoilt") => candidate[task.app] = task.rel
  BY <1>0, <1>a DEF RecordInv
<1>b. ~PersistFails
  BY DEF PersistFails
<1>c. Persist => unsaved' = unsaved /\ saved' = stage
  BY DEF Persist
<1>1. CASE Restoring
  <2>1. CASE Start
    <3>1. task'.op = "restore" /\ task'.step = "load"
      BY <2>1, TasksTyped DEF Start, Ops, TaskSteps
    <3>2. \A a \in Apps : stage'[a] = NoStage /\ status'[a] = "idle"
      BY <1>0, <2>1 DEF Start, JobInv
    <3> QED
      BY <3>1, <3>2 DEF Sound, At
  <2>2. ASSUME NEW b \in Apps, RestoreStage(b) \/ DropStored(b) PROVE task.op = "restore"
    BY <1>0, <2>2 DEF RestoreStage, DropStored, At, JobInv
  <2>3. ASSUME NEW b \in Apps, RestoreStage(b)
        PROVE  At("spoilt")' = FALSE /\ \A a \in Apps : Sound(a)'
    <3>1. unsaved' = unsaved /\ task' = task /\ task.step = "load" /\ task.op = "restore"
      BY <2>2, <2>3 DEF RestoreStage, At
    <3>2. ASSUME NEW a \in Apps, a # b PROVE Sound(a)'
      <4>1. UNCHANGED <<stage[a], saved[a], candidate[a], status[a], disk>>
        BY <1>0, <2>3, <3>2 DEF RestoreStage, ManagedTypeOK
      <4> QED
        BY <1>a, <3>1, <4>1, SoundKept
    <3>3. /\ stage'[b] = pending[b] /\ candidate'[b] = pending[b].rel /\ status'[b] = "ready"
          /\ disk'[pending[b].id] = "good" /\ pending[b] # NoStage
      BY <1>0, <2>3 DEF RestoreStage, Restorable, ManagedTypeOK
    <3>4. Sound(b)'
      BY <3>1, <3>3 DEF Sound, Backed
    <3> QED
      BY <3>1, <3>2, <3>4 DEF At
  <2>4. ASSUME NEW b \in Apps, DropStored(b)
        PROVE  At("spoilt")' = FALSE /\ \A a \in Apps : Sound(a)'
    <3>1. /\ unsaved' = unsaved /\ task'.op = "restore" /\ task'.step = "dropped"
          /\ task'.app = task.app
      BY <1>0, <2>2, <2>4, SameOperation DEF DropStored, Goto
    <3>2. ASSUME NEW a \in Apps, a # b PROVE Sound(a)'
      <4>1. UNCHANGED <<stage[a], saved[a], candidate[a], status[a]>>
        BY <1>0, <2>4, <3>2 DEF DropStored, RemoveStage, ManagedTypeOK
      <4>2. stage[a] # NoStage => disk'[stage[a].id] = disk[stage[a].id]
        BY <1>0, <2>4, <3>2, OthersFiles DEF DropStored, RemoveStage
      <4> QED
        BY <1>a, <3>1, <4>1, <4>2, SoundKept
    <3>3. stage[b] = NoStage /\ stage'[b] = NoStage /\ status'[b] = status[b]
      BY <1>0, <2>4 DEF DropStored, RemoveStage, EntryInv
    <3>4. status[b] \notin {"ready", "cancelled"}
      <4>1. status[b] # "ready"
        BY <1>0, <1>a, <2>2, <2>4, <3>1, <3>3 DEF Sound, Backed
      <4> QED
        BY <1>0, <2>2, <2>4, <4>1 DEF JobInv
    <3>5. Sound(b)'
      BY <3>1, <3>3, <3>4 DEF Sound
    <3> QED
      BY <3>1, <3>2, <3>5 DEF At
  <2>5. CASE SaveDropped \/ FinishRestore
    <3>1. /\ Persist /\ task.op = "restore" /\ (task' = NoTask \/ Goto("load"))
          /\ UNCHANGED <<stage, candidate, status, disk>>
      BY <1>0, <1>b, <2>5 DEF SaveDropped, FinishRestore, At, JobInv
    <3>2. task'.step \in {"none", "load"}
      BY <1>0, <3>1, SameOperation DEF Goto
    <3>3. \A a \in Apps : a # task.app
      BY <1>0, <3>1
    <3>4. ASSUME NEW a \in Apps PROVE Sound(a)'
      <4>1. status[a] # "cancelled" /\ Sound(a) /\ saved'[a] = stage[a]
        BY <1>0, <1>a, <1>c, <3>1 DEF JobInv
      <4> QED
        BY <3>1, <3>3, <4>1 DEF Sound, Backed
    <3> QED
      BY <3>2, <3>4 DEF At
  <2> QED
    BY <1>1, <2>1, <2>3, <2>4, <2>5 DEF Restoring
<1>2. CASE Checking
  <2>1. task.op \in {"check", "download"} /\ task.app \in Apps /\ task.app # NoApp
    <3>1. task.step \in {"checking", "superseded"}
      BY <1>2 DEF Checking, CheckFails, NothingToOffer, Compare, SaveSuperseded, At
    <3> QED
      BY <1>0, <3>1 DEF JobInv
  <2>2. unsaved' = unsaved
    BY <1>2, <1>b, <1>c DEF Checking, CheckFails, NothingToOffer, Compare, SaveSuperseded
  <2>3. ASSUME Offer
        PROVE  /\ task' = NoTask \/ (task'.op = task.op /\ task'.app = task.app)
               /\ task'.step \in {"none", "begin"}
               /\ status' = [status EXCEPT ![task.app] = "available"]
    <3>1. task' = NoTask \/ Goto("begin")
      BY <2>3 DEF Offer, Conclude
    <3> QED
      BY <1>0, <2>3, <3>1, SameOperation DEF Offer, Conclude, Publish, Goto
  <2>4. CASE CheckFails \/ NothingToOffer
    <3>1. /\ task' = NoTask /\ task.step = "checking"
          /\ UNCHANGED <<stage, saved, candidate, disk>>
          /\ \E s \in {"failed", "idle"} : status' = [status EXCEPT ![task.app] = s]
      BY <2>4 DEF CheckFails, NothingToOffer, Conclude, Publish, At
    <3>2. ASSUME NEW a \in Apps, a # task.app PROVE Sound(a)'
      <4>1. status'[a] = status[a]
        BY <1>0, <3>1, <3>2 DEF ManagedTypeOK
      <4> QED
        BY <1>a, <2>1, <2>2, <3>1, <3>2, <4>1, OthersKept
    <3>3. ASSUME NEW a \in Apps, a = task.app PROVE Sound(a)'
      <4>1. status'[task.app] \in {"failed", "idle"}
        BY <1>0, <2>1, <3>1 DEF ManagedTypeOK
      <4> QED
        BY <1>0, <1>a, <2>1, <2>2, <3>1, <3>3, <4>1 DEF Sound, Saving
    <3> QED
      BY <1>0, <3>1, <3>2, <3>3 DEF At
  <2>5. CASE Compare
    <3>0. /\ task.step = "checking" /\ UNCHANGED saved
          /\ candidate' = [candidate EXCEPT ![task.app] = release[task.app]]
          /\ candidate'[task.app] = release[task.app]
      BY <1>0, <2>1, <2>5 DEF Compare, At, ManagedTypeOK
    <3>1. CASE UNCHANGED <<stage, disk>>
      <4>1. /\ task' = NoTask \/ (task'.op = task.op /\ task'.app = task.app)
            /\ task'.step \in {"none", "begin"}
            /\ \E s \in {"up-to-date", "ready", "available"} :
                  /\ status' = [status EXCEPT ![task.app] = s]
                  /\ s = "ready" => Matches(task.app)
        <5>1. CASE Conclude("up-to-date")
          BY <1>0, <5>1 DEF Conclude, Publish
        <5>2. CASE Conclude("ready") /\ Matches(task.app)
          BY <1>0, <5>2 DEF Conclude, Publish
        <5>3. CASE Offer
          BY <2>3, <5>3
        <5>4. CASE Goto("superseded") /\ RemoveStage(task.app, stage[task.app])
                   /\ stage[task.app] # NoStage
          <6>1. stage'[task.app] = NoStage
            BY <1>0, <2>1, <5>4 DEF RemoveStage
          <6> QED
            BY <3>1, <5>4, <6>1
        <5> QED
          BY <1>0, <2>1, <2>5, <5>1, <5>2, <5>3, <5>4 DEF Compare, ManagedTypeOK
      <4>2. ASSUME NEW a \in Apps, a # task.app PROVE Sound(a)'
        <5>1. status'[a] = status[a] /\ candidate'[a] = candidate[a]
          BY <1>0, <3>0, <4>1, <4>2 DEF ManagedTypeOK
        <5> QED
          BY <1>a, <2>1, <2>2, <3>0, <3>1, <4>1, <4>2, <5>1, OthersKept
      <4>3. ASSUME NEW a \in Apps, a = task.app PROVE Sound(a)'
        <5>1. /\ status'[task.app] \in {"up-to-date", "ready", "available"}
              /\ status'[task.app] = "ready" => Matches(task.app)
          BY <1>0, <2>1, <4>1 DEF ManagedTypeOK
        <5>2. Sound(task.app) /\ saved[task.app] = stage[task.app]
          BY <1>a, <2>1, <2>2, <3>0 DEF Sound, Saving
        <5> QED
          BY <2>1, <3>0, <3>1, <4>3, <5>1, <5>2 DEF Sound, Backed, Matches
      <4> QED
        BY <4>1, <4>2, <4>3 DEF At
    <3>2. CASE Goto("superseded") /\ RemoveStage(task.app, stage[task.app]) /\ UNCHANGED status
      <4>1. /\ task'.op = task.op /\ task'.app = task.app /\ task'.step = "superseded"
            /\ stage' = [stage EXCEPT ![task.app] = NoStage]
            /\ RemoveFiles(stage[task.app].id)
        BY <1>0, <3>2, SameOperation DEF Goto, RemoveStage
      <4>2. ASSUME NEW a \in Apps, a # task.app PROVE Sound(a)'
        <5>1. stage'[a] = stage[a] /\ candidate'[a] = candidate[a] /\ status'[a] = status[a]
          BY <1>0, <3>0, <3>2, <4>1, <4>2 DEF ManagedTypeOK
        <5>2. stage[a] # NoStage => disk'[stage[a].id] = disk[stage[a].id]
          BY <1>0, <2>1, <4>1, <4>2, OthersFiles
        <5> QED
          BY <1>a, <2>1, <2>2, <3>0, <4>1, <4>2, <5>1, <5>2, OthersKept
      <4>3. ASSUME NEW a \in Apps, a = task.app PROVE Sound(a)'
        <5>1. stage'[task.app] = NoStage
          BY <1>0, <2>1, <4>1
        <5> QED
          BY <4>1, <4>3, <5>1 DEF Sound, Saving
      <4> QED
        BY <4>1, <4>2, <4>3 DEF At
    <3> QED
      BY <2>5, <3>1, <3>2 DEF Compare
  <2>6. CASE SaveSuperseded
    <3>1. /\ saved' = stage /\ UNCHANGED <<stage, candidate, disk>>
          /\ task' = NoTask \/ (task'.op = task.op /\ task'.app = task.app)
          /\ task'.step \in {"none", "begin"}
          /\ status' = [status EXCEPT ![task.app] = "available"]
      BY <1>b, <1>c, <2>3, <2>6 DEF SaveSuperseded
    <3>2. ASSUME NEW a \in Apps, a # task.app PROVE Sound(a)'
      <4>1. status'[a] = status[a]
        BY <1>0, <3>1, <3>2 DEF ManagedTypeOK
      <4> QED
        BY <1>a, <2>1, <2>2, <3>1, <3>2, <4>1, OthersKept
    <3>3. ASSUME NEW a \in Apps, a = task.app PROVE Sound(a)'
      <4>1. status'[task.app] = "available"
        BY <1>0, <2>1, <3>1 DEF ManagedTypeOK
      <4> QED
        BY <1>a, <2>1, <2>2, <3>1, <3>3, <4>1 DEF Sound
    <3> QED
      BY <3>1, <3>2, <3>3 DEF At
  <2> QED
    BY <1>2, <2>4, <2>5, <2>6 DEF Checking
<1>3. CASE Downloading
  <2>1. /\ task.op = "download" /\ task.app \in Apps /\ task.app # NoApp
        /\ task.step \notin {"spoilt", "clear"}
    <3>1. CASE Cancel
      BY <1>0, <3>1 DEF Cancel, JobInv
    <3>2. CASE ~Cancel
      <4>1. task.step \in {"begin", "fetch", "verify", "stage"}
        BY <1>3, <3>2 DEF Downloading, BeginFetch, FetchFails, LastByte, StageFile, SaveStage, At
      <4> QED
        BY <1>0, <4>1 DEF JobInv
    <3> QED
      BY <3>1, <3>2
  <2>2. unsaved' = unsaved
    BY <1>3, <1>b, <1>c
    DEF Downloading, BeginFetch, FetchFails, LastByte, StageFile, SaveStage, Cancel
  <2>3. CASE BeginFetch
    <3>1. /\ task'.op = task.op /\ task'.app = task.app /\ task'.step = "fetch"
          /\ task.step = "begin" /\ UNCHANGED <<stage, saved, candidate, disk>>
          /\ status' = [status EXCEPT ![task.app] = "downloading"]
      BY <1>0, <2>3 DEF BeginFetch, Tasks, Publish, At
    <3>2. ASSUME NEW a \in Apps, a # task.app PROVE Sound(a)'
      <4>1. status'[a] = status[a]
        BY <1>0, <3>1, <3>2 DEF ManagedTypeOK
      <4> QED
        BY <1>a, <2>1, <2>2, <3>1, <3>2, <4>1, OthersKept
    <3>3. ASSUME NEW a \in Apps, a = task.app PROVE Sound(a)'
      BY <1>a, <2>1, <2>2, <3>1, <3>3 DEF Sound, Saving
    <3> QED
      BY <3>1, <3>2, <3>3 DEF At
  <2>4. CASE FetchFails
    <3>1. /\ task' = NoTask /\ UNCHANGED <<stage, saved, candidate, disk>>
          /\ task.step \in {"fetch", "verify"}
          /\ status' = [status EXCEPT ![task.app] = Cancelled]
      BY <1>0, <2>4 DEF FetchFails, Conclude, Publish, At
    <3>2. ASSUME NEW a \in Apps, a # task.app PROVE Sound(a)'
      <4>1. status'[a] = status[a]
        BY <1>0, <3>1, <3>2 DEF ManagedTypeOK
      <4> QED
        BY <1>a, <2>1, <2>2, <3>1, <3>2, <4>1, OthersKept
    <3>3. ASSUME NEW a \in Apps, a = task.app PROVE Sound(a)'
      <4>1. status'[a] # "ready"
        BY <1>0, <3>1, <3>3 DEF ManagedTypeOK, Cancelled
      <4>2. stage[a] = NoStage /\ saved[a] = stage[a]
        BY <1>0, <1>a, <2>1, <2>2, <3>1, <3>3 DEF EntryInv, Sound, Saving
      <4> QED
        BY <3>1, <4>1, <4>2 DEF Sound
    <3> QED
      BY <1>0, <3>1, <3>2, <3>3 DEF At
  <2>5. CASE LastByte
    <3>1. /\ task'.op = task.op /\ task'.app = task.app /\ task'.step = "verify"
          /\ task.step = "fetch" /\ UNCHANGED <<stage, saved, candidate, disk, status>>
      BY <1>0, <2>5, SameOperation DEF LastByte, Goto, At
    <3>2. ASSUME NEW a \in Apps PROVE Sound(a)'
      BY <1>a, <2>1, <2>2, <3>1, SoundKept DEF Saving
    <3> QED
      BY <3>1, <3>2 DEF At
  <2>6. CASE StageFile
    <3>1. /\ task'.op = task.op /\ task'.app = task.app /\ task'.step = "stage"
          /\ task'.rel = task.rel /\ task'.id = task.id
          /\ task.step = "verify" /\ UNCHANGED <<saved, candidate, status>>
          /\ disk' = [disk EXCEPT ![task.id] = "good"]
          /\ stage' = [stage EXCEPT ![task.app] = [rel |-> task.rel, id |-> task.id]]
      BY <1>0, <2>6, SameOperation DEF StageFile, Goto, At
    <3>2. ASSUME NEW a \in Apps, a # task.app PROVE Sound(a)'
      <4>1. stage'[a] = stage[a]
        BY <1>0, <3>1, <3>2
      <4>2. stage[a] # NoStage /\ disk[stage[a].id] # "absent" => disk'[stage[a].id] # "absent"
        <5>1. stage[a] # NoStage => stage[a].id \in Ids
          BY <1>0, EntryTyped
        <5> QED
          BY <1>0, <3>1, <5>1 DEF ManagedTypeOK
      <4> QED
        BY <1>a, <2>1, <2>2, <3>1, <3>2, <4>1, <4>2, OthersKept
    <3>3. ASSUME NEW a \in Apps, a = task.app PROVE Sound(a)'
      <4>1. stage'[a] = [rel |-> task.rel, id |-> task.id]
        BY <1>0, <3>1, <3>3
      <4>2. task.id \in Ids
        BY <1>0, <2>1, <3>1 DEF JobInv, Tasks, Ids
      <4>3. disk'[stage'[a].id] = "good"
        BY <1>0, <3>1, <4>1, <4>2 DEF ManagedTypeOK
      <4> QED
        BY <3>1, <3>3, <4>3 DEF Sound, Saving
    <3> QED
      BY <3>1, <3>2, <3>3 DEF At
  <2>7. CASE SaveStage
    <3>1. /\ task.step = "stage" /\ task' = NoTask /\ saved' = stage
          /\ UNCHANGED <<stage, candidate, disk>>
          /\ status' = [status EXCEPT ![task.app] = "ready"]
      BY <1>b, <1>c, <2>7 DEF SaveStage, Conclude, Publish, At
    <3>2. ASSUME NEW a \in Apps, a # task.app PROVE Sound(a)'
      <4>1. status'[a] = status[a]
        BY <1>0, <3>1, <3>2 DEF ManagedTypeOK
      <4> QED
        BY <1>a, <2>1, <2>2, <3>1, <3>2, <4>1, OthersKept
    <3>3. ASSUME NEW a \in Apps, a = task.app PROVE Sound(a)'
      <4>1. stage[a] = [rel |-> task.rel, id |-> task.id]
        BY <1>0, <3>1, <3>3 DEF EntryInv, At
      <4>2. candidate[a] = task.rel /\ task.rel # 0
        BY <1>0, <2>1, <3>1, <3>3 DEF JobInv, Fetching
      <4>3. status'[a] = "ready" /\ stage[a] # NoStage /\ candidate[a] = stage[a].rel
        BY <1>0, <3>1, <3>3, <4>1, <4>2 DEF ManagedTypeOK, NoStage
      <4> QED
        BY <1>a, <2>2, <3>1, <4>3 DEF Sound, Backed
    <3> QED
      BY <1>0, <3>1, <3>2, <3>3 DEF At
  <2>8. CASE Cancel
    <3>1. UNCHANGED <<stage, saved, candidate, disk, status, task>>
      BY <2>8 DEF Cancel
    <3>2. ASSUME NEW a \in Apps PROVE Sound(a)'
      BY <1>a, <2>2, <3>1, SoundKept
    <3> QED
      BY <2>1, <3>1, <3>2 DEF At
  <2> QED
    BY <1>3, <2>3, <2>4, <2>5, <2>6, <2>7, <2>8 DEF Downloading
<1>4. CASE Installing
  <2>1. task.op = "install" /\ task.app \in Apps /\ task.app # NoApp
    <3>1. task.step \in {"running", "spoilt", "clear"}
      BY <1>4 DEF Installing, SaveDiscarded, InstallFails, InstallApplies, SaveCleared, At
    <3> QED
      BY <1>0, <3>1 DEF JobInv
  <2>2. unsaved' = unsaved
    BY <1>4, <1>b, <1>c DEF Installing, SaveDiscarded, InstallFails, InstallApplies, SaveCleared
  <2>3. CASE SaveDiscarded \/ InstallFails \/ SaveCleared
    <3>1. /\ task' = NoTask /\ UNCHANGED <<stage, candidate, disk>>
          /\ saved' = stage \/ (task.step = "running" /\ saved' = saved)
          /\ \E s \in {"failed", "up-to-date"} : status' = [status EXCEPT ![task.app] = s]
      <4>1. CASE SaveDiscarded
        <5>1. task.rel = candidate[task.app]
          BY <1>a, <2>2, <4>1 DEF SaveDiscarded
        <5> QED
          BY <1>b, <1>c, <4>1, <5>1 DEF SaveDiscarded, Conclude, Publish
      <4>2. CASE InstallFails
        BY <4>2 DEF InstallFails, Conclude, Publish, At
      <4>3. CASE SaveCleared
        BY <1>b, <1>c, <4>3 DEF SaveCleared, Conclude, Publish
      <4> QED
        BY <2>3, <4>1, <4>2, <4>3
    <3>2. ASSUME NEW a \in Apps, a # task.app PROVE Sound(a)'
      <4>1. status'[a] = status[a] /\ saved'[a] \in {saved[a], stage[a]}
        BY <1>0, <3>1, <3>2 DEF ManagedTypeOK
      <4> QED
        BY <1>a, <2>1, <2>2, <3>1, <3>2, <4>1, OthersKept
    <3>3. ASSUME NEW a \in Apps, a = task.app PROVE Sound(a)'
      <4>1. status'[a] \in {"failed", "up-to-date"}
        BY <1>0, <3>1, <3>3 DEF ManagedTypeOK
      <4>2. Sound(a) /\ saved'[a] = stage[a]
        BY <1>a, <2>1, <2>2, <3>1, <3>3 DEF Sound, Saving
      <4> QED
        BY <3>1, <4>1, <4>2 DEF Sound
    <3> QED
      BY <1>0, <3>1, <3>2, <3>3 DEF At
  <2>4. CASE InstallApplies
    <3>1. /\ task'.op = task.op /\ task'.app = task.app /\ task'.step = "clear"
          /\ stage' = [stage EXCEPT ![task.app] = NoStage]
          /\ RemoveFiles(stage[task.app].id)
          /\ UNCHANGED <<saved, candidate, status>>
      BY <1>0, <2>4, SameOperation DEF InstallApplies, Goto, RemoveStage
    <3>2. ASSUME NEW a \in Apps, a # task.app PROVE Sound(a)'
      <4>1. stage'[a] = stage[a]
        BY <1>0, <3>1, <3>2
      <4>2. stage[a] # NoStage => disk'[stage[a].id] = disk[stage[a].id]
        BY <1>0, <2>1, <3>1, <3>2, OthersFiles
      <4> QED
        BY <1>a, <2>1, <2>2, <3>1, <3>2, <4>1, <4>2, OthersKept
    <3>3. ASSUME NEW a \in Apps, a = task.app PROVE Sound(a)'
      <4>1. stage'[a] = NoStage
        BY <1>0, <3>1, <3>3
      <4> QED
        BY <3>1, <3>3, <4>1 DEF Sound, Saving
    <3> QED
      BY <3>1, <3>2, <3>3 DEF At
  <2> QED
    BY <1>4, <2>3, <2>4 DEF Installing
<1>5. ASSUME NEW b \in Apps, Request(b)
      PROVE  /\ At("spoilt")' => candidate'[task'.app] = task'.rel
             /\ \A a \in Apps : Sound(a)'
  <2>1. task = NoTask /\ unsaved' = unsaved /\ UNCHANGED <<saved, candidate>>
    BY <1>5 DEF Request, BeginCheck, BeginDownload, BeginInstall, DiscardSpoilt, Idle
  <2>2. \A op \in {"check", "download", "install"} : \A s \in {"checking", "running", "spoilt"} :
           /\ Task(op, b, s) \in Tasks /\ Task(op, b, s).op = op
           /\ Task(op, b, s).app = b /\ Task(op, b, s).step = s
    BY TasksTyped DEF Ops, TaskSteps
  <2>3. ASSUME NEW a \in Apps PROVE Sound(a) /\ saved[a] = stage[a] /\ a # task.app
    BY <1>0, <1>a, <2>1 DEF Sound
  <2>4. CASE BeginCheck(b) \/ BeginDownload(b)
    <3>1. /\ task'.op \in {"check", "download"} /\ task'.app = b /\ task'.step = "checking"
          /\ UNCHANGED <<stage, disk, status>>
      BY <2>2, <2>4 DEF BeginCheck, BeginDownload
    <3> QED
      BY <1>0, <2>1, <2>3, <3>1, SoundKept DEF At
  <2>5. CASE BeginInstall(b)
    <3>1. /\ task'.op = "install" /\ task'.app = b /\ task'.step = "running"
          /\ UNCHANGED <<stage, disk>> /\ status' = [status EXCEPT ![b] = "installing"]
      BY <2>2, <2>5 DEF BeginInstall, InstallJob, Tasks
    <3>2. ASSUME NEW a \in Apps, a # b PROVE Sound(a)'
      <4>1. status'[a] = status[a]
        BY <1>0, <3>1, <3>2 DEF ManagedTypeOK
      <4> QED
        BY <1>0, <2>1, <2>3, <3>1, <4>1, SoundKept
    <3>3. ASSUME NEW a \in Apps, a = b PROVE Sound(a)'
      BY <2>1, <2>3, <3>1, <3>3 DEF Sound
    <3> QED
      BY <3>1, <3>2, <3>3 DEF At
  <2>6. CASE DiscardSpoilt(b)
    <3>1. /\ task' = [Task("install", b, "spoilt") EXCEPT !.rel = stage[b].rel,
                                                           !.id = stage[b].id]
          /\ stage' = [stage EXCEPT ![b] = NoStage] /\ RemoveFiles(stage[b].id)
          /\ status[b] = "ready" /\ UNCHANGED status
      BY <2>6 DEF DiscardSpoilt, InstallJob, RemoveStage
    <3>2. /\ task'.op = "install" /\ task'.app = b /\ task'.step = "spoilt"
          /\ task'.rel = stage[b].rel
      BY <2>2, <3>1 DEF Tasks
    <3>3. candidate[b] = stage[b].rel
      BY <2>3, <3>1 DEF Sound, Backed
    <3>4. ASSUME NEW a \in Apps, a # b PROVE Sound(a)'
      <4>1. stage'[a] = stage[a]
        BY <1>0, <3>1, <3>4
      <4>2. stage[a] # NoStage => disk'[stage[a].id] = disk[stage[a].id]
        BY <1>0, <3>1, <3>4, OthersFiles
      <4> QED
        BY <1>0, <2>1, <2>3, <3>1, <3>2, <3>4, <4>1, <4>2, SoundKept
    <3>5. ASSUME NEW a \in Apps, a = b PROVE Sound(a)'
      <4>1. stage'[a] = NoStage
        BY <1>0, <3>1, <3>5
      <4> QED
        BY <3>2, <3>5, <4>1 DEF Sound, Saving
    <3> QED
      BY <2>1, <3>2, <3>3, <3>4, <3>5 DEF At
  <2> QED
    BY <1>5, <2>4, <2>5, <2>6 DEF Request
<1>6. CASE Environment
  <2>1. CASE Crash
    <3>1. /\ task' = Down /\ \A a \in Apps : stage'[a] = NoStage /\ status'[a] = "idle"
      BY <1>0, <2>1 DEF Crash
    <3> QED
      BY <1>0, <3>1 DEF Sound, At
  <2>2. CASE ~Crash
    <3>1. UNCHANGED <<stage, saved, candidate, status, task, unsaved>>
      BY <1>6, <2>2 DEF Environment, NewRelease, ApplicationChanges, Spoil
    <3>2. \A i \in Ids : disk[i] # "absent" => disk'[i] # "absent"
      BY <1>0, <1>6, <2>2 DEF Environment, NewRelease, ApplicationChanges, Spoil, ManagedTypeOK
    <3>3. ASSUME NEW a \in Apps PROVE Sound(a)'
      <4>1. stage[a] # NoStage => stage[a].id \in Ids
        BY <1>0, EntryTyped
      <4> QED
        BY <1>a, <3>1, <3>2, <4>1, SoundKept
    <3> QED
      BY <1>a, <3>1, <3>3 DEF At
  <2> QED
    BY <2>1, <2>2
<1>7. CASE UNCHANGED managedVars
  <2>1. UNCHANGED <<stage, saved, candidate, status, task, unsaved, disk>>
    BY <1>7 DEF managedVars
  <2>2. ASSUME NEW a \in Apps PROVE Sound(a)'
    BY <1>a, <2>1, SoundKept
  <2> QED
    BY <1>a, <2>1, <2>2 DEF At
<1> QED
  BY <1>1, <1>2, <1>3, <1>4, <1>5, <1>6, <1>7 DEF ManagedNext

-----------------------------------------------------------------------------
LEMMA UpdateInitially == ManagedInit => UpdateInv
<1> SUFFICES ASSUME ManagedInit PROVE UpdateInv
  OBVIOUS
<1>0. /\ Down \in Tasks /\ Down.op = "down" /\ Down.step = "none" /\ Down.app = NoApp
      /\ Down.id = 0 /\ 0 \in 0..MaxDownloads /\ 0 \in 0..MaxRelease /\ 1 \in 1..MaxRelease
      /\ {0, 1} \subseteq 0..MaxRelease
  BY TasksTyped, BoundsAssumption DEF Down, NoTask, Tasks, Ops, TaskSteps
<1>1. ManagedTypeOK
  BY <1>0 DEF ManagedInit, ManagedTypeOK, NoStages, Statuses, Tasks
<1>2. JobInv
  BY <1>0, NoAppAssumption DEF ManagedInit, JobInv, Fetching
<1>3. IdsInv
  BY DEF ManagedInit, IdsInv, Owned, NoStages, NoStage, Ids
<1>4. EntryInv
  BY <1>0 DEF ManagedInit, EntryInv, NoStages, At
<1>5. RecordInv
  BY <1>0 DEF ManagedInit, RecordInv, Sound, NoStages, At
<1> QED
  BY <1>1, <1>2, <1>3, <1>4, <1>5 DEF UpdateInv

(* The inductive invariant of managed updates: the task is at a step of    *)
(* its operation, no two entries share a directory, and as long as the     *)
(* list could be saved memory, record and files agree on what is offered.  *)
THEOREM UpdateInvariant == ManagedSpec => []UpdateInv
<1>1. UpdateInv /\ [ManagedNext]_managedVars => UpdateInv'
  <2> SUFFICES ASSUME UpdateInv, [ManagedNext]_managedVars PROVE UpdateInv'
    OBVIOUS
  <2>1. ManagedTypeOK' /\ JobInv'
    BY TypeStep, JobStep DEF UpdateInv
  <2>2. IdsInv' /\ EntryInv'
    BY <2>1, IdsStep, EntryStep DEF UpdateInv
  <2> QED
    BY <2>1, <2>2, RecordStep DEF UpdateInv
<1> QED
  BY <1>1, UpdateInitially, PTL DEF ManagedSpec

(* What an application is offered to install is there, with its candidate  *)
(* and its files: restore, checkApp, download and install leave no ready   *)
(* state behind that install would find nothing for.                       *)
THEOREM ReadyStaysBacked == ManagedSpec => []ReadyIsBacked
<1>1. UpdateInv => ReadyIsBacked
  BY DEF UpdateInv, RecordInv, Sound, ReadyIsBacked, Settled
<1> QED
  BY <1>1, UpdateInvariant, PTL

(* Whatever the process offers is on record while it may crash: every      *)
(* persistStages comes before the state that announces it.                 *)
THEOREM ReadyIsOnRecord == ManagedSpec => []ReadySurvivesCrash
<1>1. UpdateInv => ReadySurvivesCrash
  BY DEF UpdateInv, JobInv, RecordInv, Sound, ReadySurvivesCrash, Settled
<1> QED
  BY <1>1, UpdateInvariant, PTL

(* A cancelled download leaves neither an entry in memory nor one on       *)
(* record, whichever step of it the cancellation met.                      *)
THEOREM CancelIsClean == ManagedSpec => []CancelLeavesNothing
<1>1. UpdateInv => CancelLeavesNothing
  BY DEF UpdateInv, RecordInv, Sound, CancelLeavesNothing, Settled
<1> QED
  BY <1>1, UpdateInvariant, PTL
=============================================================================
