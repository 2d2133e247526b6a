# Ding Ding App Store: TLA+ models, checks and proofs

The App Store is an Electron application.  Its *main process*
(`src/src/main`) owns every file, child process and timer; the renderer only
asks through IPC.  JavaScript runs one stretch of code at a time, so two
operations interleave exactly at their `await`s, and the state that matters
outlives the process: JSON files, a git repository of snapshots, staged
downloads, installer processes, and a record shared with other applications.
This directory models that core.

## Components

| Part (source) | State it keeps | Operations | Hard behaviour | What makes it correct |
| --- | --- | --- | --- | --- |
| History restore (`history-service.ts`, `history-restore-transaction.ts`) | seven JSON files, the `restore-transaction` journal, HEAD of a git repository | snapshot, label, restore, recover at startup | a crash between any two file-system effects; failures while rolling back | a restore is all or nothing; the answer is true; the old state stays in history, as far as git has been given it |
| Mutation queue (`state-mutation-queue.ts`) | one promise chain, the restore barrier and its generation | run, beginBarrier, runBarrier, endBarrier | overlapping restores, saves rejected while one is pending | nothing is written behind a pending restore; every barrier is lifted once no dialog is open |
| Scheduler (`scheduler.ts`, `schedule-service.ts`, `external-scheduled-settings-service.ts`) | two tasks with timer, next run, running mark, generation; the schedule file | start, save, reload, timers, resume/unlock, run now, startup check | timers that fire into a barrier, stale runs after a reload | one run at a time; stale runs do nothing; timers follow the loaded schedule |
| App operations (`operation-service.ts`, `app-operation-coordinator.ts`, `app-launch-service.ts`) | in-memory leases, active entries, an abort signal, installer process trees | install, cancel, uninstall, launch | cancellation against every phase, a 15-minute limit, unproven termination, children of a launcher | one actor per application; an accepted cancellation applies nothing; no lease is lost |
| Managed updates (`managed-update-service.ts`) | staged update records and files, check generations, leases | restore, check, download, cancel, install | persisting a stage fails after its files are gone; cancel between awaits | what is offered as ready is in memory, on record and on disk |
| Installed records (`installed-service.ts`, `installed-detection.ts`) | `installed.json` | list, discover, record, remove | a directory removed or half moved beside its record; restored records | a record names a directory that is whole, unless someone took it away |
| Store self-update (`update-service.ts`) | a status, flags for cancellation, pending files, a restart marker | check, download, cancel, restart | events of a cancelled attempt; a feed that never answers | an update is ready only if one is wanted; no check hangs |
| School mode (`school-mode-service.ts`) | a record shared by several applications, a lock file with release markers and recovery claims, the last verified snapshot | configure, rename, enable, change the credential, verify, observe, close | several processes, dead lock owners, delayed releases, deleted records | one writer at a time; compare-and-swap loses no update; a closed service is silent |
| Locks and support tickets (`lock-support-service.ts`) | two vault files, an unlocked set, tickets in memory | set, remove, unlock, lock again, tickets | unlock is not queued with set and remove; a pair of files written with rollback | records and credentials belong together; an unlock is by a credential that was stored meanwhile |
| Protected history (`history-access-service.ts`) | a password file, a numbered session | create, unlock, lock, restrict, read, restore | a failed attempt locks the session during a restore; two first credentials at once | one credential opens; what is answered is of the session that asked |
| Authenticator (`authenticator-service.ts`, `authenticator-vault.ts`) | a metadata file and a ciphertext per entry, pending pairings, one-shot authorisations | prepare, confirm, edit, group, remove, list, export, restrict, fence | restriction or a restore between any two awaits; undoing a publication | a fence leaves no secret behind; metadata and ciphertexts agree; no cancelled entry is published |
| Source builds (`source-job-service.ts`, `source-runtime.ts`) | one job at a time, a Windows Sandbox and its .wsb file, workspaces on disk, a peer record for the guest | start, cancel, retry, sweep, attest, execute, tear down | stops that cannot be proved, a cancellation before the guest exists, sweeps beside a start, frames in any order | a guest that may run has a handle; a success leaves nothing; no proof without its stages |
| Catalog (`catalog-service.ts`, `packages/catalog-contract`) | a 30-minute cache | load, refresh, verify | a cache fallback answered as fresh | pure data, mostly |
| Settings, workspace, appearance, vocabulary, external editor, dim sum | one JSON file each | load, save, import, export | the renderer's copies against the queue | layouts are accepted as they are; what is shown is stored |
| Renderer (`src/src/renderer`) | React state; a draft of the tab layout and one of the appearance | edits, delayed saves, undo | late answers, timers across a restore or reset | a quiet editor shows what is stored |

Everything that writes App Store files is submitted to the mutation queue by
`main.ts`; launches, cancellations, school mode, lock operations and reads are
not.  A history restore holds the queue's barrier and the authenticator fence
from its request to its end.

## Modules

| Module | Role |
| --- | --- |
| `AtomicRestore` | abstract: the whole state changes in one step or not at all |
| `HistoryRestore` | detailed: the journaled restore, one step per file-system effect |
| `HistoryRestoreRefinement` | the refinement mapping of the second onto the first |
| `AppOperations` | install, cancel, uninstall, update, launch over the per-application leases |
| `PortableReplace` | the directory of a portable application, its record, and the replacement of both |
| `ManagedUpdate` | staged updates: the list on disk, the files, the entries in memory and what is shown |
| `StoreUpdate` | the application's own update against late events and a silent feed |
| `MutationQueue` | the queue with its restore barrier, composed with the scheduler's two tasks |
| `ExclusiveLock` | abstract: a lock that is taken away only from a process that left or died |
| `CrossProcessLock` | detailed: the lock file, its release markers and recovery claims |
| `SchoolMode` | the shared record and the services of several processes; EXTENDS `ExclusiveLock` |
| `LockSupport` | the locks of tabs, groups and properties: a record file and a vault file |
| `HistoryAccess` | the credential and the session before the local history |
| `Authenticator` | saved entries: metadata, ciphertexts, pairings, exports and the two fences |
| `SourceJobs` | source builds: the job, its sandbox, its workspace, the sweep of old ones |
| `GuestProtocol` | one disposable guest, its host and the frames between them |
| `TabLayout` | the reducer of the tab workspace and what the main process makes of a layout |
| `WorkspaceDraft` | when that workspace is saved, against reset, import, load and restore |
| `AppearanceDraft` | the appearance editor with its draft and its answers |
| `MC*` | constants for TLC, and sums of parts |
| `AppOperationsProofs` | theorems about `AppOperations` and `StoreUpdate` |
| `AuthenticatorProofs`, `CrossProcessLockProofs`, `ManagedUpdateProofs`, `SchoolModeProofs` | theorems about the module of that name |
| `DocumentsProofs` | theorems about `HistoryRestore`, its refinement and `TabLayout` |
| `QueueAndJobsProofs` | theorems about `MutationQueue`, `WorkspaceDraft` and `SourceJobs` |
| `ServicesProofs` | theorems about `HistoryAccess`, `LockSupport`, `PortableReplace`, `GuestProtocol` and `AppearanceDraft` |

A *sum* (`MCDocuments`, `MCRestores`, `MCAppOperations`, `MCServices`) puts parts
that share no state into one specification: each behaviour chooses one of them, the
others stay in an initial state.  It is a disjoint union of state graphs, not their
product, and a formula about one part says in it what it says of the part alone.
In `MCRestores` the queue starts when the start-up recovery has ended, as in `main.ts`;
fairness is asked only of the part that runs.

Operators named after a defect (`CommitUnchecked`, `OvertakesAnyone`, ...) that
carry the comment "Mutant:" are not part of any specification.  Each is a
plausible bug in the definition that follows it, kept to show that some property
would notice; putting it in the place of that definition makes the named
property fail.

### HistoryRestore

`live` is the set of files below `userData`, `journal` the `restore-transaction`
directory with the phase, the previous bytes and the restored bytes of its
manifest, `head` the tip of the history repository and `staged` its index.  `pc`,
`caller`, `idx` and `txn` are the call stack of the main process: they are lost in a
`Crash`, the first four are not.  Each action is one durable effect of `restoreUnlocked`,
`prepareRestoreTransaction`, `applyRestoreTransaction`, `rollbackRestoreTransaction`
or `recoverRestoreTransaction`; each has a failing twin (`PreserveFails`,
`PrepareFails`, `ForwardFails`, `RollbackFails`) that takes the way of the
corresponding `catch`.  `ReplaceRemoves` and `ReinstateRemoves` are the Windows
fallback in which a refused `rename` is retried after the target was removed: a
crash in that gap leaves the file missing.  `RemovePartly` lets the recursive
removal of the journal stop after the manifest has gone.  `Fallback` is what a
snapshot stores for a file that does not exist, so the tree in git is not quite
the state on disk.  A snapshot is two steps, `StageLive` and the commit of the index:
`snapshotUnlocked` takes a file that it cannot read for an empty one and does not look
at the exit code of `git add`, so that either may leave the index without the live
state and the commit succeeds all the same.  `txn.missed` remembers, for the properties,
which of the two snapshots of a restore that has happened to; labels and the snapshots
of other operations commit the same index.

The vault is not one of the files: `authenticator-vault.ts:112` fixes
`atomicNoFollow` to false, and without it the restore leaves the vault out.

`AtomicRestore` has a state and a pending request.  Under the mapping of
`HistoryRestoreRefinement` the abstract state is *what recovery would make of the
files*, so a restore takes effect at the git commit that carries its subject and
not while the files are replaced one after the other.

### AppOperations

`lease` and `retained` are the coordinator's map, `active` is
`OperationService.activeOperations`, `job` is the local state of the one queued
operation, `aborted` its `AbortSignal`, and `proc`, `orphans` and `strays` are the
installer processes: the launcher of the job, the trees that the store gave up on, and
what it does not know of.  `run()` waits for the exit of the launcher only, and "Windows
Installer or a child service could continue" (`operation-service.ts:417`): in
`LauncherGone` the launcher may leave such processes behind, and `Restart` leaves
all of them.  The store takes them for ended, gives the lease back and may start
another operation beside them; `OneActorPerApp` is about what the store does count.  An action is the code between two
awaits; `StepFails` is the rejection of any await.  Between the request of a
process and its `spawn` event (`proc = "spawning"`) the phase is still
`launching`, which accepts a cancellation: the signal then terminates a process
that has not been confirmed.  The 15-minute limit cannot expire before that event.
`Restart` loses everything in memory while processes live on.
The swap of a portable directory is one step here; `PortableReplace` has its effects.

### PortableReplace

One portable application: `directory` holds a version whole, is `Damaged` or
`Gone`; `backups` is what earlier replacements left beside it; `record` is its line in
`installed-apps.v1.json` and `snapshots` the records a history restore may bring back.
Each action is one effect on the disk of `replacePortableDirectory` (move the old one
away, move the new one in, write the record, drop the backup), of its rollback, of
`uninstall` or of `discover`; any effect may fail and the process may end after any.
A `stat` that fails is taken for "not there", as the code does.  `unfounded` remembers
that the user, an uninstallation or a restored history took away what the record
names: the invariant `ReplacementIsWhole` cannot hold the replacement answerable for
that.  Extraction and the wording of answers are left out.

### ManagedUpdate

`stage`, `candidate` and `status` are the maps `stages`, `candidates` and `states` of
`ManagedUpdateService`; `saved` is `managed-updates.v1.json` and `disk` the file in
the staging directory of each operation id.  `main.ts` submits `restore`, `checkAll`,
checks, downloads and installations to the mutation queue, so there is one `task`,
and the generations that `checkApp` compares never differ; only `cancel` arrives in
between.  A release is a number that grows with its version.  Each `removeStage`
is two steps, the removal of entry and files and the saving of the list, because
the process may end in between and the second may reject: `PersistFails` then takes
the way of the `catch` at hand.  `pending` is what the start-up restore has read and
not looked at yet; each stage that it drops rewrites the list without those.
`unsaved` remembers that a save failed since the process began.  The lease and an
installer whose outcome is unknown are `AppOperations`'; blocked, offline and idle
are one status; the cap of 32 entries and the scratch directories of a check are
left out.

### StoreUpdate

`state`, `cancelled` and `armed` are the fields of `UpdateService`; `checking` holds
what each overlapping call of `check` has got to and `current` the one that owns the
abort controller.  `downloads` counts the attempts of Electron's `autoUpdater` that
have not ended and `takenBack` those of them that the user has cancelled: an attempt
cannot be stopped, so `cancelDownload` is to ignore it, and its event may arrive when a
further attempt has begun, which has cleared the one flag for both.  `lastWord` is what
the user said last, independently of that flag.  `RestartToUpdate` writes the
marker and then quits; `restorePending` reads it at the next start.  A marker older
than a day is a free choice.  `ReadyIsWanted` says that "ready" is shown only if the
user's last word was to download, not that it is that download which came;
`CheckingEnds` that the view leaves "checking".

### MutationQueue

`queue` is the promise chain; its head is being run and `step` says how far.
`barrier` and `token` are the two fields of the queue, `fence` is the count of
leases that the authenticator holds against a restore.  `timer`, `next`, `running`
and `reloads` are the scheduler's task states and its generation, `startup` is the
check due five seconds after the launch.  A "dialog" is the one operation that waits
for the user while it is at the head (`external-editor:add-validated`); it ends
with `AnswerDialog`, which nothing forces.  Time is reduced to whether `nextRunAt`
has passed.  The scheduled tasks and the renderer's saves meet in `Submit`, which
drops what arrives while the barrier is up.  Abstractions: `reloadFromDisk` sets
its configuration before its last await and is here one step with the arming of
the timers (nothing else runs in between); a timer that fires early or was clamped
to the maximum delay re-arms itself and changes nothing; the first state is the one
after `Scheduler.start`; `DropRun` keeps the test of `task.running` that the code
makes, although runs are queued and it is never true.

### CrossProcessLock and SchoolMode

`CrossProcessLock` is `acquireLock`, `releaseInProgress`,
`performReleaseOwnedLock` and `recoverDeadLock`, one step per file-system effect,
for processes that may end anywhere.  `lock` is the owner named in the lock file,
`markers` the release markers, `claims[p]` the chain of recovery claims on a lock
of `p`.  A process stands for its token: it never has two on disk, and one that is
started again is another element of `Procs`.  A process identity that the operating
system reuses is one that is still alive here.  Reads may fail wherever the code
has an answer to it (`GiveUp`, `Retry`, the second disjuncts of `VerifyOwner` and
`ListMarkers`).

`SchoolMode` then uses the abstract lock instead of the file: it EXTENDS
`ExclusiveLock`, and `LockIsExclusive` with the theorem `LockImplementsExclusive`
is the reason that this is enough.  `record` is the shared file, `known[p]` the
snapshot that process `p` shows, `req[p]` and `target[p]` the mutation in progress.
A secret stands for a credential and its verifier.  A request carries the identity
and revision that its service knew when it was asked.  A schema-1 record has no
identity; the code draws a fresh one at every read, so that no request can name it
and the first mutation after it is the migration.  The user may delete the file at
any time, which is the documented reset.  Names, kinds of credentials, rate limits,
sync status and notifications are left out.

### LockSupport

`lockFile` and `vaultFile` are the two files, `locks` the loaded records, `job` the one
queued request (set, remove, lock again) and `unlocking` the calls of `unlock`, which
are *not* queued.  A write of either file may fail, and so may the write that is to
restore the first one; `parted` remembers the keys which such a double fault, or a
crash between the two writes, has parted, and `LocksAreWhole` is about all others.
`timely`, `relocked` and `entries` record what happened since an unlock began, so that
`UnlockIsOfItsTime` can compare.  A credential stands for its verifier.  Support
tickets, one-time-code pairing and the lengths of an unlock are left out.

### HistoryAccess

`accessFile` is the encrypted credential, `verifier`, `open` and `failures` the fields of
the service, `calls` where each handler of `main.ts` is.  The service numbers its
sessions and a handler compares numbers after its await; only the outcome of that
comparison matters, so `fresh` is the set of calls whose number is still current.
`held` is the independent memory of the same thing (a session was open without a break
since the call began), which `AnswersAreOfTheSession` compares with it.

### Authenticator

An entry is a ciphertext file (`cipher` if it is whole, `damaged` if it was cut short)
and a line of the metadata file (`doc`).  A removal that fails writes the ciphertext back
over itself, also when it is the unlinking that has failed; `writeFile` truncates first,
so its own failure, or the end of the process, may leave a part (`CutShort`).
`op` is the operation that holds `withMetadataSerial` and `waiting` those behind it;
`list`, previews and the undoing of a pairing run beside it.  `restricted`, `leases`
and `gen` are the two fences, School mode and history restores, either of which may
come between any two awaits.  `reg` is where the pairing of each entry is, `token` the
one-shot export authorisation, `file` what an export has left on disk and `exported`
its answer; each `RequestExport` is to a name of its own, so that both begin anew.
`doubt` marks the entries that the vault itself reported uncertain, or
that a crash cut short.  Time limits are a discard at any moment; the number of
confirmation attempts is free.  Codes, URIs, QR images, the metadata export, the
migration of old ciphertexts and the history participant (the production vault never
opts in) are left out.

### SourceJobs

A job is the number of the call of `start` that begins it.  Three threads serve it:
`execute` (`phase`), the transport's `attest`, raced against the deadline (`call`), and
the teardown that `execute` and `cancel` share (`ending`); the transport ends a guest by
itself when its attest fails.  `dir` is the workspace of each job, `sweep` and `victim`
the recovery of left-over ones, which may run beside the creation of a new one.  `proc`
and `config` are the sandbox's process tree and its .wsb file and `guests` the handles
by which they can be stopped.  Misfortunes are an unproven stop, a failing file effect
and a crash of the store.  `SuccessIsClean`, `HandleIsKept` and `OrphansAreSwept` relate
what is on disk and running to what is remembered and answered.  Acquisition of
sources, plans, receipts and the terminal are data; the limit on retries is kept along a
chain, the cap of 32 remembered jobs is not.

### GuestProtocol

`peer` is the peer's record of one job, `host` where the transport is, `guest` the
bootstrap inside.  Whatever runs inside holds the guest's token and may send any frame
at any time; a refused frame changes nothing and is no step.  `GuestReads` is what the
bootstrap that the store ships makes of a plan.  `ProofsAreHonest`: a lifecycle is
proved only after all its stages came in their order and the host itself has seen the
tree stopped and the guest's file removed, and a build only with every output that
the recipe reviewed as final, whatever else arrived in between; and a guest that may
run keeps the handle that ends it, once it has one: a launch whose signal is already
raised (`LaunchCancelled`) spawns the sandbox, awaits its own `stop` without a look at
the outcome, and registers the guest only then (`Halt`).

### TabLayout

`layout` is the renderer's copy: the active tab, the order of the groups, and for each
tab whether it is open and pinned, its group, its former group and its order.  Each
action is one dispatch that the rail, a menu, the command palette or a notice can make.
`LinksAccepted` (what the strict schema asks of the links) and `Normalize` (what the
service makes of a stored layout) are the main process's side, and `LayoutIsWhole` says
that it takes the renderer's copy as it is.  `Kept` is a filter of an array, `Firsts`
the places where a value is for the first time: a group that an undo has put there
twice shows its tabs twice, and `Section` is where it shows them first.  `AssignAll` is
what an undo does, tab after tab.  Orders are doubled while a tab is dropped between two
others.  A replaced layout (reset, import, restore) is the default or one with a
grouped tab; undo notices are bounded.

### WorkspaceDraft

Here a layout is a value.  `workspace`, `lastGood`, `autosave` and `requestId` are the
state of `useWorkspace`; `calls` is what waits in main's queue, `reading` the loads,
which are not queued, and `replies` what the renderer has yet to take, in the order of
the answers.  A restore bars the queue (`BarQueue`), replaces the file and answers;
its `reload` happens when that answer is taken.  `crossed` remembers that a save was
sent beside an unanswered load, reset, import or restore, or beside a save that was
refused: after each of these the code does let the view and the file differ, and
`QuietShowsStored` is about the rest.  A window that is closed and opened, and the
export, are left out.

### AppearanceDraft

`document`, `draft`, `delayed`, `undoable` and `latest` are the state of `useAppearance`;
`requests` and `answers` are under way.  A handler sees the draft of the render it
belongs to, so that a field that calls `setToken` and `commit` at once commits the
draft before: `loose` remembers such a draft, and `drifted` that a call was rejected or
that an import or an undo came across a save, after which nothing reads the file again.
`ShownIsStored` holds otherwise; finding 3 is about `loose`.

## Checks

Each passing run explores its whole state space.

| Run | Instance | Shows |
| --- | --- | --- |
| `history_crash` (`MCDocuments`) | history: 2 files, 2 contents, 2 revisions; 2 crashes, 2 restores, 1 save, 1 fault. Layout: 3 tabs, 1 group identifier, 1 notice. Draft: 2 layouts, 2 edits, 1 reset or import, 1 fault, 1 restore | every restore is all or nothing (refinement), the services never run on an unsettled journal, "reinstated" is true; every layout the renderer makes is one that main accepts as it is; a quiet renderer shows what is stored |
| `history_faults` (`MCRestores`) | history as before, plus 2 faults and 1 abandoned rollback; queue: 2 tasks, 2 requests | a settled journal is whole, "ok" is durable, start-up recovery ends; nothing is written behind a restore, every barrier is lifted while dialogs get answered, timed runs are of the current schedule |
| `history_prior_state` | history as in `history_faults` | finding 1 |
| `operations` (`MCAppOperations`) | 1 portable and 1 installer application, 4 requests, 1 restart; own update: 2 overlapping checks, 3 releases, 2 downloads, 1 fault | one actor per application, accepted cancellations apply nothing, no lease is lost, with what outlives a launcher; a ready update is wanted, a check ends |
| `school_lock` | 4 processes, claim chains of up to 2 | the lock file implements the abstract lock |
| `school_record` | 2 processes, 2 credentials, 3 revisions, 2 identities | compare-and-swap loses no update, credentials are verified against the record that is replaced, a revision names one content |
| `source_jobs` | 2 jobs, each misfortune once | a guest that may run has a handle, a success is clean, orphans are swept, jobs end, a guest is not left when its store goes on |
| `authenticator` | 2 entries, 1 group, 2 first documents, 1 saved and 1 pending at most; each kind of request once, 2 faults | a fence leaves no secret behind, the vault is whole but for failed rewritings, an export says what became of its file, a cancelled entry does not come back, requests end |
| `services` (`MCServices`) | locks: 2 keys and 2 credentials (symmetric), 1 unlock, 1 fault. History access: 2 calls, 2 credentials, 2 failures, 1 fault. Portable: 2 versions, 3 faults. Managed: 2 applications (symmetric), 3 releases, 2 downloads, 3 requests, 2 misfortunes of any kind. Guest: 2 files, 1 of them final, 2 faults. Appearance: 2 elements, 1 look, 3 calls, 1 fault | each part's own invariants and action properties, one part in each behaviour |
| `locks_fresh`, `appearance_saved`, `plans_taken` | as `services` | findings 2, 3 and 4 |

Why these bounds are enough to be interesting.  Two files let a crash fall
between the replacement of one and that of the other, and two restores let the
second one meet the journal that the first one left; one fault is enough for a snapshot
that misses a file, and two for one that is then undone.  Four requests on two
applications allow an install, its cancellation, a launch beside it and one more
operation after it; one restart makes a stray process.  Three requests and three
releases are a download, a newer release that supersedes it, and one more operation,
with the other application's stage beside it; two misfortunes are any two of an end of
the process, a failing save, a spoilt file and an application changed from outside.  Two requests in the queue are two
overlapping restores, or a restore and a save, besides the timers and the start-up
check, which are not counted.  Four processes are an owner that dies, a recoverer
that dies, its successor and a newcomer that takes the lock meanwhile, which is the
race that the chain of claims is for.  Two identities let a record be deleted and
created again under a request that names the old one; revision 3 is the last one, so
that the exhaustion of revisions is reached.  Two overlapping checks of the store's
update let the older answer come last, and two attempts let the event of a cancelled
one find the next.  One lock record of at most one reaches the limit; an unlock
beside one queued job is the race.  Three faults around a portable replacement are a
failing step, a failing rollback and an end of the process.  Two jobs are the one that
left a workspace and the one that sweeps.  Two authenticator faults are a failing
publication or unlinking and the failure of its undoing.  Three tabs have a first, a middle and a
last; one identifier is enough for a group that is deleted, made again and brought
back.  Two edits are one before and one after whatever replaces the layout.

Every bound is a constant that limits the environment (`Limit`, `MaxRequests`,
`MaxRestarts`, `MaxEpochs`, `MaxDemands`, `MaxJobs`, `MaxRelease`, `MaxDownloads`,
`MaxEdits`, `MaxReplaced`, `MaxAsked`, those ending in `Faults`) or stands for one of
the code (`MaxDepth` for `MAX_RECOVERY_DEPTH`, `MaxRevision` for
`Number.MAX_SAFE_INTEGER`, `MaxLocks`, `MaxEntries`, `MaxPending`, `MaxFailures`,
`MaxGroups`, `MaxNotices`).  Deadlock is not checked because all of them may be used
up and every process may end: a state without successors is then a legal end.  That
nothing gets stuck before is what the liveness properties say.

### Fairness

- `HistoryRestore`: weak fairness of `Restore` and `Recovery`.  The main process
  goes on while it is alive, and the user (or the next boot) starts it again;
  crashes and failures are bounded.
- `AppOperations`: weak fairness of the job and of each launch.  Every await of an
  operation ends: downloads have timeouts, a launcher that does not exit meets the
  15-minute limit, a `taskkill` is bounded, and a launch waits for two seconds.
- `MutationQueue`: weak fairness of the operation at the head of the queue, unless it is
  the file dialog, and of the start-up timer, which is a `setTimeout` (`MCRestores`,
  once the recovery has ended).  The other operations wait for installers (15 minutes),
  downloads and feeds (timeouts), the registry (30 s), the file system and `git`; that
  a local `git` command ends is assumed, for it is given no time limit.  The dialog
  stays as long as the user lets it: `BarrierLifts` has "no dialog is open for ever"
  as its premise.  The repeating timers need no fairness.
- `StoreUpdate`: weak fairness of the 15-second timer of a check and of the end of a
  request that was aborted.  The feed need not answer, nor an attempt end.
- `Authenticator`: weak fairness of the operation that holds the metadata and of the
  undoing of a pairing: both wait for the file system only.
- `SourceJobs`: weak fairness of the work of each job: its deadline fires, a guest
  that is stopped ends or the stop is reported unproven, file effects end.  The
  guest itself need neither greet nor exit.

The other modules have no liveness property.  A process that wants the school-mode
lock may starve (the code gives up after a deadline and says so); the rest wait only
for the file system or for the user.

### Findings

1. `history_prior_state`.  A rollback that fails inside a running process leaves its
   journal on disk and the application goes on.  The next restore finds that old
   journal, "recovers" it, overwrites what was saved in between, and answers that
   the prior state was reinstated.
2. `locks_fresh`.  `ensureLocksLoaded` (`lock-support-service.ts:345`) takes a missing
   record file for an unreadable one.  While it does, nothing may be changed, so the
   file is never made: on a fresh profile no lock can ever be set, although
   `tab-and-group-locks-and-support-tickets.md:13` offers it.
3. `appearance_saved`.  A field of `AppearancePanel.tsx` (374 to 417) calls `setToken`
   and `commit` in one handler.  `commit` (`use-appearance.ts:96`) clears the timer and
   saves the draft of the render before, so the last change is shown and not stored.
4. `plans_taken`.  The bootstrap (`source-runtime.ts:182`) compares a `challengeNonce`
   and a policy that the published plans do not carry, and refuses every plan.

Known disagreements that no run is spent on.  Each has a formula, marked "Not true",
in its module, but for those of the last three paragraphs:

- `NoDuplicatedWork` (`scheduler.ts:386`): `update-schedule.md:31` says that a run of a
  running task returns its state; runs are serialised before that test is made.
- `StartupCheckRuns` (`main.ts:693`; `update-schedule.md:13`): the check after a launch
  is lost when a restore is pending five seconds after the start.
- `ScheduledMeansScheduled` (`scheduler.ts:332`): a timer that fires during a restore
  that then fails is never armed again, while the view says when the next run is.
- `ReadyIsAlwaysBacked` (`managed-update-service.ts:517`; `per-app-update-checker.md:15`):
  a download that cannot save its list removes the files and keeps the entry, which
  the next check shows as ready.  `ReadyIsBacked` is the part that holds.
- `ReadyIsExact` (`update-service.ts:106`; `app-store-self-updater.md:15`): the version
  shown as ready is the one checked, not the one the updater staged.
- `CancelEndsCancelled` (`source-runtime.ts:1176` and `1233`; `source-runtime.test.ts:513`):
  a job that was cancelled may end as failed.
- `EditsKeepGroups` (`authenticator-service.ts:405`; `authenticator.md:17`),
  `DiscardedLeavesNothing` (`authenticator-vault.ts:284`; `authenticator.md:15`) and
  `ListIsFenced` (`authenticator-service.ts:1061`; `authenticator.md:33`): an edit may
  write groups that are not loaded; a ciphertext may stay behind a pairing that was
  discarded; a list begun before a fence is answered behind it.
- `RestrictedIsShut` (`history-versioning.md:23`): a creation that was under way opens
  the session after School mode has shut it.  `RestoreHeedsLocks` (`main.ts:635`): a
  restore looks at the appearance locks before it waits, not when it runs.
- `ReplacementIsTransactional` (`per-app-update-checker.md:15`): a process that ends
  between the two renames leaves no application in its place, and nothing brings the
  backup back.
- `NoneBesideAStray` (`operation-service.ts:165`; `app-operation-coordinator.ts:29`, "not safe
  to race"): the exit of a launcher is taken for the end of the installer; the lease is
  given back while a child may go on, as `verified-installer-operations.md:15` knows it may.
- `TakenBackIsLost` (`update-service.ts:107`, `168`): a download is cancelled, the next one
  clears the flag and fails, a check offers the version again, and then the first attempt
  ends and the update is shown as ready, though nothing was being downloaded.
- `DamageIsAnswered` (`authenticator-vault.ts:311`; `authenticator.md:33`, "an unverified
  rollback reports an uncertain vault state"): when the unlinking of a ciphertext and then
  its rewriting fail, `committed` is false, and the service counts a damaged entry among
  the skipped ones (`authenticator-service.ts:850`).
- `HandleIsRegistered` (`source-runtime.ts:1155`, `1169`): a launch that was cancelled runs
  a sandbox that `guests` does not know of until its own `stop` has returned.
- `DraftsAreFenced` (`history-versioning.md:19`): main lifts its barrier before the
  renderer has heard of the restore, and a draft of 300 ms before may be saved over it.
- A snapshot may miss a file (`history-service.ts:399`, `413`): "If Git cannot preserve the
  current state or commit the restore, the app reports the failure"
  (`history-versioning.md:31`), but a failing read or `git add` goes unnoticed, and "ok" is
  answered over a commit without that file.  `CurrentIsPreserved` and `SettledIsWhole` say
  so by their exception, `txn.missed`.
- The file dialog of `external-editor:add-validated` (`main.ts:670`,
  `external-editor-service.ts:175`) holds the queue; behind it a restore keeps its barrier
  up, and every save is refused, for as long as the user leaves it open.
- By reading only: "Pinned tabs are protected from bulk close unless the user
  explicitly includes them" (`tab-navigation.md`), but the reducer never closes a
  pinned one while `TabBulkClosePanel` announces it; the undo of a deleted group does not
  bring back closed members; edits made while a schedule is being saved are lost
  (`ScheduleEditor.tsx:277`); `resetAll` of the appearance does not clear the timer, so
  that an override may come back; the guest fetches its archive without the header that
  the peer asks for; `setLock` has no limit although the file's schema has one; tickets
  created while the file is being read are lost (`lock-support-service.ts:351`).

## Proofs

All theorems hold for every value of the constants, under the assumptions that
the modules name (`NAssumption`, `ValuesAssumption`, `PortableAssumption`,
`ProcsAssumption`, `KeysAssumption`, ...).  These only say that the distinguished
values are distinct, that bounds are natural numbers, and that the keys, the entries
of the authenticator and the scheduler's tasks are finitely many; `MaxAsked` is
positive because the appearance editor's first load is a call; and there are at most
64 tabs, since the schema has the orders 0 to 63 (the code has seven).  Every safety
property that a passing run checks is stated by a theorem.

- **HistoryRestore.**  `JournalInv` is inductive.  The properties alone are not:
  that a journal saying "rolled-back" tells the truth needs that the loop has
  finished with every file below `idx` (`ProgressInv`), which needs that the phase on
  disk is the one that the program counter published (`PhaseInv`), and that what each
  snapshot staged reached HEAD, the first one before the first replacement (`HeadInv`,
  which says nothing of a snapshot that missed a file).  Theorems
  `JournalCorrect`, `OkStaysDone`, `CurrentStaysInHistory`, `SettledFilesAreWhole`.
- **Refinement.**  `RestoreIsAtomic`, `ServesOnlySettled` and `ReinstatedTheTruth`
  assume `NoAbandonedRollback`: no rollback fails inside a process that goes on.
  Finding 1 shows that the assumption is needed.  Crashes, failures on the way
  forward and failures of the start-up recovery are not limited.  `SettledInv` adds
  to `JournalInv` that outside a restore the journal directs nobody.
- **AppOperations.**  `OperationsInv` says who holds a lease and who acts on it
  (`LeaseInv`), to whom an active entry belongs (`ActiveInv`), where an install can
  be while it still accepts a cancellation (`WindowInv`), and what an accepted one
  has stopped (`AbortInv`).  The last two lean on each other: the cancellation is
  safe because the window closes in the same stretch in which the installer starts.
  None of them speaks of the `strays`, which no code knows of.
  Theorems `OperationsCorrect`, `NoTwoActors`, `CancellationHolds`, `RetentionHolds`.
- **CrossProcessLock.**  `LockInv`: whoever is inside owns the lock file; a recovery
  has passed only dead claimants; so at most one live process, the last claimant,
  may still break a dead owner's lock, and it finds that owner's lock there.
  Theorems `LockCorrect` and `LockImplementsExclusive`.
- **SchoolMode.**  `RecordInv`: the writer is alone and what it is about to write is
  later than whatever any process has seen of that identity, although the file may
  vanish in between.  Theorems `RecordCorrect`, `NoUpdateIsLost`,
  `LatestCredentialIsProved`, `ClosedServicesAreQuiet`, `RevisionsNameContents`,
  `RevisionsGrow`.
- **LockSupport.**  `LocksInv`: the step of the queued job determines how records,
  entries and both files may differ (`JobInv`, `WholeInv`), and each unlock under way
  holds an entry that the vault had since it began (`UnlockInv`).  With `ProvenInv` (a
  job past its reading of the vault has given the credential that is there) no lock is
  changed or taken away by anyone else, whatever fails and is repaired on the way.
  Theorems `LocksStayWhole`, `UnlocksAreOfTheirTime`, `LocksNeedTheirCredential`.
- **HistoryAccess.**  `AccessInv` adds to `OneCredential` that a call whose session
  number is current belongs to a session that has been open, unrestricted, ever
  since.  Theorems `OneCredentialOpens` and `SessionsAnswer`.
- **StoreUpdate.**  `UpdateInv` is `ReadyIsWanted` with `WordInv`: the flag is up exactly
  when the user's last word was to cancel, and no attempt runs before any word.  Theorem
  `ReadyUpdateIsWanted`.
- **PortableReplace.**  `ReplaceInv` is `ReplacementIsWhole` with `WorkInv`: at each step
  of a replacement the old version is in its place, in the backup, or no longer
  needed.  Theorem `ReplacementStaysWhole`.
- **MutationQueue.**  `QueueInv`: the pending restores are the end of the queue
  (`ShapeInv`: from one place on there is nothing else, and the fence counts them),
  each has a token of its own that grows along the queue, the last one the token of
  the barrier (`TokensInv`, so only its end lifts the barrier), and what the head is
  doing tells what it is (`StepInv`).  `NothingBehindRestore` and `RunsAreCurrent` need
  all three.  Theorems `QueueInvariant`, `NothingSlipsBehind`, `RunsStayCurrent`.
- **WorkspaceDraft.**  `WorkspaceInv` follows each value from the timer to the file and
  back: the timer holds what is shown (`TimerInv`); as long as nothing has `crossed`,
  no save is under way beside an unanswered replacement (`OrderInv`), the last reply
  that the renderer will take has what is in the file (`LastTaken`), and what is shown
  is in the last save under way or has been taken (`ShownInv`).  A refused save that
  another one follows is `Doomed` to cross.  Theorem `LayoutShownIsStored`.
- **SourceJobs.**  `JobsInv`: what the attest, the deadline and the enders of a job may
  still do (`CallOk`), that the .wsb file outlives the sandbox (`HandleOk`), what
  "succeeded" has behind it at each step of the end (`SuccessOk`), and that a workspace
  left behind is on the list of every recovery under way (`SweepInv`).  Theorems
  `JobsInvariant`, `HandlesAreKept`, `SuccessStaysClean`, `OrphansStaySwept`.
- **GuestProtocol.**  `GuestInv`: the receipts that the peer has taken are a prefix of
  the six stages, and its promises are resolved only with all of them or with every
  final output (`PeerInv`); where the host is tells whether the guest may run and
  which handles remain; a cancelled launch that is being halted has only the .wsb file
  (`HostInv`).  Theorem `ProofsStayHonest`.
- **ManagedUpdate.**  `UpdateInv`: what the one operation may count on at each of its
  steps (`JobInv`), that no two applications share a staging directory and the one
  being filled belongs to nobody (`IdsInv`), what memory has (`EntryInv`), and that
  memory and record agree as long as every save has succeeded, but for the
  application whose operation is about to save (`RecordInv`).  Theorems
  `UpdateInvariant`, `ReadyStaysBacked`, `ReadyIsOnRecord`, `CancelIsClean`.
- **Authenticator.**  `AuthInv`: an entry is listed or its pairing is under way, and is
  confirmed by at most one request, queued or running (`PairingInv`); what the holder
  of the serial has read is what the metadata say until it publishes (`VaultInv`); a
  ciphertext that was cut short has been reported or has taken two faults, an unlinking
  that fails before its rewriting being the first (`DamageInv`); one
  export at a time, and no file before it has been saved (`ExportInv`).  The attempt
  corrected the model: it had let one export happen in a behaviour, where the code
  allows any number, and `ExportIsTruthful` would then have spoken of an old file.
  Theorems `AuthInvariant`, `FencesClear`, `VaultStaysWhole`, `ExportsAreTruthful`,
  `GoneForGood`.
- **AppearanceDraft.**  `AppearanceInv`: the last answer has the stored document
  (`AnswersInv`); unless the editor has drifted, the last save or load under way is the
  one that counts (`LatestRuns`) and the draft is what the timer holds or what the
  calls under way will leave (`DraftInv`).  Theorem `EditorShowsStored`.
- **TabLayout.**  A dispatch edits a `Sound` layout (its active tab is open and the
  schema takes its links and orders) into a `Rough` one, with any order and any links,
  and `Renormalize` makes any rough one sound again: a place in a region counts other
  tabs, hence is at most 63.  That the next launch shows a sound layout as it is
  (`ShownAsItIs`) rests on the rail being a linear order: whether a tab is ahead of
  another is the same before and after the repair, and a tab's place is how many are
  ahead of it, so that numbering the open tabs by their places moves none.  What
  `WorkspaceService` makes of a layout has each group once and is a fixed point.  An undo
  is followed tab by tab.  Where this takes induction, over the tabs or over the
  positions of a list, the proof is by a least counterexample (`LeastUpTo`).  Theorems
  `LayoutStaysWhole`, `SavedIsLoadedAsItIs` (a layout that was normalized can be saved
  and does not drift from launch to launch) and `UndoBringsBack`.

Only model-checked: the liveness properties (`RecoveryTerminates`, `LeaseSettles`,
`CheckingEnds`, `BarrierLifts`, `JobsEnd`, `NoGuestIsLeft`, `RequestsEnd`), which are
out of the prover's reach as is ENABLED.

## Not modelled, and why

- *Data.*  Archive extraction and import, one-time codes, URIs and QR images,
  vocabulary, installer adapters, catalog signatures and schemas, parsing of
  registry output: pure functions of their input, with unit tests beside them.
- *Processes outside.*  Installers, `git`, `taskkill`, the updater library and the
  registry appear as the answers that the code distinguishes.
- *Renderer pages, contracts and packages.*  Pages, types, the argument parsers of the
  preload script and generated documentation have no state that two actors share.
  They are most of the repository's lines, so that the models stand for a small part
  of the text and for most of its concurrent state.  What the renderer may ask for is
  an input of the models.
- *Parts of modelled components.*  Support tickets and one-time-code locks; the
  home-assistant vault; installed records that belong to the registry; back-off and
  quiet hours of the scheduler; the external scheduled settings; the authenticator's
  metadata export and migration; the cap on remembered source jobs; the start-up
  sequence before `Scheduler.start`; renderer hooks other than the workspace's and the
  appearance's.
- *Left open by the models.*  A request to the peer is bounded by its default of 15 s
  although a build may take 30 minutes (`main.ts:259`), and a peer made without an
  address to advertise connects to nothing: `SourceJobs` has `Connected` for the second
  and `source_jobs` checks the case in which there is one.  A rename that is tried
  again until it is given up is one effect.
- *Known and contained.*  After a restart leases are gone while an installer may
  still run (`operation-service.ts:131`, among the `strays`); a start of the scheduler that
  rejects (`main.ts:691`); an owner that cannot be read at a release and eight dead
  claimants over one owner (`school-mode-service.ts:839`, `930`), after which the lock is
  not taken again; an application that updates itself beside a staged update
  (`managed-update-service.ts:553`).
- *Within the models*: time is reduced to "due or not"; one writer of App Store files
  is assumed, as `main.ts` has it; what a text says is left out.

## Plan

1. `PortableReplace` and the pair of lock files as refinements of an atomic change
   that may be reported undone.
2. The start-up sequence as a composition of `HistoryRestore`, `MutationQueue` and
   `ManagedUpdate`: what a rejection in the middle of it skips.
3. Registry-owned installed records and support tickets; the editors of schedules and
   settings in the renderer, as `WorkspaceDraft` does for the layout.
