--------------------------- MODULE AppOperations ---------------------------
(***************************************************************************)
(* Privileged operations on catalog applications: OperationService's       *)
(* install, cancelInstall and uninstall, ManagedUpdateService's install    *)
(* and AppLaunchService's launch, over the per-application leases of       *)
(* AppOperationCoordinator.                                                *)
(*                                                                         *)
(* The state-mutation queue runs one install, uninstall or update at a     *)
(* time (the job); launches and cancellations bypass it.  An action is one *)
(* stretch of the code between two awaits.  The installer processes are    *)
(* part of the state because they can outlive the operation, the launcher  *)
(* that run() waits for, and even the store's own process.                 *)
(***************************************************************************)
EXTENDS Naturals

CONSTANTS Apps,
          Portable,    \* applications whose adapter family is portable-zip
          NoApp,
          MaxRequests, \* bound on the number of requests and restarts
          MaxRestarts

ASSUME PortableAssumption == Portable \subseteq Apps
ASSUME NoAppAssumption == NoApp \notin Apps
ASSUME BoundsAssumption == MaxRequests \in Nat /\ MaxRestarts \in Nat

VARIABLES
    lease,      \* the coordinator's leases: "free" or the kind of the holder
    retained,   \* leases kept because a process outcome is unknown
    active,     \* OperationService.activeOperations: a phase, or "none"
    job,        \* the queued operation being run
    aborted,    \* the AbortSignal of the job
    stopping,   \* run() is terminating the process tree of the job
    proc,       \* the launcher of the installer or uninstaller of the job
    orphans,    \* apps with a process tree whose termination is not proven
    strays,     \* apps with processes that the store does not know of: they
                \* outlived their launcher, or an earlier run of the store
    launch,     \* how far a launch of each app is
    installed,  \* apps with an installed record
    outcome,    \* how the last job of each app ended
    requests, restarts

vars == <<lease, retained, active, job, aborted, stopping, proc, orphans,
          strays, launch, installed, outcome, requests, restarts>>
-----------------------------------------------------------------------------
JobKinds == {"install", "uninstall", "update"}
Cancellable == {"queued", "resolving", "downloading", "extracting", "launching"}
Phases == Cancellable \cup {"committing", "installer-running", "cancelling"}

(* "running" is also where an uninstaller or an update's installer runs;    *)
(* "cleanup" is between the result and the release of the lease, and        *)
(* "reporting" between that and the end of the queued operation.            *)
Steps == {"idle", "lookup", "queued", "resolving", "downloading",
          "extracting", "replacing", "snapshot", "verifying", "deleting",
          "running", "recording", "clearing", "cleanup", "reporting"}

NoJob == [kind |-> "none", app |-> NoApp, step |-> "idle", result |-> "pending"]
ForAll(value) == [a \in Apps |-> value]

ForgetAll == /\ lease' = ForAll("free")
             /\ retained' = ForAll(FALSE)
             /\ active' = ForAll("none")
             /\ job' = NoJob
             /\ aborted' = FALSE
             /\ stopping' = FALSE
             /\ launch' = ForAll("none")
             /\ outcome' = ForAll("none")

Init == /\ lease = ForAll("free")
        /\ retained = ForAll(FALSE)
        /\ active = ForAll("none")
        /\ job = NoJob
        /\ aborted = FALSE
        /\ stopping = FALSE
        /\ proc = "none"
        /\ orphans = {}
        /\ strays = {}
        /\ launch = ForAll("none")
        /\ installed \in SUBSET Apps
        /\ outcome = ForAll("none")
        /\ requests = 0
        /\ restarts = 0
-----------------------------------------------------------------------------
At(step) == job.step = step
Goto(step) == job' = [job EXCEPT !.step = step]
SetPhase(phase) == active' = [active EXCEPT ![job.app] = phase]

(* The result is known; an install still removes its staging directory.     *)
Conclude(result) == job' = [job EXCEPT !.step = "cleanup", !.result = result]

(* What a step of the job leaves alone when it only moves the job on.       *)
processVars == <<stopping, proc, orphans, strays>>
Elsewhere == <<lease, retained, aborted, launch, outcome, requests, restarts>>

Request == /\ requests < MaxRequests
           /\ requests' = requests + 1

(* Mutant: the lease is not looked at. *)
AvailableAlways(a) == a \in Apps

(* AppOperationCoordinator.acquire would return a lease. *)
Available(a) == lease[a] = "free"

(* AppOperationLease.release: a retained lease stays. *)
Release(a) == lease' = IF retained[a] THEN lease ELSE [lease EXCEPT ![a] = "free"]
-----------------------------------------------------------------------------
(* A request at the head of the queue takes the lease before its first      *)
(* await; if it is taken the request is answered "already in progress".     *)
Acquire(kind, a) ==
    /\ At("idle")
    /\ Available(a)
    /\ Request
    /\ lease' = [lease EXCEPT ![a] = kind]
    /\ job' = [kind |-> kind, app |-> a, step |-> "lookup", result |-> "pending"]
    /\ UNCHANGED <<retained, active, aborted, processVars, launch,
                   installed, outcome, restarts>>

(* Mutant: an early return forgets the lease. *)
RefuseHolding ==
    /\ At("lookup")
    /\ Goto("reporting")
    /\ UNCHANGED <<Elsewhere, active, processVars, installed>>

(* The catalog record, the decision, the adapter, an existing entry or the  *)
(* state of the staged update refuses the operation.                        *)
Refuse ==
    /\ At("lookup")
    /\ Release(job.app)
    /\ Goto("reporting")
    /\ UNCHANGED <<retained, active, aborted, processVars, launch,
                   installed, outcome, requests, restarts>>

BeginInstall ==
    /\ At("lookup")
    /\ job.kind = "install"
    /\ active[job.app] = "none"
    /\ SetPhase("queued")
    /\ Goto("queued")
    /\ UNCHANGED <<Elsewhere, processVars, installed>>

BeginUninstall ==
    /\ At("lookup")
    /\ job.kind = "uninstall"
    /\ active[job.app] = "none"
    /\ SetPhase("installer-running")
    /\ Goto("verifying")
    /\ UNCHANGED <<Elsewhere, processVars, installed>>

BeginUpdate ==
    /\ At("lookup")
    /\ job.kind = "update"
    /\ active[job.app] = "none"
    /\ Goto(IF job.app \in Portable THEN "extracting" ELSE "snapshot")
    /\ UNCHANGED <<Elsewhere, active, processVars, installed>>
-----------------------------------------------------------------------------
(* install up to its first irreversible step.  The check of the signal and  *)
(* the next phase are one stretch (throwIfInstallationCancelled).           *)
Advance(from, to, phase) ==
    /\ At(from)
    /\ job.kind = "install"
    /\ ~aborted
    /\ SetPhase(phase)
    /\ Goto(to)
    /\ UNCHANGED <<Elsewhere, processVars, installed>>

Resolve == Advance("queued", "resolving", "resolving")
Download == Advance("resolving", "downloading", "downloading")
Extract == job.app \in Portable
           /\ Advance("downloading", "extracting", "extracting")
SnapshotRegistry == job.app \notin Portable
                    /\ Advance("downloading", "snapshot", "downloading")

(* Mutant: the signal is not read after the extraction. *)
CommitUnchecked ==
    /\ At("extracting")
    /\ job.kind = "install"
    /\ SetPhase("committing")
    /\ Goto("replacing")
    /\ UNCHANGED <<Elsewhere, processVars, installed>>

(* installPortable calls beforeCommit right before the replacement. *)
Commit == Advance("extracting", "replacing", "committing")

CommitUpdate ==
    /\ At("extracting")
    /\ job.kind = "update"
    /\ Goto("replacing")
    /\ UNCHANGED <<Elsewhere, active, processVars, installed>>

(* replacePortableDirectory, whose commit callback writes the record. *)
ReplaceDirectory ==
    /\ At("replacing")
    /\ installed' = installed \cup {job.app}
    /\ IF job.kind = "update" THEN Goto("clearing") ELSE Conclude("ok")
    /\ UNCHANGED <<Elsewhere, active, processVars>>

(* The installed entry has an owned uninstall descriptor. *)
VerifyUninstall ==
    /\ At("verifying")
    /\ job.app \in installed
    /\ IF job.app \in Portable
       THEN Goto("deleting") /\ UNCHANGED proc
       ELSE Goto("running") /\ proc' = "spawning"
    /\ UNCHANGED <<Elsewhere, active, stopping, orphans, strays, installed>>

DeleteDirectory ==
    /\ At("deleting")
    /\ Goto("recording")
    /\ UNCHANGED <<Elsewhere, active, processVars, installed>>
-----------------------------------------------------------------------------
(* run: the installer process. *)

Spawn ==
    /\ At("snapshot")
    /\ ~aborted
    /\ IF job.kind = "install" THEN SetPhase("launching") ELSE UNCHANGED active
    /\ Goto("running")
    /\ proc' = "spawning"
    /\ UNCHANGED <<Elsewhere, stopping, orphans, strays, installed>>

(* The 'spawn' event: onStarted closes the cancellation window. *)
Spawned ==
    /\ At("running")
    /\ proc = "spawning"
    /\ proc' = "running"
    /\ IF active[job.app] = "launching" THEN SetPhase("installer-running")
       ELSE UNCHANGED active
    /\ UNCHANGED <<Elsewhere, job, stopping, orphans, strays, installed>>

SpawnFails ==
    /\ At("running")
    /\ proc = "spawning"
    /\ proc' = "none"
    /\ stopping' = FALSE
    /\ Conclude("failed")
    /\ UNCHANGED <<Elsewhere, active, orphans, strays, installed>>

(* What Windows Installer or a child service still does when the launcher   *)
(* is gone, run() does not see.                                             *)
LauncherGone == proc' = "none" /\ strays' \in {strays, strays \cup {job.app}}

(* Exit code zero or not; ignored once the tree is being terminated. *)
ProcessExits ==
    /\ At("running")
    /\ proc = "running"
    /\ ~stopping
    /\ LauncherGone
    /\ Goto("recording") \/ Conclude("failed")
    /\ UNCHANGED <<Elsewhere, active, stopping, orphans, installed>>

(* The 15-minute safety limit. *)
Timeout ==
    /\ At("running")
    /\ proc = "running"
    /\ ~stopping
    /\ stopping' = TRUE
    /\ UNCHANGED <<Elsewhere, active, job, proc, orphans, strays, installed>>

(* taskkill succeeded and the launcher closed. *)
TerminationProven ==
    /\ At("running")
    /\ stopping
    /\ stopping' = FALSE
    /\ LauncherGone
    /\ Conclude("failed")
    /\ UNCHANGED <<Elsewhere, active, orphans, installed>>

(* Mutant: any failed termination is an ordinary failure. *)
TerminationAssumed ==
    /\ At("running")
    /\ stopping
    /\ stopping' = FALSE
    /\ proc' = "none"
    /\ orphans' \in {orphans, orphans \cup {job.app}}
    /\ Conclude("failed")
    /\ UNCHANGED <<Elsewhere, active, strays, installed>>

(* taskkill failed, was late, or lost a race with the exit of the process. *)
TerminationUnproven ==
    /\ At("running")
    /\ stopping
    /\ stopping' = FALSE
    /\ proc' = "none"
    /\ orphans' \in {orphans, orphans \cup {job.app}}
    /\ Conclude("unknown")
    /\ UNCHANGED <<Elsewhere, active, strays, installed>>

(* recordInstalledFromRegistry, or InstalledService.remove. *)
RecordChange ==
    /\ At("recording")
    /\ installed' = IF job.kind = "uninstall" THEN installed \ {job.app}
                    ELSE installed \cup {job.app}
    /\ IF job.kind = "update" THEN Goto("clearing") ELSE Conclude("ok")
    /\ UNCHANGED <<Elsewhere, active, processVars>>

(* The update removes its stage. *)
ClearStage ==
    /\ At("clearing")
    /\ Conclude("ok")
    /\ UNCHANGED <<Elsewhere, active, processVars, installed>>

(* Any other await of the job rejects, the checks of the signal included.   *)
(* An update whose message contains "unknown" (the version observed in the  *)
(* registry, an UNKNOWN system error) counts as an unknown outcome too.     *)
StepFails ==
    /\ job.step \in {"queued", "resolving", "downloading", "extracting",
                     "replacing", "snapshot", "verifying", "deleting",
                     "recording", "clearing"}
    /\ \/ Conclude("failed")
       \/ job.kind = "update" /\ Conclude("unknown")
    /\ UNCHANGED <<Elsewhere, active, processVars, installed>>
-----------------------------------------------------------------------------
(* finalPhase, and what an uninstall or an update answers. *)
FinalPhase == CASE job.result = "unknown" -> "unknown"
                [] job.result = "ok" -> "succeeded"
                [] OTHER -> IF aborted THEN "cancelled" ELSE "failed"

(* The staging directory is gone, or could not be removed; an unknown       *)
(* outcome keeps it, the active entry and the lease.                        *)
Settle ==
    /\ At("cleanup")
    /\ outcome' = [outcome EXCEPT ![job.app] = FinalPhase]
    /\ IF job.result = "unknown"
       THEN /\ retained' = [retained EXCEPT ![job.app] = TRUE]
            /\ UNCHANGED <<lease, active>>
       ELSE /\ Release(job.app)
            /\ SetPhase("none")
            /\ UNCHANGED retained
    /\ aborted' = FALSE
    /\ Goto("reporting")
    /\ UNCHANGED <<processVars, launch, installed, requests, restarts>>

(* The activity record is written, or not; the queue goes on. *)
Report ==
    /\ At("reporting")
    /\ job' = NoJob
    /\ UNCHANGED <<Elsewhere, active, processVars, installed>>
-----------------------------------------------------------------------------
(* cancelInstall when it accepts: the signal also reaches a process whose   *)
(* spawn is not confirmed yet.  Any other phase is refused with a message.  *)
Cancel(a) ==
    /\ active[a] \in Cancellable
    /\ Request
    /\ active' = [active EXCEPT ![a] = "cancelling"]
    /\ aborted' = TRUE
    /\ stopping' = (stopping \/ proc = "spawning")
    /\ UNCHANGED <<lease, retained, job, proc, orphans, strays, launch, installed,
                   outcome, restarts>>

(* An active entry would make the launch give its lease back at once. *)
Launch(a) ==
    /\ Available(a)
    /\ active[a] = "none"
    /\ Request
    /\ lease' = [lease EXCEPT ![a] = "launch"]
    /\ launch' = [launch EXCEPT ![a] = "resolving"]
    /\ UNCHANGED <<retained, active, job, aborted, processVars, installed,
                   outcome, restarts>>

LaunchRefused(a) ==
    /\ launch[a] = "resolving"
    /\ launch' = [launch EXCEPT ![a] = "none"]
    /\ Release(a)
    /\ UNCHANGED <<retained, active, job, aborted, processVars, installed,
                   outcome, requests, restarts>>

(* The reviewed executable of an installed app is started, or nothing is.   *)
LaunchStarts(a) ==
    /\ launch[a] = "resolving"
    /\ \E next \in {"starting", "recording"} :
          /\ next = "starting" => a \in installed
          /\ launch' = [launch EXCEPT ![a] = next]
    /\ UNCHANGED <<lease, retained, active, job, aborted, processVars,
                   installed, outcome, requests, restarts>>

(* spawn, error, or two seconds without either. *)
LaunchAnswered(a) ==
    /\ launch[a] = "starting"
    /\ launch' = [launch EXCEPT ![a] = "recording"]
    /\ UNCHANGED <<lease, retained, active, job, aborted, processVars,
                   installed, outcome, requests, restarts>>

LaunchRecorded(a) ==
    /\ launch[a] = "recording"
    /\ launch' = [launch EXCEPT ![a] = "none"]
    /\ Release(a)
    /\ UNCHANGED <<retained, active, job, aborted, processVars, installed,
                   outcome, requests, restarts>>
-----------------------------------------------------------------------------
(* InstalledService.discover, itself queued, drops records whose owned      *)
(* entry is gone from the machine.                                          *)
Discover ==
    /\ At("idle")
    /\ \E gone \in SUBSET installed \ {{}} : installed' = installed \ gone
    /\ UNCHANGED <<lease, retained, active, job, aborted, processVars,
                   launch, outcome, requests, restarts>>

(* A process that the store gave up on, or forgot, ends by itself. *)
OrphanExits(a) ==
    /\ a \in orphans
    /\ orphans' = orphans \ {a}
    /\ UNCHANGED <<lease, retained, active, job, aborted, stopping, proc, strays,
                   launch, installed, outcome, requests, restarts>>

StrayExits(a) ==
    /\ a \in strays
    /\ strays' = strays \ {a}
    /\ UNCHANGED <<lease, retained, active, job, aborted, stopping, proc, orphans,
                   launch, installed, outcome, requests, restarts>>

(* The store's process ends, by a quit or a crash, and starts again: leases *)
(* and operations were only in memory, an installer process lives on.       *)
Restart ==
    /\ restarts < MaxRestarts
    /\ restarts' = restarts + 1
    /\ ForgetAll
    /\ proc' = "none"
    /\ orphans' = {}
    /\ strays' = strays \cup orphans
                 \cup {a \in Apps : job.app = a /\ proc # "none"}
    /\ UNCHANGED <<installed, requests>>
-----------------------------------------------------------------------------
Preparing == \/ Refuse \/ BeginInstall \/ BeginUninstall \/ BeginUpdate
             \/ Resolve \/ Download \/ Extract \/ SnapshotRegistry
             \/ VerifyUninstall
Applying == \/ Commit \/ CommitUpdate \/ ReplaceDirectory \/ DeleteDirectory
            \/ RecordChange \/ ClearStage \/ StepFails
Running == \/ Spawn \/ Spawned \/ SpawnFails \/ ProcessExits \/ Timeout
           \/ TerminationProven \/ TerminationUnproven
Job == Preparing \/ Applying \/ Running \/ Settle \/ Report
Launching(a) == \/ LaunchRefused(a) \/ LaunchStarts(a)
                \/ LaunchAnswered(a) \/ LaunchRecorded(a)
User == \/ \E a \in Apps : \/ \E kind \in JobKinds : Acquire(kind, a)
                           \/ Cancel(a)
                           \/ Launch(a)
Environment == \/ \E a \in Apps : OrphanExits(a) \/ StrayExits(a)
               \/ Discover
               \/ Restart

Next == Job \/ (\E a \in Apps : Launching(a)) \/ User \/ Environment

Spec == Init /\ [][Next]_vars
FairSpec == /\ Spec
            /\ WF_vars(Job)
            /\ \A a \in Apps : WF_vars(Launching(a))
-----------------------------------------------------------------------------
LeaseKinds == JobKinds \cup {"launch"}

TypeOK ==
    /\ lease \in [Apps -> LeaseKinds \cup {"free"}]
    /\ retained \in [Apps -> BOOLEAN]
    /\ active \in [Apps -> Phases \cup {"none"}]
    /\ job \in [kind : JobKinds \cup {"none"}, app : Apps \cup {NoApp},
                step : Steps, result : {"pending", "ok", "failed", "unknown"}]
    /\ aborted \in BOOLEAN
    /\ stopping \in BOOLEAN
    /\ proc \in {"none", "spawning", "running"}
    /\ orphans \subseteq Apps
    /\ strays \subseteq Apps
    /\ launch \in [Apps -> {"none", "resolving", "starting", "recording"}]
    /\ installed \subseteq Apps
    /\ outcome \in [Apps -> {"none", "succeeded", "cancelled", "failed", "unknown"}]
    /\ requests \in Nat
    /\ restarts \in Nat

(***************************************************************************)
(* Properties                                                              *)
(***************************************************************************)

(* The steps at which the job changes an application on the machine.       *)
Mutating == {"replacing", "deleting", "running", "recording", "clearing"}

(* While the job changes an application or waits for the launcher of its    *)
(* installer, and for as long as a process tree may still change it whose   *)
(* termination was asked for and not proven, no launch runs and no other    *)
(* operation changes it: "an unknown process outcome is not safe to race    *)
(* with a second privileged action" (app-operation-coordinator.ts).  It     *)
(* does not reach the strays: see NoneBesideAStray.                         *)
OneActorPerApp ==
    \A a \in Apps :
        /\ job.app = a /\ job.step \in Mutating
              => lease[a] = job.kind /\ launch[a] = "none" /\ a \notin orphans
        /\ a \in orphans => launch[a] = "none" /\ lease[a] # "free"

(* A cancellation that was answered "requested" stops the install before    *)
(* anything is applied, and nothing reports it a success afterwards: not    *)
(* the answer of an await in flight, nor the exit of a spawning installer.  *)
AcceptedCancelIsHonoured ==
    aborted => /\ job.step \notin {"replacing", "recording"}
               /\ job.result # "ok"
               /\ proc # "none" => stopping

(* A retained lease outlives everything but a restart of the store: the     *)
(* application is not launched, not operated on, and its outcome stays      *)
(* unknown.                                                                 *)
RetentionKept ==
    restarts' = restarts => \A a \in Apps : retained[a] =>
        /\ retained'[a]
        /\ lease'[a] = lease[a]
        /\ launch'[a] = "none"
        /\ outcome'[a] = outcome[a]
RetentionIsFinal == [][RetentionKept]_vars

(* Every lease is given back or retained: no path through an operation,     *)
(* refusal, failure, cancellation or time limit loses one.                  *)
LeaseSettles ==
    \A a \in Apps : lease[a] # "free" ~> (lease[a] = "free" \/ retained[a])

(* Not true (see the README): that no operation or launch runs beside an    *)
(* installer that is alive.  run() takes the exit of the launcher for the   *)
(* end of the installer, and the lease is given back beside what outlives   *)
(* it; nor does a restarted store know of what it left behind.              *)
NoneBesideAStray ==
    \A a \in strays : launch[a] = "none" /\ ~(job.app = a /\ job.step \in Mutating)

(***************************************************************************)
(* Inductive invariant                                                     *)
(***************************************************************************)

(* Who holds the lease of an application, and who still acts on it.         *)
LeaseInv ==
    /\ At("idle") <=> job.app = NoApp
    /\ At("idle") <=> job.kind = "none"
    /\ job.step \notin {"idle", "reporting"}
        => lease[job.app] = job.kind /\ ~retained[job.app]
    /\ \A a \in Apps :
        /\ launch[a] # "none" <=> lease[a] = "launch"
        /\ retained[a] => lease[a] \in JobKinds
        /\ a \in orphans =>
              \/ retained[a]
              \/ job.app = a /\ At("cleanup") /\ job.result = "unknown"
    /\ job.step \notin {"cleanup", "reporting"} => job.result = "pending"
    /\ proc # "none" <=> At("running")
    /\ stopping => At("running")

(* An active entry belongs to the job, or to an operation that was retained. *)
ActiveInv ==
    \A a \in Apps : active[a] # "none" =>
        retained[a] \/ (job.app = a /\ job.step \notin {"lookup", "reporting"})

(* Where an install can be while its entry still accepts a cancellation. *)
BeforeApplying == Cancellable \cup {"snapshot", "running", "cleanup"}

WindowInv ==
    \A a \in Apps : active[a] \in Cancellable =>
        /\ job.app = a /\ job.kind = "install"
        /\ job.step \in BeforeApplying
        /\ job.result \in {"pending", "failed"}
        /\ ~stopping /\ proc # "running"
        /\ At("running") => active[a] = "launching"

(* Once accepted, a cancellation keeps the job from applying anything. *)
AbortInv ==
    /\ aborted => /\ job.kind = "install" /\ active[job.app] = "cancelling"
                  /\ job.step \in BeforeApplying
                  /\ job.result # "ok"
                  /\ At("running") => stopping
    /\ stopping /\ proc = "spawning" => aborted

OperationsInv == TypeOK /\ LeaseInv /\ ActiveInv /\ WindowInv /\ AbortInv
=============================================================================
