------------------------------ MODULE SourceJobs ------------------------------
(***************************************************************************)
(* Source builds: SourceJobService over WindowsSandboxGuestTransport.      *)
(*                                                                         *)
(* A job is named by the number of the call of start that begins it, in   *)
(* place of the random jobId that it draws.  Three threads work for one    *)
(* job and interleave at their awaits: execute, the attest it raced        *)
(* against the job's deadline, and the teardown that execute and cancel    *)
(* share.  The transport ends the guest by itself when its attest fails.   *)
(* An action ends where a thread awaits the file system, the guest or a    *)
(* timer; what follows an abort signal within the same tick is part of the *)
(* action that raises it.                                                  *)
(*                                                                         *)
(* The recipe, the plan and the terminal's text are data, and left out.    *)
(* One-job capacity makes the check of a second job of one application     *)
(* moot, so applications are left out too.  The protocol peer's record of  *)
(* an aborted job is implied by the step its guest's ending has reached.   *)
(***************************************************************************)
EXTENDS FiniteSets, Naturals

CONSTANTS MaxJobs,    \* bound on the calls of start
          Connected,  \* was the transport given a non-loopback address
          Limit       \* bound on each kind of misfortune in one behaviour

Kinds == {"stop", "io", "crash"}
MaxRetries == 2
Jobs == 1..MaxJobs
NoJob == 0

ASSUME MaxJobsAssumption == MaxJobs \in Nat
ASSUME ConnectedAssumption == Connected \in BOOLEAN
ASSUME LimitAssumption == Limit \in [Kinds -> Nat]

VARIABLES
    phase,    \* where start, then execute, of each job is
    sweep,    \* the names recoverOrphanedWorkspaces has still to visit
    victim,   \* the workspace that it is about to remove, or NoJob
    dir,      \* each job's workspace: "none", "bare" or "marked"
    signal,   \* the AbortController of a job, and timedOut
    leased,   \* ActiveJob.lease
    result,   \* finalState
    retries,  \* CompletedJob.retries
    kept,     \* the jobs in SourceJobService.completed
    call,     \* where the transport's attest of a job is
    ending,   \* who ends a guest, and how far they got
    proc,     \* the Windows Sandbox process tree
    config,   \* the .wsb files
    guests,   \* WindowsSandboxGuestTransport.guests
    used      \* how many misfortunes of each kind happened

starting == <<phase, sweep, victim>>
outcome == <<result, retries, kept>>
sandbox == <<call, ending, proc, config, guests>>
vars == <<phase, sweep, victim, dir, signal, leased, result, retries, kept,
          call, ending, proc, config, guests, used>>
-----------------------------------------------------------------------------
Beginning == {"sweeping", "starting", "making", "marked"}
Active == {"attesting", "executing", "ending", "cleaning", "recording"}

In(phases) == {j \in Jobs : phase[j] \in phases}

(* SourceJobService.startingApps is held from the capacity check on. *)
Slot == In(Active \cup {"starting", "making", "marked"})

Go(j, p) == phase' = [phase EXCEPT ![j] = p]

Spend(kind) == /\ used[kind] < Limit[kind]
               /\ used' = [used EXCEPT ![kind] = @ + 1]

Enders == {"service", "transport"}

Init == /\ phase = [j \in Jobs |-> "unused"]
        /\ sweep = [j \in Jobs |-> {}]
        /\ victim = [j \in Jobs |-> NoJob]
        /\ dir = [j \in Jobs |-> "none"]
        /\ signal = [j \in Jobs |-> {}]
        /\ leased = [j \in Jobs |-> FALSE]
        /\ result = [j \in Jobs |-> "none"]
        /\ retries = [j \in Jobs |-> 0]
        /\ kept = {}
        /\ call = [j \in Jobs |-> "none"]
        /\ ending = [j \in Jobs |-> [who \in Enders |-> "none"]]
        /\ proc = [j \in Jobs |-> "none"]
        /\ config = {}
        /\ guests = {}
        /\ used = [kind \in Kinds |-> 0]
-----------------------------------------------------------------------------
(* start, and retry, which is start with the request of an earlier job.    *)
(* The production transport has no recoverOrphan, so recoverOrphans        *)
(* returns at once; the workspaces are listed when the pass begins.        *)

Begin(j, tries) ==
    /\ phase[j] = "unused"
    /\ \A k \in 1..(j - 1) : phase[k] # "unused"
    /\ Go(j, "sweeping")
    /\ sweep' = [sweep EXCEPT ![j] = {k \in Jobs : dir[k] # "none"}]
    /\ retries' = [retries EXCEPT ![j] = tries]
    /\ UNCHANGED <<victim, dir, signal, leased, result, kept, sandbox, used>>

Start(j) == Begin(j, 0)

Retry(j, previous) ==
    /\ previous \in kept
    /\ result[previous] # "succeeded"
    /\ retries[previous] < MaxRetries
    /\ Begin(j, retries[previous] + 1)

(* A name is skipped if its job is active; else its marker is read. *)
SweepPick(j, k) ==
    /\ phase[j] = "sweeping" /\ victim[j] = NoJob
    /\ k \in sweep[j]
    /\ sweep' = [sweep EXCEPT ![j] = @ \ {k}]
    /\ victim' = [victim EXCEPT ![j] = IF k \in In(Active) THEN NoJob ELSE k]
    /\ UNCHANGED <<phase, dir, signal, leased, outcome, sandbox, used>>

(* cleanupOwnedWorkspace; its errors leave the directory for another pass. *)
SweepRemove(j) ==
    /\ victim[j] # NoJob
    /\ victim' = [victim EXCEPT ![j] = NoJob]
    /\ \/ /\ dir' = IF dir[victim[j]] = "marked"
                    THEN [dir EXCEPT ![victim[j]] = "none"] ELSE dir
          /\ UNCHANGED used
       \/ Spend("io") /\ UNCHANGED dir
    /\ UNCHANGED <<phase, sweep, signal, leased, outcome, sandbox>>

(* Mutant: the recovery pass is not awaited. *)
AdmitEarly(j) ==
    /\ phase[j] = "sweeping"
    /\ Go(j, IF Slot = {} THEN "starting" ELSE "refused")
    /\ UNCHANGED <<sweep, victim, dir, signal, leased, outcome, sandbox, used>>

(* The capacity check and startingApps.add, in one tick. *)
Admit(j) ==
    /\ phase[j] = "sweeping" /\ sweep[j] = {} /\ victim[j] = NoJob
    /\ Go(j, IF Slot = {} THEN "starting" ELSE "refused")
    /\ UNCHANGED <<sweep, victim, dir, signal, leased, outcome, sandbox, used>>

(* No consent, no such application, no usable recipe, or an error. *)
Refuse(j) ==
    /\ \/ phase[j] = "starting" /\ UNCHANGED used
       \/ phase[j] = "making" /\ Spend("io")
    /\ Go(j, "refused")
    /\ UNCHANGED <<sweep, victim, dir, signal, leased, outcome, sandbox>>

MakeWorkspace(j) ==
    /\ phase[j] = "starting"
    /\ Go(j, "making")
    /\ dir' = [dir EXCEPT ![j] = "bare"]
    /\ UNCHANGED <<sweep, victim, signal, leased, outcome, sandbox, used>>

MarkWorkspace(j) ==
    /\ phase[j] = "making"
    /\ Go(j, "marked")
    /\ dir' = [dir EXCEPT ![j] = "marked"]
    /\ UNCHANGED <<sweep, victim, signal, leased, outcome, sandbox, used>>

(* From the marker's callback to execute's first await.  Without an address *)
(* the transport answers null and nothing is launched.  A retry is kept     *)
(* from its beginning, as a failed job.                                     *)
Activate(j) ==
    /\ phase[j] = "marked"
    /\ Go(j, "attesting")
    /\ call' = [call EXCEPT ![j] = IF Connected THEN "launching" ELSE "rejected"]
    /\ kept' = IF retries[j] > 0 THEN kept \cup {j} ELSE kept
    /\ UNCHANGED <<sweep, victim, dir, signal, leased, result, retries,
                   ending, proc, config, guests, used>>
-----------------------------------------------------------------------------
(* Ending a guest: the transport's abort and dispose.  Both know the guest  *)
(* by the guests map, stop the process tree, and remove the .wsb file with  *)
(* force: false, so that the second of two enders rejects; dispose needs    *)
(* the lease, and a guest that it can find.                                 *)

OnlyLeased(j) ==  \* Mutant: abort does nothing.
    IF ~leased[j] THEN "done" ELSE IF j \in guests THEN "stop" ELSE "failed"

FirstStep(j) == IF j \in guests THEN "stop"
                ELSE IF leased[j] THEN "failed" ELSE "done"

Ends(step) == step \in {"done", "failed"}

(* teardown: abort or dispose is called once for a job, by execute or by    *)
(* cancel, whoever comes first.                                             *)
Torn(j) == [ending[j] EXCEPT !["service"] = IF @ = "none" THEN FirstStep(j) ELSE @]

(* What controller.abort() sets off in its tick, the teardown included: a   *)
(* wait for the guest's hello rejects, and attest ends the guest itself.    *)
AbortSignal(j, by) ==
    /\ signal' = [signal EXCEPT ![j] = @ \cup by]
    /\ call' = [call EXCEPT ![j] = IF @ = "hello" THEN "reaping" ELSE @]
    /\ ending' = [ending EXCEPT ![j] =
                    [Torn(j) EXCEPT !["transport"] =
                        IF call[j] = "hello" THEN FirstStep(j) ELSE @]]

(* The process tree stops, or that is not proven. *)
StopUnproven(j, who) ==  \* Mutant: the answer of stop() is not looked at.
    /\ ending[j][who] = "stop"
    /\ ending' = [ending EXCEPT ![j][who] = "remove"]
    /\ \/ proc' = [proc EXCEPT ![j] = "exited"] /\ UNCHANGED used
       \/ proc[j] = "running" /\ Spend("stop") /\ UNCHANGED proc
    /\ UNCHANGED <<starting, dir, signal, leased, outcome, call, config, guests>>

Stop(j, who) ==
    /\ ending[j][who] = "stop"
    /\ \/ /\ proc' = [proc EXCEPT ![j] = "exited"]
          /\ ending' = [ending EXCEPT ![j][who] = "remove"]
          /\ UNCHANGED used
       \/ /\ proc[j] = "running" /\ Spend("stop")
          /\ ending' = [ending EXCEPT ![j][who] = "failed"]
          /\ UNCHANGED proc
    /\ UNCHANGED <<starting, dir, signal, leased, outcome, call, config, guests>>

RemoveConfig(j, who) ==
    /\ ending[j][who] = "remove"
    /\ \/ /\ j \in config
          /\ config' = config \ {j}
          /\ guests' = guests \ {j}
          /\ ending' = [ending EXCEPT ![j][who] = "done"]
          /\ UNCHANGED used
       \/ /\ IF j \in config THEN Spend("io") ELSE UNCHANGED used
          /\ ending' = [ending EXCEPT ![j][who] = "failed"]
          /\ UNCHANGED <<config, guests>>
    /\ UNCHANGED <<starting, dir, signal, leased, outcome, call, proc>>
-----------------------------------------------------------------------------
(* The transport's attest: launchGuest, then the wait for the hello.  No    *)
(* sandbox may be available, or a directory cannot be made.                 *)

LaunchRefused(j) ==
    /\ call[j] = "launching"
    /\ call' = [call EXCEPT ![j] = "rejected"]
    /\ UNCHANGED <<starting, dir, signal, leased, outcome, ending, proc,
                   config, guests, used>>

WriteConfig(j) ==
    /\ call[j] = "launching"
    /\ call' = [call EXCEPT ![j] = "spawning"]
    /\ config' = config \cup {j}
    /\ UNCHANGED <<starting, dir, signal, leased, outcome, ending, proc,
                   guests, used>>

SpawnFails(j) ==
    /\ call[j] = "spawning"
    /\ Spend("io")
    /\ call' = [call EXCEPT ![j] = "rejected"]
    /\ config' = config \ {j}
    /\ UNCHANGED <<starting, dir, signal, leased, outcome, ending, proc, guests>>

(* If the signal was raised meanwhile the launch awaits its own stop(). *)
Spawn(j) ==
    /\ call[j] = "spawning"
    /\ proc' = [proc EXCEPT ![j] = "running"]
    /\ IF signal[j] = {}
       THEN /\ call' = [call EXCEPT ![j] = "hello"]
            /\ guests' = guests \cup {j}
       ELSE /\ call' = [call EXCEPT ![j] = "halting"]
            /\ UNCHANGED guests
    /\ UNCHANGED <<starting, dir, signal, leased, outcome, ending, config, used>>

(* What that stop() proved is not looked at; the guest is registered, and   *)
(* the wait for its hello rejects at once.                                  *)
Halt(j) ==
    /\ call[j] = "halting"
    /\ \/ proc' = [proc EXCEPT ![j] = "exited"] /\ UNCHANGED used
       \/ proc[j] = "running" /\ Spend("stop") /\ UNCHANGED proc
    /\ guests' = guests \cup {j}
    /\ call' = [call EXCEPT ![j] = "reaping"]
    /\ ending' = [ending EXCEPT ![j]["transport"] = "stop"]
    /\ UNCHANGED <<starting, dir, signal, leased, outcome, config>>

HelloExpires(j) ==
    /\ call[j] = "hello"
    /\ call' = [call EXCEPT ![j] = "reaping"]
    /\ ending' = [ending EXCEPT ![j]["transport"] = FirstStep(j)]
    /\ UNCHANGED <<starting, dir, signal, leased, outcome, proc, config,
                   guests, used>>

(* attest rejects, with its own error or with that of its abort. *)
Reaped(j) ==
    /\ call[j] = "reaping"
    /\ Ends(ending[j]["transport"])
    /\ call' = [call EXCEPT ![j] = "rejected"]
    /\ UNCHANGED <<starting, dir, signal, leased, outcome, ending, proc,
                   config, guests, used>>
-----------------------------------------------------------------------------
(* execute. *)

(* A catch, and the teardown that begins the finally block. *)
Conclude(j, final) ==
    /\ Go(j, "ending")
    /\ result' = [result EXCEPT ![j] = final]

AttestRejected(j) ==
    /\ phase[j] = "attesting" /\ call[j] = "rejected"
    /\ Conclude(j, IF signal[j] = {"aborted"} THEN "cancelled" ELSE "failed")
    /\ ending' = [ending EXCEPT ![j] = Torn(j)]
    /\ UNCHANGED <<sweep, victim, dir, signal, leased, retries, kept, call,
                   proc, config, guests, used>>

(* The guest's hello is answered with the lease, and execute goes on to     *)
(* wait for the result; an attestation that arrives within the clock skew   *)
(* after its expiry is not valid, and leaves a guest without a lease.       *)
Hello(j) ==
    /\ call[j] = "hello" /\ phase[j] = "attesting"
    /\ proc[j] = "running"
    /\ call' = [call EXCEPT ![j] = "answered"]
    /\ \/ /\ leased' = [leased EXCEPT ![j] = TRUE]
          /\ Go(j, "executing")
          /\ UNCHANGED <<result, ending>>
       \/ /\ Conclude(j, "failed")
          /\ ending' = [ending EXCEPT ![j] = Torn(j)]
          /\ UNCHANGED leased
    /\ UNCHANGED <<sweep, victim, dir, signal, retries, kept, proc, config,
                   guests, used>>

(* The guest completes with the reviewed outputs; or it reports a failure,  *)
(* or the request times out.                                                *)
Executed(j) ==
    /\ phase[j] = "executing"
    /\ \/ proc[j] = "running" /\ Conclude(j, "succeeded")
       \/ Conclude(j, "failed")
    /\ ending' = [ending EXCEPT ![j] = Torn(j)]
    /\ UNCHANGED <<sweep, victim, dir, signal, leased, retries, kept, call,
                   proc, config, guests, used>>

(* The job's own timer: the race is lost, whatever attest still does. *)
Deadline(j) ==
    /\ phase[j] \in {"attesting", "executing"}
    /\ AbortSignal(j, {"aborted", "timedOut"})
    /\ Conclude(j, "failed")
    /\ UNCHANGED <<sweep, victim, dir, leased, retries, kept, proc, config,
                   guests, used>>

(* cancel: a second one only answers.  The wait for the result rejects at   *)
(* once, that for an attestation when the transport has ended its guest.    *)
Cancel(j) ==
    /\ phase[j] \in Active
    /\ "aborted" \notin signal[j]
    /\ AbortSignal(j, {"aborted"})
    /\ IF phase[j] = "executing" THEN Conclude(j, "cancelled")
       ELSE UNCHANGED <<phase, result>>
    /\ UNCHANGED <<sweep, victim, dir, leased, retries, kept, proc, config,
                   guests, used>>

TornDownRegardless(j) ==  \* Mutant: a rejected teardown is ignored.
    /\ phase[j] = "ending"
    /\ Ends(ending[j]["service"])
    /\ Go(j, "cleaning")
    /\ UNCHANGED <<sweep, victim, dir, signal, leased, outcome, sandbox, used>>

TornDownProven(j) ==  \* Mutant: only a proven teardown ends a job.
    /\ phase[j] = "ending"
    /\ ending[j]["service"] = "done"
    /\ Go(j, "cleaning")
    /\ UNCHANGED <<sweep, victim, dir, signal, leased, outcome, sandbox, used>>

TornDown(j) ==
    /\ phase[j] = "ending"
    /\ Ends(ending[j]["service"])
    /\ result' = IF ending[j]["service"] = "failed"
                 THEN [result EXCEPT ![j] = "failed"] ELSE result
    /\ Go(j, "cleaning")
    /\ UNCHANGED <<sweep, victim, dir, signal, leased, retries, kept, sandbox, used>>

(* The workspace is removed whatever the teardown said; one that is gone,   *)
(* or cannot be removed, fails the job.                                     *)
Clean(j) ==
    /\ phase[j] = "cleaning"
    /\ \/ /\ dir[j] = "marked"
          /\ dir' = [dir EXCEPT ![j] = "none"]
          /\ UNCHANGED <<result, used>>
       \/ /\ IF dir[j] = "marked" THEN Spend("io") ELSE UNCHANGED used
          /\ result' = [result EXCEPT ![j] = "failed"]
          /\ UNCHANGED dir
    /\ Go(j, "recording")
    /\ UNCHANGED <<sweep, victim, signal, leased, retries, kept, sandbox>>

(* history.record, the final event, and the end of the activity. *)
Finish(j) ==
    /\ phase[j] = "recording"
    /\ Go(j, "done")
    /\ kept' = kept \cup {j}
    /\ UNCHANGED <<sweep, victim, dir, signal, leased, result, retries, sandbox, used>>
-----------------------------------------------------------------------------
(* The sandbox is closed by its user, crashes, or is killed by the stop     *)
(* that the signal sets off beside the teardown.                            *)
GuestExits(j) ==
    /\ proc[j] = "running"
    /\ proc' = [proc EXCEPT ![j] = "exited"]
    /\ UNCHANGED <<starting, dir, signal, leased, outcome, call, ending,
                   config, guests, used>>

(* The store's process ends and starts again: what it kept in memory is     *)
(* gone, directories, .wsb files and guests are not.                        *)
Crash ==
    /\ Spend("crash")
    /\ phase' = [j \in Jobs |-> IF j \in In(Beginning \cup Active) THEN "lost"
                                ELSE phase[j]]
    /\ sweep' = [j \in Jobs |-> {}]
    /\ victim' = [j \in Jobs |-> NoJob]
    /\ signal' = [j \in Jobs |-> {}]
    /\ leased' = [j \in Jobs |-> FALSE]
    /\ result' = [j \in Jobs |-> "none"]
    /\ retries' = [j \in Jobs |-> 0]
    /\ kept' = {}
    /\ call' = [j \in Jobs |-> "none"]
    /\ ending' = [j \in Jobs |-> [who \in Enders |-> "none"]]
    /\ guests' = {}
    /\ UNCHANGED <<dir, proc, config>>

Starting(j) == \/ \E k \in Jobs : SweepPick(j, k)
               \/ SweepRemove(j) \/ Admit(j) \/ Refuse(j)
               \/ MakeWorkspace(j) \/ MarkWorkspace(j) \/ Activate(j)

Attesting(j) == \/ LaunchRefused(j) \/ WriteConfig(j)
                \/ SpawnFails(j) \/ Spawn(j) \/ Halt(j)
                \/ HelloExpires(j) \/ Reaped(j)

Executing(j) == \/ AttestRejected(j) \/ Executed(j) \/ Deadline(j)
                \/ TornDown(j) \/ Clean(j) \/ Finish(j)

(* What goes on by itself, once it was begun: every wait has a timer. *)
Work(j) == \/ Starting(j) \/ Attesting(j) \/ Executing(j)
           \/ \E who \in Enders : Stop(j, who) \/ RemoveConfig(j, who)

Next == \/ \E j \in Jobs : \/ Start(j) \/ Cancel(j) \/ Hello(j)
                           \/ GuestExits(j) \/ Work(j)
                           \/ \E k \in Jobs : Retry(j, k)
        \/ Crash

Spec == Init /\ [][Next]_vars /\ \A j \in Jobs : WF_vars(Work(j))
-----------------------------------------------------------------------------
(***************************************************************************)
(* Types and consistency                                                   *)
(***************************************************************************)
Phases == {"unused", "sweeping", "starting", "making", "marked", "refused",
           "attesting", "executing", "ending", "cleaning", "recording", "done", "lost"}
Calls == {"none", "launching", "spawning", "hello", "halting", "reaping",
          "answered", "rejected"}
Steps == {"none", "stop", "remove", "done", "failed"}

TypeOK ==
    /\ phase \in [Jobs -> Phases]
    /\ sweep \in [Jobs -> SUBSET Jobs]
    /\ victim \in [Jobs -> Jobs \cup {NoJob}]
    /\ dir \in [Jobs -> {"none", "bare", "marked"}]
    /\ signal \in [Jobs -> SUBSET {"aborted", "timedOut"}]
    /\ leased \in [Jobs -> BOOLEAN]
    /\ result \in [Jobs -> {"none", "succeeded", "failed", "cancelled"}]
    /\ retries \in [Jobs -> 0..MaxRetries]
    /\ kept \subseteq Jobs
    /\ call \in [Jobs -> Calls]
    /\ ending \in [Jobs -> [Enders -> Steps]]
    /\ proc \in [Jobs -> {"none", "running", "exited"}]
    /\ config \subseteq Jobs /\ guests \subseteq Jobs
    /\ used \in [Kinds -> Nat]

(* At most one job is between the capacity check and its end: "The          *)
(* disposable runner is at its verified one-job capacity".                  *)
OneJob == \A j, k \in Slot : j = k

(***************************************************************************)
(* Properties                                                              *)
(***************************************************************************)
(* Only one job is admitted at a time, and the .wsb file of a sandbox, the  *)
(* handle for a recovery, is there as long as the sandbox may run: whoever  *)
(* ends the guest, in whatever order, and after a crash                     *)
(* (source-runtime.test.ts: "retains the guest config recovery handle when  *)
(* abort cannot prove process-tree stop").                                  *)
HandleIsKept ==
    /\ TypeOK
    /\ OneJob
    /\ \A j \in Jobs : proc[j] = "running" => j \in config

(* A build that is reported as succeeded ran under its lease, its guest was *)
(* disposed of with proof and its workspace is gone, even if a cancellation,*)
(* the deadline or the recovery of another start came in between.           *)
SuccessIsClean ==
    \A j \in Jobs : phase[j] = "done" /\ result[j] = "succeeded"
        => /\ leased[j] /\ proc[j] = "exited"
           /\ j \notin config \cup guests
           /\ dir[j] = "none"

(* Workspaces left behind by a process that ended are removed before a new  *)
(* job is admitted, unless removing one failed: "app-owned workspaces are   *)
(* retried through a bounded recovery pass" (source-build-security.md).     *)
OrphansAreSwept ==
    Slot # {} /\ used["io"] = 0
        => \A j \in In({"lost"}) : dir[j] # "marked"

(* A job that was admitted ends and gives its slot back, whatever fails.    *)
JobsEnd == \A j \in Jobs : phase[j] \in {"starting"} \cup Active
              ~> phase[j] \in {"refused", "done", "lost"}

(* No sandbox outlives its job for good: even a guest that is launched      *)
(* while its job is already over is stopped, except after a stop that was   *)
(* not proven or a crash of the store.                                      *)
Excused == used["stop"] > 0 \/ used["crash"] > 0
NoGuestIsLeft == \A j \in Jobs : phase[j] = "done"
                    ~> [](proc[j] # "running" \/ Excused)

(* What a test says and the code does not always do (see the README):       *)
(* "rejects duplicate work, cancels the guest, and emits one final          *)
(* cancellation" (source-runtime.test.ts): a job that was cancelled while   *)
(* it waited for its guest ends as cancelled when nothing fails.            *)
CancelEndsCancelled ==
    [][\A j \in Jobs : /\ phase[j] = "ending" /\ phase'[j] = "cleaning"
                       /\ result[j] = "cancelled"
                       /\ used["stop"] = 0 /\ used["io"] = 0
                       => result'[j] = "cancelled"]_vars
=============================================================================
