--------------------------- MODULE MutationQueue ---------------------------
(***************************************************************************)
(* StateMutationQueue with its restore barrier, and the two kinds of work  *)
(* that meet in it: renderer requests (main.ts) and the Scheduler's timed, *)
(* manual and startup runs.                                                *)
(*                                                                         *)
(* queue[1] is the operation being run; the others wait for it.  An action *)
(* is one stretch between two awaits.  Time is abstracted to whether the   *)
(* nextRunAt of a task is in the future or past.  The initial state is the *)
(* one after Scheduler.start, an operation of this queue as well.          *)
(***************************************************************************)
EXTENDS Naturals, Sequences, FiniteSets

CONSTANTS Tasks,       \* the schedule tasks
          SelfUpdate,  \* the task of the startup check
          NoTask,
          MaxDemands  \* bound on renderer requests, restores and wake-ups

ASSUME TasksAssumption == IsFiniteSet(Tasks)
ASSUME SelfUpdateAssumption == SelfUpdate \in Tasks /\ NoTask \notin Tasks
ASSUME MaxDemandsAssumption == MaxDemands \in Nat

VARIABLES
    queue,     \* the chained operations
    step,      \* how far queue[1] is
    barrier,   \* barrierActive
    token,     \* barrierGeneration
    fence,     \* AuthenticatorService.historyRestoreLeases
    reloads,   \* Scheduler.reloadGeneration
    enabled,   \* the tasks that the loaded schedule repeats
    timer,     \* "none", "armed", or "fired": still set, but spent
    next,      \* nextRunAt: "null", "future" or "past"
    running,   \* TaskState.running
    startup,   \* the check due five seconds after the start
    demands

queueVars == <<queue, step, barrier, token, fence, reloads, enabled, timer, next,
          running, startup, demands>>
scheduler == <<reloads, enabled, timer, next, running>>
barrierVars == <<barrier, token, fence>>
-----------------------------------------------------------------------------
Ops == {"mutation", "dialog", "save-schedule", "reload", "run", "restore"}
Current == Head(queue)
Doing(op) == queue # <<>> /\ Current.op = op
Dequeue == queue' = Tail(queue) /\ step' = "ready"

(* by: the barrier token, or the generation that a timed run expects, or 0; *)
(* during: whether the task was running when this run of it was asked for.  *)
Entry(op, task, by) ==
    [op |-> op, task |-> task, by |-> by,
     during |-> task \in Tasks /\ running[task]]

Run(task, by) == Entry("run", task, by)

(* Mutant: the barrier only bars entries that arrive while it is idle. *)
SubmitPastBarrier(entries) ==
    queue' = IF barrier /\ step = "ready" THEN queue ELSE queue \o entries

(* StateMutationQueue.run: rejected while a restore is pending or running. *)
Submit(entries) == queue' = IF barrier THEN queue ELSE queue \o entries

Demand == demands < MaxDemands /\ demands' = demands + 1

Unfence == fence' = IF fence = 0 THEN 0 ELSE fence - 1

(* Scheduler.arm of the given tasks under the given schedule. *)
ArmUnder(schedule, tasks) ==
    /\ timer' = [t \in Tasks |-> IF t \notin tasks THEN timer[t]
                                 ELSE IF t \in schedule THEN "armed" ELSE "none"]
    /\ next' = [t \in Tasks |-> IF t \notin tasks THEN next[t]
                                ELSE IF t \in schedule THEN "future" ELSE "null"]

QueueInit ==
    /\ queue = <<>>
    /\ step = "ready"
    /\ barrier = FALSE
    /\ token = 0
    /\ fence = 0
    /\ reloads = 1
    /\ enabled \in SUBSET Tasks
    /\ timer = [t \in Tasks |-> IF t \in enabled THEN "armed" ELSE "none"]
    /\ next = [t \in Tasks |-> IF t \in enabled THEN "future" ELSE "null"]
    /\ running = [t \in Tasks |-> FALSE]
    /\ startup = "pending"
    /\ demands = 0
-----------------------------------------------------------------------------
(* Renderer requests. *)

(* A save of settings, workspace, appearance, ..., of the schedule, the     *)
(* explicit reload of the schedule, or external-editor:add-validated, which *)
(* asks the user for a file while it is at the head of the queue.           *)
Mutate ==
    /\ Demand
    /\ \E op \in {"mutation", "dialog", "save-schedule", "reload"} :
          Submit(<<Entry(op, NoTask, 0)>>)
    /\ UNCHANGED <<step, barrierVars, scheduler, startup>>

RunNow(t) ==
    /\ Demand
    /\ Submit(<<Run(t, 0)>>)
    /\ UNCHANGED <<step, barrierVars, scheduler, startup>>

(* history:restore, once its checks have passed. *)
RequestRestore ==
    /\ Demand
    /\ token' = token + 1
    /\ barrier' = TRUE
    /\ fence' = fence + 1
    /\ queue' = Append(queue, Entry("restore", NoTask, token'))
    /\ UNCHANGED <<step, scheduler, startup>>
-----------------------------------------------------------------------------
(* Timers. *)

TimePasses(t) ==
    /\ next[t] = "future"
    /\ next' = [next EXCEPT ![t] = "past"]
    /\ UNCHANGED <<queue, step, barrierVars, reloads, enabled, timer, running,
                   startup, demands>>

(* onFire: the timeout object stays where it is until the run disarms it.   *)
(* A timer that fires early, or was clamped, is armed again for the future: *)
(* that changes nothing here.                                               *)
Fire(t) ==
    /\ timer[t] = "armed" /\ next[t] = "past"
    /\ timer' = [timer EXCEPT ![t] = "fired"]
    /\ Submit(<<Run(t, reloads)>>)
    /\ UNCHANGED <<step, barrierVars, reloads, enabled, next, running, startup, demands>>

(* resume or unlock-screen: tasks that are due fire, the others are armed.  *)
Wake ==
    /\ Demand
    /\ LET due == {t \in enabled : next[t] = "past"}
       IN /\ ArmUnder(enabled, Tasks \ due)
          /\ \E order \in [1..Cardinality(due) -> due] :
                /\ \A i, j \in 1..Cardinality(due) : i # j => order[i] # order[j]
                /\ Submit([i \in 1..Cardinality(due) |-> Run(order[i], reloads)])
    /\ UNCHANGED <<step, barrierVars, reloads, enabled, running, startup>>

StartupTimer ==
    /\ startup = "pending"
    /\ startup' = IF barrier THEN "rejected" ELSE "queued"
    /\ Submit(<<Run(SelfUpdate, 0)>>)
    /\ UNCHANGED <<step, barrierVars, scheduler, demands>>
-----------------------------------------------------------------------------
(* The operation at the head of the queue. *)

FinishMutation ==
    /\ Doing("mutation")
    /\ Dequeue
    /\ UNCHANGED <<barrierVars, scheduler, startup, demands>>

(* The user chooses a file or closes the dialog, however late. *)
AnswerDialog ==
    /\ Doing("dialog")
    /\ Dequeue
    /\ UNCHANGED <<barrierVars, scheduler, startup, demands>>

(* Scheduler.save: applyConfig arms every task, or the document is refused. *)
ApplySchedule ==
    /\ Doing("save-schedule")
    /\ \/ \E schedule \in SUBSET Tasks :
             /\ enabled' = schedule
             /\ ArmUnder(schedule, Tasks)
       \/ UNCHANGED <<enabled, timer, next>>
    /\ Dequeue
    /\ UNCHANGED <<barrierVars, reloads, running, startup, demands>>

BeginReload ==
    /\ Doing("reload") /\ step = "ready"
    /\ reloads' = reloads + 1
    /\ step' = "reloading"
    /\ UNCHANGED <<queue, barrierVars, enabled, timer, next, running, startup, demands>>

(* reloadFromDisk after its awaits; a restore brings another schedule.      *)
FinishReload ==
    /\ step = "reloading"
    /\ \E schedule \in IF Doing("restore") THEN SUBSET Tasks ELSE {enabled} :
          /\ enabled' = schedule
          /\ ArmUnder(schedule, Tasks)
    /\ running' = [t \in Tasks |-> FALSE]
    /\ IF Doing("restore") THEN step' = "closing" /\ UNCHANGED queue ELSE Dequeue
    /\ UNCHANGED <<barrierVars, reloads, startup, demands>>

(* history.restore succeeded, or it did not, or the session has ended.      *)
ApplyRestore ==
    /\ Doing("restore") /\ step = "ready"
    /\ \/ step' = "reloading" /\ reloads' = reloads + 1
       \/ step' = "closing" /\ UNCHANGED reloads
    /\ UNCHANGED <<queue, barrierVars, enabled, timer, next, running, startup, demands>>

(* Mutant: endBarrier is called with the token of the restore before. *)
CloseRestoreStale ==
    /\ Doing("restore") /\ step = "closing"
    /\ barrier' = (barrier /\ Current.by # token + 1)
    /\ Unfence
    /\ Dequeue
    /\ UNCHANGED <<token, scheduler, startup, demands>>

(* The finally of history:restore; an older token ends nothing. *)
CloseRestore ==
    /\ Doing("restore") /\ step = "closing"
    /\ barrier' = (barrier /\ Current.by # token)
    /\ Unfence
    /\ Dequeue
    /\ UNCHANGED <<token, scheduler, startup, demands>>

(* Mutant: a run does not compare the generation it was fired in. *)
StaleNever == FALSE

(* The first test of Scheduler.run. *)
Stale == Current.by \notin {0, reloads}

(* A run that a reload has outdated, or that finds its task running.        *)
DropRun ==
    /\ Doing("run") /\ step = "ready"
    /\ IF Stale THEN UNCHANGED <<timer, next>>
       ELSE running[Current.task] /\ ArmUnder(enabled, {Current.task})
    /\ Dequeue
    /\ UNCHANGED <<barrierVars, reloads, enabled, running, startup, demands>>

BeginRun ==
    /\ Doing("run") /\ step = "ready"
    /\ ~Stale /\ ~running[Current.task]
    /\ timer' = [timer EXCEPT ![Current.task] = "none"]
    /\ running' = [running EXCEPT ![Current.task] = TRUE]
    /\ step' = "working"
    /\ UNCHANGED <<queue, barrierVars, reloads, enabled, next, startup, demands>>

(* The task is done: record, arm, then save the run history. *)
FinishTask ==
    /\ step = "working"
    /\ running' = [running EXCEPT ![Current.task] = FALSE]
    /\ ArmUnder(enabled, {Current.task})
    /\ startup' = IF Current.task = SelfUpdate /\ startup = "queued" THEN "ran" ELSE startup
    /\ step' = "saving"
    /\ UNCHANGED <<queue, barrierVars, reloads, enabled, demands>>

SaveRuns ==
    /\ step = "saving"
    /\ Dequeue
    /\ UNCHANGED <<barrierVars, scheduler, startup, demands>>
-----------------------------------------------------------------------------
Operation == \/ FinishMutation \/ ApplySchedule \/ BeginReload \/ FinishReload
             \/ ApplyRestore \/ CloseRestore
             \/ DropRun \/ BeginRun \/ FinishTask \/ SaveRuns
Timers == StartupTimer \/ \E t \in Tasks : TimePasses(t) \/ Fire(t)
QueueUser == \/ Mutate \/ RequestRestore \/ Wake \/ AnswerDialog
        \/ \E t \in Tasks : RunNow(t)

QueueNext == Operation \/ Timers \/ QueueUser

QueueSpec == QueueInit /\ [][QueueNext]_queueVars
-----------------------------------------------------------------------------
Entries == [op : Ops, task : Tasks \cup {NoTask}, by : Nat,
            during : BOOLEAN]

QueueTypeOK ==
    /\ queue \in Seq(Entries)
    /\ step \in {"ready", "reloading", "closing", "working", "saving"}
    /\ barrier \in BOOLEAN
    /\ token \in Nat /\ fence \in Nat /\ reloads \in Nat /\ demands \in Nat
    /\ enabled \subseteq Tasks
    /\ timer \in [Tasks -> {"none", "armed", "fired"}]
    /\ next \in [Tasks -> {"null", "future", "past"}]
    /\ running \in [Tasks -> BOOLEAN]
    /\ startup \in {"pending", "queued", "rejected", "ran"}

(***************************************************************************)
(* Properties                                                              *)
(***************************************************************************)
Restores == {i \in DOMAIN queue : queue[i].op = "restore"}

(* Behind a pending restore only further restores wait: no save that the    *)
(* renderer took before the restore is written over the restored files,     *)
(* even when a second restore was requested and the first one ends.  And    *)
(* the barrier and the authenticator fence hold exactly as long as some     *)
(* restore is pending or running (state-mutation-queue.ts:12-37).           *)
NothingBehindRestore ==
    /\ QueueTypeOK
    /\ \A i \in Restores : \A j \in DOMAIN queue : j > i => j \in Restores
    /\ barrier <=> Restores # {}
    /\ fence = Cardinality(Restores)

(* Runs and timers follow the loaded schedule, whatever saves, reloads,     *)
(* restores and wake-ups came between.  "A pre-restore scheduled task is    *)
(* generation-fenced and cannot publish stale run metadata after the        *)
(* restored schedule is loaded" (history-versioning.md): a timed run works, *)
(* and saves, only in the generation that its timer fired in.  A task is    *)
(* marked running only while its run is at the head of the queue, so that   *)
(* a reload never meets it.  A repeating task is without a timer only while *)
(* it runs, and no other task has one.                                      *)
RunsAreCurrent ==
    /\ Doing("run") /\ step \in {"working", "saving"} /\ Current.by # 0
        => Current.by = reloads
    /\ \A t \in Tasks :
          /\ running[t] => Doing("run") /\ Current.task = t /\ step = "working"
          /\ IF t \in enabled THEN timer[t] = "none" => running[t]
             ELSE timer[t] = "none"

(* A rejected save is not the last word: every barrier is lifted, provided  *)
(* that the user does not leave the file dialog of an operation ahead of    *)
(* the restore open for ever (nothing limits how long it stays).            *)
BarrierLifts == []<>~Doing("dialog") => (barrier ~> ~barrier)

(***************************************************************************)
(* What a document says and the code does not do (see the README)          *)
(***************************************************************************)

(* "Next run: scheduled" (ScheduleEditor.tsx): a task that is shown as      *)
(* scheduled has a live timer, or a run waiting or at work.                 *)
ScheduledMeansScheduled ==
    \A t \in enabled : timer[t] = "fired"
        => \E i \in DOMAIN queue : queue[i].op = "run" /\ queue[i].task = t

(* "When a task is already running, another run returns that state instead  *)
(* of duplicating work" (update-schedule.md): no run that was asked for     *)
(* while its task ran does the work again.                                  *)
NoDuplicatedWork == step = "working" => ~Current.during

(* "A self-check runs once after every launch and cannot be turned off"     *)
(* (update-schedule.md).                                                    *)
StartupCheckRuns == <>(startup = "ran")
=============================================================================
