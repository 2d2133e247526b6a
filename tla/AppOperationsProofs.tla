------------------------ MODULE AppOperationsProofs ------------------------
(***************************************************************************)
(* What holds of the application operations for every set of applications  *)
(* and every number of requests and restarts.  OperationsInv is inductive: *)
(* one step per action, for its type, lease and phase parts in turn.  The  *)
(* store's own update, which is checked beside them, follows at the end.   *)
(***************************************************************************)
EXTENDS AppOperations, StoreUpdate, TLAPS

LEMMA ForAllType ==
  ASSUME NEW S, NEW v \in S PROVE ForAll(v) \in [Apps -> S]
  BY DEF ForAll

LEMMA NoJobType ==
  NoJob \in [kind : JobKinds \cup {"none"}, app : Apps \cup {NoApp},
            step : Steps, result : {"pending", "ok", "failed", "unknown"}]
  BY DEF NoJob, Steps

LEMMA FinalPhaseType ==
  FinalPhase \in {"none", "succeeded", "cancelled", "failed", "unknown"}
  BY DEF FinalPhase

LEMMA TypeInit == Init => TypeOK
<1> SUFFICES ASSUME Init PROVE TypeOK OBVIOUS
<1>1. lease \in [Apps -> LeaseKinds \cup {"free"}]
  BY ForAllType DEF Init
<1>2. retained \in [Apps -> BOOLEAN]
  BY ForAllType DEF Init
<1>3. active \in [Apps -> Phases \cup {"none"}]
  BY ForAllType DEF Init
<1>4. launch \in [Apps -> {"none", "resolving", "starting", "recording"}]
  BY ForAllType DEF Init
<1>5. outcome \in [Apps -> {"none", "succeeded", "cancelled", "failed", "unknown"}]
  BY ForAllType DEF Init
<1> QED
  BY <1>1, <1>2, <1>3, <1>4, <1>5, NoJobType DEF Init, TypeOK

(* Every action keeps every variable in its type. *)
LEMMA TypeStep ==
    TypeOK /\ LeaseInv /\ [Next]_vars => TypeOK'
<1> SUFFICES ASSUME TypeOK, LeaseInv, [Next]_vars PROVE TypeOK' OBVIOUS
<1> USE NoAppAssumption DEF
      TypeOK, JobKinds, LeaseKinds, Cancellable, Phases, Steps, LeaseInv, At,
      Goto, SetPhase, Conclude, Release, Available, Request, Elsewhere,
      processVars
<1>1. CASE Refuse
  BY <1>1 DEF Refuse
<1>2. CASE BeginInstall
  BY <1>2 DEF BeginInstall
<1>3. CASE BeginUninstall
  BY <1>3 DEF BeginUninstall
<1>4. CASE BeginUpdate
  BY <1>4 DEF BeginUpdate
<1>5. CASE Resolve
  BY <1>5 DEF Resolve, Advance
<1>6. CASE Download
  BY <1>6 DEF Download, Advance
<1>7. CASE Extract
  BY <1>7 DEF Extract, Advance
<1>8. CASE SnapshotRegistry
  BY <1>8 DEF SnapshotRegistry, Advance
<1>9. CASE VerifyUninstall
  BY <1>9 DEF VerifyUninstall
<1>10. CASE Commit
  BY <1>10 DEF Commit, Advance
<1>11. CASE CommitUpdate
  BY <1>11 DEF CommitUpdate
<1>12. CASE ReplaceDirectory
  <2>1. CASE Goto("clearing")
    BY <1>12, <2>1 DEF ReplaceDirectory
  <2>2. CASE Conclude("ok")
    BY <1>12, <2>2 DEF ReplaceDirectory
  <2> QED
    BY <1>12, <2>1, <2>2 DEF ReplaceDirectory
<1>13. CASE DeleteDirectory
  BY <1>13 DEF DeleteDirectory
<1>14. CASE RecordChange
  <2>1. CASE Goto("clearing")
    BY <1>14, <2>1 DEF RecordChange
  <2>2. CASE Conclude("ok")
    BY <1>14, <2>2 DEF RecordChange
  <2> QED
    BY <1>14, <2>1, <2>2 DEF RecordChange
<1>15. CASE ClearStage
  BY <1>15 DEF ClearStage
<1>16. CASE StepFails
  <2>1. CASE Conclude("failed")
    BY <1>16, <2>1 DEF StepFails
  <2>2. CASE job.kind = "update" /\ Conclude("unknown")
    BY <1>16, <2>2 DEF StepFails
  <2> QED
    BY <1>16, <2>1, <2>2 DEF StepFails
<1>17. CASE Spawn
  BY <1>17 DEF Spawn
<1>18. CASE Spawned
  BY <1>18 DEF Spawned
<1>19. CASE SpawnFails
  BY <1>19 DEF SpawnFails
<1>20. CASE ProcessExits
  <2>1. CASE Goto("recording")
    BY <1>20, <2>1 DEF ProcessExits, LauncherGone
  <2>2. CASE Conclude("failed")
    BY <1>20, <2>2 DEF ProcessExits, LauncherGone
  <2> QED
    BY <1>20, <2>1, <2>2 DEF ProcessExits, LauncherGone
<1>21. CASE Timeout
  BY <1>21 DEF Timeout
<1>22. CASE TerminationProven
  BY <1>22 DEF TerminationProven, LauncherGone
<1>23. CASE TerminationUnproven
  BY <1>23 DEF TerminationUnproven
<1>24. CASE Settle
  <2>1. outcome' \in [Apps -> {"none", "succeeded", "cancelled", "failed", "unknown"}]
    BY FinalPhaseType, <1>24 DEF Settle, TypeOK
  <2>2. /\ lease' \in [Apps -> LeaseKinds \cup {"free"}]
        /\ retained' \in [Apps -> BOOLEAN]
    <3>1. /\ lease' \in {lease, [lease EXCEPT ![job.app] = "free"]}
          /\ retained' \in {retained, [retained EXCEPT ![job.app] = TRUE]}
      BY <1>24 DEF Settle
    <3>2. [retained EXCEPT ![job.app] = TRUE] \in [Apps -> BOOLEAN]
      BY ZenonT(30)
    <3> QED
      BY <3>1, <3>2
  <2>3. active' \in [Apps -> Phases \cup {"none"}]
    BY <1>24 DEF Settle, SetPhase, TypeOK
  <2>4. job' = [job EXCEPT !.step = "reporting"]
    BY <1>24 DEF Settle, Goto
  <2> QED
    BY <2>1, <2>2, <2>3, <2>4, <1>24
    DEF Settle, TypeOK, Steps, processVars
<1>25. CASE Report
  BY <1>25 DEF Report, NoJob
<1>26. ASSUME NEW a \in Apps, NEW kind \in JobKinds, Acquire(kind, a)
       PROVE TypeOK'
  BY <1>26 DEF Acquire
<1>27. ASSUME NEW a \in Apps, Cancel(a) PROVE TypeOK'
  BY <1>27 DEF Cancel
<1>28. ASSUME NEW a \in Apps, Launch(a) PROVE TypeOK'
  BY <1>28 DEF Launch
<1>29. ASSUME NEW a \in Apps, LaunchRefused(a) PROVE TypeOK'
  BY <1>29 DEF LaunchRefused
<1>30. ASSUME NEW a \in Apps, LaunchStarts(a) PROVE TypeOK'
  BY <1>30 DEF LaunchStarts
<1>31. ASSUME NEW a \in Apps, LaunchAnswered(a) PROVE TypeOK'
  BY <1>31 DEF LaunchAnswered
<1>32. ASSUME NEW a \in Apps, LaunchRecorded(a) PROVE TypeOK'
  BY <1>32 DEF LaunchRecorded
<1>33. ASSUME NEW a \in Apps, OrphanExits(a) PROVE TypeOK'
  BY <1>33 DEF OrphanExits
<1>34. ASSUME NEW a \in Apps, StrayExits(a) PROVE TypeOK'
  BY <1>34 DEF StrayExits
<1>35. CASE Discover
  BY <1>35 DEF Discover
<1>36. CASE Restart
  <2>1. /\ lease' \in [Apps -> LeaseKinds \cup {"free"}]
        /\ retained' \in [Apps -> BOOLEAN]
        /\ active' \in [Apps -> Phases \cup {"none"}]
    BY ForAllType, <1>36 DEF Restart, ForgetAll
  <2>2. /\ launch' \in [Apps -> {"none", "resolving", "starting", "recording"}]
        /\ outcome' \in [Apps -> {"none", "succeeded", "cancelled", "failed", "unknown"}]
    BY ForAllType, <1>36 DEF Restart, ForgetAll
  <2>3. strays' \subseteq Apps
    BY <1>36 DEF Restart, TypeOK
  <2>4. job' \in [kind : JobKinds \cup {"none"}, app : Apps \cup {NoApp},
                 step : Steps, result : {"pending", "ok", "failed", "unknown"}]
    BY NoJobType, <1>36 DEF Restart, ForgetAll
  <2>5. restarts' \in Nat
    BY <1>36 DEF Restart, TypeOK
  <2> QED
    BY <2>1, <2>2, <2>3, <2>4, <2>5, <1>36 DEF Restart, ForgetAll, TypeOK
<1>37. CASE UNCHANGED vars
  BY <1>37 DEF vars
<1> QED
  BY <1>1, <1>2, <1>3, <1>4, <1>5, <1>6, <1>7, <1>8, <1>9, <1>10, <1>11,
     <1>12, <1>13, <1>14, <1>15, <1>16, <1>17, <1>18, <1>19, <1>20, <1>21,
     <1>22, <1>23, <1>24, <1>25, <1>26, <1>27, <1>28, <1>29, <1>30, <1>31,
     <1>32, <1>33, <1>34, <1>35, <1>36, <1>37
  DEF Next, Job, Preparing, Applying, Running, Launching, User, Environment

LEMMA LeaseInit == Init => LeaseInv
  BY NoAppAssumption DEF Init, LeaseInv, At, NoJob, ForAll, JobKinds

(* An action moves a lease only together with its holder. *)
LEMMA LeaseStep ==
    TypeOK /\ LeaseInv /\ [Next]_vars => LeaseInv'
<1> SUFFICES ASSUME TypeOK, LeaseInv, [Next]_vars PROVE LeaseInv' OBVIOUS
<1> USE NoAppAssumption DEF
      TypeOK, LeaseInv, JobKinds, LeaseKinds, Cancellable, Phases, Steps, At,
      Goto, SetPhase, Conclude, Release, Available, Request, Elsewhere,
      processVars
<1>1. CASE Refuse
  BY <1>1 DEF Refuse
<1>2. CASE BeginInstall
  BY <1>2 DEF BeginInstall
<1>3. CASE BeginUninstall
  BY <1>3 DEF BeginUninstall
<1>4. CASE BeginUpdate
  BY <1>4 DEF BeginUpdate
<1>5. CASE Resolve
  BY <1>5 DEF Resolve, Advance
<1>6. CASE Download
  BY <1>6 DEF Download, Advance
<1>7. CASE Extract
  BY <1>7 DEF Extract, Advance
<1>8. CASE SnapshotRegistry
  BY <1>8 DEF SnapshotRegistry, Advance
<1>9. CASE VerifyUninstall
  BY <1>9 DEF VerifyUninstall
<1>10. CASE Commit
  BY <1>10 DEF Commit, Advance
<1>11. CASE CommitUpdate
  BY <1>11 DEF CommitUpdate
<1>12. CASE ReplaceDirectory
  <2>1. CASE Goto("clearing")
    BY <1>12, <2>1 DEF ReplaceDirectory
  <2>2. CASE Conclude("ok")
    BY <1>12, <2>2 DEF ReplaceDirectory
  <2> QED
    BY <1>12, <2>1, <2>2 DEF ReplaceDirectory
<1>13. CASE DeleteDirectory
  BY <1>13 DEF DeleteDirectory
<1>14. CASE RecordChange
  <2>1. CASE Goto("clearing")
    BY <1>14, <2>1 DEF RecordChange
  <2>2. CASE Conclude("ok")
    BY <1>14, <2>2 DEF RecordChange
  <2> QED
    BY <1>14, <2>1, <2>2 DEF RecordChange
<1>15. CASE ClearStage
  BY <1>15 DEF ClearStage
<1>16. CASE StepFails
  <2>1. CASE Conclude("failed")
    BY <1>16, <2>1 DEF StepFails
  <2>2. CASE job.kind = "update" /\ Conclude("unknown")
    BY <1>16, <2>2 DEF StepFails
  <2> QED
    BY <1>16, <2>1, <2>2 DEF StepFails
<1>17. CASE Spawn
  BY <1>17 DEF Spawn
<1>18. CASE Spawned
  BY <1>18 DEF Spawned
<1>19. CASE SpawnFails
  BY <1>19 DEF SpawnFails
<1>20. CASE ProcessExits
  <2>1. CASE Goto("recording")
    BY <1>20, <2>1 DEF ProcessExits, LauncherGone
  <2>2. CASE Conclude("failed")
    BY <1>20, <2>2 DEF ProcessExits, LauncherGone
  <2> QED
    BY <1>20, <2>1, <2>2 DEF ProcessExits, LauncherGone
<1>21. CASE Timeout
  BY <1>21 DEF Timeout
<1>22. CASE TerminationProven
  BY <1>22 DEF TerminationProven, LauncherGone
<1>23. CASE TerminationUnproven
  BY <1>23 DEF TerminationUnproven
<1>24. CASE Settle
  <2>1. CASE job.result = "unknown"
    BY <1>24, <2>1 DEF Settle, FinalPhase
  <2>2. CASE job.result # "unknown"
    BY <1>24, <2>2 DEF Settle, FinalPhase
  <2> QED
    BY <1>24, <2>1, <2>2 DEF Settle
<1>25. CASE Report
  BY <1>25 DEF Report, NoJob
<1>26. ASSUME NEW a \in Apps, NEW kind \in JobKinds, Acquire(kind, a)
       PROVE LeaseInv'
  BY <1>26 DEF Acquire
<1>27. ASSUME NEW a \in Apps, Cancel(a) PROVE LeaseInv'
  BY <1>27 DEF Cancel
<1>28. ASSUME NEW a \in Apps, Launch(a) PROVE LeaseInv'
  BY <1>28 DEF Launch
<1>29. ASSUME NEW a \in Apps, LaunchRefused(a) PROVE LeaseInv'
  BY <1>29 DEF LaunchRefused
<1>30. ASSUME NEW a \in Apps, LaunchStarts(a) PROVE LeaseInv'
  BY <1>30 DEF LaunchStarts
<1>31. ASSUME NEW a \in Apps, LaunchAnswered(a) PROVE LeaseInv'
  BY <1>31 DEF LaunchAnswered
<1>32. ASSUME NEW a \in Apps, LaunchRecorded(a) PROVE LeaseInv'
  BY <1>32 DEF LaunchRecorded
<1>33. ASSUME NEW a \in Apps, OrphanExits(a) PROVE LeaseInv'
  BY <1>33 DEF OrphanExits
<1>34. ASSUME NEW a \in Apps, StrayExits(a) PROVE LeaseInv'
  BY <1>34 DEF StrayExits
<1>35. CASE Discover
  BY <1>35 DEF Discover
<1>36. CASE Restart
  BY <1>36 DEF Restart, ForgetAll, ForAll, NoJob
<1>37. CASE UNCHANGED vars
  BY <1>37 DEF vars
<1> QED
  BY <1>1, <1>2, <1>3, <1>4, <1>5, <1>6, <1>7, <1>8, <1>9, <1>10, <1>11,
     <1>12, <1>13, <1>14, <1>15, <1>16, <1>17, <1>18, <1>19, <1>20, <1>21,
     <1>22, <1>23, <1>24, <1>25, <1>26, <1>27, <1>28, <1>29, <1>30, <1>31,
     <1>32, <1>33, <1>34, <1>35, <1>36, <1>37
  DEF Next, Job, Preparing, Applying, Running, Launching, User, Environment

LEMMA CancellationInit == Init => ActiveInv /\ WindowInv /\ AbortInv
  BY NoAppAssumption DEF Init, ActiveInv, WindowInv, AbortInv, At, NoJob, ForAll, Cancellable

(* An entry is removed with the lease, or kept with it. *)
LEMMA ActiveStep ==
    TypeOK /\ LeaseInv /\ ActiveInv /\ [Next]_vars => ActiveInv'
<1> SUFFICES ASSUME TypeOK, LeaseInv, ActiveInv, [Next]_vars PROVE ActiveInv' OBVIOUS
<1> USE NoAppAssumption DEF
      TypeOK, LeaseInv, JobKinds, LeaseKinds, Cancellable, Phases, Steps, At,
      ActiveInv, Goto, SetPhase, Conclude, Release, Available, Request,
      Elsewhere, processVars
<1>1. CASE Refuse
  BY <1>1 DEF Refuse
<1>2. CASE BeginInstall
  BY <1>2 DEF BeginInstall
<1>3. CASE BeginUninstall
  BY <1>3 DEF BeginUninstall
<1>4. CASE BeginUpdate
  BY <1>4 DEF BeginUpdate
<1>5. CASE Resolve
  BY <1>5 DEF Resolve, Advance
<1>6. CASE Download
  BY <1>6 DEF Download, Advance
<1>7. CASE Extract
  BY <1>7 DEF Extract, Advance
<1>8. CASE SnapshotRegistry
  BY <1>8 DEF SnapshotRegistry, Advance
<1>9. CASE VerifyUninstall
  BY <1>9 DEF VerifyUninstall
<1>10. CASE Commit
  BY <1>10 DEF Commit, Advance
<1>11. CASE CommitUpdate
  BY <1>11 DEF CommitUpdate
<1>12. CASE ReplaceDirectory
  <2>1. CASE Goto("clearing")
    BY <1>12, <2>1 DEF ReplaceDirectory
  <2>2. CASE Conclude("ok")
    BY <1>12, <2>2 DEF ReplaceDirectory
  <2> QED
    BY <1>12, <2>1, <2>2 DEF ReplaceDirectory
<1>13. CASE DeleteDirectory
  BY <1>13 DEF DeleteDirectory
<1>14. CASE RecordChange
  <2>1. CASE Goto("clearing")
    BY <1>14, <2>1 DEF RecordChange
  <2>2. CASE Conclude("ok")
    BY <1>14, <2>2 DEF RecordChange
  <2> QED
    BY <1>14, <2>1, <2>2 DEF RecordChange
<1>15. CASE ClearStage
  BY <1>15 DEF ClearStage
<1>16. CASE StepFails
  <2>1. CASE Conclude("failed")
    BY <1>16, <2>1 DEF StepFails
  <2>2. CASE job.kind = "update" /\ Conclude("unknown")
    BY <1>16, <2>2 DEF StepFails
  <2> QED
    BY <1>16, <2>1, <2>2 DEF StepFails
<1>17. CASE Spawn
  BY <1>17 DEF Spawn
<1>18. CASE Spawned
  BY <1>18 DEF Spawned
<1>19. CASE SpawnFails
  BY <1>19 DEF SpawnFails
<1>20. CASE ProcessExits
  <2>1. CASE Goto("recording")
    BY <1>20, <2>1 DEF ProcessExits, LauncherGone
  <2>2. CASE Conclude("failed")
    BY <1>20, <2>2 DEF ProcessExits, LauncherGone
  <2> QED
    BY <1>20, <2>1, <2>2 DEF ProcessExits, LauncherGone
<1>21. CASE Timeout
  BY <1>21 DEF Timeout
<1>22. CASE TerminationProven
  BY <1>22 DEF TerminationProven, LauncherGone
<1>23. CASE TerminationUnproven
  BY <1>23 DEF TerminationUnproven
<1>24. CASE Settle
  <2>1. CASE job.result = "unknown"
    BY <1>24, <2>1 DEF Settle, FinalPhase
  <2>2. CASE job.result # "unknown"
    BY <1>24, <2>2 DEF Settle, FinalPhase
  <2> QED
    BY <1>24, <2>1, <2>2 DEF Settle
<1>25. CASE Report
  BY <1>25 DEF Report, NoJob
<1>26. ASSUME NEW a \in Apps, NEW kind \in JobKinds, Acquire(kind, a)
       PROVE ActiveInv'
  BY <1>26 DEF Acquire
<1>27. ASSUME NEW a \in Apps, Cancel(a) PROVE ActiveInv'
  BY <1>27 DEF Cancel
<1>28. ASSUME NEW a \in Apps, Launch(a) PROVE ActiveInv'
  BY <1>28 DEF Launch
<1>29. ASSUME NEW a \in Apps, LaunchRefused(a) PROVE ActiveInv'
  BY <1>29 DEF LaunchRefused
<1>30. ASSUME NEW a \in Apps, LaunchStarts(a) PROVE ActiveInv'
  BY <1>30 DEF LaunchStarts
<1>31. ASSUME NEW a \in Apps, LaunchAnswered(a) PROVE ActiveInv'
  BY <1>31 DEF LaunchAnswered
<1>32. ASSUME NEW a \in Apps, LaunchRecorded(a) PROVE ActiveInv'
  BY <1>32 DEF LaunchRecorded
<1>33. ASSUME NEW a \in Apps, OrphanExits(a) PROVE ActiveInv'
  BY <1>33 DEF OrphanExits
<1>34. ASSUME NEW a \in Apps, StrayExits(a) PROVE ActiveInv'
  BY <1>34 DEF StrayExits
<1>35. CASE Discover
  BY <1>35 DEF Discover
<1>36. CASE Restart
  BY <1>36 DEF Restart, ForgetAll, ForAll, NoJob
<1>37. CASE UNCHANGED vars
  BY <1>37 DEF vars
<1> QED
  BY <1>1, <1>2, <1>3, <1>4, <1>5, <1>6, <1>7, <1>8, <1>9, <1>10, <1>11,
     <1>12, <1>13, <1>14, <1>15, <1>16, <1>17, <1>18, <1>19, <1>20, <1>21,
     <1>22, <1>23, <1>24, <1>25, <1>26, <1>27, <1>28, <1>29, <1>30, <1>31,
     <1>32, <1>33, <1>34, <1>35, <1>36, <1>37
  DEF Next, Job, Preparing, Applying, Running, Launching, User, Environment

(* The cancellation window closes before anything is applied. *)
LEMMA WindowStep ==
    TypeOK /\ LeaseInv /\ ActiveInv /\ WindowInv /\ [Next]_vars => WindowInv'
<1> SUFFICES ASSUME TypeOK, LeaseInv, ActiveInv, WindowInv, [Next]_vars PROVE WindowInv' OBVIOUS
<1> USE NoAppAssumption DEF
      TypeOK, LeaseInv, JobKinds, LeaseKinds, Cancellable, Phases, Steps, At,
      ActiveInv, WindowInv, BeforeApplying, Goto, SetPhase, Conclude,
      Release, Available, Request, Elsewhere, processVars
<1>1. CASE Refuse
  BY <1>1 DEF Refuse
<1>2. CASE BeginInstall
  BY <1>2 DEF BeginInstall
<1>3. CASE BeginUninstall
  BY <1>3 DEF BeginUninstall
<1>4. CASE BeginUpdate
  BY <1>4 DEF BeginUpdate
<1>5. CASE Resolve
  BY <1>5 DEF Resolve, Advance
<1>6. CASE Download
  BY <1>6 DEF Download, Advance
<1>7. CASE Extract
  BY <1>7 DEF Extract, Advance
<1>8. CASE SnapshotRegistry
  BY <1>8 DEF SnapshotRegistry, Advance
<1>9. CASE VerifyUninstall
  BY <1>9 DEF VerifyUninstall
<1>10. CASE Commit
  BY <1>10 DEF Commit, Advance
<1>11. CASE CommitUpdate
  BY <1>11 DEF CommitUpdate
<1>12. CASE ReplaceDirectory
  <2>1. CASE Goto("clearing")
    BY <1>12, <2>1 DEF ReplaceDirectory
  <2>2. CASE Conclude("ok")
    BY <1>12, <2>2 DEF ReplaceDirectory
  <2> QED
    BY <1>12, <2>1, <2>2 DEF ReplaceDirectory
<1>13. CASE DeleteDirectory
  BY <1>13 DEF DeleteDirectory
<1>14. CASE RecordChange
  <2>1. CASE Goto("clearing")
    BY <1>14, <2>1 DEF RecordChange
  <2>2. CASE Conclude("ok")
    BY <1>14, <2>2 DEF RecordChange
  <2> QED
    BY <1>14, <2>1, <2>2 DEF RecordChange
<1>15. CASE ClearStage
  BY <1>15 DEF ClearStage
<1>16. CASE StepFails
  <2>1. CASE Conclude("failed")
    BY <1>16, <2>1 DEF StepFails
  <2>2. CASE job.kind = "update" /\ Conclude("unknown")
    BY <1>16, <2>2 DEF StepFails
  <2> QED
    BY <1>16, <2>1, <2>2 DEF StepFails
<1>17. CASE Spawn
  BY <1>17 DEF Spawn
<1>18. CASE Spawned
  BY <1>18 DEF Spawned
<1>19. CASE SpawnFails
  BY <1>19 DEF SpawnFails
<1>20. CASE ProcessExits
  <2>1. CASE Goto("recording")
    BY <1>20, <2>1 DEF ProcessExits, LauncherGone
  <2>2. CASE Conclude("failed")
    BY <1>20, <2>2 DEF ProcessExits, LauncherGone
  <2> QED
    BY <1>20, <2>1, <2>2 DEF ProcessExits, LauncherGone
<1>21. CASE Timeout
  BY <1>21 DEF Timeout
<1>22. CASE TerminationProven
  BY <1>22 DEF TerminationProven, LauncherGone
<1>23. CASE TerminationUnproven
  BY <1>23 DEF TerminationUnproven
<1>24. CASE Settle
  <2>1. CASE job.result = "unknown"
    BY <1>24, <2>1 DEF Settle, FinalPhase
  <2>2. CASE job.result # "unknown"
    BY <1>24, <2>2 DEF Settle, FinalPhase
  <2> QED
    BY <1>24, <2>1, <2>2 DEF Settle
<1>25. CASE Report
  BY <1>25 DEF Report, NoJob
<1>26. ASSUME NEW a \in Apps, NEW kind \in JobKinds, Acquire(kind, a)
       PROVE WindowInv'
  BY <1>26 DEF Acquire
<1>27. ASSUME NEW a \in Apps, Cancel(a) PROVE WindowInv'
  BY <1>27 DEF Cancel
<1>28. ASSUME NEW a \in Apps, Launch(a) PROVE WindowInv'
  BY <1>28 DEF Launch
<1>29. ASSUME NEW a \in Apps, LaunchRefused(a) PROVE WindowInv'
  BY <1>29 DEF LaunchRefused
<1>30. ASSUME NEW a \in Apps, LaunchStarts(a) PROVE WindowInv'
  BY <1>30 DEF LaunchStarts
<1>31. ASSUME NEW a \in Apps, LaunchAnswered(a) PROVE WindowInv'
  BY <1>31 DEF LaunchAnswered
<1>32. ASSUME NEW a \in Apps, LaunchRecorded(a) PROVE WindowInv'
  BY <1>32 DEF LaunchRecorded
<1>33. ASSUME NEW a \in Apps, OrphanExits(a) PROVE WindowInv'
  BY <1>33 DEF OrphanExits
<1>34. ASSUME NEW a \in Apps, StrayExits(a) PROVE WindowInv'
  BY <1>34 DEF StrayExits
<1>35. CASE Discover
  BY <1>35 DEF Discover
<1>36. CASE Restart
  BY <1>36 DEF Restart, ForgetAll, ForAll, NoJob
<1>37. CASE UNCHANGED vars
  BY <1>37 DEF vars
<1> QED
  BY <1>1, <1>2, <1>3, <1>4, <1>5, <1>6, <1>7, <1>8, <1>9, <1>10, <1>11,
     <1>12, <1>13, <1>14, <1>15, <1>16, <1>17, <1>18, <1>19, <1>20, <1>21,
     <1>22, <1>23, <1>24, <1>25, <1>26, <1>27, <1>28, <1>29, <1>30, <1>31,
     <1>32, <1>33, <1>34, <1>35, <1>36, <1>37
  DEF Next, Job, Preparing, Applying, Running, Launching, User, Environment

(* A job that was cancelled only ever concludes. *)
LEMMA AbortStep ==
    TypeOK /\ LeaseInv /\ WindowInv /\ AbortInv /\ [Next]_vars => AbortInv'
<1> SUFFICES ASSUME TypeOK, LeaseInv, WindowInv, AbortInv, [Next]_vars PROVE AbortInv' OBVIOUS
<1> USE NoAppAssumption DEF
      TypeOK, LeaseInv, JobKinds, LeaseKinds, Cancellable, Phases, Steps, At,
      WindowInv, AbortInv, BeforeApplying, Goto, SetPhase, Conclude, Release,
      Available, Request, Elsewhere, processVars
<1>1. CASE Refuse
  BY <1>1 DEF Refuse
<1>2. CASE BeginInstall
  BY <1>2 DEF BeginInstall
<1>3. CASE BeginUninstall
  BY <1>3 DEF BeginUninstall
<1>4. CASE BeginUpdate
  BY <1>4 DEF BeginUpdate
<1>5. CASE Resolve
  BY <1>5 DEF Resolve, Advance
<1>6. CASE Download
  BY <1>6 DEF Download, Advance
<1>7. CASE Extract
  BY <1>7 DEF Extract, Advance
<1>8. CASE SnapshotRegistry
  BY <1>8 DEF SnapshotRegistry, Advance
<1>9. CASE VerifyUninstall
  BY <1>9 DEF VerifyUninstall
<1>10. CASE Commit
  BY <1>10 DEF Commit, Advance
<1>11. CASE CommitUpdate
  BY <1>11 DEF CommitUpdate
<1>12. CASE ReplaceDirectory
  <2>1. CASE Goto("clearing")
    BY <1>12, <2>1 DEF ReplaceDirectory
  <2>2. CASE Conclude("ok")
    BY <1>12, <2>2 DEF ReplaceDirectory
  <2> QED
    BY <1>12, <2>1, <2>2 DEF ReplaceDirectory
<1>13. CASE DeleteDirectory
  BY <1>13 DEF DeleteDirectory
<1>14. CASE RecordChange
  <2>1. CASE Goto("clearing")
    BY <1>14, <2>1 DEF RecordChange
  <2>2. CASE Conclude("ok")
    BY <1>14, <2>2 DEF RecordChange
  <2> QED
    BY <1>14, <2>1, <2>2 DEF RecordChange
<1>15. CASE ClearStage
  BY <1>15 DEF ClearStage
<1>16. CASE StepFails
  <2>1. CASE Conclude("failed")
    BY <1>16, <2>1 DEF StepFails
  <2>2. CASE job.kind = "update" /\ Conclude("unknown")
    BY <1>16, <2>2 DEF StepFails
  <2> QED
    BY <1>16, <2>1, <2>2 DEF StepFails
<1>17. CASE Spawn
  BY <1>17 DEF Spawn
<1>18. CASE Spawned
  BY <1>18 DEF Spawned
<1>19. CASE SpawnFails
  BY <1>19 DEF SpawnFails
<1>20. CASE ProcessExits
  <2>1. CASE Goto("recording")
    BY <1>20, <2>1 DEF ProcessExits, LauncherGone
  <2>2. CASE Conclude("failed")
    BY <1>20, <2>2 DEF ProcessExits, LauncherGone
  <2> QED
    BY <1>20, <2>1, <2>2 DEF ProcessExits, LauncherGone
<1>21. CASE Timeout
  BY <1>21 DEF Timeout
<1>22. CASE TerminationProven
  BY <1>22 DEF TerminationProven, LauncherGone
<1>23. CASE TerminationUnproven
  BY <1>23 DEF TerminationUnproven
<1>24. CASE Settle
  <2>1. CASE job.result = "unknown"
    BY <1>24, <2>1 DEF Settle, FinalPhase
  <2>2. CASE job.result # "unknown"
    BY <1>24, <2>2 DEF Settle, FinalPhase
  <2> QED
    BY <1>24, <2>1, <2>2 DEF Settle
<1>25. CASE Report
  BY <1>25 DEF Report, NoJob
<1>26. ASSUME NEW a \in Apps, NEW kind \in JobKinds, Acquire(kind, a)
       PROVE AbortInv'
  BY <1>26 DEF Acquire
<1>27. ASSUME NEW a \in Apps, Cancel(a) PROVE AbortInv'
  <2>1. /\ job.app = a /\ job.kind = "install" /\ job.step \in BeforeApplying
        /\ job.result # "ok" /\ (job.step = "running" => proc = "spawning")
    BY <1>27, SMTT(30) DEF Cancel
  <2>2. job' = job /\ proc' = proc /\ active'[a] = "cancelling" /\ aborted'
    BY <1>27 DEF Cancel
  <2>3. proc = "spawning" => stopping'
    BY <1>27, Zenon DEF Cancel
  <2>4. job'.app = a /\ active'[job'.app] = "cancelling" /\ At("running") <=> At("running")'
    BY <2>1, <2>2
  <2> QED
    BY <2>1, <2>2, <2>3, <2>4
<1>28. ASSUME NEW a \in Apps, Launch(a) PROVE AbortInv'
  BY <1>28 DEF Launch
<1>29. ASSUME NEW a \in Apps, LaunchRefused(a) PROVE AbortInv'
  BY <1>29 DEF LaunchRefused
<1>30. ASSUME NEW a \in Apps, LaunchStarts(a) PROVE AbortInv'
  BY <1>30 DEF LaunchStarts
<1>31. ASSUME NEW a \in Apps, LaunchAnswered(a) PROVE AbortInv'
  BY <1>31 DEF LaunchAnswered
<1>32. ASSUME NEW a \in Apps, LaunchRecorded(a) PROVE AbortInv'
  BY <1>32 DEF LaunchRecorded
<1>33. ASSUME NEW a \in Apps, OrphanExits(a) PROVE AbortInv'
  BY <1>33 DEF OrphanExits
<1>34. ASSUME NEW a \in Apps, StrayExits(a) PROVE AbortInv'
  BY <1>34 DEF StrayExits
<1>35. CASE Discover
  BY <1>35 DEF Discover
<1>36. CASE Restart
  BY <1>36 DEF Restart, ForgetAll, ForAll, NoJob
<1>37. CASE UNCHANGED vars
  BY <1>37 DEF vars
<1> QED
  BY <1>1, <1>2, <1>3, <1>4, <1>5, <1>6, <1>7, <1>8, <1>9, <1>10, <1>11,
     <1>12, <1>13, <1>14, <1>15, <1>16, <1>17, <1>18, <1>19, <1>20, <1>21,
     <1>22, <1>23, <1>24, <1>25, <1>26, <1>27, <1>28, <1>29, <1>30, <1>31,
     <1>32, <1>33, <1>34, <1>35, <1>36, <1>37
  DEF Next, Job, Preparing, Applying, Running, Launching, User, Environment

(* No action but a restart touches a retained application. *)
LEMMA RetentionStep ==
    TypeOK /\ LeaseInv /\ [Next]_vars => RetentionKept
<1> SUFFICES ASSUME TypeOK, LeaseInv, [Next]_vars PROVE RetentionKept OBVIOUS
<1> USE NoAppAssumption DEF
      TypeOK, LeaseInv, JobKinds, LeaseKinds, Cancellable, Phases, Steps, At,
      RetentionKept, Goto, SetPhase, Conclude, Release, Available, Request,
      Elsewhere, processVars
<1>1. CASE Refuse
  BY <1>1 DEF Refuse
<1>2. CASE BeginInstall
  BY <1>2 DEF BeginInstall
<1>3. CASE BeginUninstall
  BY <1>3 DEF BeginUninstall
<1>4. CASE BeginUpdate
  BY <1>4 DEF BeginUpdate
<1>5. CASE Resolve
  BY <1>5 DEF Resolve, Advance
<1>6. CASE Download
  BY <1>6 DEF Download, Advance
<1>7. CASE Extract
  BY <1>7 DEF Extract, Advance
<1>8. CASE SnapshotRegistry
  BY <1>8 DEF SnapshotRegistry, Advance
<1>9. CASE VerifyUninstall
  BY <1>9 DEF VerifyUninstall
<1>10. CASE Commit
  BY <1>10 DEF Commit, Advance
<1>11. CASE CommitUpdate
  BY <1>11 DEF CommitUpdate
<1>12. CASE ReplaceDirectory
  <2>1. CASE Goto("clearing")
    BY <1>12, <2>1 DEF ReplaceDirectory
  <2>2. CASE Conclude("ok")
    BY <1>12, <2>2 DEF ReplaceDirectory
  <2> QED
    BY <1>12, <2>1, <2>2 DEF ReplaceDirectory
<1>13. CASE DeleteDirectory
  BY <1>13 DEF DeleteDirectory
<1>14. CASE RecordChange
  <2>1. CASE Goto("clearing")
    BY <1>14, <2>1 DEF RecordChange
  <2>2. CASE Conclude("ok")
    BY <1>14, <2>2 DEF RecordChange
  <2> QED
    BY <1>14, <2>1, <2>2 DEF RecordChange
<1>15. CASE ClearStage
  BY <1>15 DEF ClearStage
<1>16. CASE StepFails
  <2>1. CASE Conclude("failed")
    BY <1>16, <2>1 DEF StepFails
  <2>2. CASE job.kind = "update" /\ Conclude("unknown")
    BY <1>16, <2>2 DEF StepFails
  <2> QED
    BY <1>16, <2>1, <2>2 DEF StepFails
<1>17. CASE Spawn
  BY <1>17 DEF Spawn
<1>18. CASE Spawned
  BY <1>18 DEF Spawned
<1>19. CASE SpawnFails
  BY <1>19 DEF SpawnFails
<1>20. CASE ProcessExits
  <2>1. CASE Goto("recording")
    BY <1>20, <2>1 DEF ProcessExits, LauncherGone
  <2>2. CASE Conclude("failed")
    BY <1>20, <2>2 DEF ProcessExits, LauncherGone
  <2> QED
    BY <1>20, <2>1, <2>2 DEF ProcessExits, LauncherGone
<1>21. CASE Timeout
  BY <1>21 DEF Timeout
<1>22. CASE TerminationProven
  BY <1>22 DEF TerminationProven, LauncherGone
<1>23. CASE TerminationUnproven
  BY <1>23 DEF TerminationUnproven
<1>24. CASE Settle
  <2>1. CASE job.result = "unknown"
    BY <1>24, <2>1 DEF Settle, FinalPhase
  <2>2. CASE job.result # "unknown"
    BY <1>24, <2>2 DEF Settle, FinalPhase
  <2> QED
    BY <1>24, <2>1, <2>2 DEF Settle
<1>25. CASE Report
  BY <1>25 DEF Report, NoJob
<1>26. ASSUME NEW a \in Apps, NEW kind \in JobKinds, Acquire(kind, a)
       PROVE RetentionKept
  BY <1>26 DEF Acquire
<1>27. ASSUME NEW a \in Apps, Cancel(a) PROVE RetentionKept
  BY <1>27 DEF Cancel
<1>28. ASSUME NEW a \in Apps, Launch(a) PROVE RetentionKept
  BY <1>28 DEF Launch
<1>29. ASSUME NEW a \in Apps, LaunchRefused(a) PROVE RetentionKept
  BY <1>29 DEF LaunchRefused
<1>30. ASSUME NEW a \in Apps, LaunchStarts(a) PROVE RetentionKept
  BY <1>30 DEF LaunchStarts
<1>31. ASSUME NEW a \in Apps, LaunchAnswered(a) PROVE RetentionKept
  BY <1>31 DEF LaunchAnswered
<1>32. ASSUME NEW a \in Apps, LaunchRecorded(a) PROVE RetentionKept
  BY <1>32 DEF LaunchRecorded
<1>33. ASSUME NEW a \in Apps, OrphanExits(a) PROVE RetentionKept
  BY <1>33 DEF OrphanExits
<1>34. ASSUME NEW a \in Apps, StrayExits(a) PROVE RetentionKept
  BY <1>34 DEF StrayExits
<1>35. CASE Discover
  BY <1>35 DEF Discover
<1>36. CASE Restart
  BY <1>36 DEF Restart, ForgetAll, ForAll, NoJob
<1>37. CASE UNCHANGED vars
  BY <1>37 DEF vars
<1> QED
  BY <1>1, <1>2, <1>3, <1>4, <1>5, <1>6, <1>7, <1>8, <1>9, <1>10, <1>11,
     <1>12, <1>13, <1>14, <1>15, <1>16, <1>17, <1>18, <1>19, <1>20, <1>21,
     <1>22, <1>23, <1>24, <1>25, <1>26, <1>27, <1>28, <1>29, <1>30, <1>31,
     <1>32, <1>33, <1>34, <1>35, <1>36, <1>37
  DEF Next, Job, Preparing, Applying, Running, Launching, User, Environment

(***************************************************************************)
(* Theorems                                                                *)
(***************************************************************************)

(* The leases, the active entries, the job and the installer processes stay *)
(* consistent in every reachable state.                                     *)
THEOREM OperationsCorrect == Spec => []OperationsInv
<1>1. Init => OperationsInv
  BY TypeInit, LeaseInit, CancellationInit DEF OperationsInv
<1>2. OperationsInv /\ [Next]_vars => OperationsInv'
  BY TypeStep, LeaseStep, ActiveStep, WindowStep, AbortStep DEF OperationsInv
<1> QED
  BY <1>1, <1>2, PTL DEF Spec

(* No two actors ever change one application: for every number of them.     *)
THEOREM NoTwoActors == Spec => []OneActorPerApp
<1>1. OperationsInv => OneActorPerApp
  <2> SUFFICES ASSUME OperationsInv, NEW a \in Apps
               PROVE /\ job.app = a /\ job.step \in Mutating
                           => lease[a] = job.kind /\ launch[a] = "none" /\ a \notin orphans
                     /\ a \in orphans => launch[a] = "none" /\ lease[a] # "free"
    BY DEF OneActorPerApp
  <2>1. job.app = a /\ job.step \in Mutating
          => lease[a] = job.kind /\ lease[a] \in JobKinds /\ ~retained[a]
    BY DEF OperationsInv, TypeOK, LeaseInv, Mutating, At
  <2>2. job.app = a /\ job.step \in Mutating => a \notin orphans
    BY <2>1 DEF OperationsInv, LeaseInv, Mutating, At
  <2>3. a \in orphans => lease[a] \in JobKinds
    BY DEF OperationsInv, TypeOK, LeaseInv, At
  <2>4. lease[a] \in JobKinds => launch[a] = "none"
    BY DEF OperationsInv, LeaseInv, JobKinds
  <2> QED
    BY <2>1, <2>2, <2>3, <2>4 DEF JobKinds
<1> QED
  BY <1>1, OperationsCorrect, PTL

(* An accepted cancellation stops the install before anything is applied.   *)
THEOREM CancellationHolds == Spec => []AcceptedCancelIsHonoured
<1>1. OperationsInv => AcceptedCancelIsHonoured
  BY DEF OperationsInv, LeaseInv, AbortInv, AcceptedCancelIsHonoured,
    BeforeApplying, At, Cancellable
<1> QED
  BY <1>1, OperationsCorrect, PTL

(* A retained lease outlives everything but a restart of the store.         *)
THEOREM RetentionHolds == Spec => RetentionIsFinal
<1>1. OperationsInv /\ [Next]_vars => RetentionKept
  BY RetentionStep DEF OperationsInv
<1> QED
  BY <1>1, OperationsCorrect, PTL DEF Spec, RetentionIsFinal

(***************************************************************************)
(* StoreUpdate: the flag is the user's last word (WordInv), which with     *)
(* ReadyIsWanted is inductive.                                             *)
(***************************************************************************)

LEMMA UpdateInitially == UpdateInit => UpdateInv
<1> SUFFICES ASSUME UpdateInit PROVE UpdateInv
  OBVIOUS
<1> USE StoreUpdateAssumption
    DEF UpdateInit, Releases, Idle, Is, NoRestart, NoVersion, NoCheck
<1>1. /\ present \in Releases /\ feed \in Releases
      /\ downloads \in 0..MaxDownloads /\ takenBack \in 0..MaxDownloads
      /\ staged \in 0..MaxRelease /\ marker \in 0..MaxRelease
      /\ updateFaults \in 0..UpdateFaults
  OBVIOUS
<1>2. /\ state \in [status: {"idle", "checking", "up-to-date", "available",
                             "downloading", "ready", "failed"},
                    version: 0..MaxRelease]
      /\ restart \in [step: {"no", "writing", "quitting"}, version: 0..MaxRelease]
  OBVIOUS
<1>3. WordInv
  BY DEF WordInv
<1> QED
  BY <1>1, <1>2, <1>3 DEF UpdateInv, ReadyIsWanted, UpdateTypeOK, HasPackage

LEMMA AttemptStep ==
    UpdateInv /\ [UpdateNext]_updateVars
        => /\ WordInv'
           /\ downloads' \in 0..MaxDownloads /\ takenBack' \in 0..MaxDownloads
           /\ lastWord' \in {"none", "download", "cancel"} /\ cancelled' \in BOOLEAN
<1> SUFFICES ASSUME UpdateInv, [UpdateNext]_updateVars
             PROVE  /\ WordInv'
                    /\ downloads' \in 0..MaxDownloads /\ takenBack' \in 0..MaxDownloads
                    /\ lastWord' \in {"none", "download", "cancel"} /\ cancelled' \in BOOLEAN
  OBVIOUS
<1> USE DEF WordInv
<1>1. /\ downloads \in Nat /\ takenBack \in Nat /\ MaxDownloads \in Nat
      /\ downloads \in 0..MaxDownloads /\ takenBack \in 0..MaxDownloads
      /\ lastWord \in {"none", "download", "cancel"} /\ cancelled \in BOOLEAN
      /\ WordInv
  BY StoreUpdateAssumption DEF UpdateInv, ReadyIsWanted, UpdateTypeOK
<1>2. CASE UNCHANGED attemptVars
  BY <1>1, <1>2 DEF attemptVars
<1>3. CASE AttemptEnds
  BY <1>1, <1>3 DEF AttemptEnds
<1>4. CASE CancelDownload
  <2>1. CASE /\ cancelled' = TRUE /\ lastWord' = "cancel"
             /\ downloads' = 0 /\ takenBack' = takenBack + downloads
    <3>1. /\ takenBack' \in 0..MaxDownloads /\ downloads' \in 0..MaxDownloads
          /\ downloads' + takenBack' <= MaxDownloads
      BY <1>1, <2>1
    <3> QED
      BY <2>1, <3>1
  <2> QED
    BY <1>2, <1>4, <2>1 DEF CancelDownload
<1>5. CASE DownloadUpdate
  <2>1. /\ takenBack' = takenBack /\ cancelled' = FALSE /\ lastWord' = "download"
        /\ \/ downloads' = downloads
           \/ downloads + takenBack < MaxDownloads /\ downloads' = downloads + 1
    BY <1>5 DEF DownloadUpdate
  <2>2. /\ takenBack' \in 0..MaxDownloads /\ downloads' \in 0..MaxDownloads
        /\ downloads' + takenBack' <= MaxDownloads
    BY <1>1, <2>1
  <2> QED
    BY <2>1, <2>2
<1>6. CASE Again
  <2>1. downloads' = 0 /\ takenBack' = 0 /\ cancelled' = FALSE /\ lastWord' = "none"
    BY <1>6 DEF Again
  <2>2. /\ takenBack' \in 0..MaxDownloads /\ downloads' \in 0..MaxDownloads
        /\ downloads' + takenBack' <= MaxDownloads /\ ~(downloads' + takenBack' > 0)
    BY <1>1, <2>1
  <2> QED
    BY <2>1, <2>2
<1> QED
  BY <1>2, <1>3, <1>4, <1>5, <1>6
  DEF UpdateNext, NewRelease, BeginCheck, CheckExpires, CheckEnds, Downloaded,
      NotAvailable, UpdaterFails, RestartToUpdate, MarkerWritten, MarkerFails,
      RestorePending, ClearMarker, QuitAndInstall, UpdateCrash, updateVars, attemptVars

LEMMA UpdateStep == UpdateInv /\ [UpdateNext]_updateVars => ReadyIsWanted'
<1> SUFFICES ASSUME UpdateInv, [UpdateNext]_updateVars PROVE ReadyIsWanted'
  OBVIOUS
<1>a. ReadyIsWanted
  BY DEF UpdateInv
<1>b. /\ downloads' \in 0..MaxDownloads /\ takenBack' \in 0..MaxDownloads
      /\ lastWord' \in {"none", "download", "cancel"} /\ cancelled' \in BOOLEAN
  BY AttemptStep
<1>c. /\ cancelled <=> lastWord = "cancel"
      /\ downloads + takenBack > 0 => lastWord # "none"
  BY DEF UpdateInv, WordInv
<1> USE <1>a, <1>b, StoreUpdateAssumption
    DEF ReadyIsWanted, UpdateTypeOK, Releases, HasPackage, Idle, Failed, Is,
        NoRestart, NoVersion, NoCheck, checkVars, attemptVars, restartVars,
        UpdateFault
<1>1. CASE NewRelease
  BY <1>1 DEF NewRelease
<1>2. CASE CancelDownload
  <2>1. CASE state.status = "checking"
    BY <1>2, <2>1 DEF CancelDownload
  <2>2. CASE state.status = "downloading"
    BY <1>2, <2>2 DEF CancelDownload
  <2>3. CASE state.status \notin {"checking", "downloading"}
    BY <1>2, <2>3 DEF CancelDownload
  <2> QED
    BY <2>1, <2>2, <2>3
<1>3. CASE DownloadUpdate
  <2>2. CASE state' = Is("downloading", state.version)
    BY <1>3, <2>2 DEF DownloadUpdate
  <2>3. UNCHANGED <<present, feed, checking, current, staged, armed, restart,
                    marker, restoring, updateFaults>>
    BY <1>3 DEF DownloadUpdate
  <2>4. CASE state' = Failed
    BY <2>3, <2>4
  <2> QED
    BY <1>3, <2>2, <2>4 DEF DownloadUpdate
<1>4. ASSUME NEW c \in Checks, BeginCheck(c) PROVE ReadyIsWanted'
  BY <1>4 DEF BeginCheck
<1>5. ASSUME NEW c \in Checks, CheckExpires(c) PROVE ReadyIsWanted'
  BY <1>5 DEF CheckExpires
<1>6. ASSUME NEW c \in Checks, CheckEnds(c) PROVE ReadyIsWanted'
  BY <1>6 DEF CheckEnds, Answers
<1>7. CASE Downloaded
  <2>1. downloads + takenBack > 0
    BY <1>7 DEF Downloaded, AttemptEnds
  <2>2. lastWord' = lastWord /\ lastWord # "none"
    BY <1>7, <2>1, <1>c DEF Downloaded, AttemptEnds
  <2>3. CASE cancelled
    BY <1>7, <2>3 DEF Downloaded
  <2>4. CASE ~cancelled
    <3>1. lastWord' = "download"
      BY <2>2, <2>4, <1>c
    <3> QED
      BY <1>7, <2>4, <3>1 DEF Downloaded
  <2> QED
    BY <2>3, <2>4
<1>8. CASE NotAvailable \/ UpdaterFails
  <2>1. UNCHANGED <<present, feed, checking, current, lastWord, staged, armed,
                    restart, marker, restoring, updateFaults>>
    BY <1>8 DEF NotAvailable, UpdaterFails, AttemptEnds
  <2>2. state' \in {state, Failed, Is("up-to-date", NoVersion)}
    BY <1>8 DEF NotAvailable, UpdaterFails
  <2>3. CASE state' = state
    BY <2>1, <2>3
  <2>4. CASE state' = Failed \/ state' = Is("up-to-date", NoVersion)
    BY <2>1, <2>4
  <2> QED
    BY <2>2, <2>3, <2>4
<1>9. CASE RestartToUpdate \/ MarkerWritten \/ MarkerFails
  <2>1. CASE RestartToUpdate
    BY <2>1 DEF RestartToUpdate
  <2>2. CASE MarkerWritten
    BY <2>2 DEF MarkerWritten
  <2>3. CASE MarkerFails
    <3>1. restart' \in [step: {"no", "writing", "quitting"}, version: 0..MaxRelease]
      BY <2>3 DEF MarkerFails
    <3>2. updateFaults' \in 0..UpdateFaults
      BY <2>3 DEF MarkerFails
    <3>3. /\ armed' \in BOOLEAN
          /\ state' = Failed
          /\ UNCHANGED <<present, feed, checking, current, lastWord, staged, marker, restoring>>
      BY <2>3 DEF MarkerFails
    <3> QED
      BY <3>1, <3>2, <3>3
  <2> QED
    BY <1>9, <2>1, <2>2, <2>3
<1>10. CASE RestorePending
  <2>1. state' = state \/ state' = Failed
    BY <1>10 DEF RestorePending
  <2>2. /\ restoring' \in {"reading", "clearing", "done"}
        /\ UNCHANGED <<present, feed, checking, current, lastWord, staged, armed, restart, marker, updateFaults>>
    BY <1>10 DEF RestorePending
  <2>3. CASE state' = state
    BY <2>2, <2>3
  <2>4. CASE state' = Failed
    BY <2>2, <2>4
  <2> QED
    BY <2>1, <2>3, <2>4
<1>11. CASE ClearMarker
  BY <1>11 DEF ClearMarker
<1>12. CASE QuitAndInstall \/ UpdateCrash
  <2> USE <1>12 DEF QuitAndInstall, UpdateCrash, Again
  <2>1. /\ present' \in Releases /\ feed' \in Releases
        /\ downloads' \in 0..MaxDownloads
        /\ staged' \in 0..MaxRelease /\ marker' \in 0..MaxRelease
        /\ updateFaults' \in 0..UpdateFaults
    OBVIOUS
  <2>2. /\ state' = [status |-> "idle", version |-> 0]
        /\ restart' = [step |-> "no", version |-> 0]
    OBVIOUS
  <2> QED
    BY <2>1, <2>2
<1>13. CASE UNCHANGED updateVars
  BY <1>13 DEF updateVars
<1> QED
  BY <1>1, <1>2, <1>3, <1>4, <1>5, <1>6, <1>7, <1>8, <1>9, <1>10, <1>11,
     <1>12, <1>13 DEF UpdateNext

(* What is offered, downloaded or ready is newer than what runs, and an    *)
(* update is ready only if the user's last word was to download, with no   *)
(* cancellation since, however late the events of the updater come; no     *)
(* check is under way then (update-service.ts:103-121).  The attempt that  *)
(* made it ready may be an earlier one that was cancelled.                 *)
THEOREM ReadyUpdateIsWanted == UpdateSpec => []ReadyIsWanted
<1>1. UpdateInv /\ [UpdateNext]_updateVars => UpdateInv'
  BY AttemptStep, UpdateStep DEF UpdateInv
<1>2. UpdateInv => ReadyIsWanted
  BY DEF UpdateInv
<1> QED
  BY <1>1, <1>2, UpdateInitially, PTL DEF UpdateSpec
=============================================================================
