---------------------------- MODULE DocumentsProofs ----------------------------
(***************************************************************************)
(* Theorems of HistoryRestore, for any number of files, any contents and   *)
(* any bounds on crashes, failures, saves and restores; then that the      *)
(* journaled restore implements AtomicRestore when no running process      *)
(* abandons a rollback.  After those, the tab layout, for any number of    *)
(* tabs that the schema can number, and of groups and notices.             *)
(***************************************************************************)
EXTENDS HistoryRestoreRefinement, TabLayout, FiniteSetTheorems, SequenceTheorems, TLAPS

Answers == {"none", "ok", "reinstated", "incomplete", "refused"}

LEMMA TreeOfType == ASSUME NEW files \in States
                    PROVE  TreeOf(files) \in [Files -> Values]
  BY ValuesAssumption DEF TreeOf, States, Contents

LEMMA NothingType ==
    /\ Nothing \in States
    /\ NoTxn \in [prev : States, next : States, missed : SUBSET Snapshots]
  BY DEF Nothing, NoTxn, States, Contents

LEMMA RevisionsType == Revisions \subseteq States
  BY RevisionsAssumption DEF States, Contents

LEMMA Extensional ==
    ASSUME NEW g \in States, NEW h \in States, \A f \in Files : g[f] = h[f]
    PROVE  g = h
  BY DEF States

LEMMA UpdateType == ASSUME NEW files \in States, NEW f \in Files, NEW c \in Contents
                    PROVE  [files EXCEPT ![f] = c] \in States
  BY DEF States

LEMMA SpendType == ASSUME NEW kind \in Kinds, TypeOK, Spend(kind)
                   PROVE  used' \in [Kinds -> Nat]
  BY DEF Spend, TypeOK

LEMMA IndexType == ASSUME TypeOK, idx <= N
                   PROVE  idx \in Files /\ idx + 1 \in 1..(N + 1)
  BY NAssumption DEF TypeOK, Files

LEMMA InitType == Init => TypeOK
  BY NAssumption, NothingType, TreeOfType
  DEF Init, TypeOK, NoManifest, Kinds, RollbackPcs

LEMMA StageType == ASSUME TypeOK, StageLive
                   PROVE  /\ staged' \in [Files -> Values]
                          /\ used' \in [Kinds -> Nat]
                          /\ used'["rollbackFault"] = used["rollbackFault"]
<1>1. TreeOf(live) \in [Files -> Values]
  BY TreeOfType DEF TypeOK
<1>2. CASE used' = used
  BY <1>1, <1>2, ValuesAssumption DEF StageLive, TypeOK, Spend
<1>3. CASE Spend("fault")
  BY <1>1, <1>3, SpendType, ValuesAssumption DEF StageLive, TypeOK, Spend, Kinds
<1> QED
  BY <1>2, <1>3 DEF StageLive

LEMMA TypeStep == TypeOK /\ [Next]_vars => TypeOK'
<1> SUFFICES ASSUME TypeOK, [Next]_vars PROVE TypeOK'
  OBVIOUS
<1> USE NAssumption, NothingType
<1>1. CASE Restore
  <2>1. CASE PreserveCurrent
    BY <2>1 DEF PreserveCurrent, Goto, TypeOK, RestorePcs
  <2>2. CASE FindRetainedJournal
    BY <2>2 DEF FindRetainedJournal, Goto, TypeOK, RollbackPcs
  <2>3. CASE StageFiles
    BY <2>3 DEF StageFiles, Goto, NoManifest, TypeOK, RestorePcs
  <2>4. CASE PublishPrepared
    BY <2>4 DEF PublishPrepared, Goto, ManifestPhases, TypeOK, RestorePcs
  <2>5. CASE BeginApply
    BY <2>5 DEF BeginApply, WritePhase, ManifestPhases, TypeOK, RestorePcs
  <2>6. CASE ReplaceFile
    <3>1. live' \in States
      BY <2>6, IndexType, UpdateType DEF ReplaceFile, TypeOK, States
    <3> QED
      BY <3>1, <2>6, IndexType DEF ReplaceFile, TypeOK, RestorePcs
  <2>7. CASE ReplaceRemoves
    <3>1. live' \in States
      BY <2>7, IndexType, UpdateType DEF ReplaceRemoves, TypeOK, Contents
    <3> QED
      BY <3>1, <2>7 DEF ReplaceRemoves, Goto, TypeOK, RestorePcs
  <2>8. CASE FinishApply
    BY <2>8 DEF FinishApply, WritePhase, Goto, ManifestPhases, TypeOK, RestorePcs
  <2>9. CASE MarkRecording
    <3>1. used["restore"] \in Nat
      BY DEF TypeOK, Kinds
    <3> QED
      BY <3>1, <2>9 DEF MarkRecording, Goto, ManifestPhases, TypeOK, RestorePcs
  <2>10. CASE CommitRestored
    BY <2>10 DEF CommitRestored, Goto, TypeOK, RestorePcs
  <2>11. CASE MarkRecorded
    BY <2>11 DEF MarkRecorded, WritePhase, Goto, ManifestPhases, TypeOK, RestorePcs
  <2>12. CASE CleanupRecorded
    <3>1. used' \in [Kinds -> Nat]
      BY <2>12, SpendType DEF CleanupRecorded, TypeOK, Kinds
    <3> QED
      BY <3>1, <2>12 DEF CleanupRecorded, Answer, NoManifest, TypeOK
  <2>13. CASE StageCurrent \/ StageRestored
    <3>1. staged' \in [Files -> Values] /\ used' \in [Kinds -> Nat]
      BY <2>13, StageType DEF StageCurrent, StageRestored, StageSnapshot
    <3> QED
      BY <2>13, <3>1 DEF StageCurrent, StageRestored, StageSnapshot, Snapshots, TypeOK, RestorePcs
  <2> QED
    BY <1>1, <2>1, <2>2, <2>3, <2>4, <2>5, <2>6, <2>7, <2>8, <2>9, <2>10,
       <2>11, <2>12, <2>13 DEF Restore
<1>2. CASE Recovery
  <2>1. CASE Start
    BY <2>1 DEF Start, TypeOK, RollbackPcs
  <2>2. CASE Recover
    BY <2>2 DEF Recover, Goto, TypeOK, RollbackPcs
  <2>3. CASE BeginRollback
    BY <2>3 DEF BeginRollback, WritePhase, ManifestPhases, TypeOK, RollbackPcs
  <2>4. CASE ReinstateFile
    <3>1. live' \in States
      BY <2>4, IndexType, UpdateType DEF ReinstateFile, TypeOK, States
    <3> QED
      BY <3>1, <2>4, IndexType DEF ReinstateFile, TypeOK, RollbackPcs
  <2>5. CASE ReinstateRemoves
    <3>1. live' \in States
      BY <2>5, IndexType, UpdateType DEF ReinstateRemoves, TypeOK, Contents
    <3> QED
      BY <3>1, <2>5 DEF ReinstateRemoves, Goto, TypeOK, RollbackPcs
  <2>6. CASE FinishRollback
    BY <2>6 DEF FinishRollback, WritePhase, Goto, ManifestPhases, TypeOK, RollbackPcs
  <2>7. CASE RemovePartly
    BY <2>7 DEF RemovePartly, NoManifest, TypeOK
  <2>8. CASE RemoveJournal
    BY <2>8 DEF RemoveJournal, RollbackReturns, StartServices, Answer,
                NoManifest, TypeOK
  <2> QED
    BY <1>2, <2>1, <2>2, <2>3, <2>4, <2>5, <2>6, <2>7, <2>8 DEF Recovery
<1>3. CASE Failure
  <2>1. used' \in [Kinds -> Nat]
    BY <1>3, SpendType DEF Failure, PreserveFails, PrepareFails, ForwardFails,
       KeepRecordedUnreadable, RollbackFails, Crash, SpendRollbackFault, Kinds
  <2>2. CASE PreserveFails \/ Crash
    BY <2>1, <2>2 DEF PreserveFails, Crash, Answer, StopProcess, TypeOK
  <2>3. CASE PrepareFails \/ ForwardFails \/ KeepRecordedUnreadable
    BY <2>1, <2>3 DEF PrepareFails, ForwardFails, KeepRecordedUnreadable,
       Goto, TypeOK, RollbackPcs
  <2>4. CASE RollbackFails
    BY <2>1, <2>4 DEF RollbackFails, RollbackThrows, Answer, StopProcess, TypeOK
  <2> QED
    BY <1>3, <2>2, <2>3, <2>4 DEF Failure
<1>4. CASE User
  <2>1. ASSUME NEW f \in Files, NEW v \in Values, Save(f, v) PROVE TypeOK'
    <3>1. live' \in States
      BY <2>1, UpdateType DEF Save, TypeOK, Contents
    <3>2. used' \in [Kinds -> Nat]
      BY <2>1, SpendType DEF Save, Kinds
    <3> QED
      BY <3>1, <3>2, <2>1 DEF Save, TypeOK
  <2>2. CASE Snapshot
    BY <2>2, StageType DEF Snapshot, TypeOK
  <2>3. CASE CommitStaged
    BY <2>3 DEF CommitStaged, TypeOK
  <2>4. ASSUME NEW revision \in Revisions, Begin(revision) PROVE TypeOK'
    <3>1. used' \in [Kinds -> Nat]
      BY <2>4, SpendType DEF Begin, Kinds
    <3> QED
      BY <3>1, <2>4, RevisionsType DEF Begin, TypeOK, RestorePcs
  <2> QED
    BY <1>4, <2>1, <2>2, <2>3, <2>4 DEF User
<1>5. CASE UNCHANGED vars
  BY <1>5 DEF vars, TypeOK
<1> QED
  BY <1>1, <1>2, <1>3, <1>4, <1>5 DEF Next

(* Every variable keeps its type: in particular the loops never index past  *)
(* the last file.                                                           *)
THEOREM TypeCorrect == Spec => []TypeOK
  BY InitType, TypeStep, PTL DEF Spec

-----------------------------------------------------------------------------
LEMMA PhaseStep == TypeOK /\ PhaseInv /\ [Next]_vars => PhaseInv'
<1> SUFFICES ASSUME TypeOK /\ PhaseInv, [Next]_vars PROVE PhaseInv'
  OBVIOUS
<1> USE DEF PhaseInv, RestorePcs, RollbackPcs, ManifestPhases, Unsettled, KeepRecorded, TypeOK
<1>1. CASE Restore
  <2>1. CASE PreserveCurrent
    BY <2>1 DEF PreserveCurrent, Goto
  <2>2. CASE FindRetainedJournal
    BY <2>2 DEF FindRetainedJournal, Goto
  <2>3. CASE StageFiles
    BY <2>3 DEF StageFiles, Goto, NoManifest
  <2>4. CASE PublishPrepared
    BY <2>4 DEF PublishPrepared, Goto
  <2>5. CASE BeginApply
    BY <2>5 DEF BeginApply, WritePhase
  <2>6. CASE ReplaceFile
    BY <2>6 DEF ReplaceFile
  <2>7. CASE ReplaceRemoves
    BY <2>7 DEF ReplaceRemoves, Goto
  <2>8. CASE FinishApply
    BY <2>8 DEF FinishApply, WritePhase, Goto
  <2>9. CASE MarkRecording
    BY <2>9 DEF MarkRecording, Goto
  <2>10. CASE CommitRestored
    BY <2>10 DEF CommitRestored, Goto
  <2>11. CASE MarkRecorded
    BY <2>11 DEF MarkRecorded, WritePhase, Goto
  <2>12. CASE CleanupRecorded
    BY <2>12 DEF CleanupRecorded, Answer, NoManifest
  <2>13. CASE StageCurrent \/ StageRestored
    BY <2>13 DEF StageCurrent, StageRestored, StageSnapshot
  <2> QED
    BY <1>1, <2>1, <2>2, <2>3, <2>4, <2>5, <2>6, <2>7, <2>8, <2>9, <2>10, <2>11, <2>12, <2>13 DEF Restore
<1>2. CASE Recovery
  <2>1. CASE Start
    BY <2>1 DEF Start
  <2>2. CASE Recover
    BY <2>2 DEF Recover, Goto
  <2>3. CASE BeginRollback
    BY <2>3 DEF BeginRollback, WritePhase
  <2>4. CASE ReinstateFile
    BY <2>4 DEF ReinstateFile
  <2>5. CASE ReinstateRemoves
    BY <2>5 DEF ReinstateRemoves, Goto
  <2>6. CASE FinishRollback
    BY <2>6 DEF FinishRollback, WritePhase, Goto
  <2>7. CASE RemovePartly
    BY <2>7 DEF RemovePartly, NoManifest
  <2>8. CASE RemoveJournal
    BY <2>8 DEF RemoveJournal, RollbackReturns, StartServices, Answer, NoManifest
  <2> QED
    BY <1>2, <2>1, <2>2, <2>3, <2>4, <2>5, <2>6, <2>7, <2>8 DEF Recovery
<1>3. CASE Failure
  <2>1. CASE PreserveFails
    BY <2>1 DEF PreserveFails, Answer
  <2>2. CASE PrepareFails
    BY <2>2 DEF PrepareFails, Goto
  <2>3. CASE ForwardFails
    BY <2>3 DEF ForwardFails, Goto
  <2>4. CASE KeepRecordedUnreadable
    BY <2>4 DEF KeepRecordedUnreadable, Goto
  <2>5. CASE RollbackFails
    BY <2>5 DEF RollbackFails, RollbackThrows, Answer, StopProcess
  <2>6. CASE Crash
    BY <2>6 DEF Crash, StopProcess
  <2> QED
    BY <1>3, <2>1, <2>2, <2>3, <2>4, <2>5, <2>6 DEF Failure
<1>4. CASE User
  <2>1. ASSUME NEW f \in Files, NEW v \in Values, Save(f, v) PROVE PhaseInv'
    BY <2>1 DEF Save
  <2>2. CASE Snapshot
    BY <2>2 DEF Snapshot
  <2>3. CASE CommitStaged
    BY <2>3 DEF CommitStaged
  <2>4. ASSUME NEW revision \in Revisions, Begin(revision) PROVE PhaseInv'
    BY <2>4 DEF Begin
  <2> QED
    BY <1>4, <2>1, <2>2, <2>3, <2>4 DEF User
<1>5. CASE UNCHANGED vars
  BY <1>5 DEF vars
<1> QED
  BY <1>1, <1>2, <1>3, <1>4, <1>5 DEF Next

LEMMA OkStep == TypeOK /\ PhaseInv /\ OkInv /\ [Next]_vars => OkInv'
<1> SUFFICES ASSUME TypeOK /\ PhaseInv /\ OkInv, [Next]_vars PROVE OkInv'
  OBVIOUS
<1> USE DEF OkInv, OkIsDurable, PhaseInv, RestorePcs, RollbackPcs, ManifestPhases, Unsettled, KeepRecorded, TypeOK
<1>1. CASE Restore
  <2>1. CASE PreserveCurrent
    BY <2>1 DEF PreserveCurrent, Goto
  <2>2. CASE FindRetainedJournal
    BY <2>2 DEF FindRetainedJournal, Goto
  <2>3. CASE StageFiles
    BY <2>3 DEF StageFiles, Goto, NoManifest
  <2>4. CASE PublishPrepared
    BY <2>4 DEF PublishPrepared, Goto
  <2>5. CASE BeginApply
    BY <2>5 DEF BeginApply, WritePhase
  <2>6. CASE ReplaceFile
    BY <2>6 DEF ReplaceFile
  <2>7. CASE ReplaceRemoves
    BY <2>7 DEF ReplaceRemoves, Goto
  <2>8. CASE FinishApply
    BY <2>8 DEF FinishApply, WritePhase, Goto
  <2>9. CASE MarkRecording
    BY <2>9 DEF MarkRecording, Goto
  <2>10. CASE CommitRestored
    BY <2>10 DEF CommitRestored, Goto
  <2>11. CASE MarkRecorded
    BY <2>11 DEF MarkRecorded, WritePhase, Goto
  <2>12. CASE CleanupRecorded
    BY <2>12 DEF CleanupRecorded, Answer, NoManifest
  <2>13. CASE StageCurrent \/ StageRestored
    BY <2>13 DEF StageCurrent, StageRestored, StageSnapshot
  <2> QED
    BY <1>1, <2>1, <2>2, <2>3, <2>4, <2>5, <2>6, <2>7, <2>8, <2>9, <2>10, <2>11, <2>12, <2>13 DEF Restore
<1>2. CASE Recovery
  <2>1. CASE Start
    BY <2>1 DEF Start
  <2>2. CASE Recover
    BY <2>2 DEF Recover, Goto
  <2>3. CASE BeginRollback
    BY <2>3 DEF BeginRollback, WritePhase
  <2>4. CASE ReinstateFile
    BY <2>4 DEF ReinstateFile
  <2>5. CASE ReinstateRemoves
    BY <2>5 DEF ReinstateRemoves, Goto
  <2>6. CASE FinishRollback
    BY <2>6 DEF FinishRollback, WritePhase, Goto
  <2>7. CASE RemovePartly
    BY <2>7 DEF RemovePartly, NoManifest
  <2>8. CASE RemoveJournal
    BY <2>8 DEF RemoveJournal, RollbackReturns, StartServices, Answer, NoManifest
  <2> QED
    BY <1>2, <2>1, <2>2, <2>3, <2>4, <2>5, <2>6, <2>7, <2>8 DEF Recovery
<1>3. CASE Failure
  <2>1. CASE PreserveFails
    BY <2>1 DEF PreserveFails, Answer
  <2>2. CASE PrepareFails
    BY <2>2 DEF PrepareFails, Goto
  <2>3. CASE ForwardFails
    BY <2>3 DEF ForwardFails, Goto
  <2>4. CASE KeepRecordedUnreadable
    BY <2>4 DEF KeepRecordedUnreadable, Goto
  <2>5. CASE RollbackFails
    BY <2>5 DEF RollbackFails, RollbackThrows, Answer, StopProcess
  <2>6. CASE Crash
    BY <2>6 DEF Crash, StopProcess
  <2> QED
    BY <1>3, <2>1, <2>2, <2>3, <2>4, <2>5, <2>6 DEF Failure
<1>4. CASE User
  <2>1. ASSUME NEW f \in Files, NEW v \in Values, Save(f, v) PROVE OkInv'
    BY <2>1 DEF Save
  <2>2. CASE Snapshot
    BY <2>2 DEF Snapshot
  <2>3. CASE CommitStaged
    BY <2>3 DEF CommitStaged
  <2>4. ASSUME NEW revision \in Revisions, Begin(revision) PROVE OkInv'
    BY <2>4 DEF Begin
  <2> QED
    BY <1>4, <2>1, <2>2, <2>3, <2>4 DEF User
<1>5. CASE UNCHANGED vars
  BY <1>5 DEF vars
<1> QED
  BY <1>1, <1>2, <1>3, <1>4, <1>5 DEF Next

LEMMA ProgressStep == TypeOK /\ PhaseInv /\ ProgressInv /\ [Next]_vars => ProgressInv'
<1> SUFFICES ASSUME TypeOK /\ PhaseInv /\ ProgressInv, [Next]_vars PROVE ProgressInv'
  OBVIOUS
<1> USE DEF ProgressInv, PhaseInv, RestorePcs, RollbackPcs, ManifestPhases, Unsettled, KeepRecorded, TypeOK, States, Files
<1>1. CASE Restore
  <2>1. CASE PreserveCurrent
    BY <2>1 DEF PreserveCurrent, Goto
  <2>2. CASE FindRetainedJournal
    BY <2>2 DEF FindRetainedJournal, Goto
  <2>3. CASE StageFiles
    BY <2>3 DEF StageFiles, Goto, NoManifest
  <2>4. CASE PublishPrepared
    BY <2>4 DEF PublishPrepared, Goto
  <2>5. CASE BeginApply
    BY <2>5 DEF BeginApply, WritePhase
  <2>6. CASE ReplaceFile
    BY <2>6 DEF ReplaceFile
  <2>7. CASE ReplaceRemoves
    BY <2>7 DEF ReplaceRemoves, Goto
  <2>8. CASE FinishApply
    <3>1. \A f \in Files : live[f] = journal.next[f]
      BY <2>8, NAssumption DEF FinishApply
    <3>2. live = journal.next
      BY <3>1, Extensional
    <3> QED
      BY <2>8, <3>2 DEF FinishApply, WritePhase, Goto
  <2>9. CASE MarkRecording
    BY <2>9 DEF MarkRecording, Goto
  <2>10. CASE CommitRestored
    BY <2>10 DEF CommitRestored, Goto
  <2>11. CASE MarkRecorded
    BY <2>11 DEF MarkRecorded, WritePhase, Goto
  <2>12. CASE CleanupRecorded
    BY <2>12 DEF CleanupRecorded, Answer, NoManifest
  <2>13. CASE StageCurrent \/ StageRestored
    BY <2>13 DEF StageCurrent, StageRestored, StageSnapshot
  <2> QED
    BY <1>1, <2>1, <2>2, <2>3, <2>4, <2>5, <2>6, <2>7, <2>8, <2>9, <2>10, <2>11, <2>12, <2>13 DEF Restore
<1>2. CASE Recovery
  <2>1. CASE Start
    BY <2>1 DEF Start
  <2>2. CASE Recover
    BY <2>2 DEF Recover, Goto
  <2>3. CASE BeginRollback
    BY <2>3 DEF BeginRollback, WritePhase
  <2>4. CASE ReinstateFile
    BY <2>4 DEF ReinstateFile
  <2>5. CASE ReinstateRemoves
    BY <2>5 DEF ReinstateRemoves, Goto
  <2>6. CASE FinishRollback
    BY <2>6 DEF FinishRollback, WritePhase, Goto
  <2>7. CASE RemovePartly
    BY <2>7 DEF RemovePartly, NoManifest
  <2>8. CASE RemoveJournal
    BY <2>8 DEF RemoveJournal, RollbackReturns, StartServices, Answer, NoManifest
  <2> QED
    BY <1>2, <2>1, <2>2, <2>3, <2>4, <2>5, <2>6, <2>7, <2>8 DEF Recovery
<1>3. CASE Failure
  <2>1. CASE PreserveFails
    BY <2>1 DEF PreserveFails, Answer
  <2>2. CASE PrepareFails
    BY <2>2 DEF PrepareFails, Goto
  <2>3. CASE ForwardFails
    BY <2>3 DEF ForwardFails, Goto
  <2>4. CASE KeepRecordedUnreadable
    BY <2>4 DEF KeepRecordedUnreadable, Goto
  <2>5. CASE RollbackFails
    BY <2>5 DEF RollbackFails, RollbackThrows, Answer, StopProcess
  <2>6. CASE Crash
    BY <2>6 DEF Crash, StopProcess
  <2> QED
    BY <1>3, <2>1, <2>2, <2>3, <2>4, <2>5, <2>6 DEF Failure
<1>4. CASE User
  <2>1. ASSUME NEW f \in Files, NEW v \in Values, Save(f, v) PROVE ProgressInv'
    BY <2>1 DEF Save
  <2>2. CASE Snapshot
    BY <2>2 DEF Snapshot
  <2>3. CASE CommitStaged
    BY <2>3 DEF CommitStaged
  <2>4. ASSUME NEW revision \in Revisions, Begin(revision) PROVE ProgressInv'
    BY <2>4 DEF Begin
  <2> QED
    BY <1>4, <2>1, <2>2, <2>3, <2>4 DEF User
<1>5. CASE UNCHANGED vars
  BY <1>5 DEF vars
<1> QED
  BY <1>1, <1>2, <1>3, <1>4, <1>5 DEF Next

LEMMA HeadStep == TypeOK /\ PhaseInv /\ ProgressInv /\ HeadInv /\ [Next]_vars => HeadInv'
<1> SUFFICES ASSUME TypeOK /\ PhaseInv /\ ProgressInv /\ HeadInv, [Next]_vars PROVE HeadInv'
  OBVIOUS
<1> USE DEF HeadInv, CurrentIsPreserved, PhaseInv, RestorePcs, RollbackPcs, ManifestPhases, Unsettled, KeepRecorded, TypeOK
<1>1. CASE Restore
  <2>1. CASE PreserveCurrent
    BY <2>1 DEF PreserveCurrent, Goto
  <2>2. CASE FindRetainedJournal
    BY <2>2 DEF FindRetainedJournal, Goto
  <2>3. CASE StageFiles
    BY <2>3 DEF StageFiles, Goto, NoManifest
  <2>4. CASE PublishPrepared
    BY <2>4 DEF PublishPrepared, Goto
  <2>5. CASE BeginApply
    BY <2>5 DEF BeginApply, WritePhase
  <2>6. CASE ReplaceFile
    BY <2>6 DEF ReplaceFile
  <2>7. CASE ReplaceRemoves
    BY <2>7 DEF ReplaceRemoves, Goto
  <2>8. CASE FinishApply
    BY <2>8 DEF FinishApply, WritePhase, Goto
  <2>9. CASE MarkRecording
    BY <2>9 DEF MarkRecording, Goto
  <2>10. CASE CommitRestored
    BY <2>10 DEF CommitRestored, Goto
  <2>11. CASE MarkRecorded
    BY <2>11 DEF MarkRecorded, WritePhase, Goto
  <2>12. CASE CleanupRecorded
    BY <2>12 DEF CleanupRecorded, Answer, NoManifest
  <2>13. CASE StageCurrent \/ StageRestored
    BY <2>13 DEF StageCurrent, StageRestored, StageSnapshot, Snapshots
  <2> QED
    BY <1>1, <2>1, <2>2, <2>3, <2>4, <2>5, <2>6, <2>7, <2>8, <2>9, <2>10, <2>11, <2>12, <2>13 DEF Restore
<1>2. CASE Recovery
  <2>1. CASE Start
    BY <2>1 DEF Start
  <2>2. CASE Recover
    BY <2>2 DEF Recover, Goto
  <2>3. CASE BeginRollback
    BY <2>3 DEF BeginRollback, WritePhase
  <2>4. CASE ReinstateFile
    BY <2>4 DEF ReinstateFile
  <2>5. CASE ReinstateRemoves
    BY <2>5 DEF ReinstateRemoves, Goto
  <2>6. CASE FinishRollback
    BY <2>6 DEF FinishRollback, WritePhase, Goto
  <2>7. CASE RemovePartly
    BY <2>7 DEF RemovePartly, NoManifest
  <2>8. CASE RemoveJournal
    BY <2>8 DEF RemoveJournal, RollbackReturns, StartServices, Answer, NoManifest
  <2> QED
    BY <1>2, <2>1, <2>2, <2>3, <2>4, <2>5, <2>6, <2>7, <2>8 DEF Recovery
<1>3. CASE Failure
  <2>1. CASE PreserveFails
    BY <2>1 DEF PreserveFails, Answer
  <2>2. CASE PrepareFails
    BY <2>2 DEF PrepareFails, Goto
  <2>3. CASE ForwardFails
    BY <2>3 DEF ForwardFails, Goto
  <2>4. CASE KeepRecordedUnreadable
    BY <2>4 DEF KeepRecordedUnreadable, Goto
  <2>5. CASE RollbackFails
    BY <2>5 DEF RollbackFails, RollbackThrows, Answer, StopProcess
  <2>6. CASE Crash
    BY <2>6 DEF Crash, StopProcess
  <2> QED
    BY <1>3, <2>1, <2>2, <2>3, <2>4, <2>5, <2>6 DEF Failure
<1>4. CASE User
  <2>1. ASSUME NEW f \in Files, NEW v \in Values, Save(f, v) PROVE HeadInv'
    BY <2>1 DEF Save
  <2>2. CASE Snapshot
    BY <2>2 DEF Snapshot
  <2>3. CASE CommitStaged
    BY <2>3 DEF CommitStaged
  <2>4. ASSUME NEW revision \in Revisions, Begin(revision) PROVE HeadInv'
    BY <2>4 DEF Begin
  <2> QED
    BY <1>4, <2>1, <2>2, <2>3, <2>4 DEF User
<1>5. CASE UNCHANGED vars
  BY <1>5 DEF vars
<1> QED
  BY <1>1, <1>2, <1>3, <1>4, <1>5 DEF Next

(* The inductive invariant: what every property below follows from.         *)
THEOREM JournalCorrect == Spec => []JournalInv
<1>1. Init => JournalInv
  <2> SUFFICES ASSUME Init PROVE JournalInv
    OBVIOUS
  <2>1. TypeOK
    BY InitType
  <2> QED
    BY <2>1 DEF Init, JournalInv, PhaseInv, ProgressInv, HeadInv, OkInv,
       OkIsDurable, CurrentIsPreserved, NoManifest, RestorePcs, Unsettled
<1>2. JournalInv /\ [Next]_vars => JournalInv'
  BY TypeStep, PhaseStep, ProgressStep, HeadStep, OkStep DEF JournalInv
<1> QED
  BY <1>1, <1>2, PTL DEF Spec

(* A restore reported as done is never undone by a later recovery.          *)
THEOREM OkStaysDone == Spec => []OkIsDurable
<1>1. JournalInv => OkIsDurable
  BY DEF JournalInv, OkInv
<1> QED
  BY <1>1, JournalCorrect, PTL

(* The state that a restore overwrites is the one HEAD holds, unless the    *)
(* snapshot of it missed a file without telling the restore.                *)
THEOREM CurrentStaysInHistory == Spec => []CurrentIsPreserved
<1>1. JournalInv => CurrentIsPreserved
  BY DEF JournalInv, HeadInv
<1> QED
  BY <1>1, JournalCorrect, PTL

(* No interleaving of crashes, refused renames and retries lets a journal   *)
(* claim to be rolled back or recorded over a file of the other side, or    *)
(* recorded without HEAD being this restore's commit.                       *)
THEOREM SettledFilesAreWhole == Spec => SettledIsWhole
<1> DEFINE Settles ==
       /\ journal'.phase = "rolled-back" /\ journal.phase # "rolled-back"
            => live' = journal'.prev
       /\ journal'.phase = "recorded" /\ journal.phase # "recorded"
            => /\ live' = journal'.next
               /\ head'.label = journal'.label
               /\ "restored" \in txn.missed \/ head'.tree = TreeOf(live')
<1>1. JournalInv /\ [Next]_vars => [Settles]_vars
  <2> SUFFICES ASSUME JournalInv, Next PROVE Settles
    OBVIOUS
  <2> USE DEF JournalInv, TypeOK
  <2>1. CASE MarkRecorded
    BY <2>1 DEF MarkRecorded, WritePhase, ProgressInv, HeadInv, PhaseInv
  <2>2. CASE FinishRollback
    <3>1. \A f \in Files : live[f] = journal.prev[f]
      BY <2>2, NAssumption DEF FinishRollback, ProgressInv, PhaseInv, Files
    <3>2. live = journal.prev
      BY <3>1, Extensional
    <3> QED
      BY <2>2, <3>2 DEF FinishRollback, WritePhase, PhaseInv
  <2>3. CASE ~MarkRecorded /\ ~FinishRollback
    <3>1. journal' = journal \/ journal'.phase \notin {"rolled-back", "recorded"}
      <4>1. CASE Restore
        <5>1. CASE BeginApply \/ FinishApply \/ MarkRecording
          BY <5>1 DEF BeginApply, FinishApply, MarkRecording, WritePhase
        <5>2. CASE StageFiles \/ PublishPrepared \/ CleanupRecorded
          BY <5>2 DEF StageFiles, PublishPrepared, CleanupRecorded, NoManifest
        <5>3. CASE PreserveCurrent \/ FindRetainedJournal \/ ReplaceFile
                   \/ ReplaceRemoves \/ CommitRestored
          BY <5>3 DEF PreserveCurrent, FindRetainedJournal, ReplaceFile,
             ReplaceRemoves, CommitRestored
        <5>4. CASE StageCurrent \/ StageRestored
          BY <5>4 DEF StageCurrent, StageRestored, StageSnapshot
        <5> QED
          BY <2>3, <4>1, <5>1, <5>2, <5>3, <5>4 DEF Restore
      <4>2. CASE Recovery
        BY <2>3, <4>2 DEF Recovery, Start, Recover, BeginRollback,
           ReinstateFile, ReinstateRemoves, RemovePartly, RemoveJournal,
           WritePhase, NoManifest
      <4>3. CASE Failure
        BY <4>3 DEF Failure, PreserveFails, PrepareFails, ForwardFails,
           KeepRecordedUnreadable, RollbackFails, Crash
      <4>4. CASE User
        BY <4>4 DEF User, Save, Snapshot, CommitStaged, Begin
      <4> QED
        BY <4>1, <4>2, <4>3, <4>4 DEF Next
    <3> QED
      BY <3>1
  <2> QED
    BY <2>1, <2>2, <2>3
<1> QED
  BY <1>1, JournalCorrect, PTL DEF Spec, SettledIsWhole

(***************************************************************************)
(* The refinement: crashes, failures of the forward path and failures of   *)
(* startup recovery are unrestricted.                                      *)
(***************************************************************************)
NoAbandonedRollback == Limit["rollbackFault"] = 0

LEMMA SettledStep == NoAbandonedRollback /\ JournalInv /\ SettledInv /\ [Next]_vars => SettledInv'
<1> SUFFICES ASSUME NoAbandonedRollback /\ JournalInv /\ SettledInv, [Next]_vars PROVE SettledInv'
  OBVIOUS
<1> USE DEF SettledInv, JournalInv, PhaseInv, RestorePcs, RollbackPcs, Unsettled, KeepRecorded, TypeOK, Kinds, NoAbandonedRollback
<1>1. CASE Restore
  <2>1. CASE PreserveCurrent
    BY <2>1 DEF PreserveCurrent, HeadInv, Goto
  <2>2. CASE FindRetainedJournal
    BY <2>2 DEF FindRetainedJournal, HeadInv, Goto
  <2>3. CASE StageFiles
    BY <2>3 DEF StageFiles, Goto, NoManifest
  <2>4. CASE PublishPrepared
    BY <2>4 DEF PublishPrepared, Goto
  <2>5. CASE BeginApply
    BY <2>5 DEF BeginApply, ProgressInv, WritePhase
  <2>6. CASE ReplaceFile
    BY <2>6 DEF ReplaceFile
  <2>7. CASE ReplaceRemoves
    BY <2>7 DEF ReplaceRemoves, Goto
  <2>8. CASE FinishApply
    BY <2>8 DEF FinishApply, WritePhase, Goto
  <2>9. CASE MarkRecording
    BY <2>9 DEF MarkRecording, ProgressInv, Goto
  <2>10. CASE CommitRestored
    BY <2>10 DEF CommitRestored, Goto
  <2>11. CASE MarkRecorded
    BY <2>11 DEF MarkRecorded, WritePhase, Goto
  <2>12. CASE CleanupRecorded
    BY <2>12 DEF CleanupRecorded, Answer, NoManifest, Spend
  <2>13. CASE StageCurrent \/ StageRestored
    BY <2>13, StageType DEF StageCurrent, StageRestored, StageSnapshot, HeadInv, ProgressInv
  <2> QED
    BY <1>1, <2>1, <2>2, <2>3, <2>4, <2>5, <2>6, <2>7, <2>8, <2>9, <2>10, <2>11, <2>12, <2>13 DEF Restore
<1>2. CASE Recovery
  <2>1. CASE Start
    BY <2>1 DEF Start
  <2>2. CASE Recover
    BY <2>2 DEF Recover, Goto
  <2>3. CASE BeginRollback
    BY <2>3 DEF BeginRollback, WritePhase
  <2>4. CASE ReinstateFile
    BY <2>4 DEF ReinstateFile
  <2>5. CASE ReinstateRemoves
    BY <2>5 DEF ReinstateRemoves, Goto
  <2>6. CASE FinishRollback
    <3>1. \A f \in Files : live[f] = journal.prev[f]
      BY <2>6, NAssumption DEF FinishRollback, ProgressInv, Files
    <3>2. live = journal.prev
      BY <3>1, Extensional
    <3> QED
      BY <2>6, <3>2 DEF FinishRollback, WritePhase, Goto
  <2>7. CASE RemovePartly
    BY <2>7 DEF RemovePartly, NoManifest
  <2>8. CASE RemoveJournal
    BY <2>8 DEF RemoveJournal, RollbackReturns, StartServices, Answer, NoManifest
  <2> QED
    BY <1>2, <2>1, <2>2, <2>3, <2>4, <2>5, <2>6, <2>7, <2>8 DEF Recovery
<1>3. CASE Failure
  <2>1. CASE PreserveFails
    BY <2>1 DEF PreserveFails, Answer, Spend
  <2>2. CASE PrepareFails
    BY <2>2 DEF PrepareFails, HeadInv, Goto, Spend
  <2>3. CASE ForwardFails
    BY <2>3 DEF ForwardFails, ProgressInv, Goto, Spend
  <2>4. CASE KeepRecordedUnreadable
    BY <2>4 DEF KeepRecordedUnreadable, Goto, Spend, SpendRollbackFault
  <2>5. CASE RollbackFails
    BY <2>5 DEF RollbackFails, RollbackThrows, Answer, StopProcess, Spend, SpendRollbackFault
  <2>6. CASE Crash
    BY <2>6 DEF Crash, StopProcess, Spend
  <2> QED
    BY <1>3, <2>1, <2>2, <2>3, <2>4, <2>5, <2>6 DEF Failure
<1>4. CASE User
  <2>1. ASSUME NEW f \in Files, NEW v \in Values, Save(f, v) PROVE SettledInv'
    BY <2>1 DEF Save, Spend
  <2>2. CASE Snapshot
    BY <2>2, StageType DEF Snapshot
  <2>3. CASE CommitStaged
    BY <2>3 DEF CommitStaged
  <2>4. ASSUME NEW revision \in Revisions, Begin(revision) PROVE SettledInv'
    BY <2>4 DEF Begin, Spend
  <2> QED
    BY <1>4, <2>1, <2>2, <2>3, <2>4 DEF User
<1>5. CASE UNCHANGED vars
  BY <1>5 DEF vars
<1> QED
  BY <1>1, <1>2, <1>3, <1>4, <1>5 DEF Next

LEMMA SettledCorrect == ASSUME NoAbandonedRollback
                        PROVE  Spec => [](JournalInv /\ SettledInv)
<1>1. Init => SettledInv
  BY DEF Init, SettledInv, NoManifest, Kinds, Unsettled
<1>2. JournalInv /\ SettledInv /\ [Next]_vars => SettledInv'
  BY SettledStep
<1> QED
  BY <1>1, <1>2, JournalCorrect, PTL DEF Spec

(* With every rollback carried through, no service ever runs over a journal *)
(* that the next recovery would apply to its files.                         *)
THEOREM ServesOnlySettled == ASSUME NoAbandonedRollback PROVE Spec => []ServesSettled
<1>1. SettledInv => ServesSettled
  BY DEF SettledInv, ServesSettled
<1> QED
  BY <1>1, SettledCorrect, PTL

(* When a restore reports that the prior state was reinstated, it was.      *)
THEOREM ReinstatedTheTruth == ASSUME NoAbandonedRollback
                              PROVE  Spec => ReinstatedIsPrior
<1> DEFINE Truth == answer' = "reinstated" /\ answer # "reinstated"
                       => live' = txn.prev
<1>1. JournalInv /\ SettledInv /\ [Next]_vars => [Truth]_vars
  <2> SUFFICES ASSUME JournalInv, SettledInv, Next PROVE Truth
    OBVIOUS
  <2>1. CASE RemoveJournal
    BY <2>1 DEF RemoveJournal, RollbackReturns, StartServices, Answer, SettledInv
  <2>2. CASE ~RemoveJournal
    <3>1. answer' = answer \/ answer' # "reinstated"
      <4>1. CASE Restore
        BY <4>1 DEF Restore, StageCurrent, StageRestored, StageSnapshot,
           PreserveCurrent, FindRetainedJournal, StageFiles,
           PublishPrepared, BeginApply, ReplaceFile, ReplaceRemoves, FinishApply,
           MarkRecording, CommitRestored, MarkRecorded, CleanupRecorded, Goto, Answer
      <4>2. CASE Recovery
        BY <2>2, <4>2 DEF Recovery, Start, Recover, BeginRollback, ReinstateFile,
           ReinstateRemoves, FinishRollback, RemovePartly, Goto
      <4>3. CASE Failure
        BY <4>3 DEF Failure, PreserveFails, PrepareFails, ForwardFails,
           KeepRecordedUnreadable, RollbackFails, RollbackThrows, Crash, Goto,
           Answer, StopProcess
      <4>4. CASE User
        BY <4>4 DEF User, Save, Snapshot, CommitStaged, Begin
      <4> QED
        BY <4>1, <4>2, <4>3, <4>4 DEF Next
    <3> QED
      BY <3>1
  <2> QED
    BY <2>1, <2>2
<1> QED
  BY <1>1, SettledCorrect, PTL DEF Spec, ReinstatedIsPrior
-----------------------------------------------------------------------------
(* The refinement mapping, phase by phase. *)

LEMMA SettledMapping == journal.phase \notin Unsettled
                        => DurableState = live /\ PendingRequest = NoRequest
  BY DEF DurableState, PendingRequest, Unsettled

LEMMA PendingMapping ==
    ASSUME TypeOK, journal.phase \in Unsettled
    PROVE  /\ PendingRequest = [from |-> journal.prev, to |-> journal.next]
           /\ PendingRequest # NoRequest
           /\ DurableState = IF journal.phase = "recording" /\ head.label = journal.label
                             THEN journal.next ELSE journal.prev
  BY NoRequestAssumption DEF TypeOK, DurableState, PendingRequest

LEMMA InitRefines == Init => Atomic!Init
<1> SUFFICES ASSUME Init PROVE Atomic!Init
  OBVIOUS
<1>1. journal.phase \notin Unsettled
  BY DEF Init, NoManifest, Unsettled
<1> QED
  BY <1>1, SettledMapping DEF Init, Atomic!Init, Atomic!States, States

LEMMA StepRefines == TypeOK /\ TypeOK' /\ JournalInv /\ SettledInv /\ [Next]_vars
                     => [Atomic!Next]_(Atomic!vars)
<1> SUFFICES ASSUME TypeOK, TypeOK', JournalInv, SettledInv, [Next]_vars
             PROVE  Atomic!Next \/ UNCHANGED Atomic!vars
  OBVIOUS
<1> DEFINE Stutters == UNCHANGED Atomic!vars
<1>a. ASSUME UNCHANGED <<live, journal, head>> PROVE Stutters
  BY <1>a DEF Atomic!vars, DurableState, PendingRequest
<1>b. ASSUME journal.phase \notin Unsettled, journal'.phase \notin Unsettled, live' = live
      PROVE  Stutters
  <2>1. DurableState = live /\ PendingRequest = NoRequest
    BY <1>b, SettledMapping
  <2>2. DurableState' = live' /\ PendingRequest' = NoRequest
    BY <1>b DEF DurableState, PendingRequest, Unsettled
  <2> QED
    BY <1>b, <2>1, <2>2 DEF Atomic!vars
<1>c. ASSUME journal.phase \in Unsettled, journal'.phase \in Unsettled,
             journal'.prev = journal.prev, journal'.next = journal.next
      PROVE  Atomic!Next \/ Stutters
  <2>1. /\ PendingRequest = [from |-> journal.prev, to |-> journal.next]
        /\ PendingRequest # NoRequest
        /\ DurableState \in {journal.prev, journal.next}
    BY <1>c, PendingMapping
  <2>2. /\ PendingRequest' = PendingRequest
        /\ DurableState' \in {journal.prev, journal.next}
    BY <1>c, <2>1 DEF PendingRequest, DurableState, Unsettled
  <2>3. Atomic!TakeEffect \/ Atomic!TakeBack
    BY <2>1, <2>2 DEF Atomic!TakeEffect, Atomic!TakeBack
  <2> QED
    BY <2>3 DEF Atomic!Next
<1>d. ASSUME journal.phase \in Unsettled, journal'.phase \notin Unsettled,
             live' = live, live = DurableState
      PROVE  Atomic!Next
  <2>1. PendingRequest # NoRequest
    BY <1>d, PendingMapping
  <2>2. DurableState' = live' /\ PendingRequest' = NoRequest
    BY <1>d DEF DurableState, PendingRequest, Unsettled
  <2>3. Atomic!Settle
    BY <1>d, <2>1, <2>2 DEF Atomic!Settle
  <2> QED
    BY <2>3 DEF Atomic!Next
<1>1. CASE Restore
  <2> USE DEF JournalInv, PhaseInv, TypeOK, Unsettled
  <2>1. CASE PreserveCurrent
    BY <2>1, <1>b DEF PreserveCurrent, SettledInv
  <2>2. CASE FindRetainedJournal
    BY <2>2, <1>a DEF FindRetainedJournal
  <2>3. CASE StageFiles
    BY <2>3, <1>b DEF StageFiles, NoManifest
  <2>4. CASE PublishPrepared
    <3>1. DurableState = txn.prev /\ PendingRequest = NoRequest
      BY <2>4, SettledMapping DEF PublishPrepared, HeadInv
    <3>2. DurableState' = txn.prev /\ PendingRequest' = [from |-> txn.prev, to |-> txn.next]
      BY <2>4 DEF PublishPrepared, DurableState, PendingRequest
    <3>3. txn.next \in Atomic!States
      BY DEF Atomic!States, States
    <3>4. Atomic!Submit(txn.next)
      BY <3>1, <3>2 DEF Atomic!Submit
    <3> QED
      BY <3>3, <3>4 DEF Atomic!Next
  <2>5. CASE BeginApply \/ FinishApply \/ MarkRecording
    BY <2>5, <1>c DEF BeginApply, FinishApply, MarkRecording, WritePhase
  <2>6. CASE ReplaceFile \/ ReplaceRemoves
    BY <2>6, <1>c DEF ReplaceFile, ReplaceRemoves
  <2>7. CASE CommitRestored
    BY <2>7, <1>c DEF CommitRestored
  <2>8. CASE MarkRecorded
    <3>1. live = DurableState
      BY <2>8, PendingMapping DEF MarkRecorded, ProgressInv, HeadInv
    <3> QED
      BY <2>8, <3>1, <1>d DEF MarkRecorded, WritePhase
  <2>9. CASE CleanupRecorded
    BY <2>9, <1>b DEF CleanupRecorded, NoManifest
  <2>10. CASE StageCurrent \/ StageRestored
    BY <2>10, <1>a DEF StageCurrent, StageRestored, StageSnapshot
  <2> QED
    BY <1>1, <2>1, <2>2, <2>3, <2>4, <2>5, <2>6, <2>7, <2>8, <2>9, <2>10 DEF Restore
<1>2. CASE Recovery
  <2> USE DEF JournalInv, PhaseInv, TypeOK, Unsettled
  <2>1. CASE Start \/ Recover
    BY <2>1, <1>a DEF Start, Recover
  <2>2. CASE BeginRollback
    BY <2>2, <1>c DEF BeginRollback, WritePhase
  <2>3. CASE ReinstateFile \/ ReinstateRemoves
    BY <2>3, <1>c DEF ReinstateFile, ReinstateRemoves
  <2>4. CASE FinishRollback
    <3>1. \A f \in Files : live[f] = journal.prev[f]
      BY <2>4, NAssumption DEF FinishRollback, ProgressInv, Files
    <3>2. live = journal.prev
      BY <3>1, Extensional
    <3>3. live = DurableState
      BY <2>4, <3>2, PendingMapping DEF FinishRollback
    <3> QED
      BY <2>4, <3>3, <1>d DEF FinishRollback, WritePhase
  <2>5. CASE RemovePartly \/ RemoveJournal
    <3>1. journal'.phase \notin Unsettled /\ live' = live
      BY <2>5 DEF RemovePartly, RemoveJournal, NoManifest
    <3>2. CASE journal.phase \in Unsettled
      <4>1. KeepRecorded
        BY <2>5, <3>2 DEF RemovePartly, RemoveJournal
      <4>2. live = DurableState
        BY <4>1, <3>2, PendingMapping DEF KeepRecorded, SettledInv
      <4> QED
        BY <3>1, <3>2, <4>2, <1>d
    <3> QED
      BY <3>1, <3>2, <1>b
  <2> QED
    BY <1>2, <2>1, <2>2, <2>3, <2>4, <2>5 DEF Recovery
<1>3. CASE Failure
  BY <1>3, <1>a DEF Failure, PreserveFails, PrepareFails, ForwardFails,
     KeepRecordedUnreadable, RollbackFails, Crash
<1>4. CASE User
  <2>1. ASSUME NEW f \in Files, NEW v \in Values, Save(f, v) PROVE Atomic!Next
    <3>1. journal.phase \notin Unsettled /\ journal' = journal
      BY <2>1 DEF Save, SettledInv
    <3>2. DurableState = live /\ PendingRequest = NoRequest
      BY <3>1, SettledMapping
    <3>3. DurableState' = live' /\ PendingRequest' = NoRequest
      BY <3>1 DEF DurableState, PendingRequest, Unsettled
    <3>4. Atomic!Save(f, v)
      BY <2>1, <3>2, <3>3 DEF Save, Atomic!Save
    <3> QED
      BY <3>4 DEF Atomic!Next, Contents
  <2>2. CASE Snapshot \/ CommitStaged
    BY <2>2, <1>b DEF Snapshot, CommitStaged, SettledInv
  <2>3. ASSUME NEW revision \in Revisions, Begin(revision) PROVE Stutters
    BY <2>3, <1>a DEF Begin
  <2> QED
    BY <1>4, <2>1, <2>2, <2>3 DEF User
<1>5. CASE UNCHANGED vars
  BY <1>5, <1>a DEF vars
<1> QED
  BY <1>1, <1>2, <1>3, <1>4, <1>5 DEF Next

(* The restore is all or nothing: whatever crashes and failures happen, the *)
(* durable state moves from the prior state to the restored one in a single *)
(* step, the git commit, and no user save is ever lost.                     *)
THEOREM RestoreIsAtomic == ASSUME NoAbandonedRollback PROVE Spec => AllOrNothing
<1>1. JournalInv => TypeOK
  BY DEF JournalInv
<1> QED
  BY <1>1, InitRefines, StepRefines, SettledCorrect, PTL
  DEF Spec, AllOrNothing, Atomic!Spec

(***************************************************************************)
(* TabLayout.  The inductive invariant is that the layout is Sound.  Each  *)
(* dispatch edits it, possibly beyond what is accepted (it is Rough then:  *)
(* any order, any links), and renormalizes the outcome (Renormalized).     *)
(* That a sound layout is shown as it is (ShownAsItIs) rests on the order  *)
(* of the rail being linear, so that a place counts the tabs ahead.        *)
(***************************************************************************)

TabSet == [open : BOOLEAN, pinned : BOOLEAN, group : Links, previous : Links, order : Int]
LayoutSet == [active : Tabs, groups : Seq(GroupIds), tabs : [Tabs -> TabSet]]

(* What a dispatch makes before it is renormalized: any order, any links.  *)
Rough(w) == /\ w \in LayoutSet
            /\ Len(w.groups) <= MaxGroups
            /\ w.tabs[w.active].open

Sound(w) == Rough(w) /\ LinksAccepted(w)
-----------------------------------------------------------------------------
LEMMA TabsFinite == IsFiniteSet(Tabs) /\ Cardinality(Tabs) = TabCount /\ TabCount \in Nat
<1>1. TabCount \in Nat /\ TabCount >= 1
  BY TabLayoutAssumption DEF LastPlace
<1> QED
  BY <1>1, FS_Interval DEF Tabs

(* How many tabs are before one. *)
LEMMA CountOk ==
  ASSUME NEW t \in Tabs, NEW S, S \subseteq Tabs \ {t}
  PROVE  /\ IsFiniteSet(S) /\ Cardinality(S) \in 0..(TabCount - 1)
         /\ Cardinality(S) \in 0..LastPlace
<1>1. IsFiniteSet(Tabs \ {t}) /\ Cardinality(Tabs \ {t}) = TabCount - 1
  BY TabsFinite, FS_RemoveElement
<1>2. IsFiniteSet(S) /\ Cardinality(S) \in Nat /\ Cardinality(S) <= TabCount - 1
  BY <1>1, FS_Subset, FS_CardinalityType
<1> QED
  BY <1>2, TabsFinite, TabLayoutAssumption DEF LastPlace

LEMMA EditedIsRough ==
  ASSUME NEW w, Rough(w), NEW f \in [Tabs -> TabSet], f[w.active].open
  PROVE  LET v == [w EXCEPT !.tabs = f]
         IN  Rough(v) /\ v.groups = w.groups /\ v.active = w.active /\ v.tabs = f
<1> DEFINE v == [w EXCEPT !.tabs = f]
<1>1. v.groups = w.groups /\ v.active = w.active /\ v.tabs = f
  BY DEF Rough, LayoutSet
<1>2. v \in LayoutSet
  BY DEF Rough, LayoutSet
<1> QED
  BY <1>1, <1>2 DEF Rough

LEMMA ExistingIsLink ==
  ASSUME NEW w, NEW g \in Links
  PROVE  /\ Existing(w, g) \in Links
         /\ Existing(w, g) \in GroupsOf(w) \cup {NoGroup}
BY DEF Existing, Links

(* Each tab is unlinked from groups that are gone. *)
LEMMA UnlinkedTabs ==
  ASSUME NEW w, Rough(w)
  PROVE  LET u == UnlinkGone(w)
         IN  /\ Rough(u) /\ u.groups = w.groups /\ u.active = w.active
             /\ \A t \in Tabs :
                   /\ u.tabs[t].open = w.tabs[t].open
                   /\ u.tabs[t].pinned = w.tabs[t].pinned
                   /\ u.tabs[t].group = IF w.tabs[t].pinned THEN NoGroup
                                        ELSE Existing(w, w.tabs[t].group)
                   /\ u.tabs[t].previous = Existing(w, w.tabs[t].previous)
<1> DEFINE f == [t \in Tabs |-> IF t \in Tabs
                   THEN [w.tabs[t] EXCEPT
                           !.group = IF w.tabs[t].pinned THEN NoGroup ELSE Existing(w, @),
                           !.previous = Existing(w, @)]
                   ELSE w.tabs[t]]
           u == [w EXCEPT !.tabs = f]
<1>1. UnlinkGone(w) = u
  BY DEF UnlinkGone, Edit
<1>2. ASSUME NEW t \in Tabs
      PROVE  /\ f[t] \in TabSet
             /\ f[t].open = w.tabs[t].open /\ f[t].pinned = w.tabs[t].pinned
             /\ f[t].group = IF w.tabs[t].pinned THEN NoGroup
                             ELSE Existing(w, w.tabs[t].group)
             /\ f[t].previous = Existing(w, w.tabs[t].previous)
  <2>1. w.tabs[t] \in TabSet
    BY DEF Rough, LayoutSet
  <2>2. /\ Existing(w, w.tabs[t].group) \in Links
        /\ Existing(w, w.tabs[t].previous) \in Links /\ NoGroup \in Links
    BY <2>1, ExistingIsLink DEF TabSet, Links
  <2> QED
    BY <2>1, <2>2 DEF TabSet
<1>3. f \in [Tabs -> TabSet] /\ w.active \in Tabs
  BY <1>2 DEF Rough, LayoutSet
<1>4. f[w.active].open
  BY <1>2, <1>3 DEF Rough
<1> HIDE DEF f
<1>5. Rough(u) /\ u.groups = w.groups /\ u.active = w.active /\ u.tabs = f
  BY <1>3, <1>4, EditedIsRough
<1> QED
  BY <1>1, <1>2, <1>5

(* A layout that was renormalized is one that the schema accepts.          *)
LEMMA Renormalized ==
  ASSUME NEW w, Rough(w)
  PROVE  LET n == Renormalize(w)
         IN  /\ Sound(n) /\ n.groups = w.groups /\ n.active = w.active
             /\ \A t \in Tabs :
                   /\ n.tabs[t].open = w.tabs[t].open
                   /\ n.tabs[t].pinned = w.tabs[t].pinned
                   /\ n.tabs[t].group = IF w.tabs[t].pinned THEN NoGroup
                                        ELSE Existing(w, w.tabs[t].group)
<1> DEFINE u == UnlinkGone(w)
           f == [t \in Tabs |-> [u.tabs[t] EXCEPT !.order = Rank(u, SameRegion(u, t), t)]]
           n == [u EXCEPT !.tabs = f]
<1>1. Renormalize(w) = n
  BY DEF Renormalize
<1>2. /\ Rough(u) /\ u.groups = w.groups /\ u.active = w.active
      /\ \A t \in Tabs :
            /\ u.tabs[t].open = w.tabs[t].open
            /\ u.tabs[t].pinned = w.tabs[t].pinned
            /\ u.tabs[t].group = IF w.tabs[t].pinned THEN NoGroup
                                 ELSE Existing(w, w.tabs[t].group)
            /\ u.tabs[t].previous = Existing(w, w.tabs[t].previous)
  BY UnlinkedTabs
<1> HIDE DEF u
<1>3. ASSUME NEW t \in Tabs
      PROVE  /\ f[t] \in TabSet
             /\ f[t].open = u.tabs[t].open /\ f[t].pinned = u.tabs[t].pinned
             /\ f[t].group = u.tabs[t].group /\ f[t].previous = u.tabs[t].previous
             /\ f[t].order \in 0..LastPlace
  <2>1. u.tabs[t] \in TabSet
    BY <1>2 DEF Rough, LayoutSet
  <2>2. Rank(u, SameRegion(u, t), t) \in 0..LastPlace
    <3>1. {v \in SameRegion(u, t) : Earlier(u, v, t)} \subseteq Tabs \ {t}
      BY <2>1 DEF SameRegion, Earlier, TabSet, Tabs
    <3> QED
      BY <3>1, CountOk DEF Rank
  <2>3. 0..LastPlace \subseteq Int
    BY DEF LastPlace
  <2> QED
    BY <2>1, <2>2, <2>3 DEF TabSet
<1>4. f \in [Tabs -> TabSet] /\ u.active \in Tabs /\ f[u.active].open
  BY <1>2, <1>3 DEF Rough, LayoutSet
<1> HIDE DEF f
<1>5. Rough(n) /\ n.groups = u.groups /\ n.active = u.active /\ n.tabs = f
  BY <1>2, <1>4, EditedIsRough
<1> HIDE DEF n
<1>6. GroupsOf(n) = GroupsOf(w)
  BY <1>2, <1>5 DEF GroupsOf
<1>7. ASSUME NEW t \in Tabs
      PROVE  /\ n.tabs[t].group \in GroupsOf(n) \cup {NoGroup}
             /\ n.tabs[t].previous \in GroupsOf(n) \cup {NoGroup}
             /\ n.tabs[t].pinned => n.tabs[t].group = NoGroup
             /\ n.tabs[t].order \in 0..LastPlace
  <2>1. w.tabs[t].group \in Links /\ w.tabs[t].previous \in Links
    BY DEF Rough, LayoutSet, TabSet
  <2>2. /\ Existing(w, w.tabs[t].group) \in GroupsOf(w) \cup {NoGroup}
        /\ Existing(w, w.tabs[t].previous) \in GroupsOf(w) \cup {NoGroup}
    BY <2>1, ExistingIsLink
  <2> QED
    BY <1>2, <1>3, <1>5, <1>6, <2>2
<1>8. LinksAccepted(n)
  BY <1>2, <1>5, <1>7 DEF LinksAccepted, Rough
<1> QED
  BY <1>1, <1>2, <1>3, <1>5, <1>8 DEF Sound

(* The positions in K can be put in order, and each has its place.         *)
LEMMA InOrderExists ==
  ASSUME NEW K, K \subseteq Nat, IsFiniteSet(K)
  PROVE  \E at \in [1..Cardinality(K) -> K] :
            \A m, n \in 1..Cardinality(K) : m < n => at[m] < at[n]
<1> DEFINE before(k) == {j \in K : j < k}
           size == Cardinality(K)
           rank == [k \in K |-> Cardinality(before(k))]
<1>1. size \in Nat
  BY FS_CardinalityType
<1>2. ASSUME NEW k \in K
      PROVE  IsFiniteSet(before(k)) /\ Cardinality(before(k)) \in 0..(size - 1)
  <2>1. before(k) \subseteq K \ {k}
    OBVIOUS
  <2>2. IsFiniteSet(K \ {k}) /\ Cardinality(K \ {k}) = size - 1
    BY FS_RemoveElement
  <2>3. /\ IsFiniteSet(before(k)) /\ Cardinality(before(k)) <= size - 1
        /\ Cardinality(before(k)) \in Nat
    BY <2>1, <2>2, FS_Subset, FS_CardinalityType
  <2> QED
    BY <2>3, <1>1
<1>3. ASSUME NEW j \in K, NEW k \in K, j < k
      PROVE  Cardinality(before(j)) < Cardinality(before(k))
  <2>1. before(j) \subseteq before(k) /\ before(j) # before(k)
    <3>1. j \in before(k) /\ j \notin before(j)
      BY <1>3
    <3>2. ASSUME NEW i \in K, i < j PROVE i < k
      BY <1>3, <3>2
    <3>3. before(j) \subseteq before(k)
      BY <3>2
    <3> QED
      BY <3>1, <3>3
  <2>2. /\ Cardinality(before(j)) <= Cardinality(before(k))
        /\ Cardinality(before(j)) # Cardinality(before(k))
    BY <2>1, <1>2, FS_Subset
  <2> QED
    BY <2>2, <1>1, <1>2
<1> HIDE DEF before
<1>4. rank \in [K -> 0..(size - 1)]
  BY <1>2
<1>5. \A j, k \in K : rank[j] = rank[k] => j = k
  <2> SUFFICES ASSUME NEW j \in K, NEW k \in K, rank[j] = rank[k], j # k
               PROVE  FALSE
    OBVIOUS
  <2>1. j < k \/ k < j
    OBVIOUS
  <2>2. rank[j] \in Nat /\ rank[k] \in Nat
    BY <1>4, <1>1
  <2> QED
    BY <2>1, <2>2, <1>3
<1>6. rank \in Injection(K, 0..(size - 1))
  BY <1>4, <1>5 DEF Injection, IsInjective
<1>7. IsFiniteSet(0..(size - 1)) /\ Cardinality(0..(size - 1)) = size
  <2>1. 0 \in Int /\ size - 1 \in Int /\ (0 > size - 1 => size = 0)
    BY <1>1
  <2>2. /\ IsFiniteSet(0..(size - 1))
        /\ Cardinality(0..(size - 1)) = IF 0 > size - 1 THEN 0 ELSE size - 1 - 0 + 1
    BY <2>1, FS_Interval
  <2> QED
    BY <2>1, <2>2, <1>1
<1>8. rank \in Surjection(K, 0..(size - 1))
  BY <1>6, <1>7, FS_Injection
<1>9. \A r \in 0..(size - 1) : \E k \in K : rank[k] = r
  BY <1>8 DEF Surjection
<1> HIDE DEF rank
<1> DEFINE at == [m \in 1..size |-> CHOOSE k \in K : rank[k] = m - 1]
<1>10. ASSUME NEW m \in 1..size
       PROVE  at[m] \in K /\ rank[at[m]] = m - 1
  <2>1. m - 1 \in 0..(size - 1)
    BY <1>1
  <2> QED
    BY <2>1, <1>9
<1>11. \A j, k \in K : j < k => rank[j] < rank[k]
  BY <1>3 DEF rank
<1>12. ASSUME NEW m \in 1..size, NEW n \in 1..size, m < n
       PROVE  at[m] < at[n]
  <2>1. /\ at[m] \in K /\ at[n] \in K
        /\ rank[at[m]] = m - 1 /\ rank[at[n]] = n - 1
    BY <1>10
  <2> HIDE DEF at
  <2>2. CASE at[m] = at[n]
    BY <2>1, <2>2, <1>12, <1>1
  <2>3. CASE at[n] < at[m]
    <3>1. rank[at[n]] < rank[at[m]]
      BY <2>1, <2>3, <1>11
    <3> QED
      BY <3>1, <2>1, <1>12, <1>1
  <2>4. at[m] \in Nat /\ at[n] \in Nat
    BY <2>1
  <2> QED
    BY <2>2, <2>3, <2>4
<1>13. at \in [1..size -> K]
  BY <1>10
<1> QED
  BY <1>12, <1>13

(* What a filter keeps, and in which order.                                *)
LEMMA InOrderOk ==
  ASSUME NEW K, K \subseteq Nat, IsFiniteSet(K)
  PROVE  /\ Cardinality(K) \in Nat
         /\ InOrder(K) \in [1..Cardinality(K) -> K]
         /\ \A m, n \in 1..Cardinality(K) : m < n => InOrder(K)[m] < InOrder(K)[n]
         /\ \A k \in K : \E n \in 1..Cardinality(K) : InOrder(K)[n] = k
<1> DEFINE at == InOrder(K)
           size == Cardinality(K)
<1>1. size \in Nat
  BY FS_CardinalityType
<1>2. /\ at \in [1..size -> K]
      /\ \A m, n \in 1..size : m < n => at[m] < at[n]
  BY InOrderExists DEF InOrder
<1> HIDE DEF at
<1>3. \A m, n \in 1..size : at[m] = at[n] => m = n
  <2> SUFFICES ASSUME NEW m \in 1..size, NEW n \in 1..size, at[m] = at[n], m # n
               PROVE  FALSE
    OBVIOUS
  <2>1. m < n \/ n < m
    BY <1>1
  <2>2. at[m] \in Nat /\ at[n] \in Nat
    BY <1>2
  <2> QED
    BY <2>1, <2>2, <1>2
<1>4. at \in Injection(1..size, K)
  BY <1>2, <1>3 DEF Injection, IsInjective
<1>5. Cardinality(1..size) = size
  BY <1>1, FS_Interval
<1>6. at \in Surjection(1..size, K)
  BY <1>4, <1>5, FS_Injection
<1> QED
  BY <1>1, <1>2, <1>6 DEF at, Surjection

(* A finite set of numbers that is not empty has a least one.              *)
LEMMA LeastExists ==
  ASSUME NEW K, K \subseteq Nat, IsFiniteSet(K), K # {}
  PROVE  \E k \in K : \A j \in K : k <= j
<1> DEFINE at == InOrder(K)
           size == Cardinality(K)
<1>1. /\ size \in Nat /\ at \in [1..size -> K]
      /\ \A m, n \in 1..size : m < n => at[m] < at[n]
      /\ \A k \in K : \E n \in 1..size : at[n] = k
  BY InOrderOk
<1> HIDE DEF at, size
<1>2. 1 \in 1..size
  <2>1. PICK k \in K : TRUE
    OBVIOUS
  <2>2. PICK n \in 1..size : at[n] = k
    BY <1>1
  <2> QED
    BY <1>1, <2>2
<1>3. ASSUME NEW j \in K PROVE at[1] <= j
  <2>1. PICK n \in 1..size : at[n] = j
    BY <1>1
  <2>2. n = 1 \/ 1 < n
    BY <1>1
  <2>3. at[1] \in Nat /\ j \in Nat
    BY <1>1, <1>2
  <2> QED
    BY <2>1, <2>2, <2>3, <1>1, <1>2
<1> QED
  BY <1>1, <1>2, <1>3

LEMMA LeastUpTo ==
  ASSUME NEW n \in Nat, NEW K, K \subseteq 0..n, K # {}
  PROVE  \E k \in K : \A j \in K : k <= j
<1>1. IsFiniteSet(0..n)
  <2>1. 0 \in Int /\ n \in Int
    OBVIOUS
  <2> QED
    BY <2>1, FS_Interval
<1>2. IsFiniteSet(K)
  BY <1>1, FS_Subset
<1>3. K \subseteq Nat
  OBVIOUS
<1> QED
  BY <1>2, <1>3, LeastExists

(* The first tab by order, of some. *)
LEMMA FirstOk ==
  ASSUME NEW w, NEW S, S \subseteq Tabs, S # {},
         \A t \in S : w.tabs[t].order \in 0..LastPlace
  PROVE  First(w, S) \in S
<1> DEFINE Orders == {w.tabs[t].order : t \in S}
<1>1. Orders \subseteq 0..LastPlace /\ Orders # {}
  OBVIOUS
<1>2. LastPlace \in Nat /\ Orders \subseteq Nat
  BY <1>1 DEF LastPlace
<1>3. PICK o \in Orders : \A p \in Orders : o <= p
  <2> HIDE DEF Orders
  <2> QED
    BY <1>1, <1>2, LeastUpTo
<1> DEFINE firsts == {t \in S : w.tabs[t].order = o}
<1>4. firsts # {} /\ firsts \subseteq Nat /\ IsFiniteSet(firsts)
  <2>1. firsts \subseteq Tabs /\ firsts # {}
    BY <1>3
  <2>2. Tabs \subseteq Nat
    BY TabsFinite DEF Tabs
  <2> QED
    BY <2>1, <2>2, TabsFinite, FS_Subset
<1>5. PICK t \in firsts : \A u \in firsts : t <= u
  BY <1>4, LeastExists
<1>6. ASSUME NEW u \in S \ {t} PROVE Earlier(w, t, u)
  <2>1. w.tabs[u].order \in Orders /\ w.tabs[t].order = o
    OBVIOUS
  <2>2. /\ o <= w.tabs[u].order /\ o \in Nat /\ w.tabs[u].order \in Nat
        /\ t \in Nat /\ u \in Nat
    <3>1. Tabs \subseteq Nat
      BY TabsFinite DEF Tabs
    <3> QED
      BY <3>1, <2>1, <1>2, <1>3
  <2>3. CASE w.tabs[u].order = o
    BY <2>1, <2>2, <2>3, <1>5 DEF Earlier
  <2>4. CASE w.tabs[u].order # o
    BY <2>1, <2>2, <2>4 DEF Earlier
  <2> QED
    BY <2>3, <2>4
<1>7. t \in S
  OBVIOUS
<1> QED
  BY <1>6, <1>7 DEF First

(* What a filter keeps. *)
LEMMA KeptOk ==
  ASSUME NEW G, NEW s \in Seq(G), NEW K, K \subseteq DOMAIN s
  PROVE  /\ IsFiniteSet(K) /\ K \subseteq Nat
         /\ Kept(s, K) \in Seq(G)
         /\ DOMAIN Kept(s, K) = 1..Cardinality(K) /\ Len(Kept(s, K)) = Cardinality(K)
         /\ Cardinality(K) \in Nat /\ Cardinality(K) <= Len(s)
         /\ ToSet(Kept(s, K)) = {s[k] : k \in K}
<1>1. Len(s) \in Nat /\ DOMAIN s = 1..Len(s)
  BY LenProperties
<1>2. IsFiniteSet(1..Len(s)) /\ Cardinality(1..Len(s)) = Len(s)
  <2>1. 1 \in Int /\ Len(s) \in Int /\ (1 > Len(s) => Len(s) = 0)
    BY <1>1
  <2>2. /\ IsFiniteSet(1..Len(s))
        /\ Cardinality(1..Len(s)) = IF 1 > Len(s) THEN 0 ELSE Len(s) - 1 + 1
    BY <2>1, FS_Interval
  <2> QED
    BY <2>1, <2>2, <1>1
<1>3. /\ IsFiniteSet(K) /\ K \subseteq Nat
      /\ Cardinality(K) \in Nat /\ Cardinality(K) <= Len(s)
  BY <1>1, <1>2, FS_Subset, FS_CardinalityType
<1> DEFINE at == InOrder(K)
<1>4. /\ at \in [1..Cardinality(K) -> K]
      /\ \A k \in K : \E n \in 1..Cardinality(K) : at[n] = k
  BY <1>3, InOrderOk
<1> HIDE DEF at
<1>5. Kept(s, K) = [n \in 1..Cardinality(K) |-> s[at[n]]]
  BY DEF Kept, at
<1>6. \A k \in K : s[k] \in G
  BY <1>1, ElementOfSeq
<1>7. \A n \in 1..Cardinality(K) : s[at[n]] \in G
  BY <1>4, <1>6
<1>8. Kept(s, K) \in Seq(G)
  BY <1>3, <1>5, <1>7, IsASeq
<1>9. DOMAIN Kept(s, K) = 1..Cardinality(K) /\ Len(Kept(s, K)) = Cardinality(K)
  BY <1>3, <1>5, <1>8, LenProperties
<1>10. ToSet(Kept(s, K)) = {s[k] : k \in K}
  <2>1. ToSet(Kept(s, K)) = {s[at[n]] : n \in 1..Cardinality(K)}
    BY <1>5 DEF ToSet
  <2> QED
    BY <2>1, <1>4
<1> QED
  BY <1>3, <1>8, <1>9, <1>10

(* Each value is somewhere for the first time, once. *)
LEMMA FirstsOk ==
  ASSUME NEW G, NEW s \in Seq(G)
  PROVE  /\ Firsts(s) \subseteq DOMAIN s
         /\ \A g \in ToSet(s) : \E i \in Firsts(s) : s[i] = g
         /\ \A i, j \in Firsts(s) : s[i] = s[j] => i = j
<1>1. Len(s) \in Nat /\ DOMAIN s = 1..Len(s)
  BY LenProperties
<1>2. ASSUME NEW g \in ToSet(s) PROVE \E i \in Firsts(s) : s[i] = g
  <2> DEFINE K == {i \in DOMAIN s : s[i] = g}
  <2>1. K # {} /\ K \subseteq DOMAIN s
    BY DEF ToSet
  <2>2. K \subseteq Nat /\ IsFiniteSet(K)
    BY <2>1, KeptOk
  <2>3. PICK k \in K : \A j \in K : k <= j
    BY <2>1, <2>2, LeastExists
  <2> QED
    BY <2>3 DEF Firsts
<1>3. ASSUME NEW i \in Firsts(s), NEW j \in Firsts(s), s[i] = s[j] PROVE i = j
  <2>1. i \in DOMAIN s /\ j \in DOMAIN s /\ i <= j /\ j <= i
    BY <1>3 DEF Firsts
  <2> QED
    BY <2>1, <1>1
<1> QED
  BY <1>2, <1>3 DEF Firsts

(* Removing repetitions keeps the order of first appearance.               *)
LEMMA KeepFirstOk ==
  ASSUME NEW G, NEW s \in Seq(G)
  PROVE  LET f == KeepFirst(s)
             place(q, g) == CHOOSE i \in Firsts(q) : q[i] = g
         IN  /\ f \in Seq(G) /\ Len(f) <= Len(s) /\ ToSet(f) = ToSet(s)
             /\ \A g \in ToSet(s) : place(s, g) \in 1..Len(s) /\ place(f, g) \in 1..Len(f)
             /\ \A g, h \in ToSet(s) :
                   /\ place(f, g) < place(f, h) <=> place(s, g) < place(s, h)
                   /\ place(f, g) = place(f, h) <=> place(s, g) = place(s, h)
<1> DEFINE f == KeepFirst(s)
           K == Firsts(s)
           at == InOrder(K)
           size == Cardinality(K)
           place(q, g) == CHOOSE i \in Firsts(q) : q[i] = g
<1>1. /\ K \subseteq DOMAIN s
      /\ \A g \in ToSet(s) : \E i \in K : s[i] = g
      /\ \A i, j \in K : s[i] = s[j] => i = j
  BY FirstsOk
<1>2. /\ IsFiniteSet(K) /\ K \subseteq Nat /\ f \in Seq(G)
      /\ Len(f) = size /\ size \in Nat /\ size <= Len(s)
      /\ ToSet(f) = {s[k] : k \in K} /\ DOMAIN f = 1..size
  <2>1. f = Kept(s, K)
    BY DEF KeepFirst
  <2> QED
    BY <1>1, <2>1, KeptOk
<1>3. /\ at \in [1..size -> K]
      /\ \A m, n \in 1..size : m < n => at[m] < at[n]
      /\ \A k \in K : \E n \in 1..size : at[n] = k
  BY <1>2, InOrderOk
<1>4. \A n \in 1..size : f[n] = s[at[n]]
  BY DEF KeepFirst, Kept
<1>5. ToSet(f) = ToSet(s)
  <2>1. ToSet(s) = {s[i] : i \in DOMAIN s}
    BY DEF ToSet
  <2> QED
    BY <1>1, <1>2, <2>1
<1> HIDE DEF f, K, at, size
<1>6. ASSUME NEW g \in ToSet(s)
      PROVE  place(s, g) \in K /\ s[place(s, g)] = g
  BY <1>1 DEF K
<1>7. ASSUME NEW g \in ToSet(s)
      PROVE  /\ place(f, g) \in 1..size /\ at[place(f, g)] = place(s, g)
  <2>1. place(f, g) \in Firsts(f) /\ f[place(f, g)] = g
    BY <1>2, <1>5, FirstsOk
  <2>2. place(f, g) \in 1..size
    BY <2>1, <1>2 DEF Firsts
  <2>3. s[at[place(f, g)]] = g /\ at[place(f, g)] \in K
    BY <2>1, <2>2, <1>3, <1>4
  <2> QED
    BY <2>2, <2>3, <1>1, <1>6
<1>8. ASSUME NEW m \in 1..size, NEW n \in 1..size
      PROVE  (m < n <=> at[m] < at[n]) /\ (m = n <=> at[m] = at[n])
  <2>1. m < n \/ m = n \/ n < m
    BY <1>2
  <2>2. at[m] \in K /\ at[n] \in K
    BY <1>3
  <2>3. at[m] \in Nat /\ at[n] \in Nat /\ m \in Nat /\ n \in Nat
    <3>1. K \subseteq Nat /\ size \in Nat
      BY <1>2
    <3>2. at[m] \in Nat /\ at[n] \in Nat
      BY <2>2, <3>1
    <3> QED
      BY <3>1, <3>2
  <2>4. CASE m < n
    BY <2>3, <2>4, <1>3
  <2>5. CASE n < m
    BY <2>3, <2>5, <1>3
  <2>6. CASE m = n
    BY <2>3, <2>6
  <2> QED
    BY <2>1, <2>4, <2>5, <2>6
<1>9. \A g \in ToSet(s) : place(s, g) \in 1..Len(s) /\ place(f, g) \in 1..Len(f)
  <2>1. DOMAIN s = 1..Len(s)
    BY LenProperties
  <2> QED
    BY <2>1, <1>1, <1>2, <1>6, <1>7
<1>10. \A g, h \in ToSet(s) :
          /\ place(f, g) < place(f, h) <=> place(s, g) < place(s, h)
          /\ place(f, g) = place(f, h) <=> place(s, g) = place(s, h)
  <2> SUFFICES ASSUME NEW g \in ToSet(s), NEW h \in ToSet(s)
               PROVE  /\ place(f, g) < place(f, h) <=> place(s, g) < place(s, h)
                      /\ place(f, g) = place(f, h) <=> place(s, g) = place(s, h)
    OBVIOUS
  <2>1. /\ place(f, g) \in 1..size /\ at[place(f, g)] = place(s, g)
        /\ place(f, h) \in 1..size /\ at[place(f, h)] = place(s, h)
    BY <1>7
  <2> HIDE DEF place
  <2> QED
    BY <2>1, <1>8
<1>11. f \in Seq(G) /\ Len(f) <= Len(s) /\ ToSet(f) = ToSet(s)
  BY <1>2, <1>5
<1> QED
  BY <1>9, <1>10, <1>11 DEF f

(* A tab is before another one in the rail.                                *)
Ahead(w, u, t) == \/ Section(w, u) < Section(w, t)
                  \/ Section(w, u) = Section(w, t) /\ Earlier(w, u, t)

LEMMA GroupPlaces ==
  ASSUME NEW w, Sound(w)
  PROVE  /\ w.groups \in Seq(GroupIds) /\ Len(w.groups) \in Nat
         /\ \A t \in Tabs :
               /\ w.tabs[t] \in TabSet
               /\ w.tabs[t].group \in ToSet(w.groups) \cup {NoGroup}
               /\ w.tabs[t].previous \in ToSet(w.groups) \cup {NoGroup}
               /\ w.tabs[t].pinned => w.tabs[t].group = NoGroup
               /\ w.tabs[t].order \in Nat /\ w.tabs[t].order \in 0..LastPlace
<1>1. w.groups \in Seq(GroupIds) /\ Len(w.groups) \in Nat
  BY LenProperties DEF Sound, Rough, LayoutSet
<1>2. ASSUME NEW t \in Tabs
      PROVE  /\ w.tabs[t] \in TabSet
             /\ w.tabs[t].group \in ToSet(w.groups) \cup {NoGroup}
             /\ w.tabs[t].previous \in ToSet(w.groups) \cup {NoGroup}
             /\ w.tabs[t].pinned => w.tabs[t].group = NoGroup
             /\ w.tabs[t].order \in 0..LastPlace
  BY DEF Sound, Rough, LayoutSet, LinksAccepted, GroupsOf
<1>3. 0..LastPlace \subseteq Nat
  BY DEF LastPlace
<1> QED
  BY <1>1, <1>2, <1>3

(* Groups that are there twice do not change where a tab is shown.         *)
LEMMA SectionsKept ==
  ASSUME NEW w, Sound(w), NEW n,
         n.groups = KeepFirst(w.groups) \/ n.groups = w.groups,
         \A t \in Tabs : /\ n.tabs[t].pinned = w.tabs[t].pinned
                         /\ n.tabs[t].group = w.tabs[t].group
  PROVE  /\ \A t \in Tabs : Section(n, t) \in Nat
         /\ \A t, u \in Tabs :
               /\ Section(n, t) < Section(n, u) <=> Section(w, t) < Section(w, u)
               /\ Section(n, t) = Section(n, u) <=> Section(w, t) = Section(w, u)
<1> DEFINE s == w.groups
           place(q, g) == CHOOSE i \in Firsts(q) : q[i] = g
<1>1. s \in Seq(GroupIds) /\ Len(s) \in Nat
  BY GroupPlaces
<1>2. CASE n.groups = s
  <2>1. ASSUME NEW t \in Tabs PROVE Section(n, t) = Section(w, t)
    <3> DEFINE at(q, p, g) == IF p THEN 0
                               ELSE IF g = NoGroup THEN Len(q) + 1 ELSE place(q, g)
    <3>1. /\ Section(n, t) = at(n.groups, n.tabs[t].pinned, n.tabs[t].group)
          /\ Section(w, t) = at(w.groups, w.tabs[t].pinned, w.tabs[t].group)
      BY DEF Section
    <3> HIDE DEF at
    <3> QED
      BY <3>1, <1>2
  <2>2. ASSUME NEW t \in Tabs PROVE Section(w, t) \in Nat
    <3>1. CASE w.tabs[t].pinned
      BY <3>1 DEF Section
    <3>2. CASE ~w.tabs[t].pinned /\ w.tabs[t].group = NoGroup
      BY <3>2, <1>1 DEF Section
    <3>3. CASE ~w.tabs[t].pinned /\ w.tabs[t].group # NoGroup
      <4>1. w.tabs[t].group \in ToSet(s)
        BY <3>3, GroupPlaces
      <4>2. place(s, w.tabs[t].group) \in 1..Len(s)
        BY <4>1, <1>1, KeepFirstOk
      <4>3. Section(w, t) = place(s, w.tabs[t].group)
        BY <3>3 DEF Section
      <4> QED
        BY <4>2, <4>3, <1>1
    <3> QED
      BY <3>1, <3>2, <3>3
  <2> QED
    BY <2>1, <2>2
<1>3. CASE n.groups = KeepFirst(s)
  <2> DEFINE f == KeepFirst(s)
  <2>1. /\ f \in Seq(GroupIds) /\ Len(f) <= Len(s) /\ ToSet(f) = ToSet(s)
        /\ \A g \in ToSet(s) : place(s, g) \in 1..Len(s) /\ place(f, g) \in 1..Len(f)
        /\ \A g, h \in ToSet(s) :
              /\ place(f, g) < place(f, h) <=> place(s, g) < place(s, h)
              /\ place(f, g) = place(f, h) <=> place(s, g) = place(s, h)
    BY <1>1, KeepFirstOk
  <2>2. Len(f) \in Nat
    BY <2>1, LenProperties
  <2> DEFINE kind(t) == IF w.tabs[t].pinned THEN "pinned"
                        ELSE IF w.tabs[t].group = NoGroup THEN "free" ELSE "in"
  <2>3. ASSUME NEW t \in Tabs
        PROVE  /\ kind(t) = "pinned" => Section(n, t) = 0 /\ Section(w, t) = 0
               /\ kind(t) = "free" => /\ Section(n, t) = Len(f) + 1
                                      /\ Section(w, t) = Len(s) + 1
               /\ kind(t) = "in" => /\ w.tabs[t].group \in ToSet(s)
                                    /\ Section(n, t) = place(f, w.tabs[t].group)
                                    /\ Section(w, t) = place(s, w.tabs[t].group)
               /\ kind(t) \in {"pinned", "free", "in"}
    <3>1. w.tabs[t].group \in ToSet(s) \cup {NoGroup}
      BY GroupPlaces
    <3> QED
      BY <3>1, <1>3 DEF Section
  <2> HIDE DEF kind, place, f, s
  <2>4. ASSUME NEW t \in Tabs, NEW u \in Tabs
        PROVE  /\ Section(n, t) \in Nat
               /\ Section(n, t) < Section(n, u) <=> Section(w, t) < Section(w, u)
               /\ Section(n, t) = Section(n, u) <=> Section(w, t) = Section(w, u)
    <3>1. /\ Len(f) \in Nat /\ Len(s) \in Nat
          /\ kind(t) = "in" => /\ Section(n, t) \in 1..Len(f)
                               /\ Section(w, t) \in 1..Len(s)
          /\ kind(u) = "in" => /\ Section(n, u) \in 1..Len(f)
                               /\ Section(w, u) \in 1..Len(s)
      BY <1>1, <2>1, <2>2, <2>3
    <3>2. CASE kind(t) = "in" /\ kind(u) = "in"
      <4>1. /\ Section(n, t) < Section(n, u) <=> Section(w, t) < Section(w, u)
            /\ Section(n, t) = Section(n, u) <=> Section(w, t) = Section(w, u)
        BY <2>1, <2>3, <3>2
      <4> QED
        BY <4>1, <3>1, <3>2
    <3>3. CASE kind(t) = "pinned"
      BY <2>3, <3>1, <3>3
    <3>4. CASE kind(t) = "free"
      BY <2>3, <3>1, <3>4
    <3>5. CASE kind(t) = "in" /\ kind(u) \in {"pinned", "free"}
      BY <2>3, <3>1, <3>5
    <3> QED
      BY <2>3, <3>2, <3>3, <3>4, <3>5
  <2> QED
    BY <2>4
<1> QED
  BY <1>2, <1>3

(* What the main process saves has the groups once, and nothing else       *)
(* changes: a sound layout has no link to repair.                          *)
LEMMA RepairedOk ==
  ASSUME NEW w, Sound(w)
  PROVE  LET r == Repaired(w)
         IN  /\ Rough(r) /\ r.groups = KeepFirst(w.groups)
             /\ r.active = w.active /\ r.tabs = w.tabs /\ GroupsOf(r) = GroupsOf(w)
<1> DEFINE u == [w EXCEPT !.groups = KeepFirst(@)]
           f == [t \in Tabs |-> IF t \in Tabs
                   THEN [u.tabs[t] EXCEPT
                          !.group = IF u.tabs[t].pinned THEN NoGroup ELSE Existing(u, @),
                          !.previous = IF u.tabs[t].pinned /\ u.tabs[t].group \in GroupsOf(u)
                                       THEN u.tabs[t].group ELSE Existing(u, @)]
                   ELSE u.tabs[t]]
           linked == [u EXCEPT !.tabs = f]
<1>1. /\ w \in LayoutSet /\ w.groups \in Seq(GroupIds) /\ Len(w.groups) \in Nat
      /\ Len(w.groups) <= MaxGroups /\ w.active \in Tabs /\ w.tabs[w.active].open
  BY GroupPlaces DEF Sound, Rough, LayoutSet
<1>2. /\ KeepFirst(w.groups) \in Seq(GroupIds)
      /\ Len(KeepFirst(w.groups)) <= Len(w.groups)
      /\ ToSet(KeepFirst(w.groups)) = ToSet(w.groups)
  BY <1>1, KeepFirstOk
<1>3. /\ u \in LayoutSet /\ u.groups = KeepFirst(w.groups) /\ u.tabs = w.tabs
      /\ u.active = w.active /\ GroupsOf(u) = ToSet(w.groups)
  <2>1. /\ u \in LayoutSet /\ u.groups = KeepFirst(w.groups) /\ u.tabs = w.tabs
        /\ u.active = w.active
    BY <1>1, <1>2 DEF LayoutSet
  <2> QED
    BY <2>1, <1>2 DEF GroupsOf
<1>4. Len(u.groups) \in Nat
  BY <1>2, <1>3, LenProperties
<1>5. Rough(u)
  <2>1. Len(u.groups) <= MaxGroups
    BY <1>1, <1>2, <1>3, <1>4, TabLayoutAssumption
  <2> QED
    BY <2>1, <1>1, <1>3 DEF Rough
<1> HIDE DEF u
<1>6. ASSUME NEW t \in Tabs PROVE f[t] = u.tabs[t]
  <2>1. /\ u.tabs[t] \in TabSet
        /\ u.tabs[t].group \in GroupsOf(u) \cup {NoGroup}
        /\ u.tabs[t].previous \in GroupsOf(u) \cup {NoGroup}
        /\ u.tabs[t].pinned => u.tabs[t].group = NoGroup
    BY <1>3, GroupPlaces
  <2>2. NoGroup \notin GroupsOf(u)
    <3>1. ToSet(w.groups) \subseteq GroupIds
      BY <1>1 DEF ToSet
    <3> QED
      BY <3>1, <1>3, TabLayoutAssumption
  <2>3. /\ Existing(u, u.tabs[t].group) = u.tabs[t].group
        /\ Existing(u, u.tabs[t].previous) = u.tabs[t].previous
    BY <2>1 DEF Existing
  <2> QED
    BY <2>1, <2>2, <2>3 DEF TabSet
<1>7. u.tabs \in [Tabs -> TabSet]
  BY <1>3 DEF LayoutSet
<1>8. f = u.tabs
  BY <1>6, <1>7
<1>9. linked = u
  BY <1>3, <1>8 DEF LayoutSet
<1>10. Edit(u, Tabs, LAMBDA tab :
              [tab EXCEPT
                !.group = IF tab.pinned THEN NoGroup ELSE Existing(u, @),
                !.previous = IF tab.pinned /\ tab.group \in GroupsOf(u)
                             THEN tab.group ELSE Existing(u, @)]) = linked
  BY DEF Edit
<1>11. Open(linked) # {}
  BY <1>9, <1>1, <1>3 DEF Open
<1>12. Repaired(w) = linked
  BY <1>10, <1>11 DEF Repaired, u
<1> QED
  BY <1>3, <1>5, <1>9, <1>12 DEF GroupsOf

(* The rail is a line: of two tabs, one is ahead of the other one.         *)
LEMMA AheadIsLinear ==
  ASSUME NEW w, Sound(w), NEW t \in Tabs, NEW u \in Tabs, NEW v \in Tabs
  PROVE  /\ ~Ahead(w, t, t)
         /\ (Ahead(w, t, u) /\ Ahead(w, u, v)) => Ahead(w, t, v)
         /\ t # u => (Ahead(w, t, u) \/ Ahead(w, u, t))
<1>1. /\ Section(w, t) \in Nat /\ Section(w, u) \in Nat /\ Section(w, v) \in Nat
  BY SectionsKept
<1>2. w.tabs[t].order \in Nat /\ w.tabs[u].order \in Nat /\ w.tabs[v].order \in Nat
  BY GroupPlaces
<1>3. t \in Nat /\ u \in Nat /\ v \in Nat
  BY TabsFinite DEF Tabs
<1>4. ~Ahead(w, t, t)
  BY <1>1, <1>2, <1>3 DEF Ahead, Earlier
<1>5. t # u => (Ahead(w, t, u) \/ Ahead(w, u, t))
  BY <1>1, <1>2, <1>3 DEF Ahead, Earlier
<1>6. ASSUME Ahead(w, t, u), Ahead(w, u, v) PROVE Ahead(w, t, v)
  <2>1. CASE Section(w, t) < Section(w, u) \/ Section(w, u) < Section(w, v)
    BY <1>1, <1>6, <2>1 DEF Ahead
  <2>2. CASE Section(w, t) = Section(w, u) /\ Section(w, u) = Section(w, v)
    <3>1. Earlier(w, t, u) /\ Earlier(w, u, v)
      BY <1>1, <1>6, <2>2 DEF Ahead
    <3>2. Earlier(w, t, v)
      BY <3>1, <1>2, <1>3 DEF Earlier
    <3> QED
      BY <2>2, <3>2 DEF Ahead
  <2> QED
    BY <1>1, <1>6, <2>1, <2>2 DEF Ahead
<1> QED
  BY <1>4, <1>5, <1>6

(* The place of a tab tells the open tabs that are ahead of it.            *)
LEMMA PlaceTellsAhead ==
  ASSUME NEW w, Sound(w)
  PROVE  /\ \A t \in Tabs : Place(w, t) \in 0..LastPlace /\ Place(w, t) \in Nat
         /\ \A t, u \in Open(w) :
               /\ Place(w, t) < Place(w, u) <=> Ahead(w, t, u)
               /\ Place(w, t) = Place(w, u) <=> t = u
<1> DEFINE ahead(t) == {u \in Open(w) : Ahead(w, u, t)}
<1>1. Open(w) \subseteq Tabs
  BY DEF Open
<1>2. ASSUME NEW t \in Tabs
      PROVE  /\ Place(w, t) = Cardinality(ahead(t)) /\ IsFiniteSet(ahead(t))
             /\ Place(w, t) \in 0..LastPlace /\ Place(w, t) \in Nat
  <2>1. Place(w, t) = Cardinality(ahead(t))
    BY DEF Place, Ahead
  <2>2. ahead(t) \subseteq Tabs \ {t}
    BY <1>1, AheadIsLinear
  <2>3. 0..LastPlace \subseteq Nat
    BY DEF LastPlace
  <2> HIDE DEF ahead
  <2> QED
    BY <2>1, <2>2, <2>3, CountOk
<1>3. ASSUME NEW t \in Open(w), NEW u \in Open(w), Ahead(w, t, u)
      PROVE  Place(w, t) < Place(w, u)
  <2>1. ahead(t) \subseteq ahead(u)
    BY <1>1, <1>3, AheadIsLinear
  <2>2. t \in ahead(u) /\ t \notin ahead(t)
    BY <1>1, <1>3, AheadIsLinear
  <2> HIDE DEF ahead
  <2>3. /\ IsFiniteSet(ahead(u)) /\ Place(w, u) = Cardinality(ahead(u))
        /\ Place(w, t) = Cardinality(ahead(t))
        /\ Place(w, u) \in Nat /\ Place(w, t) \in Nat
    BY <1>1, <1>2
  <2>4. ahead(t) # ahead(u)
    BY <2>2
  <2>5. /\ Cardinality(ahead(t)) <= Cardinality(ahead(u))
        /\ Cardinality(ahead(t)) # Cardinality(ahead(u))
    BY <2>1, <2>3, <2>4, FS_Subset
  <2> QED
    BY <2>3, <2>5
<1>4. ASSUME NEW t \in Open(w), NEW u \in Open(w)
      PROVE  /\ Place(w, t) < Place(w, u) <=> Ahead(w, t, u)
             /\ Place(w, t) = Place(w, u) <=> t = u
  <2>1. Place(w, t) \in Nat /\ Place(w, u) \in Nat
    BY <1>1, <1>2
  <2>2. t = u \/ Ahead(w, t, u) \/ Ahead(w, u, t)
    BY <1>1, AheadIsLinear
  <2>3. CASE t = u
    <3>1. ~Ahead(w, t, u)
      BY <1>1, <2>3, AheadIsLinear
    <3> QED
      BY <2>1, <2>3, <3>1
  <2>4. CASE Ahead(w, t, u)
    BY <2>1, <2>4, <1>3
  <2>5. CASE Ahead(w, u, t)
    <3>1. Place(w, u) < Place(w, t)
      BY <2>5, <1>3
    <3>2. Ahead(w, t, u) => Place(w, t) < Place(w, u)
      BY <1>3
    <3> QED
      BY <2>1, <3>1, <3>2
  <2> QED
    BY <2>2, <2>3, <2>4, <2>5
<1> QED
  BY <1>2, <1>4

(* The main process shows a sound layout as it is: the tabs keep their     *)
(* places, groups and the one that is active.                              *)
LEMMA ShownAsItIs ==
  ASSUME NEW w, Sound(w)
  PROVE  LET n == Normalize(w)
         IN  /\ Sound(n) /\ Rail(n) = Rail(w) /\ n.active = w.active
             /\ \A t \in Tabs : n.tabs[t].group = w.tabs[t].group
             /\ n.groups = KeepFirst(w.groups)
             /\ \A t \in Open(n) : n.tabs[t].order = Place(n, t)
<1> DEFINE r == Repaired(w)
           f == [t \in Tabs |-> IF t \in Open(r) THEN [r.tabs[t] EXCEPT !.order = Place(r, t)]
                                ELSE r.tabs[t]]
           n == [r EXCEPT !.tabs = f]
<1>1. /\ Rough(r) /\ r.groups = KeepFirst(w.groups)
      /\ r.active = w.active /\ r.tabs = w.tabs /\ GroupsOf(r) = GroupsOf(w)
  BY RepairedOk
<1>2. w.active \in Open(r) /\ w.active \in Tabs
  BY <1>1 DEF Rough, Open, LayoutSet
<1>3. Normalize(w) = Numbered(r)
  BY DEF Normalize
<1> HIDE DEF r
<1>4. Numbered(r) = n
  <2>1. Numbered(r) = [n EXCEPT !.active = r.active]
    BY <1>1, <1>2 DEF Numbered
  <2> QED
    BY <2>1, <1>1 DEF Rough, LayoutSet
<1>5. Sound(r)
  <2>1. LinksAccepted(r)
    BY <1>1 DEF LinksAccepted, Sound, Rough
  <2> QED
    BY <1>1, <2>1 DEF Sound
<1>6. ASSUME NEW t \in Tabs
      PROVE  /\ f[t] \in TabSet
             /\ f[t].open = w.tabs[t].open /\ f[t].pinned = w.tabs[t].pinned
             /\ f[t].group = w.tabs[t].group /\ f[t].previous = w.tabs[t].previous
             /\ f[t].order \in 0..LastPlace
             /\ t \in Open(r) => f[t].order = Place(r, t)
  <2>1. r.tabs[t] \in TabSet /\ r.tabs[t].order \in 0..LastPlace
    BY <1>5, GroupPlaces
  <2>2. Place(r, t) \in 0..LastPlace /\ Place(r, t) \in Int
    BY <1>5, PlaceTellsAhead
  <2> QED
    BY <1>1, <2>1, <2>2 DEF TabSet
<1>7. f \in [Tabs -> TabSet] /\ f[r.active].open
  BY <1>1, <1>2, <1>6 DEF Rough, Sound
<1> HIDE DEF f
<1>8. Rough(n) /\ n.groups = r.groups /\ n.active = w.active /\ n.tabs = f
  BY <1>1, <1>7, EditedIsRough
<1> HIDE DEF n
<1>9. GroupsOf(n) = GroupsOf(w)
  BY <1>1, <1>8 DEF GroupsOf
<1>10. LinksAccepted(n)
  BY <1>6, <1>8, <1>9 DEF LinksAccepted, Sound, Rough
<1>11. Sound(n)
  BY <1>8, <1>10 DEF Sound
<1>12. Open(n) = Open(w) /\ Open(r) = Open(w) /\ Open(w) \subseteq Tabs
  BY <1>1, <1>6, <1>8 DEF Open
<1>13. \A t, u \in Tabs : Ahead(r, u, t) <=> Ahead(w, u, t)
  <2>1. \A t, u \in Tabs :
           /\ Section(r, u) < Section(r, t) <=> Section(w, u) < Section(w, t)
           /\ Section(r, u) = Section(r, t) <=> Section(w, u) = Section(w, t)
    BY <1>1, SectionsKept
  <2>2. \A t, u \in Tabs : Earlier(r, u, t) <=> Earlier(w, u, t)
    BY <1>1 DEF Earlier
  <2> QED
    BY <2>1, <2>2 DEF Ahead
<1>14. ASSUME NEW t \in Open(w), NEW u \in Open(w)
       PROVE  Ahead(n, u, t) <=> Ahead(r, u, t)
  <2>1. /\ Section(n, u) < Section(n, t) <=> Section(r, u) < Section(r, t)
        /\ Section(n, u) = Section(n, t) <=> Section(r, u) = Section(r, t)
    BY <1>1, <1>5, <1>6, <1>8, <1>12, SectionsKept
  <2>2. n.tabs[t].order = Place(r, t) /\ n.tabs[u].order = Place(r, u)
    BY <1>6, <1>8, <1>12
  <2>3. /\ Place(r, u) \in Nat /\ Place(r, t) \in Nat
        /\ Place(r, u) < Place(r, t) <=> Ahead(r, u, t)
        /\ Place(r, u) = Place(r, t) <=> u = t
    BY <1>5, <1>12, PlaceTellsAhead
  <2>4. Earlier(n, u, t) <=> Ahead(r, u, t)
    <3>1. t \in Nat
      BY <1>12, TabsFinite DEF Tabs
    <3> QED
      BY <2>2, <2>3, <3>1 DEF Earlier
  <2>5. /\ Section(r, u) \in Nat /\ Section(r, t) \in Nat
    BY <1>5, <1>12, SectionsKept
  <2>6. CASE Section(r, u) = Section(r, t)
    BY <2>1, <2>4, <2>5, <2>6 DEF Ahead
  <2>7. CASE Section(r, u) # Section(r, t)
    BY <2>1, <2>5, <2>7 DEF Ahead
  <2> QED
    BY <2>6, <2>7
<1>15. ASSUME NEW t \in Open(w)
       PROVE  Place(n, t) = Place(w, t) /\ Place(r, t) = Place(w, t)
  <2>1. /\ {u \in Open(n) : Ahead(n, u, t)} = {u \in Open(w) : Ahead(w, u, t)}
        /\ {u \in Open(r) : Ahead(r, u, t)} = {u \in Open(w) : Ahead(w, u, t)}
    BY <1>12, <1>13, <1>14
  <2>2. /\ Place(n, t) = Cardinality({u \in Open(n) : Ahead(n, u, t)})
        /\ Place(r, t) = Cardinality({u \in Open(r) : Ahead(r, u, t)})
        /\ Place(w, t) = Cardinality({u \in Open(w) : Ahead(w, u, t)})
    BY DEF Place, Ahead
  <2> QED
    BY <2>1, <2>2
<1>16. Rail(n) = Rail(w)
  BY <1>12, <1>15 DEF Rail
<1>17. \A t \in Open(n) : n.tabs[t].order = Place(n, t)
  BY <1>6, <1>8, <1>12, <1>15
<1> QED
  BY <1>1, <1>3, <1>4, <1>6, <1>8, <1>11, <1>16, <1>17

LEMMA SoundTabs ==
  ASSUME NEW w, Sound(w)
  PROVE  /\ Rough(w) /\ w \in LayoutSet /\ w.active \in Tabs /\ w.tabs[w.active].open
         /\ w.groups \in Seq(GroupIds) /\ Len(w.groups) <= MaxGroups
         /\ GroupsOf(w) \subseteq GroupIds
         /\ NoGroup \in Links /\ GroupIds \subseteq Links /\ LastPlace \in Int
         /\ \A t \in Tabs : w.tabs[t] \in TabSet
<1>1. w \in LayoutSet /\ w.groups \in Seq(GroupIds)
  BY DEF Sound, Rough, LayoutSet
<1>2. GroupsOf(w) \subseteq GroupIds
  BY <1>1 DEF GroupsOf, ToSet
<1> QED
  BY <1>1, <1>2 DEF Sound, Rough, LayoutSet, Links, LastPlace

LEMMA RenormalizedIsSound ==
  ASSUME NEW w, Rough(w) PROVE Sound(Renormalize(w))
BY Renormalized

LEMMA DefaultIsSound == Sound(Default)
<1>1. Default.active = 1 /\ Default.groups = <<>>
  BY DEF Default
<1>2. ASSUME NEW t \in Tabs
      PROVE  /\ Default.tabs[t] \in TabSet /\ Default.tabs[t].open
             /\ ~Default.tabs[t].pinned
             /\ Default.tabs[t].group = NoGroup /\ Default.tabs[t].previous = NoGroup
             /\ Default.tabs[t].order \in 0..LastPlace
  <2>1. t \in 1..TabCount /\ TabCount \in 1..(LastPlace + 1)
    BY TabLayoutAssumption DEF Tabs
  <2>2. t - 1 \in 0..LastPlace /\ t - 1 \in Int
    BY <2>1 DEF LastPlace
  <2> QED
    BY <2>2 DEF Default, TabSet, Links
<1>3. 1 \in Tabs
  BY TabLayoutAssumption DEF Tabs, LastPlace
<1>4. Default \in LayoutSet
  BY <1>2, <1>3 DEF Default, LayoutSet
<1>5. Len(Default.groups) <= MaxGroups
  BY <1>1, TabLayoutAssumption
<1>6. Rough(Default)
  BY <1>1, <1>2, <1>3, <1>4, <1>5 DEF Rough
<1>7. LinksAccepted(Default)
  BY <1>2, <1>5 DEF LinksAccepted
<1> QED
  BY <1>6, <1>7 DEF Sound

LEMMA ActivateIsSound ==
  ASSUME NEW w, Sound(w), NEW t \in Open(w)
  PROVE  Sound([w EXCEPT !.active = t])
<1> DEFINE v == [w EXCEPT !.active = t]
<1>1. v.active = t /\ v.groups = w.groups /\ v.tabs = w.tabs /\ t \in Tabs /\ v \in LayoutSet
  BY SoundTabs DEF LayoutSet, Open
<1>2. Rough(v)
  BY <1>1, SoundTabs DEF Rough, Open
<1>3. LinksAccepted(v)
  BY <1>1 DEF Sound, LinksAccepted, GroupsOf
<1> QED
  BY <1>2, <1>3 DEF Sound

(* Closing leaves an open tab active. *)
LEMMA ShutIsSound ==
  ASSUME NEW closing, NEW asked, closing \subseteq asked,
         Sound(layout), Shut(closing, asked)
  PROVE  Sound(layout')
<1> DEFINE f == [t \in Tabs |-> IF t \in closing
                   THEN [layout.tabs[t] EXCEPT !.open = FALSE,
                            !.previous = IF layout.tabs[t].group = NoGroup THEN @
                                         ELSE layout.tabs[t].group]
                   ELSE layout.tabs[t]]
           shut == [layout EXCEPT !.tabs = f]
           active == IF layout.active \in asked THEN First(shut, Open(shut))
                     ELSE layout.active
           v == [shut EXCEPT !.active = active]
<1>1. Edit(layout, closing, LAMBDA tab :
              [tab EXCEPT !.open = FALSE,
                          !.previous = IF tab.group = NoGroup THEN @ ELSE tab.group]) = shut
  BY DEF Edit
<1>2. /\ layout \in LayoutSet /\ layout.active \in Tabs /\ layout.tabs[layout.active].open
      /\ Len(layout.groups) <= MaxGroups
  BY SoundTabs
<1>3. shut.active = layout.active /\ shut.groups = layout.groups /\ shut.tabs = f
  BY <1>2 DEF LayoutSet
<1>4. ASSUME NEW t \in Tabs
      PROVE  /\ f[t] \in TabSet /\ f[t].order \in 0..LastPlace
             /\ t \notin closing => f[t] = layout.tabs[t]
  <2>1. layout.tabs[t] \in TabSet /\ layout.tabs[t].order \in 0..LastPlace
    BY GroupPlaces
  <2> QED
    BY <2>1 DEF TabSet
<1>5. f \in [Tabs -> TabSet]
  BY <1>4
<1> HIDE DEF f
<1>6. shut \in LayoutSet
  BY <1>2, <1>5 DEF LayoutSet
<1> HIDE DEF shut
<1>7. Open(shut) # {} /\ layout' = Renormalize(v)
  BY <1>1, <1>3 DEF Shut, Dispatch
<1>8. active \in Open(shut)
  <2>1. CASE layout.active \in asked
    <3>1. Open(shut) \subseteq Tabs
      BY DEF Open
    <3>2. \A t \in Open(shut) : shut.tabs[t].order \in 0..LastPlace
      BY <1>3, <1>4, <3>1
    <3>3. First(shut, Open(shut)) \in Open(shut)
      BY <1>7, <3>1, <3>2, FirstOk
    <3> QED
      BY <2>1, <3>3
  <2>2. CASE layout.active \notin asked
    BY <1>2, <1>3, <1>4, <2>2 DEF Open
  <2> QED
    BY <2>1, <2>2
<1> HIDE DEF active
<1>9. v \in LayoutSet /\ v.active = active /\ v.groups = shut.groups /\ v.tabs = shut.tabs
  BY <1>6, <1>8 DEF LayoutSet, Open
<1> HIDE DEF v
<1>10. Rough(v)
  BY <1>2, <1>3, <1>8, <1>9 DEF Rough, Open
<1> QED
  BY <1>7, <1>10, RenormalizedIsSound

LEMMA ReopenIsSound ==
  ASSUME NEW t \in Tabs, Sound(layout), Reopen(t) PROVE Sound(layout')
<1> DEFINE f == [u \in Tabs |-> IF u \in {t}
                   THEN [layout.tabs[u] EXCEPT
                          !.open = TRUE, !.order = LastPlace,
                          !.group = Existing(layout, IF @ = NoGroup
                                                     THEN layout.tabs[u].previous ELSE @)]
                   ELSE layout.tabs[u]]
           v == [layout EXCEPT !.tabs = f]
<1>1. layout' = Renormalize(v)
  BY DEF Reopen, Dispatch, Edit
<1>2. ASSUME NEW u \in Tabs
      PROVE  f[u] \in TabSet /\ (layout.tabs[u].open => f[u].open)
  <2>1. layout.tabs[u] \in TabSet /\ LastPlace \in Int
    BY SoundTabs
  <2>2. /\ layout.tabs[u].group \in Links /\ layout.tabs[u].previous \in Links
    BY <2>1 DEF TabSet
  <2>3. Existing(layout, IF layout.tabs[u].group = NoGroup
                         THEN layout.tabs[u].previous ELSE layout.tabs[u].group) \in Links
    BY <2>2, ExistingIsLink
  <2> QED
    BY <2>1, <2>3 DEF TabSet
<1>3. f \in [Tabs -> TabSet] /\ f[layout.active].open
  BY <1>2, SoundTabs
<1> HIDE DEF f
<1>4. Rough(v)
  BY <1>3, SoundTabs, EditedIsRough
<1> QED
  BY <1>1, <1>4, RenormalizedIsSound

LEMMA PinIsSound ==
  ASSUME NEW t \in Tabs, Sound(layout), Pin(t) PROVE Sound(layout')
<1> DEFINE f == [u \in Tabs |-> IF u \in {t}
                   THEN IF layout.tabs[u].pinned
                        THEN [layout.tabs[u] EXCEPT
                               !.pinned = FALSE, !.order = LastPlace, !.previous = NoGroup,
                               !.group = Existing(layout, layout.tabs[u].previous)]
                        ELSE [layout.tabs[u] EXCEPT
                               !.pinned = TRUE, !.order = LastPlace, !.group = NoGroup,
                               !.previous = layout.tabs[u].group]
                   ELSE layout.tabs[u]]
           v == [layout EXCEPT !.tabs = f]
<1>1. layout' = Renormalize(v)
  BY DEF Pin, Dispatch, Edit
<1>2. ASSUME NEW u \in Tabs
      PROVE  f[u] \in TabSet /\ (layout.tabs[u].open => f[u].open)
  <2>1. layout.tabs[u] \in TabSet /\ LastPlace \in Int /\ NoGroup \in Links
    BY SoundTabs
  <2>2. Existing(layout, layout.tabs[u].previous) \in Links
    BY <2>1, ExistingIsLink DEF TabSet
  <2> QED
    BY <2>1, <2>2 DEF TabSet
<1>3. f \in [Tabs -> TabSet] /\ f[layout.active].open
  BY <1>2, SoundTabs
<1> HIDE DEF f
<1>4. Rough(v)
  BY <1>3, SoundTabs, EditedIsRough
<1> QED
  BY <1>1, <1>4, RenormalizedIsSound

LEMMA MoveIsSound ==
  ASSUME NEW t \in Tabs, NEW direction, Sound(layout), Move(t, direction)
  PROVE  Sound(layout')
<1>1. PICK swap \in Tabs :
        layout' = Renormalize([layout EXCEPT
                    !.tabs[t].order = layout.tabs[swap].order,
                    !.tabs[swap].order = layout.tabs[t].order])
  BY DEF Move, Dispatch, SameRegion
<1> DEFINE f == [layout.tabs EXCEPT ![t].order = layout.tabs[swap].order,
                                    ![swap].order = layout.tabs[t].order]
           v == [layout EXCEPT !.tabs = f]
<1>2. layout' = Renormalize(v)
  <2>1. layout \in LayoutSet
    BY SoundTabs
  <2>2. [layout EXCEPT !.tabs[t].order = layout.tabs[swap].order,
                       !.tabs[swap].order = layout.tabs[t].order] = v
    BY <2>1 DEF LayoutSet
  <2> QED
    BY <1>1, <2>2
<1>3. layout.tabs \in [Tabs -> TabSet]
  BY SoundTabs DEF LayoutSet
<1>4. ASSUME NEW u \in Tabs
      PROVE  f[u] \in TabSet /\ f[u].open = layout.tabs[u].open
  <2>1. layout.tabs[u] \in TabSet /\ layout.tabs[t] \in TabSet /\ layout.tabs[swap] \in TabSet
    BY SoundTabs
  <2> QED
    BY <1>3, <2>1 DEF TabSet
<1>5. f \in [Tabs -> TabSet] /\ f[layout.active].open
  <2>1. DOMAIN f = Tabs /\ f = [u \in Tabs |-> f[u]]
    BY <1>3
  <2> QED
    BY <1>4, <2>1, SoundTabs
<1> HIDE DEF f
<1>6. Rough(v)
  BY <1>5, SoundTabs, EditedIsRough
<1> QED
  BY <1>2, <1>6, RenormalizedIsSound

LEMMA MoveToIsSound ==
  ASSUME NEW t \in Tabs, NEW target \in Tabs, Sound(layout), MoveTo(t, target)
  PROVE  Sound(layout')
<1> DEFINE d == [u \in Tabs |-> IF u \in Tabs
                   THEN [layout.tabs[u] EXCEPT !.order = 2 * @] ELSE layout.tabs[u]]
           doubled == [layout EXCEPT !.tabs = d]
           at == doubled.tabs[target]
           f == [u \in Tabs |-> IF u \in {t}
                   THEN [doubled.tabs[u] EXCEPT !.pinned = at.pinned, !.group = at.group,
                                                !.order = at.order - 1]
                   ELSE doubled.tabs[u]]
           v == [doubled EXCEPT !.tabs = f]
<1>1. layout' = Renormalize(v)
  BY DEF MoveTo, Dispatch, Edit
<1>2. ASSUME NEW u \in Tabs
      PROVE  d[u] \in TabSet /\ d[u].open = layout.tabs[u].open
  BY SoundTabs DEF TabSet
<1>3. d \in [Tabs -> TabSet] /\ d[layout.active].open
  BY <1>2, SoundTabs
<1> HIDE DEF d
<1>4. Rough(doubled) /\ doubled.tabs = d /\ doubled.active = layout.active
  BY <1>3, SoundTabs, EditedIsRough
<1> HIDE DEF doubled
<1>5. ASSUME NEW u \in Tabs
      PROVE  f[u] \in TabSet /\ f[u].open = layout.tabs[u].open
  <2>1. /\ doubled.tabs[u] \in TabSet /\ at \in TabSet
        /\ doubled.tabs[u].open = layout.tabs[u].open
    BY <1>2, <1>4
  <2>2. at.pinned \in BOOLEAN /\ at.group \in Links /\ at.order - 1 \in Int
    BY <2>1 DEF TabSet
  <2>3. CASE u # t
    BY <2>1, <2>3
  <2>4. CASE u = t
    <3>1. f[u] = [doubled.tabs[u] EXCEPT !.pinned = at.pinned, !.group = at.group,
                                         !.order = at.order - 1]
      BY <2>4
    <3> HIDE DEF f, at
    <3> QED
      BY <2>1, <2>2, <3>1 DEF TabSet
  <2> QED
    BY <2>3, <2>4
<1>6. f \in [Tabs -> TabSet] /\ f[doubled.active].open
  BY <1>4, <1>5, SoundTabs
<1> HIDE DEF f
<1>7. Rough(v)
  BY <1>4, <1>6, EditedIsRough
<1> QED
  BY <1>1, <1>7, RenormalizedIsSound

LEMMA WithGroupIsSound ==
  ASSUME NEW w, Sound(w), NEW g \in GroupIds, NEW members
  PROVE  Sound(WithGroup(w, g, members))
<1> DEFINE x == [w EXCEPT !.groups = Append(@, g)]
           f == [u \in Tabs |-> IF u \in members
                   THEN [x.tabs[u] EXCEPT !.pinned = FALSE, !.group = g, !.order = 0]
                   ELSE x.tabs[u]]
           v == [x EXCEPT !.tabs = f]
<1>1. CASE Len(w.groups) >= MaxGroups
  BY <1>1 DEF WithGroup
<1>2. CASE ~(Len(w.groups) >= MaxGroups)
  <2>1. WithGroup(w, g, members) = Renormalize(v)
    BY <1>2 DEF WithGroup, Edit
  <2>2. /\ w \in LayoutSet /\ w.groups \in Seq(GroupIds) /\ Len(w.groups) \in Nat
        /\ MaxGroups \in Nat
    BY SoundTabs, LenProperties, TabLayoutAssumption
  <2>3. Append(w.groups, g) \in Seq(GroupIds) /\ Len(Append(w.groups, g)) <= MaxGroups
    BY <1>2, <2>2, AppendProperties
  <2>4. /\ x.active = w.active /\ x.tabs = w.tabs /\ x.groups = Append(w.groups, g)
        /\ x \in LayoutSet
    BY <2>2, <2>3 DEF LayoutSet
  <2>5. Rough(x)
    BY <2>3, <2>4, SoundTabs DEF Rough
  <2> HIDE DEF x
  <2>6. ASSUME NEW u \in Tabs
        PROVE  f[u] \in TabSet /\ f[u].open = w.tabs[u].open
    <3>1. x.tabs[u] \in TabSet /\ g \in Links /\ x.tabs[u].open = w.tabs[u].open
      BY <2>4, SoundTabs
    <3>2. CASE u \notin members
      BY <3>1, <3>2
    <3>3. CASE u \in members
      <4>1. f[u] = [x.tabs[u] EXCEPT !.pinned = FALSE, !.group = g, !.order = 0]
        BY <3>3
      <4> HIDE DEF f
      <4>2. 0 \in Int /\ x.tabs[u].open \in BOOLEAN
        BY <3>1 DEF TabSet
      <4>3. f[u] \in TabSet
        BY <3>1, <4>1, <4>2 DEF TabSet
      <4>4. f[u].open = x.tabs[u].open
        BY <3>1, <4>1 DEF TabSet
      <4> QED
        BY <3>1, <4>3, <4>4
    <3> QED
      BY <3>2, <3>3
  <2>7. f \in [Tabs -> TabSet] /\ f[x.active].open
    BY <2>4, <2>6, SoundTabs
  <2> HIDE DEF f
  <2>8. Rough(v)
    BY <2>5, <2>7, EditedIsRough
  <2> QED
    BY <2>1, <2>8, RenormalizedIsSound
<1> QED
  BY <1>1, <1>2

LEMMA AssignedIsSound ==
  ASSUME NEW w, Sound(w), NEW t, NEW g \in GroupIds
  PROVE  Sound(Assigned(w, t, g))
<1> DEFINE S == {t} \cap Open(w)
           f == [u \in Tabs |-> IF u \in S
                   THEN [w.tabs[u] EXCEPT !.pinned = FALSE, !.group = g,
                                          !.previous = NoGroup, !.order = LastPlace]
                   ELSE w.tabs[u]]
           v == [w EXCEPT !.tabs = f]
<1>1. Assigned(w, t, g) = Renormalize(v)
  BY DEF Assigned, Edit
<1> HIDE DEF S
<1>2. ASSUME NEW u \in Tabs
      PROVE  f[u] \in TabSet /\ f[u].open = w.tabs[u].open
  <2>1. w.tabs[u] \in TabSet /\ g \in Links /\ NoGroup \in Links /\ LastPlace \in Int
    BY SoundTabs
  <2> QED
    BY <2>1 DEF TabSet
<1>3. f \in [Tabs -> TabSet] /\ f[w.active].open
  BY <1>2, SoundTabs
<1> HIDE DEF f
<1>4. Rough(v)
  BY <1>3, SoundTabs, EditedIsRough
<1> QED
  BY <1>1, <1>4, RenormalizedIsSound

LEMMA GroupRemoveIsSound ==
  ASSUME NEW t \in Tabs, Sound(layout), GroupRemove(t) PROVE Sound(layout')
<1> DEFINE f == [u \in Tabs |-> IF u \in {t}
                   THEN [layout.tabs[u] EXCEPT !.group = NoGroup, !.previous = NoGroup,
                                               !.order = LastPlace]
                   ELSE layout.tabs[u]]
           v == [layout EXCEPT !.tabs = f]
<1>1. layout' = Renormalize(v)
  BY DEF GroupRemove, Dispatch, Edit
<1>2. ASSUME NEW u \in Tabs
      PROVE  f[u] \in TabSet /\ f[u].open = layout.tabs[u].open
  <2>1. layout.tabs[u] \in TabSet /\ NoGroup \in Links /\ LastPlace \in Int
    BY SoundTabs
  <2> QED
    BY <2>1 DEF TabSet
<1>3. f \in [Tabs -> TabSet] /\ f[layout.active].open
  BY <1>2, SoundTabs
<1> HIDE DEF f
<1>4. Rough(v)
  BY <1>3, SoundTabs, EditedIsRough
<1> QED
  BY <1>1, <1>4, RenormalizedIsSound

LEMMA WithoutGroupIsSound ==
  ASSUME NEW g, Sound(layout) PROVE Sound(WithoutGroup(g))
<1> DEFINE K == {i \in DOMAIN layout.groups : layout.groups[i] # g}
           x == [layout EXCEPT !.groups = Kept(layout.groups, K)]
           members == MembersOf(g)
           f == [u \in Tabs |-> IF u \in members
                   THEN [x.tabs[u] EXCEPT !.group = NoGroup, !.order = LastPlace]
                   ELSE x.tabs[u]]
           v == [x EXCEPT !.tabs = f]
<1>1. WithoutGroup(g) = Renormalize(v)
  BY DEF WithoutGroup, Edit
<1>2. /\ layout \in LayoutSet /\ layout.groups \in Seq(GroupIds)
      /\ Len(layout.groups) \in Nat /\ Len(layout.groups) <= MaxGroups /\ MaxGroups \in Nat
  BY SoundTabs, LenProperties, TabLayoutAssumption
<1>3. /\ Kept(layout.groups, K) \in Seq(GroupIds)
      /\ Len(Kept(layout.groups, K)) \in Nat
      /\ Len(Kept(layout.groups, K)) <= Len(layout.groups)
  <2>1. K \subseteq DOMAIN layout.groups
    OBVIOUS
  <2> HIDE DEF K
  <2> QED
    BY <1>2, <2>1, KeptOk
<1> HIDE DEF K, members
<1>4. /\ x.active = layout.active /\ x.tabs = layout.tabs
      /\ x.groups = Kept(layout.groups, K) /\ x \in LayoutSet
  BY <1>2, <1>3 DEF LayoutSet
<1>5. Rough(x)
  BY <1>2, <1>3, <1>4, SoundTabs DEF Rough
<1> HIDE DEF x
<1>6. ASSUME NEW u \in Tabs
      PROVE  f[u] \in TabSet /\ f[u].open = layout.tabs[u].open
  <2>1. /\ x.tabs[u] \in TabSet /\ NoGroup \in Links /\ LastPlace \in Int
        /\ x.tabs[u].open = layout.tabs[u].open
    BY <1>4, SoundTabs
  <2> QED
    BY <2>1 DEF TabSet
<1>7. f \in [Tabs -> TabSet] /\ f[x.active].open
  BY <1>4, <1>6, SoundTabs
<1> HIDE DEF f
<1>8. Rough(v)
  BY <1>5, <1>7, EditedIsRough
<1> QED
  BY <1>1, <1>8, RenormalizedIsSound

(* An undo assigns one tab after the other: each layout on the way follows *)
(* from the one before.  That there is such a function is by the least     *)
(* number of tabs for which there would not be one.                        *)
LEMMA AssignAllSteps ==
  ASSUME NEW w, NEW members, NEW g
  PROVE  \E upTo :
            /\ AssignAll(w, members, g) = upTo[TabCount]
            /\ upTo[0] = w
            /\ \A t \in 1..TabCount :
                  upTo[t] = IF t \in members THEN Assigned(upTo[t - 1], t, g)
                            ELSE upTo[t - 1]
<1> DEFINE next(u, t) == IF t \in members THEN Assigned(u, t, g) ELSE u
           Steps(h, n) == h = [t \in 0..n |-> IF t = 0 THEN w ELSE next(h[t - 1], t)]
           upTo == CHOOSE h : Steps(h, TabCount)
<1>1. AssignAll(w, members, g) = upTo[TabCount]
  BY DEF AssignAll
<1>2. TabCount \in Nat /\ \A n \in 0..TabCount : n \in Nat
  BY TabsFinite
<1> HIDE DEF next
<1>3. \A n \in 0..TabCount : \E h : Steps(h, n)
  <2> DEFINE Failing == {n \in 0..TabCount : ~\E h : Steps(h, n)}
  <2> SUFFICES ASSUME Failing # {} PROVE FALSE
    OBVIOUS
  <2>1. Failing \subseteq 0..TabCount
    OBVIOUS
  <2>2. PICK n \in Failing : \A m \in Failing : n <= m
    <3> HIDE DEF Failing
    <3> QED
      BY <1>2, <2>1, LeastUpTo
  <2>3. n # 0
    <3>1. Steps([t \in 0..0 |-> w], 0)
      OBVIOUS
    <3> QED
      BY <3>1
  <2>4. n - 1 \in 0..TabCount /\ n \in Nat /\ ~(n <= n - 1)
    BY <1>2, <2>3
  <2>5. PICK h : Steps(h, n - 1)
    BY <2>2, <2>4
  <2> DEFINE k == [t \in 0..n |-> IF t = n THEN next(h[n - 1], n) ELSE h[t]]
  <2>6. ASSUME NEW t \in 0..n
        PROVE  k[t] = IF t = 0 THEN w ELSE next(k[t - 1], t)
    <3>1. CASE t = 0
      BY <2>3, <2>4, <2>5, <3>1
    <3>2. CASE t = n
      <4>1. n - 1 \in 0..n /\ n - 1 # n
        BY <2>3, <2>4
      <4> QED
        BY <2>3, <3>2, <4>1
    <3>3. CASE t # 0 /\ t # n
      <4>1. t \in 0..(n - 1) /\ t - 1 \in 0..n /\ t - 1 # n
        BY <2>4, <3>3
      <4>2. k[t] = h[t] /\ k[t - 1] = h[t - 1]
        BY <3>3, <4>1
      <4>3. h[t] = next(h[t - 1], t)
        BY <2>5, <3>3, <4>1
      <4> QED
        BY <3>3, <4>2, <4>3
    <3> QED
      BY <3>1, <3>2, <3>3
  <2>7. Steps(k, n)
    BY <2>6
  <2> QED
    BY <2>7
<1>4. Steps(upTo, TabCount)
  <2>1. \E h : Steps(h, TabCount)
    BY <1>2, <1>3
  <2> HIDE DEF Steps
  <2> QED
    BY <2>1
<1> HIDE DEF upTo
<1>5. upTo[0] = w
  BY <1>2, <1>4
<1>6. ASSUME NEW t \in 1..TabCount PROVE upTo[t] = next(upTo[t - 1], t)
  <2>1. t \in 0..TabCount /\ t # 0
    BY <1>2
  <2> QED
    BY <1>4, <2>1
<1> QED
  BY <1>1, <1>5, <1>6 DEF next

LEMMA AssignAllIsSound ==
  ASSUME NEW w, Sound(w), NEW members, NEW g \in GroupIds
  PROVE  Sound(AssignAll(w, members, g))
<1>1. PICK upTo : /\ AssignAll(w, members, g) = upTo[TabCount]
                  /\ upTo[0] = w
                  /\ \A t \in 1..TabCount :
                        upTo[t] = IF t \in members THEN Assigned(upTo[t - 1], t, g)
                                  ELSE upTo[t - 1]
  BY AssignAllSteps
<1>2. TabCount \in Nat
  BY TabsFinite
<1>3. \A n \in 0..TabCount : Sound(upTo[n])
  <2> DEFINE Failing == {n \in 0..TabCount : ~Sound(upTo[n])}
  <2> SUFFICES ASSUME Failing # {} PROVE FALSE
    OBVIOUS
  <2>1. Failing \subseteq 0..TabCount
    OBVIOUS
  <2>2. PICK n \in Failing : \A m \in Failing : n <= m
    <3> HIDE DEF Failing
    <3> QED
      BY <1>2, <2>1, LeastUpTo
  <2>3. n # 0
    BY <1>1
  <2>4. n \in 1..TabCount /\ n - 1 \in 0..TabCount /\ ~(n <= n - 1)
    BY <1>2, <2>3
  <2>5. Sound(upTo[n - 1])
    BY <2>2, <2>4
  <2>6. Sound(upTo[n])
    BY <1>1, <2>4, <2>5, AssignedIsSound
  <2> QED
    BY <2>6
<1> QED
  BY <1>1, <1>2, <1>3

NoticeSet == [group : GroupIds, members : SUBSET Tabs]

(* The renderer's copy is sound, and what may be undone is well formed.    *)
LayoutInv == Sound(layout) /\ notices \in Seq(NoticeSet)

LEMMA LayoutsAreSound ==
  ASSUME NEW w \in Layouts PROVE Sound(w)
<1>1. CASE w = Normalize(Default)
  BY <1>1, DefaultIsSound, ShownAsItIs
<1>2. ASSUME NEW g \in GroupIds, w = Normalize(WithGroup(Default, g, {1})) PROVE Sound(w)
  <2>1. Sound(WithGroup(Default, g, {1}))
    BY DefaultIsSound, WithGroupIsSound
  <2> QED
    BY <1>2, <2>1, ShownAsItIs
<1> QED
  BY <1>1, <1>2 DEF Layouts

LEMMA NoticeRemoved ==
  ASSUME notices \in Seq(NoticeSet), NEW i \in DOMAIN notices
  PROVE  /\ notices[i] \in NoticeSet /\ RemoveAt(notices, i) \in Seq(NoticeSet)
<1>1. Len(notices) \in Nat /\ DOMAIN notices = 1..Len(notices)
  BY LenProperties
<1>2. \A j \in 1..Len(notices) : notices[j] \in NoticeSet
  BY ElementOfSeq
<1>3. SubSeq(notices, 1, i - 1) \in Seq(NoticeSet)
  <2>1. 1 \in Int /\ i - 1 \in Int /\ \A j \in 1..(i - 1) : notices[j] \in NoticeSet
    BY <1>1, <1>2
  <2> QED
    BY <2>1, SubSeqProperties
<1>4. SubSeq(notices, i + 1, Len(notices)) \in Seq(NoticeSet)
  <2>1. /\ i + 1 \in Int /\ Len(notices) \in Int
        /\ \A j \in (i + 1)..Len(notices) : notices[j] \in NoticeSet
    BY <1>1, <1>2
  <2> QED
    BY <2>1, SubSeqProperties
<1>5. RemoveAt(notices, i) \in Seq(NoticeSet)
  BY <1>3, <1>4, ConcatProperties DEF RemoveAt
<1> QED
  BY <1>1, <1>2, <1>5

LEMMA NoticeAdded ==
  ASSUME notices \in Seq(NoticeSet), NEW n \in NoticeSet
  PROVE  LET all == Append(notices, n)
         IN  SubSeq(all, IF Len(all) > MaxNotices THEN 2 ELSE 1, Len(all)) \in Seq(NoticeSet)
<1> DEFINE all == Append(notices, n)
           from == IF Len(all) > MaxNotices THEN 2 ELSE 1
<1>1. all \in Seq(NoticeSet)
  BY AppendProperties
<1> HIDE DEF all
<1>2. Len(all) \in Nat /\ \A j \in 1..Len(all) : all[j] \in NoticeSet
  BY <1>1, LenProperties, ElementOfSeq
<1>3. from \in Int /\ Len(all) \in Int /\ \A j \in from..Len(all) : all[j] \in NoticeSet
  BY <1>2
<1> HIDE DEF from
<1>4. SubSeq(all, from, Len(all)) \in Seq(NoticeSet)
  BY <1>3, SubSeqProperties
<1> QED
  BY <1>4 DEF from, all

LEMMA LayoutStep ==
  ASSUME LayoutInv, [LayoutNext]_layoutVars PROVE LayoutInv'
<1>0. Sound(layout) /\ notices \in Seq(NoticeSet)
  BY DEF LayoutInv
<1> SUFFICES Sound(layout') /\ notices' \in Seq(NoticeSet)
  BY DEF LayoutInv, Sound, Rough, LinksAccepted, GroupsOf
<1>1. CASE UNCHANGED layoutVars
  BY <1>0, <1>1 DEF layoutVars
<1>2. ASSUME NEW t \in Tabs, Activate(t) PROVE Sound(layout') /\ notices' \in Seq(NoticeSet)
  BY <1>0, <1>2, ActivateIsSound DEF Activate, Dispatch
<1>3. ASSUME NEW t \in Tabs, Close(t) PROVE Sound(layout') /\ notices' \in Seq(NoticeSet)
  <2>1. Shut({t}, {t}) /\ UNCHANGED notices
    BY <1>3 DEF Close, Shut, Dispatch
  <2> QED
    BY <1>0, <2>1, ShutIsSound
<1>4. ASSUME NEW S, CloseMany(S) PROVE Sound(layout') /\ notices' \in Seq(NoticeSet)
  <2> DEFINE closing == {t \in S : ~layout.tabs[t].pinned}
  <2>1. Shut(closing, S) /\ UNCHANGED notices
    BY <1>4 DEF CloseMany, Shut, Dispatch
  <2>2. closing \subseteq S
    OBVIOUS
  <2> HIDE DEF closing
  <2> QED
    BY <1>0, <2>1, <2>2, ShutIsSound
<1>5. ASSUME NEW t \in Tabs, Reopen(t) \/ Pin(t) \/ GroupRemove(t)
      PROVE  Sound(layout') /\ notices' \in Seq(NoticeSet)
  <2>1. UNCHANGED notices
    BY <1>5 DEF Reopen, Pin, GroupRemove, Dispatch
  <2> QED
    BY <1>0, <1>5, <2>1, ReopenIsSound, PinIsSound, GroupRemoveIsSound
<1>6. ASSUME NEW t \in Tabs, NEW d, Move(t, d)
      PROVE  Sound(layout') /\ notices' \in Seq(NoticeSet)
  <2>1. UNCHANGED notices
    BY <1>6 DEF Move, Dispatch
  <2> QED
    BY <1>0, <1>6, <2>1, MoveIsSound
<1>7. ASSUME NEW t \in Tabs, NEW u \in Tabs, MoveTo(t, u)
      PROVE  Sound(layout') /\ notices' \in Seq(NoticeSet)
  <2>1. UNCHANGED notices
    BY <1>7 DEF MoveTo, Dispatch
  <2> QED
    BY <1>0, <1>7, <2>1, MoveToIsSound
<1>8. ASSUME NEW g \in GroupIds, NEW S, GroupCreate(g, S)
      PROVE  Sound(layout') /\ notices' \in Seq(NoticeSet)
  BY <1>0, <1>8, WithGroupIsSound DEF GroupCreate, Dispatch
<1>9. ASSUME NEW t \in Tabs, NEW g \in GroupIds, GroupAssign(t, g)
      PROVE  Sound(layout') /\ notices' \in Seq(NoticeSet)
  BY <1>0, <1>9, AssignedIsSound DEF GroupAssign, Dispatch
<1>10. ASSUME NEW g \in GroupIds, GroupDelete(g)
       PROVE  Sound(layout') /\ notices' \in Seq(NoticeSet)
  BY <1>0, <1>10, WithoutGroupIsSound DEF GroupDelete, Dispatch
<1>11. ASSUME NEW g \in GroupIds, DeleteWithUndo(g)
       PROVE  Sound(layout') /\ notices' \in Seq(NoticeSet)
  <2>1. [group |-> g, members |-> MembersOf(g)] \in NoticeSet
    BY DEF NoticeSet, MembersOf
  <2>2. notices' \in Seq(NoticeSet)
    BY <1>0, <1>11, <2>1, NoticeAdded DEF DeleteWithUndo
  <2>3. layout' = WithoutGroup(g)
    BY <1>11 DEF DeleteWithUndo
  <2> QED
    BY <1>0, <2>2, <2>3, WithoutGroupIsSound
<1>12. ASSUME NEW i \in DOMAIN notices, UndoDelete(i)
       PROVE  Sound(layout') /\ notices' \in Seq(NoticeSet)
  <2>1. notices[i].group \in GroupIds /\ RemoveAt(notices, i) \in Seq(NoticeSet)
    BY <1>0, NoticeRemoved DEF NoticeSet
  <2>2. Sound(WithGroup(layout, notices[i].group, {}))
    BY <1>0, <2>1, WithGroupIsSound
  <2>3. Sound(AssignAll(WithGroup(layout, notices[i].group, {}),
                        notices[i].members, notices[i].group))
    BY <2>1, <2>2, AssignAllIsSound
  <2> QED
    BY <1>12, <2>1, <2>3 DEF UndoDelete
<1>13. ASSUME NEW i \in DOMAIN notices, Dismiss(i)
       PROVE  Sound(layout') /\ notices' \in Seq(NoticeSet)
  BY <1>0, <1>13, NoticeRemoved DEF Dismiss
<1>14. ASSUME NEW w \in Layouts, ReplaceLayout(w)
       PROVE  Sound(layout') /\ notices' \in Seq(NoticeSet)
  BY <1>0, <1>14, LayoutsAreSound DEF ReplaceLayout, Dispatch
<1>15. CASE Relaunch
  <2>1. layout' = Normalize(layout) /\ notices' = <<>>
    BY <1>15 DEF Relaunch
  <2> QED
    BY <1>0, <2>1, ShownAsItIs, EmptySeq
<1> QED
  BY <1>1, <1>2, <1>3, <1>4, <1>5, <1>6, <1>7, <1>8, <1>9, <1>10, <1>11, <1>12, <1>13,
     <1>14, <1>15 DEF LayoutNext

LEMMA LayoutInvIsWhole == LayoutInv => LayoutIsWhole
<1> SUFFICES ASSUME LayoutInv PROVE LayoutIsWhole
  OBVIOUS
<1>1. Sound(layout) /\ notices \in Seq(NoticeSet)
  BY DEF LayoutInv
<1>2. LayoutTypeOK
  <2> DEFINE NatTab == [open : BOOLEAN, pinned : BOOLEAN, group : Links,
                        previous : Links, order : Nat]
  <2>1. \A t \in Tabs : layout.tabs[t] \in TabSet /\ layout.tabs[t].order \in Nat
    BY <1>1, GroupPlaces
  <2>2. \A t \in Tabs : layout.tabs[t] \in NatTab
    BY <2>1 DEF TabSet
  <2>3. layout \in LayoutSet
    BY <1>1, SoundTabs
  <2>4. layout.tabs \in [Tabs -> NatTab]
    BY <2>2, <2>3 DEF LayoutSet
  <2> HIDE DEF NatTab
  <2>5. layout \in [active : Tabs, groups : Seq(GroupIds), tabs : [Tabs -> NatTab]]
    BY <2>3, <2>4 DEF LayoutSet
  <2> QED
    BY <1>1, <2>5 DEF LayoutTypeOK, NoticeSet, NatTab
<1>3. layout.active \in Open(layout) /\ LinksAccepted(layout)
  BY <1>1, SoundTabs DEF Open, Sound
<1>4. /\ Rail(Normalize(layout)) = Rail(layout)
      /\ Normalize(layout).active = layout.active
      /\ \A t \in Tabs : Normalize(layout).tabs[t].group = layout.tabs[t].group
  BY <1>1, ShownAsItIs
<1> QED
  BY <1>2, <1>3, <1>4 DEF LayoutIsWhole

(* Whatever the user does with tabs and groups, imports, restores, deletes *)
(* and undoes, the renderer's copy is one that the main process accepts    *)
(* and shows as it is at the next launch (use-workspace.ts:32-50,          *)
(* workspace-service.ts:69), for every number of tabs, groups and notices. *)
THEOREM LayoutStaysWhole == LayoutSpec => []LayoutIsWhole
<1>1. LayoutInit => LayoutInv
  BY DefaultIsSound, EmptySeq DEF LayoutInit, LayoutInv
<1>2. LayoutInv /\ [LayoutNext]_layoutVars => LayoutInv'
  BY LayoutStep
<1> QED
  BY <1>1, <1>2, LayoutInvIsWhole, PTL DEF LayoutSpec
-----------------------------------------------------------------------------
(* A sound layout has no link that the next renormalization would clear.   *)
LEMMA LinkIsKept ==
  ASSUME NEW w, Sound(w), NEW v, GroupsOf(w) \subseteq GroupsOf(v), NEW t \in Tabs
  PROVE  /\ Existing(v, w.tabs[t].group) = w.tabs[t].group
         /\ w.tabs[t].pinned => w.tabs[t].group = NoGroup
         /\ w.tabs[t] \in TabSet
  BY GroupPlaces DEF Existing, GroupsOf

(* Every tab of v but those in S is as open, pinned and grouped as in w.   *)
Alike(w, v, S) ==
    \A t \in Tabs :
       /\ v.tabs[t].open = w.tabs[t].open
       /\ t \notin S => /\ v.tabs[t].pinned = w.tabs[t].pinned
                        /\ v.tabs[t].group = w.tabs[t].group

LEMMA GroupAdded ==
  ASSUME NEW w, Sound(w), NEW g \in GroupIds, Len(w.groups) < MaxGroups
  PROVE  LET n == WithGroup(w, g, {})
         IN  Sound(n) /\ g \in GroupsOf(n) /\ Alike(w, n, {})
<1> DEFINE x == [w EXCEPT !.groups = Append(@, g)]
           f == [u \in Tabs |-> IF u \in {}
                   THEN [x.tabs[u] EXCEPT !.pinned = FALSE, !.group = g, !.order = 0]
                   ELSE x.tabs[u]]
           v == [x EXCEPT !.tabs = f]
<1>1. /\ w \in LayoutSet /\ w.groups \in Seq(GroupIds) /\ Len(w.groups) \in Nat
      /\ MaxGroups \in Nat
  BY SoundTabs, LenProperties, TabLayoutAssumption
<1>2. WithGroup(w, g, {}) = Renormalize(v)
  <2>1. ~(Len(w.groups) >= MaxGroups)
    BY <1>1
  <2> QED
    BY <2>1 DEF WithGroup, Edit
<1>3. /\ Append(w.groups, g) \in Seq(GroupIds) /\ Len(Append(w.groups, g)) <= MaxGroups
      /\ GroupsOf(w) \subseteq ToSet(Append(w.groups, g)) /\ g \in ToSet(Append(w.groups, g))
  <2> DEFINE s == Append(w.groups, g)
  <2>1. /\ s \in Seq(GroupIds) /\ Len(s) = Len(w.groups) + 1
        /\ \A i \in 1..Len(w.groups) : s[i] = w.groups[i]
        /\ s[Len(w.groups) + 1] = g
    BY <1>1, AppendProperties
  <2> HIDE DEF s
  <2>2. DOMAIN s = 1..(Len(w.groups) + 1) /\ DOMAIN w.groups = 1..Len(w.groups)
    BY <1>1, <2>1, LenProperties
  <2>3. \A i \in DOMAIN w.groups : i \in DOMAIN s /\ s[i] = w.groups[i]
    BY <1>1, <2>1, <2>2
  <2>4. Len(w.groups) + 1 \in DOMAIN s
    BY <1>1, <2>2
  <2>5. GroupsOf(w) \subseteq ToSet(s) /\ g \in ToSet(s)
    BY <2>1, <2>3, <2>4 DEF GroupsOf, ToSet
  <2>6. Len(s) <= MaxGroups
    BY <1>1, <2>1
  <2> QED
    BY <2>1, <2>5, <2>6 DEF s
<1>4. x.active = w.active /\ x.groups = Append(w.groups, g) /\ x.tabs = w.tabs
  BY <1>1 DEF LayoutSet
<1>5. x \in LayoutSet
  BY <1>1, <1>3 DEF LayoutSet
<1> HIDE DEF x
<1>6. f = x.tabs
  BY <1>5 DEF LayoutSet
<1>7. v = x
  BY <1>5, <1>6 DEF LayoutSet
<1>8. Rough(x)
  BY <1>3, <1>4, <1>5, SoundTabs DEF Rough
<1>9. GroupsOf(w) \subseteq GroupsOf(x) /\ g \in GroupsOf(x)
  BY <1>3, <1>4 DEF GroupsOf
<1> DEFINE n == Renormalize(x)
<1>10. /\ Sound(n) /\ n.groups = x.groups
       /\ \A t \in Tabs :
             /\ n.tabs[t].open = x.tabs[t].open /\ n.tabs[t].pinned = x.tabs[t].pinned
             /\ n.tabs[t].group = IF x.tabs[t].pinned THEN NoGroup
                                  ELSE Existing(x, x.tabs[t].group)
  BY <1>8, Renormalized
<1> HIDE DEF n
<1>11. Alike(w, n, {})
  BY <1>4, <1>9, <1>10, LinkIsKept DEF Alike
<1>12. g \in GroupsOf(n)
  BY <1>9, <1>10 DEF GroupsOf
<1> QED
  BY <1>2, <1>7, <1>10, <1>11, <1>12 DEF n

(* The tabs in S are in g.                                                 *)
Joined(v, S, g) ==
    \A t \in S : v.tabs[t].pinned = FALSE /\ v.tabs[t].group = g

LEMMA AssignedTabs ==
  ASSUME NEW w, Sound(w), NEW t, NEW g \in GroupsOf(w)
  PROVE  LET n == Assigned(w, t, g)
         IN  /\ Sound(n) /\ n.groups = w.groups /\ Alike(w, n, {t} \cap Open(w))
             /\ Joined(n, {t} \cap Open(w), g)
<1> DEFINE S == {t} \cap Open(w)
           f == [u \in Tabs |-> IF u \in S
                   THEN [w.tabs[u] EXCEPT !.pinned = FALSE, !.group = g,
                                          !.previous = NoGroup, !.order = LastPlace]
                   ELSE w.tabs[u]]
           v == [w EXCEPT !.tabs = f]
<1>1. Assigned(w, t, g) = Renormalize(v)
  BY DEF Assigned, Edit
<1>2. g \in GroupIds /\ S \subseteq Tabs
  BY SoundTabs DEF Open
<1> HIDE DEF S
<1>3. ASSUME NEW u \in Tabs
      PROVE  /\ f[u] \in TabSet /\ f[u].open = w.tabs[u].open
             /\ u \in S => f[u].pinned = FALSE /\ f[u].group = g
             /\ u \notin S => f[u] = w.tabs[u]
  <2>1. w.tabs[u] \in TabSet /\ g \in Links /\ NoGroup \in Links /\ LastPlace \in Int
    BY <1>2, SoundTabs
  <2> QED
    BY <2>1 DEF TabSet
<1>4. f \in [Tabs -> TabSet] /\ f[w.active].open
  BY <1>3, SoundTabs
<1> HIDE DEF f
<1>5. Rough(v) /\ v.groups = w.groups /\ v.tabs = f
  BY <1>4, SoundTabs, EditedIsRough
<1> HIDE DEF v
<1> DEFINE n == Renormalize(v)
<1>6. /\ Sound(n) /\ n.groups = w.groups
      /\ \A u \in Tabs :
            /\ n.tabs[u].open = v.tabs[u].open /\ n.tabs[u].pinned = v.tabs[u].pinned
            /\ n.tabs[u].group = IF v.tabs[u].pinned THEN NoGroup
                                 ELSE Existing(v, v.tabs[u].group)
  BY <1>5, Renormalized
<1> HIDE DEF n
<1>7. GroupsOf(v) = GroupsOf(w) /\ Existing(v, g) = g
  BY <1>5 DEF GroupsOf, Existing
<1>8. ASSUME NEW u \in Tabs
      PROVE  /\ n.tabs[u].open = w.tabs[u].open
             /\ u \in S => n.tabs[u].pinned = FALSE /\ n.tabs[u].group = g
             /\ u \notin S => /\ n.tabs[u].pinned = w.tabs[u].pinned
                              /\ n.tabs[u].group = w.tabs[u].group
  <2>1. CASE u \in S
    BY <1>3, <1>5, <1>6, <1>7, <2>1
  <2>2. CASE u \notin S
    <3>1. v.tabs[u] = w.tabs[u]
      BY <1>3, <1>5, <2>2
    <3>2. /\ Existing(v, w.tabs[u].group) = w.tabs[u].group
          /\ w.tabs[u].pinned => w.tabs[u].group = NoGroup
      BY <1>7, LinkIsKept
    <3> QED
      BY <1>6, <2>2, <3>1, <3>2
  <2> QED
    BY <2>1, <2>2
<1>9. Alike(w, n, S)
  BY <1>8 DEF Alike
<1>10. Joined(n, S, g)
  BY <1>2, <1>8 DEF Joined
<1> QED
  BY <1>1, <1>6, <1>9, <1>10 DEF n, S

(* An undo has assigned the members that are open, and nothing else.       *)
LEMMA AssignAllTabs ==
  ASSUME NEW w, Sound(w), NEW members, NEW g \in GroupsOf(w),
         NEW n, n = AssignAll(w, members, g)
  PROVE  /\ Alike(w, n, members \cap Open(w))
         /\ Joined(n, members \cap Open(w), g)
<1>1. PICK upTo : /\ n = upTo[TabCount]
                  /\ upTo[0] = w
                  /\ \A t \in 1..TabCount :
                        upTo[t] = IF t \in members THEN Assigned(upTo[t - 1], t, g)
                                  ELSE upTo[t - 1]
  BY AssignAllSteps
<1> DEFINE done(k) == members \cap Open(w) \cap 1..k
           Good(k) == /\ Sound(upTo[k]) /\ upTo[k].groups = w.groups
                      /\ Alike(w, upTo[k], done(k))
                      /\ Joined(upTo[k], done(k), g)
<1>2. TabCount \in Nat /\ Open(w) \subseteq Tabs /\ Tabs = 1..TabCount
  BY TabsFinite DEF Tabs, Open
<1>3. \A k \in 0..TabCount : Good(k)
  <2> DEFINE Failing == {k \in 0..TabCount : ~Good(k)}
  <2> SUFFICES ASSUME Failing # {} PROVE FALSE
    OBVIOUS
  <2>1. Failing \subseteq 0..TabCount
    OBVIOUS
  <2>2. PICK k \in Failing : \A m \in Failing : k <= m
    <3> HIDE DEF Failing
    <3> QED
      BY <1>2, <2>1, LeastUpTo
  <2>3. k # 0
    <3>1. done(0) = {}
      OBVIOUS
    <3> HIDE DEF done
    <3>2. Good(0)
      BY <1>1, <3>1 DEF Alike, Joined
    <3> QED
      BY <3>2
  <2>4. k \in 1..TabCount /\ k - 1 \in 0..TabCount /\ ~(k <= k - 1)
    BY <1>2, <2>3
  <2>5. Good(k - 1)
    BY <2>2, <2>4
  <2> DEFINE p == upTo[k - 1]
  <2>6. /\ Sound(p) /\ p.groups = w.groups /\ Alike(w, p, done(k - 1))
        /\ Joined(p, done(k - 1), g)
    BY <2>5
  <2>7. Open(p) = Open(w) /\ g \in GroupsOf(p) /\ k \in Tabs
    BY <1>2, <2>4, <2>6 DEF Alike, Open, GroupsOf
  <2>8. done(k) = done(k - 1) \cup ({k} \cap members \cap Open(w))
    <3>1. 1..k = 1..(k - 1) \cup {k}
      BY <2>4
    <3> QED
      BY <3>1
  <2>9. k \notin done(k - 1)
    BY <2>4
  <2> HIDE DEF done
  <2>10. CASE k \in members
    <3> DEFINE q == Assigned(p, k, g)
    <3>1. upTo[k] = q
      BY <1>1, <2>4, <2>10
    <3> HIDE DEF p
    <3>2. /\ Sound(q) /\ q.groups = p.groups /\ Alike(p, q, {k} \cap Open(p))
          /\ Joined(q, {k} \cap Open(p), g)
      BY <2>6, <2>7, AssignedTabs
    <3> HIDE DEF q
    <3>3. Alike(w, q, done(k))
      BY <2>6, <2>7, <2>8, <2>10, <3>2 DEF Alike
    <3>4. ASSUME NEW t \in done(k) PROVE q.tabs[t].pinned = FALSE /\ q.tabs[t].group = g
      <4>1. CASE t = k
        BY <2>7, <2>8, <2>9, <3>2, <3>4, <4>1 DEF Joined
      <4>2. CASE t # k
        <5>1. t \in done(k - 1) /\ t \in Tabs
          BY <1>2, <2>8, <3>4, <4>2 DEF done
        <5>2. q.tabs[t].pinned = p.tabs[t].pinned /\ q.tabs[t].group = p.tabs[t].group
          BY <3>2, <4>2, <5>1 DEF Alike
        <5> QED
          BY <2>6, <5>1, <5>2 DEF Joined
      <4> QED
        BY <4>1, <4>2
    <3>5. Joined(q, done(k), g)
      BY <3>4 DEF Joined
    <3> QED
      BY <2>6, <3>1, <3>2, <3>3, <3>5
  <2>11. CASE k \notin members
    <3>1. upTo[k] = p /\ done(k) = done(k - 1)
      BY <1>1, <2>4, <2>8, <2>11
    <3> QED
      BY <2>6, <3>1
  <2> QED
    BY <2>10, <2>11
<1>4. done(TabCount) = members \cap Open(w)
  BY <1>2
<1>5. Good(TabCount)
  <2>1. TabCount \in 0..TabCount
    BY <1>2
  <2> HIDE DEF Good
  <2> QED
    BY <1>3, <2>1
<1> HIDE DEF done
<1>6. /\ Alike(w, upTo[TabCount], members \cap Open(w))
      /\ Joined(upTo[TabCount], members \cap Open(w), g)
  BY <1>4, <1>5
<1> HIDE DEF Good
<1> QED
  BY <1>1, <1>6

LEMMA GroupTaken ==
  ASSUME Sound(layout), NEW g \in GroupsOf(layout)
  PROVE  LET n == WithoutGroup(g)
         IN  /\ Sound(n) /\ Len(n.groups) < MaxGroups
             /\ Alike(layout, n, MembersOf(g))
             /\ \A t \in MembersOf(g) : n.tabs[t].pinned = layout.tabs[t].pinned
<1> DEFINE K == {i \in DOMAIN layout.groups : layout.groups[i] # g}
           x == [layout EXCEPT !.groups = Kept(layout.groups, K)]
           members == MembersOf(g)
           f == [u \in Tabs |-> IF u \in members
                   THEN [x.tabs[u] EXCEPT !.group = NoGroup, !.order = LastPlace]
                   ELSE x.tabs[u]]
           v == [x EXCEPT !.tabs = f]
<1>1. WithoutGroup(g) = Renormalize(v)
  BY DEF WithoutGroup, Edit
<1>2. /\ layout \in LayoutSet /\ layout.groups \in Seq(GroupIds)
      /\ Len(layout.groups) \in Nat /\ Len(layout.groups) <= MaxGroups /\ MaxGroups \in Nat
      /\ DOMAIN layout.groups = 1..Len(layout.groups)
  BY SoundTabs, LenProperties, TabLayoutAssumption
<1>3. PICK i \in DOMAIN layout.groups : layout.groups[i] = g
  BY DEF GroupsOf, ToSet
<1>4. /\ Kept(layout.groups, K) \in Seq(GroupIds)
      /\ Len(Kept(layout.groups, K)) < MaxGroups
      /\ ToSet(Kept(layout.groups, K)) = GroupsOf(layout) \ {g}
  <2>1. K \subseteq DOMAIN layout.groups /\ i \notin K
    BY <1>3
  <2>2. ToSet(layout.groups) \ {g} = {layout.groups[k] : k \in K}
    BY DEF ToSet
  <2> HIDE DEF K
  <2>3. /\ Kept(layout.groups, K) \in Seq(GroupIds)
        /\ Len(Kept(layout.groups, K)) = Cardinality(K)
        /\ ToSet(Kept(layout.groups, K)) = {layout.groups[k] : k \in K}
        /\ Cardinality(K) \in Nat
    BY <1>2, <2>1, KeptOk
  <2>4. /\ IsFiniteSet(DOMAIN layout.groups)
        /\ Cardinality(DOMAIN layout.groups) = Len(layout.groups)
    BY <1>2, FS_Interval
  <2>5. Cardinality(K) <= Len(layout.groups) /\ Cardinality(K) # Len(layout.groups)
    BY <1>3, <2>1, <2>4, FS_Subset
  <2> QED
    BY <1>2, <2>2, <2>3, <2>5 DEF GroupsOf
<1> HIDE DEF K, members
<1>5. /\ x.active = layout.active /\ x.tabs = layout.tabs
      /\ x.groups = Kept(layout.groups, K) /\ x \in LayoutSet
  BY <1>2, <1>4 DEF LayoutSet
<1>6. Rough(x) /\ GroupsOf(x) = GroupsOf(layout) \ {g} /\ Len(x.groups) < MaxGroups
  <2>1. Len(x.groups) \in Nat
    BY <1>4, <1>5, LenProperties
  <2>2. Len(x.groups) <= MaxGroups
    BY <1>2, <1>4, <1>5, <2>1
  <2>3. Rough(x)
    BY <1>5, <2>2, SoundTabs DEF Rough
  <2>4. GroupsOf(x) = GroupsOf(layout) \ {g}
    BY <1>4, <1>5 DEF GroupsOf
  <2> QED
    BY <1>4, <1>5, <2>3, <2>4
<1> HIDE DEF x
<1>7. ASSUME NEW u \in Tabs
      PROVE  /\ f[u] \in TabSet /\ f[u].open = layout.tabs[u].open
             /\ f[u].pinned = layout.tabs[u].pinned
             /\ u \notin members => f[u].group = layout.tabs[u].group
  <2>1. layout.tabs[u] \in TabSet /\ NoGroup \in Links /\ LastPlace \in Int
        /\ x.tabs[u] = layout.tabs[u]
    BY <1>5, SoundTabs
  <2> QED
    BY <2>1 DEF TabSet
<1>8. f \in [Tabs -> TabSet] /\ f[x.active].open
  BY <1>5, <1>7, SoundTabs
<1> HIDE DEF f
<1>9. Rough(v) /\ v.groups = x.groups /\ v.tabs = f
  BY <1>6, <1>8, EditedIsRough
<1> HIDE DEF v
<1> DEFINE n == Renormalize(v)
<1>10. /\ Sound(n) /\ n.groups = x.groups
       /\ \A u \in Tabs :
             /\ n.tabs[u].open = v.tabs[u].open /\ n.tabs[u].pinned = v.tabs[u].pinned
             /\ n.tabs[u].group = IF v.tabs[u].pinned THEN NoGroup
                                  ELSE Existing(v, v.tabs[u].group)
  BY <1>9, Renormalized
<1> HIDE DEF n
<1>11. GroupsOf(v) = GroupsOf(layout) \ {g}
  BY <1>6, <1>9 DEF GroupsOf
<1>12. ASSUME NEW u \in Tabs, u \notin members
       PROVE  n.tabs[u].group = layout.tabs[u].group
  <2>1. layout.tabs[u].group # g
    BY <1>12 DEF members, MembersOf
  <2>2. /\ layout.tabs[u].group \in GroupsOf(layout) \cup {NoGroup}
        /\ layout.tabs[u].pinned => layout.tabs[u].group = NoGroup
    BY GroupPlaces DEF GroupsOf
  <2>3. Existing(v, layout.tabs[u].group) = layout.tabs[u].group
    BY <1>11, <2>1, <2>2 DEF Existing
  <2> QED
    BY <1>7, <1>9, <1>10, <1>12, <2>2, <2>3
<1>13. Alike(layout, n, members)
  BY <1>7, <1>9, <1>10, <1>12 DEF Alike
<1>14. \A t \in members : n.tabs[t].pinned = layout.tabs[t].pinned
  <2>1. members \subseteq Tabs
    BY DEF members, MembersOf
  <2> QED
    BY <1>7, <1>9, <1>10, <2>1
<1> QED
  BY <1>1, <1>6, <1>10, <1>13, <1>14 DEF members, n

(* A group that is deleted and brought back at once: what deleteGroup      *)
(* dispatches, and then what its undo does (App.tsx:760-776).              *)
BroughtBack(g) == AssignAll(WithGroup(WithoutGroup(g), g, {}), MembersOf(g), g)

(* The undo of a deletion, at once, brings the group back and each of its  *)
(* open tabs into it; and whatever else is open is where it was.  (A tab   *)
(* that is closed does not come back into the group.)                      *)
THEOREM UndoBringsBack ==
  LayoutSpec => [](\A g \in GroupsOf(layout), t \in Open(layout) :
                      /\ BroughtBack(g).tabs[t].open
                      /\ BroughtBack(g).tabs[t].pinned = layout.tabs[t].pinned
                      /\ BroughtBack(g).tabs[t].group = layout.tabs[t].group)
<1>1. ASSUME LayoutInv, NEW g \in GroupsOf(layout), NEW t \in Open(layout)
      PROVE  /\ BroughtBack(g).tabs[t].open
             /\ BroughtBack(g).tabs[t].pinned = layout.tabs[t].pinned
             /\ BroughtBack(g).tabs[t].group = layout.tabs[t].group
  <2> DEFINE x == WithoutGroup(g)
             y == WithGroup(x, g, {})
             members == MembersOf(g)
             z == AssignAll(y, members, g)
  <2>1. Sound(layout) /\ t \in Tabs /\ layout.tabs[t].open /\ g \in GroupIds
    BY <1>1, SoundTabs DEF LayoutInv, Open
  <2>2. /\ Sound(x) /\ Len(x.groups) < MaxGroups /\ Alike(layout, x, members)
        /\ \A u \in members : x.tabs[u].pinned = layout.tabs[u].pinned
    BY <2>1, GroupTaken
  <2> HIDE DEF x
  <2>3. Sound(y) /\ g \in GroupsOf(y) /\ Alike(x, y, {})
    BY <2>1, <2>2, GroupAdded
  <2> HIDE DEF y, members
  <2>4. /\ Alike(y, z, members \cap Open(y))
        /\ Joined(z, members \cap Open(y), g)
    <3>1. z = AssignAll(y, members, g)
      OBVIOUS
    <3> HIDE DEF z
    <3> QED
      BY <2>3, <3>1, AssignAllTabs
  <2> HIDE DEF z
  <2>5. BroughtBack(g) = z
    BY DEF BroughtBack, x, y, z, members
  <2>6. /\ x.tabs[t].open /\ y.tabs[t].open /\ z.tabs[t].open /\ t \in Open(y)
    BY <2>1, <2>2, <2>3, <2>4 DEF Alike, Open
  <2>7. CASE t \in members
    <3>1. layout.tabs[t].group = g /\ g # NoGroup
      BY <2>1, <2>7, TabLayoutAssumption DEF MembersOf, members
    <3>2. layout.tabs[t].pinned = FALSE
      <4>1. layout.tabs[t] \in TabSet
        BY <2>1, SoundTabs
      <4> QED
        BY <2>1, <3>1, <4>1, GroupPlaces DEF TabSet
    <3>3. z.tabs[t].pinned = FALSE /\ z.tabs[t].group = g
      BY <2>4, <2>6, <2>7 DEF Joined
    <3> QED
      BY <2>5, <2>6, <3>1, <3>2, <3>3
  <2>8. CASE t \notin members
    <3>1. /\ x.tabs[t].pinned = layout.tabs[t].pinned
          /\ x.tabs[t].group = layout.tabs[t].group
      BY <2>1, <2>2, <2>8 DEF Alike
    <3>2. y.tabs[t].pinned = x.tabs[t].pinned /\ y.tabs[t].group = x.tabs[t].group
      BY <2>1, <2>3 DEF Alike
    <3>3. z.tabs[t].pinned = y.tabs[t].pinned /\ z.tabs[t].group = y.tabs[t].group
      BY <2>1, <2>4, <2>8 DEF Alike
    <3> QED
      BY <2>5, <2>6, <3>1, <3>2, <3>3
  <2> QED
    BY <2>7, <2>8
<1> DEFINE Back == \A g \in GroupsOf(layout), t \in Open(layout) :
                      /\ BroughtBack(g).tabs[t].open
                      /\ BroughtBack(g).tabs[t].pinned = layout.tabs[t].pinned
                      /\ BroughtBack(g).tabs[t].group = layout.tabs[t].group
<1>2. LayoutInv => Back
  BY <1>1
<1>3. LayoutInit => LayoutInv
  BY DefaultIsSound, EmptySeq DEF LayoutInit, LayoutInv
<1>4. LayoutInv /\ [LayoutNext]_layoutVars => LayoutInv'
  BY LayoutStep
<1> HIDE DEF Back
<1>5. LayoutSpec => []Back
  BY <1>2, <1>3, <1>4, PTL DEF LayoutSpec
<1> QED
  BY <1>5 DEF Back
-----------------------------------------------------------------------------
(* All the positions in their order are the positions.                     *)
LEMMA InOrderOfAll ==
  ASSUME NEW n \in Nat, NEW m \in 1..n PROVE InOrder(1..n)[m] = m
<1> DEFINE at == InOrder(1..n)
           Bad == {k \in 1..n : at[k] # k}
<1>1. IsFiniteSet(1..n) /\ Cardinality(1..n) = n /\ 1..n \subseteq Nat
  BY FS_Interval
<1>2. /\ at \in [1..n -> 1..n]
      /\ \A j, k \in 1..n : j < k => at[j] < at[k]
      /\ \A k \in 1..n : \E j \in 1..n : at[j] = k
  BY <1>1, InOrderOk
<1> HIDE DEF at
<1> SUFFICES ASSUME Bad # {} PROVE FALSE
  BY DEF at
<1>3. Bad \subseteq 0..n /\ Bad \subseteq 1..n
  OBVIOUS
<1>4. PICK k \in Bad : \A j \in Bad : k <= j
  <2> HIDE DEF Bad
  <2> QED
    BY <1>3, LeastUpTo
<1>5. PICK j \in 1..n : at[j] = k
  BY <1>2, <1>3, <1>4
<1>6. k \in 1..n /\ at[k] # k /\ at[k] \in 1..n
  BY <1>2, <1>4
<1>7. CASE j < k
  BY <1>4, <1>5, <1>6, <1>7
<1>8. CASE k < j
  <2>1. at[k] < k
    BY <1>2, <1>5, <1>6, <1>8
  <2>2. at[at[k]] = at[k]
    BY <1>4, <1>6, <2>1
  <2>3. at[at[k]] < at[k]
    BY <1>2, <1>6, <2>1
  <2> QED
    BY <1>6, <2>2, <2>3
<1> QED
  BY <1>5, <1>6, <1>7, <1>8

(* What is kept is there once, and kept as it is by the next time.         *)
LEMMA KeptOnce ==
  ASSUME NEW G, NEW s \in Seq(G)
  PROVE  LET f == KeepFirst(s) IN IsInjective(f) /\ KeepFirst(f) = f
<1> DEFINE f == KeepFirst(s)
           K == Firsts(s)
           at == InOrder(K)
           size == Cardinality(K)
<1>1. /\ K \subseteq DOMAIN s
      /\ \A i, j \in K : s[i] = s[j] => i = j
  BY FirstsOk
<1>2. /\ IsFiniteSet(K) /\ K \subseteq Nat /\ f \in Seq(G)
      /\ size \in Nat /\ DOMAIN f = 1..size
  <2>1. f = Kept(s, K)
    BY DEF KeepFirst
  <2> QED
    BY <1>1, <2>1, KeptOk
<1>3. /\ at \in [1..size -> K]
      /\ \A m, n \in 1..size : m < n => at[m] < at[n]
  BY <1>2, InOrderOk
<1>4. \A n \in 1..size : f[n] = s[at[n]]
  BY DEF KeepFirst, Kept
<1> HIDE DEF f, K, at, size
<1>5. ASSUME NEW m \in 1..size, NEW n \in 1..size, f[m] = f[n] PROVE m = n
  <2>1. at[m] = at[n] /\ at[m] \in Nat
    BY <1>1, <1>2, <1>3, <1>4, <1>5
  <2>2. ~(m < n) /\ ~(n < m)
    BY <1>3, <2>1
  <2> QED
    BY <1>2, <2>2
<1>6. IsInjective(f)
  BY <1>2, <1>5 DEF IsInjective
<1>7. Firsts(f) = 1..size
  <2>1. ASSUME NEW i \in 1..size, NEW j \in 1..size, f[j] = f[i] PROVE i <= j
    BY <1>2, <1>5, <2>1
  <2> QED
    BY <1>2, <2>1 DEF Firsts
<1>8. Cardinality(1..size) = size
  BY <1>2, FS_Interval
<1>9. KeepFirst(f) = [n \in 1..size |-> f[InOrder(1..size)[n]]]
  BY <1>7, <1>8 DEF KeepFirst, Kept
<1>10. KeepFirst(f) = [n \in 1..size |-> f[n]]
  BY <1>2, <1>9, InOrderOfAll
<1>11. f = [n \in 1..size |-> f[n]]
  BY <1>2
<1> QED
  BY <1>6, <1>10, <1>11 DEF f

(* Every tab of a layout that has been numbered is where its order says.   *)
LEMMA NormalizedOnce ==
  ASSUME NEW w, Sound(w)
  PROVE  Accepted(Normalize(w)) /\ Normalize(Normalize(w)) = Normalize(w)
<1> DEFINE n == Normalize(w)
           r == Repaired(n)
           f == [t \in Tabs |-> IF t \in Open(r) THEN [r.tabs[t] EXCEPT !.order = Place(r, t)]
                                ELSE r.tabs[t]]
<1>1. /\ Sound(n) /\ n.groups = KeepFirst(w.groups)
      /\ \A t \in Open(n) : n.tabs[t].order = Place(n, t)
  BY ShownAsItIs
<1>2. w.groups \in Seq(GroupIds)
  BY SoundTabs
<1> HIDE DEF n
<1>3. IsInjective(n.groups) /\ KeepFirst(n.groups) = n.groups
  BY <1>1, <1>2, KeptOnce
<1>4. Accepted(n)
  BY <1>1, <1>3 DEF Accepted, Sound
<1>5. /\ Rough(r) /\ r.groups = KeepFirst(n.groups)
      /\ r.active = n.active /\ r.tabs = n.tabs
  BY <1>1, RepairedOk
<1>6. n \in LayoutSet /\ n.active \in Tabs /\ n.tabs[n.active].open
  BY <1>1, SoundTabs
<1> HIDE DEF r
<1>7. r = n
  BY <1>3, <1>5, <1>6 DEF Rough, LayoutSet
<1>8. ASSUME NEW t \in Tabs
      PROVE  f[t] = n.tabs[t]
  <2>1. n.tabs[t] \in TabSet
    BY <1>1, SoundTabs
  <2>2. CASE t \in Open(n)
    <3>1. f[t] = [n.tabs[t] EXCEPT !.order = n.tabs[t].order]
      BY <1>1, <1>7, <2>2
    <3> QED
      BY <2>1, <3>1 DEF TabSet
  <2>3. CASE t \notin Open(n)
    BY <1>7, <2>3
  <2> QED
    BY <2>2, <2>3
<1>9. f = n.tabs
  <2>1. DOMAIN f = Tabs /\ DOMAIN n.tabs = Tabs
    BY <1>6 DEF LayoutSet
  <2>2. f = [t \in Tabs |-> f[t]] /\ n.tabs = [t \in Tabs |-> n.tabs[t]]
    BY <1>6 DEF LayoutSet
  <2> HIDE DEF f
  <2> QED
    BY <1>8, <2>2
<1>10. Numbered(r) = n
  <2>1. n.active \in Open(n)
    BY <1>6 DEF Open
  <2>2. Numbered(r) = [r EXCEPT !.tabs = f, !.active = r.active]
    BY <1>7, <2>1 DEF Numbered
  <2> HIDE DEF f
  <2> QED
    BY <1>6, <1>7, <1>9, <2>2 DEF LayoutSet
<1>11. Normalize(n) = Numbered(r)
  BY DEF Normalize, r
<1> QED
  BY <1>4, <1>10, <1>11 DEF n

(* What the main process loads or saves it accepts, so that it can be      *)
(* saved again, and leaves it as it is when it does it a second time: a    *)
(* layout does not drift from launch to launch (workspace-service.ts:69).  *)
THEOREM SavedIsLoadedAsItIs ==
  LayoutSpec => [](/\ Accepted(Normalize(layout))
                   /\ Normalize(Normalize(layout)) = Normalize(layout))
<1> DEFINE Settles == /\ Accepted(Normalize(layout))
                      /\ Normalize(Normalize(layout)) = Normalize(layout)
<1>1. LayoutInv => Settles
  BY NormalizedOnce DEF LayoutInv
<1>2. LayoutInit => LayoutInv
  BY DefaultIsSound, EmptySeq DEF LayoutInit, LayoutInv
<1>3. LayoutInv /\ [LayoutNext]_layoutVars => LayoutInv'
  BY LayoutStep
<1> HIDE DEF Settles
<1>4. LayoutSpec => []Settles
  BY <1>1, <1>2, <1>3, PTL DEF LayoutSpec
<1> QED
  BY <1>4 DEF Settles
=============================================================================
