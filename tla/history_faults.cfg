SPECIFICATION MCSpec
CONSTANTS
  N = 2
  a = a
  b = b
  Values <- MCValues
  Absent = Absent
  Fallback = a
  Revisions <- MCRevisions
  NoRequest = NoRequest
  Limit <- FaultLimit
  selfUpdate = selfUpdate
  catalogRefresh = catalogRefresh
  Tasks <- MCTasks
  SelfUpdate = selfUpdate
  NoTask = NoTask
  MaxDemands = 2
INVARIANTS OkIsDurable NothingBehindRestore RunsAreCurrent
PROPERTIES SettledIsWhole RecoveryTerminates BarrierLifts
CHECK_DEADLOCK FALSE
