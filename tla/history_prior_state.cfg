SPECIFICATION Spec
CONSTANTS
  N = 2
  a = a
  b = b
  Values <- MCValues
  Absent = Absent
  Fallback = a
  Revisions <- MCRevisions
  NoRequest = NoRequest
  Limit <- FaultLimit
PROPERTY ReinstatedIsPrior
CHECK_DEADLOCK FALSE
