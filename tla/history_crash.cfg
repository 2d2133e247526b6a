SPECIFICATION MCSpec
CONSTANTS
  N = 2
  a = a
  b = b
  Values <- MCValues
  Absent = Absent
  Fallback = a
  Revisions <- MCRevisions
  NoRequest = NoRequest
  Limit <- CrashLimit
  TabCount = 3
  GroupIds = {"g1"}
  NoGroup = NoGroup
  MaxGroups = 2
  MaxNotices = 1
  Workspaces = {"x", "y"}
  Original = "default"
  Former = "former"
  NoDraft = "none"
  MaxEdits = 2
  MaxReplaced = 1
  WorkspaceFaults = 1
INVARIANTS ServesSettled LayoutIsWhole QuietShowsStored
PROPERTIES AllOrNothing ReinstatedIsPrior
CHECK_DEADLOCK FALSE
