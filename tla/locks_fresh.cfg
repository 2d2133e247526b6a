SPECIFICATION Spec
CONSTANTS
  Keys = {tab, color}
  Credentials = {old, new}
  Callers = {"u1"}
  Nothing = Nothing
  MaxLocks = 1
  MaxAttempts = 1
  LockFaults = 1
  Users = {"u1", "u2"}
  Secrets = {"s1", "s2"}
  None = None
  Spoilt = Spoilt
  MaxFailures = 2
  AccessFaults = 1
  MaxVersion = 2
  PortableFaults = 3
  player = player
  editor = editor
  Apps <- MCApps
  NoApp = NoApp
  MaxRelease = 3
  MaxDownloads = 2
  Limit <- MCLimit
  Files = {"exe", "log"}
  FinalOutputs = {"exe"}
  GuestFaults = 2
  Elements = {"header", "card"}
  Looks = {"red"}
  Plain = Plain
  NoElement = NoElement
  MaxAsked = 3
  AppearanceFaults = 1
CHECK_DEADLOCK FALSE
INVARIANT LocksCanBeSet
