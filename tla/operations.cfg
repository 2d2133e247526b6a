SPECIFICATION MCSpec
CONSTANTS
    player = player
    editor = editor
    NoApp = NoApp
    Apps <- MCApps
    Portable <- MCPortable
    MaxRequests = 4
    MaxRestarts = 1
    Checks = {"c1", "c2"}
    MaxRelease = 3
    MaxDownloads = 2
    UpdateFaults = 1
CHECK_DEADLOCK FALSE
INVARIANTS OneActorPerApp AcceptedCancelIsHonoured ReadyIsWanted
PROPERTIES LeaseSettles CheckingEnds
