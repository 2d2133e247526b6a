SPECIFICATION Spec
CONSTANTS
    MaxJobs = 2
    Connected = TRUE
    Limit <- MCLimit
CHECK_DEADLOCK FALSE
INVARIANTS HandleIsKept SuccessIsClean OrphansAreSwept
PROPERTIES JobsEnd NoGuestIsLeft
