SPECIFICATION Spec
CONSTANTS
    p1 = p1
    p2 = p2
    p3 = p3
    p4 = p4
    Procs <- MCProcs
    NoProc = NoProc
    MaxDepth = 2
SYMMETRY Interchangeable
CHECK_DEADLOCK FALSE
PROPERTIES LockIsExclusive
