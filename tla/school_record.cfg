SPECIFICATION Spec
CONSTANTS
    store = store
    office = office
    pinA = pinA
    pinB = pinB
    Procs <- MCProcs
    NoProc = NoProc
    Secrets <- MCSecrets
    NoSecret = NoSecret
    MaxRevision = 3
    MaxEpochs = 2
SYMMETRY Interchangeable
CHECK_DEADLOCK FALSE
INVARIANTS RevisionsAgree
PROPERTIES NoLostUpdate VerifiedAgainstLatest
