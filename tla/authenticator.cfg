SPECIFICATION Spec
CONSTANTS
    a = a
    b = b
    g = g
    Ids <- MCIds
    Saved <- MCSaved
    Selections <- MCSelections
    Groups <- MCGroups
    MaxEntries = 1
    MaxPending = 1
    Limit <- MCLimit
CHECK_DEADLOCK FALSE
INVARIANTS FencedMeansCleared VaultIsWhole ExportIsTruthful
PROPERTIES NothingComesBack RequestsEnd
