CONSTANTS
    k1 = k1
    k2 = k2
    k3 = k3
    None = None
    Keys <- MCKeys
    Files <- MCTwoFiles
    KeyLimit = 3
    MaxRecords = 2
    MaxMoves = 2
    MaxStops = 2
    RestoreInPlace = TRUE
    OrphanRuntime = TRUE
    LegacyMarker = TRUE
SPECIFICATION Spec
SYMMETRY KeySymmetry
CHECK_DEADLOCK FALSE
INVARIANTS
    KeysKept
    MarkerTellsAll
    ListIsWritten
PROPERTIES
    CustodyKept
