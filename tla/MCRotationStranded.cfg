CONSTANTS
    k1 = k1
    k2 = k2
    k3 = k3
    None = None
    Keys <- MCKeys
    Files <- MCTwoFiles
    KeyLimit = 3
    MaxRecords = 3
    MaxMoves = 0
    MaxStops = 1
    RestoreInPlace = FALSE
    OrphanRuntime = FALSE
    LegacyMarker = FALSE
SPECIFICATION Spec
SYMMETRY KeySymmetry
INVARIANTS
    NextStartFinishes
CHECK_DEADLOCK FALSE
