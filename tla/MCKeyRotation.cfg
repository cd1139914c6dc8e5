CONSTANTS
    k1 = k1
    k2 = k2
    k3 = k3
    None = None
    Keys <- MCKeys
    Files <- MCTwoFiles
    KeyLimit = 3
    MaxRecords = 2
    MaxMoves = 1
    MaxStops = 2
    RestoreInPlace = FALSE
    OrphanRuntime = FALSE
    LegacyMarker = FALSE
SPECIFICATION FairSpec
CHECK_DEADLOCK FALSE
INVARIANTS
    SettledKeysAgree
PROPERTIES
    RotatedMeansSigned
    WrittenNotUndone
    RotationSettles
