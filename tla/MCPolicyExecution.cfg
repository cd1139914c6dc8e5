CONSTANTS
    None = None
    k1 = k1
    s1 = s1
    s2 = s2
    Keys <- OneKey
    Sessions <- TwoSessions
    MaxTime = 1
    From = 0
    Until = 1
    EpochLimit = 2
    IntentLimit = 1
    MaxGeneration = 7
SPECIFICATION Spec
CHECK_DEADLOCK FALSE
SYMMETRY Alike
INVARIANTS
    HeadIsValid
    OneLaunch
PROPERTIES
    StartIsPermitted
    OverStaysOver
    StartsOnce
