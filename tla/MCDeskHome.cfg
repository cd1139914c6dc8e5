SPECIFICATION FairSpec
CONSTANTS
    Procs = {p1, p2}
    Folders = 2
    Install = 2
    Settings = 3
    Launcher = 1
    Made <- MCMade
    MaxStops = 2
    MaxEdits = 1
    SplitConversion = TRUE
CHECK_DEADLOCK FALSE
INVARIANTS
    LocatorIsLast
    LauncherStarts
PROPERTIES
    EditsKept
    CompleteIsFinal
    MoveFinishes
