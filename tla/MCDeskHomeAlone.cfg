SPECIFICATION Spec
CONSTANTS
    Procs = {p1, p2}
    Folders = 2
    Install = 2
    Settings = 3
    Launcher = 1
    Made <- MCMade
    MaxStops = 0
    MaxEdits = 0
    SplitConversion = TRUE
INVARIANTS MovesAlone
CHECK_DEADLOCK FALSE
