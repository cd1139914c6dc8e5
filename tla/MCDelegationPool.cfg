CONSTANTS
    NTasks = 3
    Concurrency = 2
SPECIFICATION Spec
INVARIANTS
    SavedIntent
    NilMeansCarried
PROPERTIES
    NoLateWrite
    Returns
