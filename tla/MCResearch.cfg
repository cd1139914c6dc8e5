CONSTANTS
    t1 = t1
    t2 = t2
    q1 = q1
    p1 = p1
    Main = Main
    None = None
    Task <- MCTasks
    Request <- MCRequests
    Page <- MCPages
    Reviewed <- MCReviewed
    Saving = 1
    TaskLimit = 1
    Concurrency = 2
    MaxRetries = 1
    MaxGrants = 1
    Room = 4
    Allowance = 2
    MaxFaults = 0
SPECIFICATION Spec
SYMMETRY Symmetric
CHECK_DEADLOCK FALSE
INVARIANTS
    AskedOnce
    KeptWithinRoom
