CONSTANTS
    t1 = t1
    t2 = t2
    q1 = q1
    p1 = p1
    Main = Main
    None = None
    Task <- MCOneTask
    Request <- MCOneRequest
    Page <- MCNoPages
    Reviewed <- MCLeast
    Saving = 1
    TaskLimit = 1
    Concurrency = 2
    MaxRetries = 1
    MaxGrants = 1
    Room = 5
    Allowance = 2
    MaxFaults = 1
SPECIFICATION FairSpec
CHECK_DEADLOCK FALSE
INVARIANTS
    WithinApproval
    ResumesClean
PROPERTIES
    StopHolds
    Settles
