CONSTANTS
    r1 = r1
    r2 = r2
    s1 = s1
    h1 = h1
    h2 = h2
    t1 = t1
    o1 = o1
    None = None
    Request <- MCRequests
    Session <- MCSessions
    Handoff <- MCHandoffs
    Attempt <- MCAttempts
    Owner <- MCOwners
    MaxSessions = 1
    MaxLaunches = 1
    MaxChanges = 2
SPECIFICATION Spec
SYMMETRY Symmetric
CHECK_DEADLOCK FALSE
INVARIANTS
    HandoffBuysOne
    WorkIsCurrent
    OnlyTheCurrent
PROPERTIES
    PolicyChangedByItsAdmin
