CONSTANTS
    h1 = h1
    o1 = o1
    o2 = o2
    None = None
    Holder <- MCOneHolder
    Origin <- MCOrigins
    MaxHead = 1
    MaxChain = 2
    MaxSets = 2
    MaxOffers = 1
    MaxTroubles = 1
    StatementBound = 2
SPECIFICATION FairSpec
CHECK_DEADLOCK FALSE
INVARIANTS
    EvidenceKept
    SentUnderTheCurrent
    SentAsConfirmed
PROPERTIES
    KeptStatementsStay
    CursorReachesHead
