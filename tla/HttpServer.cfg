SPECIFICATION FairSpec
CONSTANTS
    Requests <- AllKinds
    Numbers = {0, 2}
    MaxRequests = 2
INVARIANTS
    TypeOK
    RequestsAsSent
    CloseIsLast
    AssertionAfterShutdown
PROPERTY EveryRequestAnswered
CHECK_DEADLOCK FALSE
