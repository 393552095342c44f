SPECIFICATION Spec
CONSTANTS
    Requests <- AllKinds
    Numbers = {0, 2}
    MaxRequests = 2
INVARIANT NoAssertionFails
CHECK_DEADLOCK FALSE
