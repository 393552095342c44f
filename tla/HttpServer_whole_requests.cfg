SPECIFICATION Spec
CONSTANTS
    Requests <- Posts
    Numbers = {1}
    MaxRequests = 1
INVARIANT OnlyWholeRequests
CHECK_DEADLOCK FALSE
