SPECIFICATION FairSpec
CONSTANTS
    Threads = {t1, t2, t3}
    Mysqls = {m1, m2}
    nullptr = nullptr
    Names = {alice}
    MaxRequests = 1
INVARIANTS
    TypeOK
    Conservation
    NoSleepOnFree
PROPERTY RequestsEnd
CHECK_DEADLOCK FALSE
