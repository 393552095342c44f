SPECIFICATION FairSpec
CONSTANTS
    ThreadNums = {0, 1, 2}
    Conns = {c1, c2}
INVARIANTS
    LoopOutlivesUse
    ThreadEndsFirst
    UpThenDown
PROPERTIES
    PoolStarts
    QuitThreadIsJoined
