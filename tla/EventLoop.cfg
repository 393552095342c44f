SPECIFICATION FairSpec
CONSTANTS
    Threads = {t1, t2}
    Owner = owner
    InitPosts = 1
    MaxPosts = 4
    EventfdMax = 2
INVARIANT NoStrandedFunctor
PROPERTIES
    StartsInOrder
    EveryFunctorStarts
    QuitLeavesLoop
