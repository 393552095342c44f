SPECIFICATION FairSpec
CONSTANTS
    base = base
    io1 = io1
    Conns = {c1}
    Base = base
    Pools <- NoneOrOne
    Acceptor = acceptor
    UserThreads = {u1, u2}
    UserCalls = {"send", "shutdown"}
    SendLens = {2}
    MaxBytes = 2
    MaxMsgs = 1
    MaxCalls = 1
    SndBuf = 1
    HighWaterMark = 2
    HasWriteComplete = TRUE
INVARIANTS
    ChannelsInStep
    NoDanglingChannel
    OneLoopPerConnection
    StreamInOrder
    WritesWhileBuffered
PROPERTIES
    ReportsUpAndDown
    FinAfterOutput
    NothingSentAfterFin
    ClosedClientReleased
    ShutdownCompletes
CHECK_DEADLOCK FALSE
