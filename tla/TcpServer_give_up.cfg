SPECIFICATION Spec
CONSTANTS
    base = base
    io1 = io1
    Conns = {c1}
    Base = base
    Pools <- One
    Acceptor = acceptor
    UserThreads = {u1}
    UserCalls = {"send"}
    SendLens = {1}
    MaxBytes = 0
    MaxMsgs = 0
    MaxCalls = 1
    SndBuf = 1
    HighWaterMark = 100
    HasWriteComplete = FALSE
PROPERTY GivesUpWriting
CHECK_DEADLOCK FALSE
