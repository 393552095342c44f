SPECIFICATION Spec
CONSTANTS
    Addrs = {1, 2}
    Times = {0}
    Delays = {1}
    Intervals = {1}
    Lags = {0, 1}
    kMicroSecondsPerSecond = 2
    MinDelay = 1
    Start = 3
    MaxTicks = 7
    MaxTimers = 2
    MaxPending = 2
INVARIANT
    TimerOutlivesAdd
