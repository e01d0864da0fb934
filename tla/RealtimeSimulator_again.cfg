SPECIFICATION Spec
CONSTANTS
    t1 = t1
    Threads = {t1}
    Delays = {0, 2}
    Epoch = 1
    SleepMargin = 1
    IdleDelay = 2
    MaxTs = 3
    MaxEvents = 3
    MaxRuns = 2
INVARIANT NoEventInThePast
CHECK_DEADLOCK FALSE
