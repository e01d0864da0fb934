SPECIFICATION FairSpec
CONSTANTS
    t1 = t1
    t2 = t2
    Threads = {t1, t2}
    Delays = {0, 1}
    UidModulus = 7
    MaxTs = 1
    MaxEvents = 3
INVARIANTS TypeOK ExpiredExact UnscheduledExact RefsExact
PROPERTIES EventsRunInKeyOrder ExpiredIsFinal PostsRunInOrder EverythingReleased
CHECK_DEADLOCK FALSE
