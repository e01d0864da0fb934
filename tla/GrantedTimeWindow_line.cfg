SPECIFICATION FairSpec
CONSTANTS
    a = a
    b = b
    c = c
    Ranks = {a, b, c}
    Links <- LineLinks
    LookAheadBound <- BoundedC
    InitialTimes <- Start
    Delays = {1}
    TxTimes = {0}
    MaxTime = 9
    MaxTs = 4
    MaxCreated = 1
INVARIANTS TypeOK NoMessageFromThePast FinishedTogether
PROPERTIES WindowsGrow AllRanksFinish ImplementsParallelSimulation
CHECK_DEADLOCK FALSE
