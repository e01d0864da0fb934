SPECIFICATION FairSpec
CONSTANTS
    a = a
    b = b
    c = c
    ab = ab
    ba = ba
    bc = bc
    Ranks = {a, b, c}
    Channels = {ab, bc}
    Topologies = {{ab}, {ab, bc}}
    ChannelEnds <- Ends
    ChannelDelay <- Delay
    SchedulerTune = 75
    InterframeGap = 0
    InitialTimes <- Start0
    StopTimes <- StopAt3
    Delays = {1}
    TxTimes = {0}
    MaxTime = 20
    MaxTs = 3
    MaxCreated <- Created
INVARIANTS GuaranteesKept NextIsDefined GuaranteesAreAhead NoMessageFromThePast
PROPERTIES ImplementsParallelSimulation AllRanksStop
CHECK_DEADLOCK FALSE
