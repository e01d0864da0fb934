SPECIFICATION Spec
CONSTANTS
    a = a
    b = b
    c = c
    ab = ab
    ba = ba
    bc = bc
    Ranks = {a, b}
    Channels = {ab, ba}
    Topologies = {{ab, ba}}
    ChannelEnds <- Ends
    ChannelDelay <- Delay
    SchedulerTune = 100
    InterframeGap = 0
    InitialTimes <- Start0
    StopTimes <- StopAt3
    Delays = {1}
    TxTimes = {0, 3}
    MaxTime = 20
    MaxTs = 3
    MaxCreated <- Created
INVARIANTS GuaranteesKept
CHECK_DEADLOCK FALSE
