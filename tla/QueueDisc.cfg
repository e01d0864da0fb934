SPECIFICATION FairSpec
CONSTANTS
    q1 = q1
    q2 = q2
    HalfWord = 5
    MinLimit = 0
    MaxLimit = 3
    TxQueues = {q1, q2}
    Sizes = {1, 2}
    MTU = 2
    HeaderSize = 0
    MaxSizes <- OnePacketOrThreeBytes
    DiscSize = 2
    Quota = 2
    MaxPackets = 5
INVARIANTS InOrder NoneDiscarded CompletionsAccounted StoppedIsServed
PROPERTIES NothingStranded
CHECK_DEADLOCK FALSE
