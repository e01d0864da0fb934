SPECIFICATION Spec
CONSTANTS
    q1 = q1
    q2 = q2
    HalfWord = 8
    MinLimit = 0
    MaxLimit = 3
    TxQueues = {q1}
    Sizes = {1, 2}
    MTU = 2
    HeaderSize = 1
    MaxSizes <- FourBytes
    DiscSize = 2
    Quota = 2
    MaxPackets = 5
INVARIANTS NoneDiscarded
CHECK_DEADLOCK FALSE
