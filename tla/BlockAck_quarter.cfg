SPECIFICATION Spec
CONSTANTS
    SEQNO_SPACE_SIZE = 8
    WinSize = 2
    StartingSeq = 0
    MaxMpdus = 10
    MaxUnsent = 2
    FrameRetryLimit = 2
    Configs <- Defaults
INVARIANTS AcknowledgedIsReceived
CHECK_DEADLOCK FALSE
