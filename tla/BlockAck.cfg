SPECIFICATION FairSpec
CONSTANTS
    SEQNO_SPACE_SIZE = 14
    WinSize = 3
    StartingSeq = 12
    MaxMpdus = 4
    MaxUnsent = 3
    FrameRetryLimit = 2
    Configs <- EachAttribute
INVARIANTS ForwardedInOrder AcknowledgedIsReceived RetriesAreWanted InFlightIsCovered
PROPERTIES EveryMpduIsSettled BufferedIsForwarded
CHECK_DEADLOCK FALSE
