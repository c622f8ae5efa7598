CONSTANTS
    Shards = {1, 2}
    NULL = NULL
    MaxVer = 3
    Times <- MCTimes
    InitTimes <- MCInitTimes
    ChanCap = 1
    MayOpenFail = FALSE
    MayReadFail = FALSE
SPECIFICATION Spec
PROPERTIES
    EventuallyServesLatest
