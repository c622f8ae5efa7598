CONSTANTS
    Shards = {1, 2, 3}
    NULL = NULL
    MaxVer = 4
    Times <- MCTimes
    InitTimes <- MCInitTimes
    ChanCap = 1
    MayOpenFail = TRUE
    MayReadFail = TRUE
SPECIFICATION Spec
INVARIANTS
    TypeOK
    NoDanglingResource
PROPERTIES
    SwapAfterAllAcks
    UpdateCompletes
