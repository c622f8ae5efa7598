\* Shards only: a writev() that returns -1 is taken for a full write.
CONSTANTS
    VlCount = 2
    m1 = m1
    m2 = m2
    m3 = m3
    m4 = m4
    Msgs <- MCMsgs
    Sender <- MCSenderShards
    Fatal = {}
    RingCap = 2
    NULL = NULL
    Garbage = Garbage
    Uninit = {NULL}
    MaxFails = 1
SPECIFICATION Spec
PROPERTY EveryMessageLogged
CHECK_DEADLOCK FALSE
