\* A shard and the resource thread log: the resource thread's ring is
\* never polled.
CONSTANTS
    VlCount = 2
    m1 = m1
    m2 = m2
    m3 = m3
    m4 = m4
    Msgs <- MCMsgsRes
    Sender <- MCSenderRes
    Fatal = {}
    RingCap = 2
    NULL = NULL
    Garbage = Garbage
    Uninit = {NULL}
    MaxFails = 1
SPECIFICATION Spec
PROPERTY EveryMessageLogged
CHECK_DEADLOCK FALSE
