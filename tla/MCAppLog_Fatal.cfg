\* A shard logs a fatal message while the log file cannot be opened.
CONSTANTS
    VlCount = 2
    m1 = m1
    m2 = m2
    m3 = m3
    m4 = m4
    Msgs <- MCMsgs
    Sender <- MCSenderShards
    Fatal = {m1}
    RingCap = 2
    NULL = NULL
    Garbage = Garbage
    Uninit = {NULL}
    MaxFails = 1
SPECIFICATION Spec
PROPERTY FatalMessageExits
CHECK_DEADLOCK FALSE
