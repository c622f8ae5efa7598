\* log_app_loop with two shards logging; the slot past messages[] is taken
\* as NULL.  An iteration with two messages leaves the second in
\* messages[1], and two one-message iterations then free it twice.
CONSTANTS
    VlCount = 2
    m1 = m1
    m2 = m2
    m3 = m3
    m4 = m4
    Msgs <- MCMsgs
    Sender <- MCSenderShards
    Fatal = {}
    RingCap = 2
    NULL = NULL
    Garbage = Garbage
    Uninit = {NULL}
    MaxFails = 1
SPECIFICATION Spec
INVARIANT NoInvalidRelease
CHECK_DEADLOCK FALSE
