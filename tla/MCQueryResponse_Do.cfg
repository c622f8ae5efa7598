CONSTANTS
    u1 = u1
    t1 = t1
    b1 = b1
    b2 = b2
    b3 = b3
    n1 = n1
    n2 = n2
    NULL = NULL
    None = None
    Slots <- MCSlots
    TcpSlots <- MCTcpSlots
    Bufs <- MCBufs
    Names <- MCOneName
    Requests <- MCRequestsV0
SPECIFICATION Spec
INVARIANT ResponseAnswersRequest
