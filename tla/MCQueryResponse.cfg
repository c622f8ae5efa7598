\* One UDP slot and one TCP slot of a shard, two question names, and three
\* addresses for label buffers (two live at once, one more to reuse).
CONSTANTS
    u1 = u1
    t1 = t1
    b1 = b1
    b2 = b2
    b3 = b3
    n1 = n1
    n2 = n2
    NULL = NULL
    None = None
    Slots <- MCSlots
    TcpSlots <- MCTcpSlots
    Bufs <- MCBufs
    Names <- MCNames
SPECIFICATION Spec
INVARIANT ResponseAnswersRequest
