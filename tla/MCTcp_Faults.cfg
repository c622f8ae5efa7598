CONSTANTS
    l = l
    c1 = c1
    c2 = c2
    k1 = k1
    k2 = k2
    Listener = l
    Conns <- MCConns
    Clients <- MCClientsOne
    NULL = NULL
    Garbage = {0}
    RIP_NS_PACKETSZ = 1
    HeaderSize = 1
    SimQueries = 2
    ReadBufSize = 6
    TcpConnsMax = 2
    MaxAcceptNew = 1
    NumEventsTcp = 2
    RecvTimeout = 1
    SendTimeout = 1
    Keepalive = 2
    IdMax = 4
    Stream <- MCStreamThree
    RespLen = 2
    MaxTime = 2
    MayReset = TRUE
    MayBlock = TRUE
SYMMETRY MCSymmetry
SPECIFICATION Spec
PROPERTIES
    ReadQueueIsFifo
INVARIANTS
    LruTracksLiveConns
    ActiveCountsLive
    SocketsMatchConns
