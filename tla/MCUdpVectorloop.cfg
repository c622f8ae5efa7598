\* One UDP listener, four datagrams, vectors of two: one recvmmsg batch
\* can fill the vector and leave a datagram queued for the next.
CONSTANTS
    v4 = v4
    v6 = v6
    d1 = d1
    d2 = d2
    d3 = d3
    d4 = d4
    None = None
    LSeq <- MCLSeqOne
    Dgrams <- MCDgrams
    Kind <- MCKind
    VecLen = 2
    MayPartial = TRUE
    MaxErrs = 1
    MaxFills = 1
SPECIFICATION Spec
INVARIANTS TypeOK MetricsCountQueries
PROPERTIES EveryQueryAnswered
