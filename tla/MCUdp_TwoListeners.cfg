\* Both listeners of a shard (IPv4 and IPv6), one query each, no faults:
\* write_vector_count carries over from one listener to the next.
CONSTANTS
    v4 = v4
    v6 = v6
    d1 = d1
    d2 = d2
    d3 = d3
    d4 = d4
    None = None
    LSeq <- MCLSeqTwo
    Dgrams <- MCDgramsTwo
    Kind <- MCKindTwo
    VecLen = 2
    MayPartial = FALSE
    MaxErrs = 0
    MaxFills = 0
SPECIFICATION Spec
INVARIANT AnswersMatch
