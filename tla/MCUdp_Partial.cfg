\* One listener whose send buffer fills part way through a sendmmsg.
CONSTANTS
    v4 = v4
    v6 = v6
    d1 = d1
    d2 = d2
    d3 = d3
    d4 = d4
    None = None
    LSeq <- MCLSeqOne
    Dgrams <- MCDgramsTwo
    Kind <- MCKindTwo
    VecLen = 2
    MayPartial = TRUE
    MaxErrs = 0
    MaxFills = 1
SPECIFICATION Spec
INVARIANT AnswersMatch
