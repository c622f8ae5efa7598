\* One listener, no partial sends: the responses sent are right.
CONSTANTS
    v4 = v4
    v6 = v6
    d1 = d1
    d2 = d2
    d3 = d3
    d4 = d4
    None = None
    LSeq <- MCLSeqOne
    Dgrams <- MCDgrams
    Kind <- MCKind
    VecLen = 2
    MayPartial = FALSE
    MaxErrs = 1
    MaxFills = 1
SPECIFICATION Spec
INVARIANT AnswersMatch
