CONSTANTS
    MsgLen = 6
    UnpackBytes <- MCUnpackBytes
    DstSizes <- MCDstSizes
    Labels <- MCLabels
    MaxLabels = 2
    NumRRs = 3
    RespSizes <- MCRespSizes
    HdrLen = 2
    RRTail = 1
    PtrLimit = 12
    DNS_RESPONSE_COMPRESSED_NAMES_MAX = 5
    TextBytes <- MCTextBytes
    TextSizes <- MCTextSizes
    Requests <- MCRequests
    EcsOptions <- MCEcsOptions
SPECIFICATION Spec
INVARIANTS
    UnpackSound
    UnpackComplete
    UnpackReadsInside
    CompressedNamesDecode
    LongestSuffixShared
    NtopMatchesReference
    PtonInvertsNtop
    EcsEchoed
