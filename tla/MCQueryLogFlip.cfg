CONSTANTS
    Shards = {1, 2}
    NULL = NULL
    Garbage = Garbage
    MaxEntries = 2
    BufSize = 2
    MinSpace = 2
    RotateSize = 2
    ChanCap = 1
    MayFail = TRUE
SPECIFICATION Spec
INVARIANTS
    TypeOK
    WriterReadsSurrendered
    WrittenInOrder
    NoEntryLost
PROPERTIES
    EntriesReachFile
