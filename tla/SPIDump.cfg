SPECIFICATION FairSpec
CONSTANTS
    FlashSize = 8
    ChunkSize = 3
    Byte = 4
    MaxTraffic = 2
    Faults = TRUE
    NoRequest = NoRequest
CHECK_DEADLOCK FALSE
INVARIANTS
    TypeOK
    NothingSkipped
    OnlyLastByteMissing
PROPERTY
    DumpEnds
