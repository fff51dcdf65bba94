SPECIFICATION Spec
CONSTANTS
    FlashSize = 8
    ChunkSize = 3
    Byte = 4
    MaxTraffic = 2
    Faults = TRUE
    NoRequest = NoRequest
CHECK_DEADLOCK FALSE
INVARIANT
    DumpIsFlash
