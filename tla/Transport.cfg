SPECIFICATION FairSpec
CONSTANTS
    w1 = w1
    w2 = w2
    Callers = {w1, w2}
    Reader = Reader
    FlowControl = 2
    Buffers = 2
    Nobody = Nobody
    Done = Done
INVARIANTS
    TypeOK
    FlightAccounted
    WindowKeepsSocketFree
    ReaderMatchesWrite
PROPERTIES
    ImplementsChannel
    ClosedForWriting
    WritesGoOn
CHECK_DEADLOCK FALSE
