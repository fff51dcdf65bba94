SPECIFICATION FairSpec
CONSTANTS
    w1 = w1
    w2 = w2
    Callers = {w1}
    Reader = Reader
    FlowControl = 1
    Buffers = 1
    Nobody = Nobody
    Done = Done
PROPERTIES
    CloseClosesSocket
CHECK_DEADLOCK FALSE
