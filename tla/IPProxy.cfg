SPECIFICATION FairSpec
CONSTANTS
    Buffer = 1
    ReadBuffer = 2
    MaxPackets = 5
    MaxLink = 2
    MaxStops = 1
INVARIANTS
    TypeOK
    TestStaysInside
PROPERTIES
    ImplementsFIFO
    NothingStuck
