SPECIFICATION LossySpec
CONSTANTS
    f1 = f1
    Files = {f1}
    Cut = Cut
    NoTag = NoTag
    IOFails = FALSE
    Torn = Torn
    Packets = 3
    MaxRequests = 1
    MaxQueue = 1
    MaxForced = 2
    MaxTasks = 1
    Countdown = 1
    Removals = 2
    Interrupts = FALSE
INVARIANTS
    WritesAreComplete
