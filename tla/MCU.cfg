SPECIFICATION Spec
CONSTANTS
    f1 = f1
    Files = {f1}
    Cut = Cut
    NoTag = NoTag
    IOFails = TRUE
    Torn = Torn
    Packets = 2
    MaxRequests = 2
    MaxQueue = 2
    MaxForced = 2
    MaxTasks = 2
    Countdown = 1
    Removals = 2
    Interrupts = FALSE
INVARIANTS
    TypeOK
    WritesAreComplete
    AckCoversData
    ReadAnswerWhole
    TagReappearsRemoved
    TagLosesNothing
