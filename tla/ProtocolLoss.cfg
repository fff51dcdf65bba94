SPECIFICATION FairSpec
CONSTANTS
    u1 = u1
    u2 = u2
    w1 = w1
    w2 = w2
    Reader = Reader
    Users = {u1}
    WriterTasks = {w1}
    Capacity = 1
    Modes = {"x30"}
    Reconnect = TRUE
    LeftJoycon = FALSE
    ModeFirst = TRUE
    MayBeLost = TRUE
    MaxState = 1
PROPERTIES
    LossEndsSends
CHECK_DEADLOCK FALSE
