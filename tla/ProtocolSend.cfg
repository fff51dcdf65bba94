SPECIFICATION Spec
CONSTANTS
    u1 = u1
    u2 = u2
    w1 = w1
    w2 = w2
    Reader = Reader
    Users = {u1}
    WriterTasks = {w1}
    Capacity = 1
    Modes = {"x30"}
    Reconnect = TRUE
    LeftJoycon = FALSE
    ModeFirst = TRUE
    MayBeLost = FALSE
    MaxState = 1
INVARIANTS
    SendShowsButtons
CHECK_DEADLOCK FALSE
