SPECIFICATION Spec
CONSTANTS
    u1 = u1
    u2 = u2
    w1 = w1
    w2 = w2
    Reader = Reader
    Users = {u1, u2}
    WriterTasks = {w1, w2}
    Capacity = 1
    Modes = {"x30", "x3F"}
    Reconnect = FALSE
    LeftJoycon = TRUE
    ModeFirst = TRUE
    MayBeLost = TRUE
    MaxState = 0
SYMMETRY Symmetry
INVARIANTS
    TypeOK
    SomeWriterFollowsMode
    WritersSurvive
    SenderBelongsToUser
