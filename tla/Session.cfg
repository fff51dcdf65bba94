SPECIFICATION SessionSpec
CONSTANTS
    w1 = w1
    b1 = b1
    CLI = CLI
    Greeter = Greeter
    Reader = Reader
    Users = {CLI}
    WriterTasks = {w1}
    Buttons = {b1}
    MenuButtons = {}
    MaxGreets = 1
    Capacity = 1
    Modes = {"x30"}
    Reconnect = FALSE
    LeftJoycon = FALSE
    ModeFirst = TRUE
    MayBeLost = TRUE
    MaxState = 1
INVARIANTS
    SessionTypeOK
    ReleasedAtPrompt
PROPERTIES
    CommandsEnd
    ButtonsGetShown
CHECK_DEADLOCK FALSE
