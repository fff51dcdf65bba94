SPECIFICATION FairSpec
CONSTANTS
    t1 = t1
    t2 = t2
    t3 = t3
    t4 = t4
    Tasks = {t1, t2, t3, t4}
    Counts = {1}
    Completions = {1, 2}
    FlowControl = 2
    MaxDone = 2
    Done = Done
INVARIANTS
    TypeOK
    WindowConserved
    QueueMatchesSleepers
    NoLostWakeup
PROPERTIES
    FirstComeFirstWoken
    EveryWaiterIsWoken
