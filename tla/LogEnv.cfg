SPECIFICATION LogSpec
CONSTANTS
    Threads = {main, worker}
    Main = main
    MsgSizes = {3}
    QueueLen = 5
    PageSize = 1
    Word = 16
    Period = 2
    MaxMsgs = 2
    MaxReloads = 1
    MaxFaults = 1
INVARIANTS
    InOrder
    NoUseAfterFree
    AsLogged
PROPERTIES
    EventuallyWritten
CHECK_DEADLOCK FALSE
