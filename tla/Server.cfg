SPECIFICATION ServerSpec
CONSTANTS
    Workers = 2
    Value = {0, 2}
    MinSize = 1
    DefSize = 3
    CtrlSize = {0, 2}
    TablePow2 = 1
    NoFile = NoFile
    MaxFaults = 2
    MaxChanges = 2
    MaxRuns = 2
CHECK_DEADLOCK FALSE
INVARIANTS
    NoUseAfterFree
    GivenBack
    RestartKeeps
PROPERTY
    EventuallyExits
