SPECIFICATION Spec
CONSTANTS
    Thread = {t1, t2}
    Key = {0, 1, 2}
    Hash <- MCHash
    None = None
    Size = 2
    Grow = 2
    PerLock = 2
    Load = 75
    Width = 8
    MaxOps = 5
    MaxFails = 2
CHECK_DEADLOCK FALSE
INVARIANTS
    CountExact
    ListComplete
PROPERTIES
    ActsAsSet
    Returns
