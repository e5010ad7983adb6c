SPECIFICATION Spec
CONSTANTS
    Client = {c1, c2, c3, c4, c5}
    CLTH_AUTH_MAXPERM_TIME = 1
    DEF_CLTH_SIZE = 2
    NsecPerSec = 2
    MaxTime = 1
    None = None
SYMMETRY Symmetry
INVARIANTS
    IndexExact
    BoundedSleep
