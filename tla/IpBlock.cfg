SPECIFICATION Spec
CONSTANTS
    Worker = {w1, w2}
    Rec = {r1, r2}
    None = None
    AUTHBLOCK_EXPIRY = 1
    AUTHBLOCK_FAIL_THRES = 2
    UINT8 = 4
    MaxConns = 3
    MaxTime = 3
SYMMETRY Symmetry
INVARIANTS
    NoDangling
    RefCountExact
PROPERTIES
    BlockSticks
