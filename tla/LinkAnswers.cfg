SPECIFICATION LinkSpec
CONSTANTS
    User = {u1, u2}
    NoUser = NoUser
    Hdr = 2
    Buf = 5
    Chunk = 4
    FileSize = {9}
    MaxFile = 9
    FakeAt = {10, 11}
    TLS = TRUE
    Patient = FALSE
    MaxCmds = 3
    MaxLeaves = 1
    MaxFaults = 0
CHECK_DEADLOCK FALSE
INVARIANT RightRecipient
