SPECIFICATION Spec
CONSTANTS
    Sender = {s1, s2}
    None = None
    Slots = 2
    RecvBuf = 4
    ListSize = 4
    FileParts = 2
    use_tls = TRUE
    MaxItems = 4
CHECK_DEADLOCK FALSE
INVARIANTS
    FilesWhole
    StateOfConnection
PROPERTIES
    EventuallyShownUnlessFull
