SPECIFICATION MCSpec
CONSTANTS
    Sender = {s1, s2}
    None = None
    Units = 2
    SendBuf = 1
    MaxMsgs = 2
    MaxReqs = 2
    MaxTotal = 3
INVARIANTS
    NoneStranded
    WholeMessages
    InOrder
PROPERTIES
    EventuallySent
