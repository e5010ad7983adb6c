SPECIFICATION FairSpec
CONSTANTS
    Client = {c1, c2}
    Addr = {a1}
    None = None
    MaxCmds = 3
INVARIANTS
    NoDangling
PROPERTIES
    ShutdownServed
    ListenerFollows
    DeadlineMet
