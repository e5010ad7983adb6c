SPECIFICATION MCSpec
CONSTANTS
    Client = {c1, c2}
    Worker = {w1, w2}
    Name = {n1, n2}
    None = None
    MaxPdus = 1
    MaxEvents = 2
INVARIANTS
    NoDangling
    UniqueSession
    SweepsOwnNode
PROPERTIES
    EventuallyFreed
    ShutdownCompletes
