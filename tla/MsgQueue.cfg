SPECIFICATION Spec
CONSTANTS
    Message = {m1, m2, m3, m4}
    Sender = {s1, s2}
    Producer = {p1, p2}
    Consumer = c
    None = None
INVARIANTS
    NeverEmpty
    NothingLeft
PROPERTIES
    FifoSpec
