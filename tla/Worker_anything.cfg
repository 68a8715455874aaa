SPECIFICATION Spec
CONSTANTS
    Workers = {w1, w2}
    Clients = {c1, c2}
    None = None
    Env = {"term", "exitCall", "slowClient", "longUri", "hookFails", "acceptFails", "crash", "logLevel"}
SYMMETRY Symmetry
INVARIANTS
    TypeOK
    LateAtMostOne
    HeldByOne
PROPERTIES
    CompleteRequestKept
CHECK_DEADLOCK FALSE
