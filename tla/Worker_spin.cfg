SPECIFICATION Spec
CONSTANTS
    Workers = {w1}
    Clients = {c1, c2}
    None = None
    Env = {"term", "slowClient"}
PROPERTIES
    ExitEnds
CHECK_DEADLOCK FALSE
