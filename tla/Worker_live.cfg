SPECIFICATION Spec
CONSTANTS
    Workers = {w1, w2}
    Clients = {c1, c2}
    None = None
    Env = {"term", "exitCall", "crash", "longUri"}
PROPERTIES
    QueueIsServed
    HeldIsAnswered
    ExitEnds
CHECK_DEADLOCK FALSE
