SPECIFICATION Spec
CONSTANTS
    WorkerCount = 2
    Pids = {p1, p2, p3, p4}
    NoPid = NoPid
    MaxCrashes = 1
    MaxReforks = 1
    Faults = {"crash", "stuck"}
PROPERTIES
    Respawn
    ReforkReplaces
    OldWorkersGo
    ShutdownEnds
CHECK_DEADLOCK FALSE
