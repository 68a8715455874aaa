SPECIFICATION Spec
CONSTANTS
    WorkerCount = 2
    Pids = {p1, p2, p3, p4, p5}
    NoPid = NoPid
    MaxCrashes = 2
    MaxReforks = 1
    Faults = {"crash", "forkFail", "stuck", "signalAgain"}
SYMMETRY Symmetry
INVARIANTS
    TypeOK
    NoLostWorker
    DoneMeansTold
    OwnChildrenOnly
    OneSlotEach
CHECK_DEADLOCK FALSE
