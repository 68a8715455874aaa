SPECIFICATION Spec
CONSTANTS
    MaxReloads = 2
    Faults = {"earlyReload", "overlap", "badConfig", "noWorkers", "loadFail", "crash", "memory", "hole", "noStatus", "stop", "stopMidReload", "stuck"}
INVARIANTS
    TypeOK
    NoStrayManager
    
CHECK_DEADLOCK FALSE
