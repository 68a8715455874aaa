SPECIFICATION Spec
CONSTANTS
    MaxReloads = 2
    Faults = {"overlap", "loadFail", "crash", "noStatus", "stopMidReload"}
INVARIANTS
    SuccessMeansServing
PROPERTIES
    NoDowntime
    ReloadCompletes
    ReloadTakesEffect
    ReloadsAsPromised
    OldPoolRetires
CHECK_DEADLOCK FALSE
