SPECIFICATION Spec
CONSTANTS
    MaxReloads = 1
    Faults = {"earlyReload"}
PROPERTIES
    NoDowntime
CHECK_DEADLOCK FALSE
