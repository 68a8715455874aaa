SPECIFICATION CtlSpec
CONSTANTS
    MaxReloads = 2
    Faults = {"overlap"}
    Timeouts = TRUE
PROPERTIES
    SuccessIsTrue
CHECK_DEADLOCK FALSE
