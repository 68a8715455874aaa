SPECIFICATION CtlSpec
CONSTANTS
    MaxReloads = 2
    Faults = {"loadFail", "stopMidReload", "stuck"}
    Timeouts = TRUE
INVARIANTS
    CtlTypeOK
    FailureIsTrue
    LevelIsEverywhere
PROPERTIES
    SuccessIsTrue
    
    StartServes
CHECK_DEADLOCK FALSE
