SPECIFICATION Spec
CONSTANTS
    BuffLen = 4
    MaxWanted = 2
    MaxHanded <- Handed
    Talks <- AllTalks
    Faults = {"cut", "readIntr"}
INVARIANTS
    TypeOK
    ParamsAreSent
    BodyIsSent
PROPERTIES
    RequestIsAnswered
    AnswersAsPromised
CHECK_DEADLOCK FALSE
