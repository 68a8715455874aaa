SPECIFICATION Spec
CONSTANTS
    UrlMax = 7
    Raw <- RawStrings
    Sent <- FieldLists
    Beyond <- Memory
    Junk = {38}
INVARIANTS
    TypeOK
    SentIsFound
    ParamsMatchQuery
    IterationIsComplete
