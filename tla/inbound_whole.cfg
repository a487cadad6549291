SPECIFICATION Spec
CONSTANTS
    INPUT_CHUNK = 7
    MaxItems = 5
    Items = {"letter", "newline", "literal", "goahead", "ttype"}
    Requests <- SomeRequests
    Versions <- BothVersions
    Splits = FALSE
    Silence = FALSE
    V1First = FALSE
INVARIANTS TypeOK NothingHeldBack AnsweredOnce InStep
PROPERTY ImplementsStream
CHECK_DEADLOCK FALSE
