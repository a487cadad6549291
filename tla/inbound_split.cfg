SPECIFICATION Spec
CONSTANTS
    INPUT_CHUNK = 2
    MaxItems = 4
    Items = {"letter", "newline", "nul", "ttype"}
    Requests <- OneRequest
    Versions <- NoVersion
    Splits = TRUE
    Silence = TRUE
    V1First = FALSE
INVARIANT NothingTwice
CHECK_DEADLOCK FALSE
