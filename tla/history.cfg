SPECIFICATION Spec
CONSTANTS
    Line = {"", "a", "b"}
    EMPTY = ""
    NULL = NULL
    max = 4
PROPERTY ImplementsRecall
