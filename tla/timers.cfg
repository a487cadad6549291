SPECIFICATION Spec
CONSTANTS
    Timer = {t1, t2}
    Name = {n1}
    Lengths = {2, 12}
    Sizes = {3}
    Late = 1
    MaxTime = 4
    MaxCommands = 4
    NULL = NULL
SYMMETRY Symmetry
INVARIANTS OnTime WarnedOnce OnlyStopsHarm
PROPERTY Counted
CHECK_DEADLOCK FALSE
