SPECIFICATION FairSpec
CONSTANTS
    Left = {1, 2}
    Glob <- MCGlob
    Body = {"bRemove", "bOff", "bUnpath"}
    Class = {"c", "scripting"}
    SCRIPTING = "scripting"
    Node = {n1, n2, n3}
    Dir = {"n", "s", "out"}
    Step = {p1, p2, p3, p4}
    MAX_PATH_LENGTH = 2
    Var = {"v"}
    Func = {"fSelf", "fOther"}
    Handler = {h1, h2, h3, h4}
    Line = {"line", "no_move"}
    Report <- MCReport
    MaxDepth = 12
    Matching <- MCMatching
    Code <- MCCode
    Commands <- MCCommands
    HEAD = HEAD
    NULL = NULL
    MaxEvents = 4
INVARIANTS Ordered WalkKeepsItsWay RowsAreTriggers PathCounted 
PROPERTY LineEnds
CHECK_DEADLOCK FALSE
