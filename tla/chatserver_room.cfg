SPECIFICATION Spec
CONSTANTS
    Conn = {c1, c2, c3}
    Text = {t1}
    DEFAULT = DEFAULT
    TooLong = {}
    Passwords = {TRUE}
    Sigpipe = FALSE
    SOCKETBUFFERSIZE = 5
    Window = 1
    MaxSent = 1
    MaxHangUps = 1
    MaxIdle = 0
    NULL = NULL
PROPERTY ImplementsRoom
SYMMETRY Symmetry
CHECK_DEADLOCK FALSE
