SPECIFICATION FairSpec
CONSTANTS
    Conn = {c1, c2}
    Text = {t1}
    DEFAULT = DEFAULT
    TooLong = {n1}
    Passwords = {TRUE, FALSE}
    Sigpipe = TRUE
    SOCKETBUFFERSIZE = 6
    Window = 1
    MaxSent = 2
    MaxHangUps = 1
    MaxIdle = 1
    NULL = NULL
INVARIANTS TypeOK WalkServesAll
PROPERTIES MarkedIsOut Served
CHECK_DEADLOCK FALSE
