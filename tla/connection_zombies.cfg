SPECIFICATION Spec
CONSTANTS
    Ses = {s1, s2}
    Sock = {d1, d2}
    Host = {h1}
    MaxDepth = 4
    Zombies = TRUE
    Reentry = FALSE
    NULL = NULL
SYMMETRY Symmetry
INVARIANTS TypeOK SocketsOwned OneOwner
