SPECIFICATION Spec
CONSTANTS
    Ses = {s1, s2}
    Sock = {d1, d2}
    Host = {h1, h2}
    MaxDepth = 4
    Zombies = FALSE
    Reentry = FALSE
    NULL = NULL
SYMMETRY Symmetry
PROPERTY AutologinToItsMud
