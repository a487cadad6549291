SPECIFICATION FairSpec
CONSTANTS
    Ses = {s1, s2}
    Sock = {d1, d2}
    Host = {h1}
    MaxDepth = 3
    Zombies = FALSE
    Reentry = TRUE
    NULL = NULL
INVARIANTS OneSource OneLink ActiveListed ConnectedIsRead
PROPERTY ConnectEnds ImplementsLink
