SPECIFICATION FairSpec
CONSTANTS
    Protocols = {4, 5}
    socks_user = 2
    socks_password = 1
    Proxies = {4, 5}
    Methods = {0, 2, 255}
    Bound = {10, 22}
    MaxMud = 2
INVARIANTS TypeOK BudgetLasts SuccessIsGranted
PROPERTY HandshakeEnds
CHECK_DEADLOCK FALSE
