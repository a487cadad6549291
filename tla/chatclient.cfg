SPECIFICATION FairSpec
CONSTANTS
    MaxConns = 2
    MaxSent = 3
    MaxDepth = 2
    CHAT_SIZE = 3
INVARIANTS OneSource NothingLost BehindOnlyAfterBurst DroppedOnlyIfTooLong
PROPERTY ReadsOn
CHECK_DEADLOCK FALSE
