SPECIFICATION FairSpec
CONSTANTS
    NAK_RETRIES = 3
    XACT_RETRIES = 2
    MaxChunks = 3
    MayShort = TRUE
INVARIANTS StatusIsOwn WriteExactlyOnce ReadInOrder
PROPERTY RequestEnds
CHECK_DEADLOCK FALSE
