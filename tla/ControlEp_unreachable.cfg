SPECIFICATION Spec
CONSTANTS
    NAK_RETRIES = 3
    XACT_RETRIES = 2
    MaxChunks = 3
    MayShort = TRUE
INVARIANT LoopExitUnreachable
