SPECIFICATION Spec
CONSTANTS
    Kinds <- EchoKind
    DRAIN_LIMIT = 4
    PANIC_FC = 99
    SenderWaits = TRUE
    MayPanic = FALSE
    MayEvict = FALSE
    MaxFrames = 2
    MaxSend = 1
INVARIANT ValidFrameIsWhole
