SPECIFICATION ToolSpec
CONSTANTS
    Kinds <- EchoKind
    DRAIN_LIMIT = 4
    PANIC_FC = 99
    SenderWaits = FALSE
    MayPanic = TRUE
    MayEvict = FALSE
    MaxFrames = 2
    MaxSend = 2
INVARIANT PanicNotTakenForFrame
CHECK_DEADLOCK FALSE
