SPECIFICATION ToolSpec
CONSTANTS
    Kinds <- EchoKind
    DRAIN_LIMIT = 4
    PANIC_FC = 99
    SenderWaits = FALSE
    MayPanic = TRUE
    MayEvict = TRUE
    MaxFrames = 2
    MaxSend = 2
INVARIANTS FrameCountNeverBack MetadataErrorsMeanPanic NoFalseAlarm
PROPERTIES RoundTripSound NoReplay
CHECK_DEADLOCK FALSE
