SPECIFICATION FairSpec
CONSTANTS
    Kinds <- PauseKinds
    DRAIN_LIMIT = 1
    PANIC_FC = 99
    SenderWaits = TRUE
    MayPanic = TRUE
    MayEvict = TRUE
    MaxFrames = 3
    MaxSend = 3
INVARIANTS DoorbellAfterPublish ReplyIntact PauseBounded
PROPERTIES SlotSpec EveryMessageAnswered
CHECK_DEADLOCK FALSE
