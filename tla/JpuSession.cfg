SPECIFICATION FairSpec
CONSTANTS
    PageUnits = 2
    PoolBase = 4
    PoolSize = 6
    StreamSize = 6
    YuvBufSize = 614400
    Pictures <- MCPictures
    PANIC_FC = 99
    MaxFrames = 3
INVARIANTS StreamBufOwned JpuAtRest DecodedYuvInPlace
PROPERTY EveryFrameAnnounced
CHECK_DEADLOCK FALSE
