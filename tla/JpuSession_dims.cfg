SPECIFICATION Spec
CONSTANTS
    PageUnits = 2
    PoolBase = 4
    PoolSize = 6
    StreamSize = 6
    YuvBufSize = 614400
    Pictures <- MCPictures
    PANIC_FC = 99
    MaxFrames = 2
INVARIANT HeightSurvives
CHECK_DEADLOCK FALSE
