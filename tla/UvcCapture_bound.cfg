SPECIFICATION Spec
CONSTANTS
    FrameLen = 3
    PacketLen = 2
    JpegCap = 4
    Modes <- SteadyModes
    UframeLimit = 40
INVARIANT CaptureIsBounded
