SPECIFICATION Spec
CONSTANTS
    FrameLen = 3
    PacketLen = 2
    JpegCap = 4
    Modes <- MixedModes
    UframeLimit = 0
INVARIANT LastFidIsFrames
