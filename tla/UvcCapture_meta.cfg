SPECIFICATION FairCamera
CONSTANTS
    FrameLen = 3
    PacketLen = 2
    JpegCap = 4
    Modes <- AlternatingModes
    UframeLimit = 0
PROPERTY FramesComeBetweenMetadata
