SPECIFICATION FairCamera
CONSTANTS
    FrameLen = 3
    PacketLen = 2
    JpegCap = 4
    Modes <- MCModes
    UframeLimit = 0
INVARIANT ReturnedFrameSound
PROPERTY FramesKeepComing
