SPECIFICATION FairHostSpec
CONSTANTS
    None = None
    Devices <- TreeDevices
    Ports <- TwoLevels
    Cameras <- TreeCameras
    MAX_USB_ADDR = 6
    Versions = {13066, 16906}
    Depths = {700, 788, 1335, 1336}
    Channels = {1, 16}
    MaxEvents = 1
INVARIANTS AddressesValid CompleteWalk BringUpSound RootPortKept
PROPERTY HostStarts
CHECK_DEADLOCK FALSE
