SPECIFICATION HostSpec
CONSTANTS
    None = None
    Devices <- TreeDevices
    Ports <- TwoLevels
    Cameras <- TreeCameras
    MAX_USB_ADDR = 7
    Versions = {13066, 16906}
    Depths = {700, 788, 1335, 1336}
    Channels = {1, 16}
    MaxEvents = 1
INVARIANT OpenedAfterWalk
CHECK_DEADLOCK FALSE
