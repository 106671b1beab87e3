SPECIFICATION OpenSpec
CONSTANTS
    PrefW = 4
    PrefH = 3
    PrefTicks = 3
    Payloads = {0, 1, 2, 3, 4}
    MaxAlts = 3
    AeModes <- AeModeChoices
    MaxFaults = 2
    Configs <- OneStream
INVARIANTS
    CommittedFramePreferred CommittedIntervalClosest StreamFits ArmedAltFits
    SettingsAsPromised
CHECK_DEADLOCK FALSE
