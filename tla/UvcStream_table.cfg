SPECIFICATION OpenSpec
CONSTANTS
    PrefW = 4
    PrefH = 3
    PrefTicks = 3
    Payloads = {0, 1, 2, 3, 4}
    MaxAlts = 2
    AeModes <- AeModeChoices
    MaxFaults = 0
    Configs <- AltChoices
INVARIANT ArmedAltFits
CHECK_DEADLOCK FALSE
