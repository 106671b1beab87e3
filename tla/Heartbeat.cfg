SPECIFICATION FairSpec
CONSTANTS
    WordSize = 4
    Interval = 3
    WdtTimeout = 8
    IsrTicks = 2
    Burst = 2
    MaxTime = 11
CHECK_DEADLOCK FALSE
INVARIANTS NextBeatNear WatchdogQuiet
PROPERTY DeadCoreReset
