SPECIFICATION Spec
CONSTANTS
    LOCK_SPIN_LIMIT = 2
    TrapSets <- OverflowOnly
    Turns <- MCTurns
INVARIANT IsrNeverWaits
