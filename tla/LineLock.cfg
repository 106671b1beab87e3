SPECIFICATION FairSpec
CONSTANTS
    LOCK_SPIN_LIMIT = 2
    TrapSets <- MCTrapSets
    Turns <- MCTurns
INVARIANT Mutex
PROPERTIES HeldLockUndisturbed MainPrintCompletes
