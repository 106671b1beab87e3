SPECIFICATION Spec
CONSTANTS
    LOCK_SPIN_LIMIT = 2
    TrapSets <- EchoOnly
    Turns <- MCTurns
INVARIANT LinesExclusive
