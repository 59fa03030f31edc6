\* One drive of every kind, and a wall clock that is wrong by up to one unit.
CONSTANTS
    Temps <- OneTemp
    wakeup = FALSE
    NDisks = 1
    DELAY = 3
    YEAR = 6
    MaxSkew = 1
    MaxNow = 9
    Callers <- BothCallers
SPECIFICATION Spec
\* The process exits when it is out of memory.
CHECK_DEADLOCK FALSE
INVARIANTS
    NothingUnqueried
    StalenessBound
    KnownIsMeasured
    FailuresExplained
PROPERTIES
    RateLimit
    LostForever
