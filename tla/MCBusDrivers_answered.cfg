\* One drive of every kind.
CONSTANTS
    Temps <- OneTemp
    wakeup = FALSE
    d1 = d1
    d2 = d2
    Drives <- OneDrive
    Kinds <- EveryKind
    Forced <- EveryType
SPECIFICATION Spec
CHECK_DEADLOCK FALSE
INVARIANTS
    KnownWasAnswered
