\* Two drives of every kind, that sleep, wake up and are unplugged at any moment.
CONSTANTS
    Temps <- OneTemp
    wakeup = FALSE
    d1 = d1
    d2 = d2
    Drives <- TwoDrives
    Kinds <- EveryKind
    Forced <- NoType
SYMMETRY Alike
SPECIFICATION Spec
\* Every drive may be given up.
CHECK_DEADLOCK FALSE
INVARIANTS
    HealthyKept
PROPERTIES
    ImplementsQueries
    SleepUndisturbed
