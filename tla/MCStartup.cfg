\* Two arguments with the documented prefixes, and a drive of every kind behind
\* each; daemon mode, and direct mode with and without --numeric and --quiet.
SPECIFICATION Spec

CONSTANTS
    Temps = {40}
    wakeup = FALSE
    NArgs = 2
    Arguments <- GoodArguments
    Drives <- AllDrives
    Options <- AnyOptions

INVARIANTS
    StatusTells
    HandedOver
    TypeNamedOrGuessed
    InOrder
    TemperaturesRead

\* main() returns, exits or hands over.
CHECK_DEADLOCK FALSE
