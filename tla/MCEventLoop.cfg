\* Two sockets, two clients, a clock that is moved, and a log every three units of
\* time, or none: select() then has no timeout.
CONSTANTS
    c1 = c1
    c2 = c2
    Clients <- TwoClients
    NSockets = 2
    Intervals <- QuietOrLogged
    Backlog = 1
    MaxSkew = 1
SPECIFICATION FairSpec
\* The process exits: that is what stopping means.
CHECK_DEADLOCK FALSE
INVARIANTS
    TypeOK
    LateWork
    ClientsCannotStop
    AcceptNeverBlocks
PROPERTIES
    LogSpacing
    StopHonoured
    ClientsAnswered
    LogsWhenQuiet
