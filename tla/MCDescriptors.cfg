\* Three drives, two addresses, and a descriptor fewer than all of it may need.
CONSTANTS
    NDrives = 3
    Addresses = 2
    NFds = 6
    Inherited <- AllOpen
SPECIFICATION Spec
\* The process exits.
CHECK_DEADLOCK FALSE
INVARIANTS
    OwnDrives
    OwnSockets
    NothingLeaks
