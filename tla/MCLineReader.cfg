\* Every file of up to eight characters, through a buffer of three.
CONSTANTS
    MaxLength = 8
    Files <- FilesUpTo
    MAX_LINE_LEN = 3
SPECIFICATION FairReaderSpec
\* load_database returns, or exits.
CHECK_DEADLOCK FALSE
INVARIANTS
    RoomToRead
PROPERTIES
    ImplementsLineSource
    Terminates
