CONSTANTS
    Lists <- AnyLists
    Separators <- BarOrStar
    Digits <- Dec
    FIXED = 4
    MSG = 11
SPECIFICATION ReplySpec
CHECK_DEADLOCK FALSE
INVARIANTS
    ModelIsName
    RepliesReadable
    SameTemperature
