\* Every file of up to three of eighteen lines.
CONSTANTS
    Buffers <- ThreeLines
    Number <- Numbers
    Models <- ModelsToLookUp
    Regcomp <- Compiling
    Regexec <- Matching
SPECIFICATION DatabaseSpec
\* The database is freed, or the program stopped by it.
CHECK_DEADLOCK FALSE
INVARIANTS
    LinesApart
    TableAligned
