---------------------------- MODULE MCLineReader ----------------------------
(* Small instances of LineReader for TLC. *)
EXTENDS LineReader

CONSTANT MaxLength

\* Every file of at most MaxLength characters.
FilesUpTo ==
    UNION {{[length |-> l, newlines |-> nl] : nl \in SUBSET (1..l)} : l \in 0..MaxLength}

=============================================================================
