----------------------------- MODULE LineSource -----------------------------
(***************************************************************************)
(* What load_database promises of its reading of the drive database: the   *)
(* lines of the file that end in a newline are handed over one by one,     *)
(* each whole and once, in the order of the file, until the end of the     *)
(* file, a line that is not accepted or a failure.                         *)
(*                                                                         *)
(* A file is its length and the offsets of its newlines, counted from 1;   *)
(* a line is a pair of offsets, of its first character and its newline.    *)
(***************************************************************************)
EXTENDS Integers, Sequences

CONSTANT Files     \* the files there may be

VARIABLES
    file,     \* the database file
    lines,    \* the lines handed over so far
    outcome   \* "open" while there may be more

\* Where the lines handed over end.
Consumed(ls) == IF ls = <<>> THEN 0 ELSE ls[Len(ls)].last

\* The newlines of f behind offset from, and the first of them.
Ends(f, from) == {i \in f.newlines : i > from}
IsFirst(e, newlines) == e \in newlines /\ \A i \in newlines : e <= i

Init ==
    /\ file \in Files
    /\ lines = <<>>
    /\ outcome = "open"

Deliver ==
    /\ outcome = "open"
    /\ \E e \in 1..file.length :
          /\ IsFirst(e, Ends(file, Consumed(lines)))
          /\ lines' = Append(lines, [first |-> Consumed(lines) + 1, last |-> e])
    /\ outcome' \in {"open", "syntax_error"}
    /\ UNCHANGED file

\* The end of the file: no line is left.
End ==
    /\ outcome = "open"
    /\ Ends(file, Consumed(lines)) = {}
    /\ outcome' = "complete"
    /\ UNCHANGED <<file, lines>>

\* The reader gives up, or takes a read error for the end of the file.
GiveUp ==
    /\ outcome = "open"
    /\ outcome' \in {"line_too_long", "read_error"}
    /\ UNCHANGED <<file, lines>>

Next == Deliver \/ End \/ GiveUp

Spec == Init /\ [][Next]_<<file, lines, outcome>>

=============================================================================
