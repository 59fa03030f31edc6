----------------------------- MODULE LineReader -----------------------------
(***************************************************************************)
(* load_database (db.c): a buffer of MAX_LINE_LEN bytes is filled by       *)
(* read(), emptied line by line, and what is left of the last line is      *)
(* moved to its front.                                                     *)
(*                                                                         *)
(* The buffer always holds a piece of the file, so that it is kept as the  *)
(* offsets of that piece: the bytes buff+1 .. ee, of which those up to s   *)
(* have been used.                                                         *)
(***************************************************************************)
EXTENDS Integers, Sequences

CONSTANTS
    Files,         \* the files there may be, as in LineSource
    MAX_LINE_LEN   \* size of the buffer

ASSUME LineReaderAssumption ==
    /\ MAX_LINE_LEN \in Nat \ {0}
    /\ \A f \in Files :
          /\ f = [length |-> f.length, newlines |-> f.newlines]
          /\ f.length \in Nat
          /\ f.newlines \subseteq 1..f.length

VARIABLES
    file,     \* the database file
    phase,    \* "read", "lines", "closed" (returned) or "exit"
    buff,     \* file offset at which the buffer begins
    s,        \* file offset up to which it has been used
    ee,       \* file offset up to which it has been filled
    parsed,   \* the lines given to parse_db_line
    outcome   \* how it ended

readerVars == <<file, phase, buff, s, ee, parsed, outcome>>

ReaderInit ==
    /\ file \in Files
    /\ phase = "read"
    /\ buff = 0
    /\ s = 0
    /\ ee = 0
    /\ parsed = <<>>
    /\ outcome = "open"

\* rest: the room behind the remainder.
Rest == MAX_LINE_LEN - (ee - buff)

(***************************************************************************)
(* read() returns some bytes, as many as there is room for or fewer.       *)
(***************************************************************************)
Read ==
    /\ phase = "read"
    /\ \E n \in 1..Rest : ee + n <= file.length /\ ee' = ee + n
    /\ s' = buff
    /\ phase' = "lines"
    /\ UNCHANGED <<file, buff, parsed, outcome>>

\* read() returns 0: at the end of the file, or because there is no room.
\* (Mutant: 0 is tried again.)
ReadNothing_again ==
    /\ phase = "read"
    /\ Rest = 0 \/ ee = file.length
    /\ UNCHANGED readerVars

ReadNothing ==
    /\ phase = "read"
    /\ Rest = 0 \/ ee = file.length
    /\ phase' = "closed"
    /\ outcome' = "complete"
    /\ UNCHANGED <<file, buff, s, ee, parsed>>

\* read() returns -1, which ends the loop just as 0 does.
ReadFails ==
    /\ phase = "read"
    /\ phase' = "closed"
    /\ outcome' = "read_error"
    /\ UNCHANGED <<file, buff, s, ee, parsed>>

\* The newlines memchr(s, '\n', ee-s) finds.
InBuffer == {i \in file.newlines : s < i /\ i <= ee}

\* One round of the inner loop; a syntax error ends the program.
ParseLine ==
    /\ phase = "lines"
    /\ \E e \in InBuffer :
          /\ \A i \in InBuffer : e <= i
          /\ parsed' = Append(parsed, [first |-> s + 1, last |-> e])
          /\ s' = e
    /\ \/ UNCHANGED <<phase, outcome>>
       \/ phase' = "exit" /\ outcome' = "syntax_error"
    /\ UNCHANGED <<file, buff, ee>>

\* if(s == buff): no line was found in the whole buffer.  (Mutant: the piece
\* is skipped.)
LineTooLong_skipped ==
    /\ phase = "lines"
    /\ InBuffer = {}
    /\ s = buff
    /\ buff' = ee
    /\ s' = ee
    /\ phase' = "read"
    /\ UNCHANGED <<file, ee, parsed, outcome>>

LineTooLong ==
    /\ phase = "lines"
    /\ InBuffer = {}
    /\ s = buff
    /\ phase' = "exit"
    /\ outcome' = "line_too_long"
    /\ UNCHANGED <<file, buff, s, ee, parsed>>

\* memmove(buff, s, ee-s).  (Mutant: the remainder is not moved.)
Front_unmoved == buff
Front == s

Remainder ==
    /\ phase = "lines"
    /\ InBuffer = {}
    /\ s # buff
    /\ buff' = Front
    /\ phase' = "read"
    /\ UNCHANGED <<file, s, ee, parsed, outcome>>

Progress ==
    \/ Read
    \/ ReadNothing
    \/ ParseLine
    \/ LineTooLong
    \/ Remainder

ReaderNext == Progress \/ ReadFails

ReaderSpec == ReaderInit /\ [][ReaderNext]_readerVars

\* The process is scheduled, and read() answers; it need not fail.
FairReaderSpec == ReaderSpec /\ WF_readerVars(Progress)

-----------------------------------------------------------------------------
(* Properties. *)

\* The buffer is a piece of the file, and no longer than its array.
ReaderTypeOK ==
    /\ file \in Files
    /\ phase \in {"read", "lines", "closed", "exit"}
    /\ buff \in 0..s
    /\ s \in 0..ee
    /\ ee \in 0..file.length
    /\ ee - buff <= MAX_LINE_LEN
    /\ parsed \in Seq([first : 1..file.length, last : file.newlines])
    /\ outcome \in {"open", "complete", "read_error", "syntax_error",
                    "line_too_long"}

(***************************************************************************)
(* There always is room for read() to put something: otherwise its 0 would *)
(* pass for the end of the file, and the rest of the database be ignored   *)
(* in silence.                                                             *)
(***************************************************************************)
RoomToRead == phase = "read" => Rest > 0

(***************************************************************************)
(* The reader implements LineSource: whatever the sizes of the reads, each *)
(* line is parsed whole, once and in order, and the end is the end.        *)
(***************************************************************************)
Source == INSTANCE LineSource WITH lines <- parsed

ImplementsLineSource == Source!Spec

\* A database is read in the end: the two loops cannot spin.
Terminates == <>(phase \in {"closed", "exit"})

=============================================================================
