------------------------------ MODULE Database ------------------------------
(***************************************************************************)
(* The lines of hddtemp.db (db.c): parse_db_line and extract_string on the *)
(* buffer of load_database, the list of supported drives, the look-up of a *)
(* model in it and its table (--drivebase).                                *)
(*                                                                         *)
(* A character is a string, a run of digits is one character that stands   *)
(* for its number.  Lines are cut out of the buffer where it is, so that   *)
(* what lies behind a line is its successor; how the buffer is filled is   *)
(* in LineReader.                                                          *)
(***************************************************************************)
EXTENDS Integers, Sequences, FiniteSets, FiniteSetsExt, AscendingOrder

CONSTANTS
    Buffers,        \* contents of buff, with whole lines only
    Number,         \* Number[c]: what the run of digits c stands for
    Models,         \* names of drives to look up
    Regcomp(_),     \* regcomp() accepts a regular expression
    Regexec(_, _)   \* regexec(): the expression matches the model

NUL     == "NUL"
NEWLINE == "\n"
BLANK   == " "
HASH    == "#"
QUOTE   == "\""
ESCAPE  == "\\"

ASSUME DatabaseAssumption ==
    /\ \A c \in DOMAIN Number : Number[c] \in Nat
    /\ DOMAIN Number \cap {NUL, NEWLINE, BLANK, HASH, QUOTE, ESCAPE, "C", "F"} = {}
    /\ \A b \in Buffers : /\ b \in Seq({b[i] : i \in DOMAIN b})
                          /\ b # <<>> => b[Len(b)] = NEWLINE

VARIABLES
    file,              \* the buffer as it was read
    buff,              \* the buffer
    s,                 \* where the next line begins
    phase,             \* "lines", "loaded", "freed", or "exit"
    supported_drives   \* the list

databaseVars == <<file, buff, s, phase, supported_drives>>

-----------------------------------------------------------------------------
(* Strings in memory.  Behind the buffer the model has a NUL. *)

At(b, i) == IF i \in DOMAIN b THEN b[i] ELSE NUL
Cut(b, i) == IF i \in DOMAIN b THEN [b EXCEPT ![i] = NUL] ELSE b

\* line += strspn(line, " \t"): the first position from i on that is no blank.
SkipBlanks(b, i) ==
    CHOOSE j \in i..(Len(b) + 1) : At(b, j) # BLANK /\ \A k \in i..(j - 1) : b[k] = BLANK

\* The string that begins at i, up to its NUL.
String(b, i) ==
    LET end == CHOOSE j \in i..(Len(b) + 1) : At(b, j) = NUL /\ \A k \in i..(j - 1) : b[k] # NUL
    IN  SubSeq(b, i, end - 1)

NULL == 0

(***************************************************************************)
(* extract_string: where the string that is quoted at i ends, or NULL.  A  *)
(* backslash takes the character behind it along, whichever it is: str     *)
(* does not stop there.                                                    *)
(***************************************************************************)
Taken(b, i) ==
    LET taken[n \in Nat] ==
            IF n = 0 THEN FALSE ELSE At(b, i + (n - 1)) = ESCAPE /\ ~taken[n - 1]
    IN  taken

Stops(b, i) == {j \in i..(Len(b) + 2) : ~Taken(b, i)[j - i] /\ At(b, j) \in {NUL, QUOTE}}

Scan(b, i) == LET str == Min(Stops(b, i)) IN IF At(b, str) = QUOTE THEN str ELSE NULL

ExtractString(b, i) == IF At(b, i) = QUOTE THEN Scan(b, i + 1) ELSE NULL

-----------------------------------------------------------------------------
(* parse_db_line. *)

Entry(regexp, id, unit, description) ==
    [regexp |-> regexp, attribute_id |-> id, unit |-> unit, description |-> description]

\* The number is computed in an unsigned short and kept in a short.
Short(n) == LET u == n % 65536 IN IF u < 32768 THEN u ELSE u - 65536

Nothing(b)     == [status |-> 0, buff |-> b, entries |-> <<>>]
SyntaxError(b) == [status |-> 1, buff |-> b, entries |-> <<>>]

\* From the description on.
ParseDescription(b, regexp, id, unit, i) ==
    LET q   == SkipBlanks(b, i)
        p   == ExtractString(b, q)
        cut == Cut(b, p)
    IN  IF p = NULL THEN SyntaxError(b)
        ELSE [status |-> 0, buff |-> cut,
              entries |-> <<Entry(regexp, id, unit, String(cut, q + 1))>>]

\* From the value on; *line at the blanks before it.
ParseValue(b, regexp, i) ==
    LET p    == SkipBlanks(b, i)
        has  == At(b, p) \in DOMAIN Number
        id   == IF has THEN Short(Number[At(b, p)]) ELSE 0
        end  == IF has THEN p + 1 ELSE p
        unit == SkipBlanks(b, end)
    IN  IF /\ At(b, end) = BLANK
           /\ At(b, unit) \in {"C", "F"}
           /\ At(b, unit + 1) = BLANK
        THEN ParseDescription(b, regexp, id, At(b, unit), unit + 1)
        ELSE SyntaxError(b)

ParseDbLine(b, i) ==
    LET line == SkipBlanks(b, i)
        p    == ExtractString(b, line)
        cut  == Cut(b, p)
    IN  CASE At(b, line) \in {HASH, NUL}                   -> Nothing(b)
          [] At(b, line) \notin {HASH, NUL} /\ p = NULL    -> SyntaxError(b)
          [] At(b, line) \notin {HASH, NUL} /\ p # NULL    ->
                ParseValue(cut, String(cut, line + 1), p + 1)

-----------------------------------------------------------------------------
DatabaseInit ==
    /\ file \in Buffers
    /\ buff = file
    /\ s = 1
    /\ phase = "lines"
    /\ supported_drives = <<>>

\* e = memchr(s, '\n', ee-s)
Newlines(b) == {i \in DOMAIN b : b[i] = NEWLINE /\ i >= s}

\* The next line; a syntax error stops the program.  (Mutant: an entry is put in
\* front of the others.)
Added_first(entries) == entries \o supported_drives
Added(entries) == supported_drives \o entries

ParseLine ==
    /\ phase = "lines"
    /\ Newlines(buff) # {}
    /\ LET e      == Min(Newlines(buff))
           result == ParseDbLine(Cut(buff, e), s)
       IN  /\ buff' = result.buff
           /\ supported_drives' = Added(result.entries)
           /\ s' = e + 1
           /\ phase' = IF result.status = 1 THEN "exit" ELSE phase
    /\ UNCHANGED file

Loaded ==
    /\ phase = "lines"
    /\ Newlines(buff) = {}
    /\ phase' = "loaded"
    /\ UNCHANGED <<file, buff, s, supported_drives>>

\* is_a_supported_drive: the first entry that matches; an expression before it
\* that does not compile stops the program.
Tried(model) ==
    {i \in DOMAIN supported_drives :
        \A k \in 1..(i - 1) : ~Regexec(supported_drives[k].regexp, model)}

Supported(model) ==
    {supported_drives[i] : i \in {k \in Tried(model) : Regexec(supported_drives[k].regexp, model)}}

LookUp(model) ==
    /\ phase = "loaded"
    /\ phase' = IF \A i \in Tried(model) : Regcomp(supported_drives[i].regexp) THEN phase ELSE "exit"
    /\ UNCHANGED <<file, buff, s, supported_drives>>

\* free_database: the list is no more than dangling pointers from here on.
FreeDatabase ==
    /\ phase = "loaded"
    /\ phase' = "freed"
    /\ supported_drives' = <<>>
    /\ UNCHANGED <<file, buff, s>>

DatabaseNext == ParseLine \/ Loaded \/ (\E model \in Models : LookUp(model)) \/ FreeDatabase

DatabaseSpec == DatabaseInit /\ [][DatabaseNext]_databaseVars

-----------------------------------------------------------------------------
(* The table of --drivebase. *)

Width(n) == n \div 8

\* The tabulators behind an expression of len characters, the longest having max.
\* (Mutant: computed from the column the expression ends in.)
Tabs_rest(len, max) == Width(max - len) + 1
Tabs(len, max) == Width(max) + 1 - Width(len)

\* The column a terminal is in after a text of len characters and n tabulators.
Column(len, n) == IF n = 0 THEN len ELSE 8 * (Width(len) + n)

-----------------------------------------------------------------------------
(***************************************************************************)
(* What the manual page says of the file: "each line of hddtemp.db is      *)
(* either a comment, a blank line or a line containing: a regular          *)
(* expression [...], a value [...], C or F and a description".             *)
(***************************************************************************)

Escaped(line, i) ==
    \E k \in 1..(i - 1) :
        /\ (i - k) % 2 = 1
        /\ \A j \in k..(i - 1) : line[j] = ESCAPE
        /\ k > 1 => line[k - 1] # ESCAPE

Quotes(line) == {i \in DOMAIN line : line[i] = QUOTE /\ ~Escaped(line, i)}
Quote(line, n) == Ascending(Quotes(line))[n]
Between(line, n) == SubSeq(line, Quote(line, n) + 1, Quote(line, n + 1) - 1)

Visible(str) == {i \in DOMAIN str : str[i] # BLANK}
Word(str, n) == str[Ascending(Visible(str))[n]]

\* Blanks, and a comment behind them or nothing.
Ignored(line) ==
    \A i \in Visible(line) : line[i] = HASH \/ \E k \in Visible(line) : k < i

\* A value and a unit, with blanks around them that may lack before the value.
ValueAndUnit(str) ==
    /\ Cardinality(Visible(str)) = 2
    /\ Word(str, 1) \in DOMAIN Number
    /\ Word(str, 2) \in {"C", "F"}
    /\ \A i \in Visible(str) : i < Len(str) /\ str[i + 1] = BLANK

\* An entry: blanks, a string, a number, a unit, another string, and anything.
WellFormed(line) ==
    /\ Cardinality(Quotes(line)) >= 4
    /\ \A i \in 1..(Quote(line, 1) - 1) : line[i] = BLANK
    /\ ValueAndUnit(Between(line, 2))

Meaning(line) ==
    Entry(Between(line, 1), Number[Word(Between(line, 2), 1)],
          Word(Between(line, 2), 2), Between(line, 3))

\* The line of a text that ends at a newline.
Line(text, e) == SubSeq(text, 1 + Max({0} \cup {i \in 1..(e - 1) : text[i] = NEWLINE}), e - 1)

\* What some lines say.
Meanings(text, ends) ==
    LET end == Ascending(ends) IN [k \in DOMAIN end |-> Meaning(Line(text, end[k]))]

\* The lines that have been parsed.
Ends == {i \in 1..(s - 1) : file[i] = NEWLINE}
Saying == {e \in Ends : ~Ignored(Line(file, e))}
Wrong == {e \in Saying : ~WellFormed(Line(file, e))}

\* The whole list is what its lines say, and the program stops at a line that
\* says nothing, or else for an expression only.
LinesSay ==
    CASE phase \in {"lines", "loaded"} ->
            Wrong = {} /\ supported_drives = Meanings(file, Saying)
      [] phase = "exit" ->
            \/ Wrong = {s - 1}
            \/ Wrong = {} /\ \E i \in DOMAIN supported_drives : ~Regcomp(supported_drives[i].regexp)
      [] phase = "freed" -> Wrong = {}

EndsInEscape(line) == Escaped(line, Len(line) + 1)
Small(line) == \A i \in DOMAIN line : line[i] \in DOMAIN Number => Number[line[i]] < 32768
Text(line) == \A i \in DOMAIN line : line[i] # NUL
Plain ==
    \A e \in Ends : LET line == Line(file, e)
                    IN  Text(line) /\ ~EndsInEscape(line) /\ Small(line)

(***************************************************************************)
(* Each line of a text is read by itself, though it is cut into strings    *)
(* where it lies and its successor is right behind it, unless it ends in a *)
(* backslash or has a number that no short holds.                          *)
(***************************************************************************)
LinesApart == Plain => LinesSay

(***************************************************************************)
(* The bars of the table are below each other, whatever the lengths of the *)
(* expressions and wherever they end between two tabulators.               *)
(***************************************************************************)
TableAligned ==
    LET max == Max({0} \cup {Len(supported_drives[i].regexp) : i \in DOMAIN supported_drives})
    IN  phase = "loaded" => \A i \in DOMAIN supported_drives :
            LET len == Len(supported_drives[i].regexp)
            IN  Tabs(len, max) > 0 /\ Column(len, Tabs(len, max)) = Column(0, Width(max) + 1)

=============================================================================
