------------------------------ MODULE Replies -------------------------------
(***************************************************************************)
(* From the bytes a drive sends of itself to the bytes a client reads:     *)
(* the model string (satacmds.c, scsicmds.c), the unit of the temperature  *)
(* (hddtemp.c) and the reply with its separators (daemon.c).               *)
(*                                                                         *)
(* A character is a string; a number or a code of the reply is one         *)
(* character here.                                                         *)
(***************************************************************************)
EXTENDS Integers, Sequences, SequencesExt, AscendingOrder

CONSTANTS
    Lists,       \* the lists of disks there may be
    Separators,  \* values of --separator
    Digits(_),   \* a number as it is printed
    FIXED,       \* the bytes sata_fixstring and scsi_fixstring are called for: 24
    MSG          \* sizeof(msg): 128

BLANK == " "
NUL == "NUL"
STRAY == "STRAY"   \* a byte of the stack

(***************************************************************************)
(* A disk: its path; on SATA the bytes of its name are swapped in pairs;   *)
(* bytes holds them, the bytes that follow and a NUL; the first ones are   *)
(* the field of the name; unit is that of its database entry; value and    *)
(* ret are those of its latest query.  One that main() could not open is   *)
(* never asked for its bytes, and daemon_update gives it GETTEMP_ERROR.    *)
(***************************************************************************)
ASSUME RepliesAssumption ==
    /\ FIXED \in Nat /\ FIXED % 2 = 0
    /\ MSG \in Nat \ {0}
    /\ \A list \in Lists : list \in Seq(ToSet(list))
    /\ \A list \in Lists : \A i \in DOMAIN list : LET dsk == list[i] IN
          /\ dsk.bytes \in Seq(ToSet(dsk.bytes)) /\ dsk.bytes[Len(dsk.bytes)] = NUL
          /\ dsk.field \in FIXED..(Len(dsk.bytes) - 1)
          /\ dsk.sata \in BOOLEAN /\ (dsk.sata => dsk.field % 2 = 0)
          /\ dsk.unit \in {"C", "F"}
          /\ dsk.opened \in BOOLEAN /\ (dsk.opened \/ dsk.ret = "ERR")
          /\ dsk.value \in Int

VARIABLES
    disks,      \* the list
    model,      \* dsk->model of each, NoModel if that is NULL
    unit,       \* --unit: "DEFAULT", "CELSIUS" or "FAHRENHEIT"
    separator,
    stream      \* what has been written to the client

replyVars == <<disks, model, unit, separator, stream>>

-----------------------------------------------------------------------------
(* Model strings. *)

\* Of the words of a drive's answer the first FIXED bytes are put in order.
Swapped(bytes) ==
    [k \in DOMAIN bytes |->
        IF k > FIXED THEN bytes[k] ELSE IF k % 2 = 1 THEN bytes[k + 1] ELSE bytes[k - 1]]

CString(str) == SubSeq(str, 1, (CHOOSE k \in DOMAIN str :
                                  str[k] = NUL /\ \A j \in 1..(k - 1) : str[j] # NUL) - 1)

\* A blank is dropped before a blank and at the end, and all are in front of the
\* name.  (Mutants: at the end they stay; the end is looked for at the end only.)
KeptOf_blank(str, k) == str[k] # BLANK \/ k = Len(str) \/ str[k + 1] # BLANK
KeptOf(str, k) == str[k] # BLANK \/ (k < Len(str) /\ str[k + 1] \notin {NUL, BLANK})

FixString(str) ==
    LET begins == {k \in DOMAIN str : \A j \in 1..k : str[j] = BLANK}
        ends   == {k \in DOMAIN str : \E j \in 1..k : str[j] = NUL}
        kept   == {k \in (DOMAIN str) \ (begins \cup ends) : KeptOf(str, k)}
        at     == Ascending(kept)
    IN  [k \in DOMAIN str |-> IF k \in DOMAIN at THEN str[at[k]] ELSE NUL]

\* sata_model and scsi_model: the fixed bytes, and strdup() of them and of what
\* follows.
ModelOf(dsk) ==
    LET bytes == IF dsk.sata THEN Swapped(dsk.bytes) ELSE dsk.bytes
    IN  CString(FixString(SubSeq(bytes, 1, FIXED)) \o SubSeq(bytes, FIXED + 1, Len(bytes)))

\* A disk that could not be opened has no model: no string is like this.
NoModel == <<NUL>>
ModelField(dsk) == IF dsk.opened THEN ModelOf(dsk) ELSE NoModel

-----------------------------------------------------------------------------
(* Units. *)

Trunc(n, d) == IF n >= 0 THEN n \div d ELSE -((-n) \div d)

F_to_C(val) == Trunc(5 * (val - 32), 9)
C_to_F(val) == Trunc(9 * val + 160, 5)

\* value_to_unit.  (Mutant: the unit of the database is not looked at.)
ValueToUnit_always(dsk) ==
    CASE unit = "CELSIUS"    -> F_to_C(dsk.value)
      [] unit = "FAHRENHEIT" -> C_to_F(dsk.value)
      [] unit = "DEFAULT"    -> dsk.value

ValueToUnit(dsk) ==
    CASE unit = "CELSIUS" /\ dsk.unit = "F"    -> F_to_C(dsk.value)
      [] unit = "FAHRENHEIT" /\ dsk.unit = "C" -> C_to_F(dsk.value)
      [] unit = "DEFAULT" \/ (unit = "CELSIUS" /\ dsk.unit = "C")
                          \/ (unit = "FAHRENHEIT" /\ dsk.unit = "F") -> dsk.value

GetUnit(dsk) ==
    CASE unit = "CELSIUS" -> "C" [] unit = "FAHRENHEIT" -> "F" [] unit = "DEFAULT" -> dsk.unit

-----------------------------------------------------------------------------
(* The reply. *)

Verdict(dsk) == IF dsk.ret = "KNOWN" THEN Digits(ValueToUnit(dsk)) ELSE dsk.ret
Unit(dsk)    == IF dsk.ret = "KNOWN" THEN GetUnit(dsk) ELSE "*"

\* A missing model is replaced only in the reply of an error.
Shown(i) ==
    IF disks[i].ret = "ERR" /\ model[i] = NoModel THEN <<"?", "?", "?">> ELSE model[i]

\* daemon_send_msg: what snprintf() would like to write into msg ...
Message(i) ==
    <<disks[i].drive, separator>> \o Shown(i)
        \o <<separator, Verdict(disks[i]), separator, Unit(disks[i])>>

\* ... and what write() sends of it: as many bytes, from wherever they are.
Sent(msg) ==
    [k \in DOMAIN msg |-> IF k < MSG \/ Len(msg) < MSG THEN msg[k]
                                                       ELSE IF k = MSG THEN NUL ELSE STRAY]

\* (Mutant: one separator between two drives.)
Framed_once(msg) == msg \o <<separator>>
Framed(msg) == <<separator>> \o msg \o <<separator>>

-----------------------------------------------------------------------------
ReplyInit ==
    /\ disks \in Lists
    /\ model = <<>>
    /\ unit \in {"DEFAULT", "CELSIUS", "FAHRENHEIT"}
    /\ separator \in Separators
    /\ stream = <<>>

\* main() asks the drives it could open for their models.
Collect ==
    /\ model = <<>>
    /\ model' = [i \in DOMAIN disks |-> ModelField(disks[i])]
    /\ UNCHANGED <<disks, unit, separator, stream>>

\* daemon_send_msg, for one client.
Reply ==
    /\ model # <<>>
    /\ stream = <<>>
    /\ stream' = FlattenSeq([i \in DOMAIN disks |-> Framed(Sent(Message(i)))])
    /\ UNCHANGED <<disks, model, unit, separator>>

ReplyNext == Collect \/ Reply

ReplySpec == ReplyInit /\ [][ReplyNext]_replyVars

-----------------------------------------------------------------------------
(* Properties. *)

\* The name of a drive: the bytes of its field in order, up to a NUL, with single
\* blanks between the words.
Name(dsk) ==
    LET field  == [k \in 1..dsk.field |->
                      IF ~dsk.sata THEN dsk.bytes[k]
                      ELSE dsk.bytes[IF k % 2 = 1 THEN k + 1 ELSE k - 1]]
        text   == CString(Append(field, NUL))
        used   == {j \in DOMAIN text : text[j] # BLANK}
        joins  == {j \in DOMAIN text \ used : j + 1 \in used /\ \E k \in used : k < j}
        order  == Ascending(used \cup joins)
    IN  [k \in DOMAIN order |-> text[order[k]]]

Short(dsk) == Len(Name(dsk)) < FIXED /\ \A k \in (FIXED + 1)..dsk.field : dsk.bytes[k] = BLANK

(***************************************************************************)
(* The model of a drive that could be opened is its name, put in order and *)
(* cleaned in place, for names shorter than the 24 bytes that are cleaned. *)
(***************************************************************************)
ModelIsName ==
    model # <<>> =>
        \A i \in DOMAIN disks :
            disks[i].opened /\ Short(disks[i]) => model[i] = Name(disks[i])

\* The pieces of the stream between separators.
Bars == Ascending({k \in DOMAIN stream : stream[k] = separator})
Piece(k) == SubSeq(stream, Bars[k] + 1, Bars[k + 1] - 1)

Clear(i) ==
    /\ Len(Message(i)) < MSG
    /\ \A k \in DOMAIN Shown(i) : Shown(i)[k] # separator
    /\ separator \notin {disks[i].drive, Verdict(disks[i]), Unit(disks[i])}

(***************************************************************************)
(* A client that splits what it reads at the separators gets path, name    *)
(* (??? for a drive that could not be opened), temperature and unit of     *)
(* every drive in turn, however short they are, if they fit in msg and the *)
(* separator is in none of them.                                           *)
(***************************************************************************)
RepliesReadable ==
    stream # <<>> /\ (\A i \in DOMAIN disks : Clear(i)) =>
        /\ Len(Bars) = 5 * Len(disks)
        /\ \A i \in DOMAIN disks :
              LET at == 5 * (i - 1)
              IN  /\ Piece(at + 1) = <<disks[i].drive>>
                  /\ Piece(at + 2) = IF disks[i].opened THEN model[i] ELSE <<"?", "?", "?">>
                  /\ Piece(at + 3) = <<Verdict(disks[i])>>
                  /\ Piece(at + 4) = <<Unit(disks[i])>>

(***************************************************************************)
(* The number and the unit, which come from two functions, are the         *)
(* temperature the drive has measured, to the degree.                      *)
(***************************************************************************)
SameTemperature ==
    \A i \in DOMAIN disks :
        LET dsk == disks[i]
            val == ValueToUnit(dsk)
        IN  CASE dsk.unit = GetUnit(dsk)               -> val = dsk.value
              [] dsk.unit = "C" /\ GetUnit(dsk) = "F" -> 5 * (val - 32) - 9 * dsk.value \in -4..4
              [] dsk.unit = "F" /\ GetUnit(dsk) = "C" -> 9 * val - 5 * (dsk.value - 32) \in -8..8

=============================================================================
