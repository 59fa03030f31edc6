------------------------------ MODULE MCReplies -----------------------------
(* Small instances of Replies for TLC: names of up to six bytes, of which four *)
(* are cleaned, and a msg of eleven. *)
EXTENDS Replies, TLC

Dec(n) == ToString(n)

Disk(drive, sata, name, after, u, v, ret) ==
    [drive |-> drive, sata |-> sata, bytes |-> name \o after \o <<NUL>>,
     field |-> Len(name), unit |-> u, value |-> v, ret |-> ret, opened |-> TRUE]

\* Every name a drive may have, ...
Named ==
    {Disk("sda", TRUE, name, <<"x">>, "C", 38, "KNOWN") :
        name \in [1..6 -> {"a", BLANK, NUL, "|"}]}
    \cup {Disk("sdb", FALSE, name, <<"1", "0">>, "C", 0, "SLP") :
             name \in [1..4 -> {"b", "c", BLANK, NUL}]}

\* ... and every temperature.
Warm ==
    {Disk("sdc", FALSE, <<"b", BLANK, BLANK, "c">>, <<"r">>, u, v, "KNOWN") :
        u \in {"C", "F"}, v \in 0..255}

Plain == Disk("sdd", TRUE, <<"a", "b", BLANK, BLANK, BLANK, BLANK>>, <<>>, "C", 0, "ERR")
Lost  == [Plain EXCEPT !.drive = "sde", !.value = -1, !.opened = FALSE]

AnyLists == {<<dsk, Plain>> : dsk \in Named \cup Warm} \cup {<<Lost, dsk>> : dsk \in Warm}
BarOrStar == {"|", "*"}

=============================================================================
