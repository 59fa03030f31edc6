------------------------------ MODULE MCStartup ------------------------------
(***************************************************************************)
(* Arguments, drives and options for the runs of Startup.                  *)
(***************************************************************************)
EXTENDS Startup

Plain == [colon |-> FALSE, prefix |-> <<>>]
Prefixed(p) == [colon |-> TRUE, prefix |-> p]

\* No prefix, and the documented ones, in letters of both cases.
GoodArguments ==
    {Plain} \cup {Prefixed(p) : p \in {<<"s", "a", "t", "a">>,
                                      <<"P", "A", "T", "A">>,
                                      <<"S", "c", "s", "i">>}}

\* A drive that is not there, and every answer to the three probes.
AllDrives ==
    {[opens |-> FALSE, probes |-> {}]} \cup
    {[opens |-> TRUE, probes |-> probes] :
        probes \in {p \in SUBSET {"BUS_SATA", "BUS_ATA", "BUS_SCSI"} :
                        "BUS_SATA" \in p => "BUS_SCSI" \in p}}

DirectOptions == [daemon : {FALSE}, numeric : BOOLEAN, quiet : BOOLEAN]
AnyOptions ==
    DirectOptions \cup {[daemon |-> TRUE, numeric |-> FALSE, quiet |-> FALSE]}

=============================================================================
