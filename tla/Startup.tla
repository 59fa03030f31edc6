------------------------------ MODULE Startup -------------------------------
(***************************************************************************)
(* main() (hddtemp.c) from the collection of the disks on: the arguments   *)
(* are opened from the last to the first and put in front of ldisks, the   *)
(* bus of each is forced by a prefix or probed, the database is read when  *)
(* the first ATA disk needs it, and the list is either displayed at once   *)
(* (do_direct_mode) or handed to do_daemon_mode.                           *)
(*                                                                         *)
(* --debug, which prints SMART fields and no temperature, is left out.     *)
(***************************************************************************)
EXTENDS GetTemperature, Sequences

CONSTANTS
    NArgs,       \* argc - optind
    Arguments,   \* what an argument may be
    Drives,      \* what may be behind one
    Options      \* --daemon, --numeric and --quiet

ASSUME StartupAssumption ==
    /\ NArgs \in Nat \ {0}
    /\ Arguments \subseteq [colon : BOOLEAN, prefix : Seq(STRING)]
    /\ Drives \subseteq [opens : BOOLEAN, probes : SUBSET BusType]
    /\ Options \subseteq [daemon : BOOLEAN, numeric : BOOLEAN, quiet : BOOLEAN]

\* A SATA disk is found through the SCSI layer, and answers the SCSI probe too.
ASSUME ProbesAssumption ==
    \A drive \in Drives :
        /\ drive.probes \subseteq {"BUS_SATA", "BUS_ATA", "BUS_SCSI"}
        /\ "BUS_SATA" \in drive.probes => "BUS_SCSI" \in drive.probes

VARIABLES
    args,     \* argv[optind..]: the prefix of each, and whether it has a ':'
    drives,   \* the drive behind each argument
    opt,      \* the options given
    pc,       \* "collect", "direct", "daemon", "returned" or "exit"
    i,        \* the argument, or in direct mode the disk, the loop is at
    ldisks,   \* the list, with the argument each disk comes from
    db,       \* db_loaded, and whether free_database() has been called
    ret,      \* what main() returns, the exit status in direct mode
    stdout    \* what was printed there

vars == <<args, drives, opt, pc, i, ldisks, db, ret, stdout>>
given == <<args, drives, opt>>

Init ==
    /\ args \in [1..NArgs -> Arguments]
    /\ drives \in [1..NArgs -> Drives]
    /\ opt \in Options
    /\ pc = "collect"
    /\ i = NArgs
    /\ ldisks = <<>>
    /\ db = "unloaded"
    /\ ret = 0
    /\ stdout = <<>>

-----------------------------------------------------------------------------
(* The bus of a disk. *)

\* toupper(), for the letters that matter.
Capital == [a |-> "A", c |-> "C", i |-> "I", p |-> "P", s |-> "S",
            t |-> "T", x |-> "X"]
Upper(c) == IF c \in DOMAIN Capital THEN Capital[c] ELSE c

\* The types that can be forced, in the order of bus[].
Buses == <<"BUS_SATA", "BUS_ATA", "BUS_SCSI">>
Name == [BUS_SATA |-> <<"S", "A", "T", "A">>,
         BUS_ATA  |-> <<"P", "A", "T", "A">>,
         BUS_SCSI |-> <<"S", "C", "S", "I">>]

(***************************************************************************)
(* strncmp(name, argv[i], p - argv[i] - 1) == 0: all but the last          *)
(* character of the prefix is compared, nothing of a prefix of one         *)
(* character, and without a limit for an empty one, whose ':' differs.     *)
(***************************************************************************)
Matches(name, prefix) ==
    /\ Len(prefix) - 1 \in 0..Len(name)
    /\ \A k \in 1..Len(prefix) - 1 : Upper(prefix[k]) = name[k]

\* The first bus that matches.
ForcedTypes(arg) ==
    {Buses[j] : j \in
        {j \in 1..3 : /\ arg.colon
                      /\ Matches(Name[Buses[j]], arg.prefix)
                      /\ \A k \in 1..j-1 : ~Matches(Name[Buses[k]], arg.prefix)}}

\* probe_bus_type.  (Mutant: ATA is probed first.)
ProbeBusType_ataFirst(drive) ==
    CASE "BUS_ATA"  \in drive.probes -> "BUS_ATA"
      [] "BUS_ATA"  \notin drive.probes /\ "BUS_SATA" \in drive.probes -> "BUS_SATA"
      [] drive.probes = {"BUS_SCSI"} -> "BUS_SCSI"
      [] drive.probes = {}           -> "BUS_UNKNOWN"

ProbeBusType(drive) ==
    CASE "BUS_SATA" \in drive.probes -> "BUS_SATA"
      [] "BUS_SATA" \notin drive.probes /\ "BUS_ATA" \in drive.probes -> "BUS_ATA"
      [] drive.probes = {"BUS_SCSI"} -> "BUS_SCSI"
      [] drive.probes = {}           -> "BUS_UNKNOWN"

Type(arg, drive) ==
    IF ForcedTypes(arg) # {} THEN CHOOSE t \in ForcedTypes(arg) : TRUE
                             ELSE ProbeBusType(drive)

-----------------------------------------------------------------------------
(* The collection of the disks: the body of the loop, by how it ends. *)

\* dsk->next = ldisks; ldisks = dsk.  (Mutant: the disk is put at the end.)
Listed_last(dsk) == ldisks' = Append(ldisks, [arg |-> i, dsk |-> dsk])
Listed(dsk) == ldisks' = <<[arg |-> i, dsk |-> dsk]>> \o ldisks

Collecting == pc = "collect" /\ i > 0

\* open() failed.  (Mutant: the type a prefix has forced is kept.)
OpenFails_keepsType ==
    /\ Collecting
    /\ ~drives[i].opens
    /\ Listed(NotOpened(IF ForcedTypes(args[i]) = {} THEN "ERROR"
                        ELSE CHOOSE t \in ForcedTypes(args[i]) : TRUE))
    /\ ret' = 1
    /\ i' = i - 1
    /\ UNCHANGED <<given, pc, db, stdout>>

OpenFails ==
    /\ Collecting
    /\ ~drives[i].opens
    /\ Listed(NotOpened("ERROR"))
    /\ ret' = 1
    /\ i' = i - 1
    /\ UNCHANGED <<given, pc, db, stdout>>

\* The disk is taken from the list again.  (Mutant: the status stays 0.)
UnknownBus_status0 ==
    /\ Collecting
    /\ drives[i].opens
    /\ Type(args[i], drives[i]) = "BUS_UNKNOWN"
    /\ i' = i - 1
    /\ UNCHANGED <<given, pc, ldisks, db, ret, stdout>>

UnknownBus ==
    /\ Collecting
    /\ drives[i].opens
    /\ Type(args[i], drives[i]) = "BUS_UNKNOWN"
    /\ ret' = 1
    /\ i' = i - 1
    /\ UNCHANGED <<given, pc, ldisks, db, stdout>>

CollectScsi ==
    /\ Collecting
    /\ drives[i].opens
    /\ Type(args[i], drives[i]) = "BUS_SCSI"
    /\ Listed(Opened("BUS_SCSI", "NULL"))
    /\ i' = i - 1
    /\ UNCHANGED <<given, pc, db, ret, stdout>>

\* A drive without an entry gets attribute 194.
CollectAta ==
    /\ Collecting
    /\ drives[i].opens
    /\ Type(args[i], drives[i]) \in {"BUS_SATA", "BUS_ATA"}
    /\ \E entry \in {"attribute", "attribute0"} :
          Listed(Opened(Type(args[i], drives[i]), entry))
    /\ db' = "loaded"
    /\ i' = i - 1
    /\ UNCHANGED <<given, pc, ret, stdout>>

\* exit(2) of load_database, or exit(-2) for a regular expression of it that
\* does not compile.
BadDatabase ==
    /\ Collecting
    /\ drives[i].opens
    /\ Type(args[i], drives[i]) \in {"BUS_SATA", "BUS_ATA"}
    /\ pc' = "exit"
    /\ UNCHANGED <<given, i, ldisks, db, ret, stdout>>

Collected ==
    /\ pc = "collect"
    /\ i = 0
    /\ db' = IF db = "loaded" THEN "freed" ELSE db
    /\ pc' = IF opt.daemon THEN "daemon" ELSE "direct"
    /\ i' = 1
    /\ UNCHANGED <<given, ldisks, ret, stdout>>

-----------------------------------------------------------------------------
(* Direct mode. *)

(***************************************************************************)
(* What display_temperature prints to stdout: a number, for a drive that   *)
(* could be read; 0 for another one, with --numeric and --quiet; the       *)
(* reason, for a drive without SMART.  All else goes to stderr.            *)
(***************************************************************************)
Printed(dsk) ==
    CASE dsk.ret = "KNOWN"          -> <<"temperature">>
      [] dsk.ret = "NOT_APPLICABLE" ->
            IF opt.numeric /\ opt.quiet THEN <<"0">> ELSE <<"text">>
      [] dsk.ret \in {"UNKNOWN", "DRIVE_SLEEP", "NOSENSOR"} ->
            IF opt.numeric /\ opt.quiet THEN <<"0">> ELSE <<>>
      [] dsk.ret = "ERROR"          -> <<>>

DisplayTemperature ==
    /\ pc = "direct"
    /\ i <= Len(ldisks)
    /\ \E dsk \in GetTemperature(ldisks[i].dsk) :
          /\ ldisks' = [ldisks EXCEPT ![i].dsk = dsk]
          /\ stdout' = stdout \o
                [k \in 1..Len(Printed(dsk)) |->
                    [arg |-> ldisks[i].arg, says |-> Printed(dsk)[k]]]
    /\ i' = i + 1
    /\ UNCHANGED <<given, pc, db, ret>>

Displayed ==
    /\ pc = "direct"
    /\ i > Len(ldisks)
    /\ pc' = "returned"
    /\ UNCHANGED <<given, i, ldisks, db, ret, stdout>>

\* exit(-1): no memory for the db_entry of a SCSI disk.
OutOfMemory ==
    /\ pc = "direct"
    /\ i <= Len(ldisks)
    /\ ldisks[i].dsk.type = "BUS_SCSI"
    /\ pc' = "no_memory"
    /\ UNCHANGED <<given, i, ldisks, db, ret, stdout>>

Next ==
    \/ OpenFails
    \/ UnknownBus
    \/ CollectScsi
    \/ CollectAta
    \/ BadDatabase
    \/ Collected
    \/ DisplayTemperature
    \/ Displayed
    \/ OutOfMemory

Spec == Init /\ [][Next]_vars

-----------------------------------------------------------------------------
(* Properties. *)

TypeOK ==
    /\ args \in [1..NArgs -> Arguments]
    /\ drives \in [1..NArgs -> Drives]
    /\ opt \in Options
    /\ pc \in {"collect", "direct", "daemon", "returned", "exit", "no_memory"}
    /\ i \in 0..NArgs + 1
    /\ ldisks \in Seq([arg : 1..NArgs, dsk : Disk])
    /\ db \in {"unloaded", "loaded", "freed"}
    /\ ret \in {0, 1}
    /\ stdout \in Seq([arg : 1..NArgs, says : {"temperature", "0", "text"}])

(***************************************************************************)
(* The disks are listed, and their lines printed, in the order of the      *)
(* arguments, although these are taken from the last to the first and some *)
(* of them dropped: a script tells the drives by their position.           *)
(***************************************************************************)
InOrder ==
    /\ \A j, k \in 1..Len(ldisks) : j < k => ldisks[j].arg < ldisks[k].arg
    /\ \A j, k \in 1..Len(stdout) : j < k => stdout[j].arg < stdout[k].arg

(***************************************************************************)
(* In direct mode the exit status is 0 just when every argument was taken  *)
(* for a disk and its drive opened: one that was dropped or could not be   *)
(* opened is not forgotten.  (With --daemon the process that was started   *)
(* exits with 0 in do_daemon_mode, whatever ret is.)                       *)
(***************************************************************************)
StatusTells ==
    pc = "returned" =>
        (ret = 0 <=> \A a \in 1..NArgs :
                        \E j \in 1..Len(ldisks) :
                            ldisks[j].arg = a /\ ldisks[j].dsk.type # "ERROR")

(***************************************************************************)
(* What do_daemon_mode relies on: every disk of the list is as DiskCache   *)
(* assumes.  One that was not opened has type ERROR and its reason, so     *)
(* that no driver is called on it; an ATA disk has a db_entry, which the   *)
(* drivers read without a test.                                            *)
(***************************************************************************)
HandedOver ==
    pc \in {"collect", "daemon"} =>
        \A j \in 1..Len(ldisks) : ldisks[j].dsk \in CollectedDisk

(***************************************************************************)
(* The database can stop the program only if a drive needs it: with SCSI   *)
(* drives, drives that cannot be opened and unknown ones, a missing or     *)
(* malformed hddtemp.db does no harm.                                      *)
(***************************************************************************)
DatabaseWhenNeeded ==
    (pc = "exit" \/ db # "unloaded") =>
        \E a \in 1..NArgs :
            /\ drives[a].opens
            /\ Type(args[a], drives[a]) \in {"BUS_SATA", "BUS_ATA"}

(***************************************************************************)
(* The type of a disk is the one its argument names, in small or capital   *)
(* letters, and the guessed one otherwise ("TYPE could be SATA, PATA or    *)
(* SCSI. If omitted hddtemp will try to guess"); the guess is SATA for all *)
(* SATA disks, whatever other commands they answer.                        *)
(***************************************************************************)
Named(arg) ==
    {t \in DOMAIN Name :
        /\ arg.colon
        /\ Len(arg.prefix) = Len(Name[t])
        /\ \A k \in DOMAIN arg.prefix :
              \/ Name[t][k] = arg.prefix[k]
              \/ \E c \in DOMAIN Capital :
                     arg.prefix[k] = c /\ Name[t][k] = Capital[c]}

TypeNamedOrGuessed ==
    \A j \in 1..Len(ldisks) :
        LET arg    == args[ldisks[j].arg]
            probes == drives[ldisks[j].arg].probes
            type   == ldisks[j].dsk.type
        IN  type # "ERROR" =>
                IF Named(arg) # {} THEN type \in Named(arg)
                ELSE /\ type \in probes
                     /\ "BUS_SATA" \in probes => type = "BUS_SATA"

(***************************************************************************)
(* A temperature that is printed was read from the drive: the start value  *)
(* of dsk->value is not taken for one.                                     *)
(***************************************************************************)
TemperaturesRead ==
    \A k \in 1..Len(stdout) :
        stdout[k].says = "temperature" =>
            \E j \in 1..Len(ldisks) :
                ldisks[j].arg = stdout[k].arg /\ ldisks[j].dsk.measured

=============================================================================
