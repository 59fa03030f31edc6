----------------------------- MODULE BusDrivers -----------------------------
(***************************************************************************)
(* The three bus drivers one ioctl at a time: the probes of main() and the *)
(* steps of get_temperature (ata.c, sata.c, scsi.c and their *cmds.c).     *)
(* Drives fall asleep, wake up and are unplugged between any two ioctls,   *)
(* errno keeps what the latest failing call left in it, and the SCSI       *)
(* transport is chosen once for the whole process.                         *)
(*                                                                         *)
(* An ioctl is a set of answers, over the state of its drive.  SG_IO       *)
(* returns 0 when the command was carried to the drive, also when the      *)
(* drive refused it: the status in sg_io_hdr is not looked at.             *)
(***************************************************************************)
EXTENDS GetTemperature

CONSTANTS
    Drives,   \* the drives named on the command line
    Kinds,    \* the kinds of drives among them
    Forced    \* the bus types that a TYPE: prefix forces on one of them

(***************************************************************************)
(* What a drive and its kernel driver are.  hdio: the HDIO_* ioctls work;  *)
(* scsi: it is on a SCSI bus (libata's are); sgio and send: SG_IO and      *)
(* SCSI_IOCTL_SEND_COMMAND work; ata: its vendor is "ATA"; packet: an ATA  *)
(* packet device; mode: its informational exceptions page, too short,      *)
(* with DEXCPT set, or clear; pm: it knows CHECK POWER MODE; sensor: it    *)
(* reports a temperature.                                                  *)
(***************************************************************************)
Kind == [hdio : BOOLEAN, scsi : BOOLEAN, sgio : BOOLEAN, send : BOOLEAN,
         ata : BOOLEAN, packet : BOOLEAN, pm : BOOLEAN, mode : {"short", "set", "clear"},
         sensor : BOOLEAN]

ASSUME BusDriversAssumption ==
    /\ Kinds \subseteq Kind
    /\ Forced \subseteq BusType \ {"ERROR"}

VARIABLES
    disk,             \* disk[d]: the struct disk of d
    kind,             \* kind[d]: what d is
    power,            \* power[d]: what d is doing
    errno,            \* the process's errno
    SG_IO_supported,  \* the static of scsi_command: -1, 0 or 1
    pc,               \* the next ioctl, or "idle"
    cur,              \* the drive being probed or queried
    before,           \* history: its disk when the query began
    asleep,           \* history: cur has been asleep ever since, and can tell
    refused,          \* history: drives that failed or refused a command
    first,            \* history: SG_IO_supported after the first SCSI command
    answered          \* history: the value of cur is the drive's answer

machine == <<kind, power>>
process == <<errno, SG_IO_supported>>
track == <<before, asleep>>
tally == <<refused, first, answered>>
history == <<track, tally>>
vars == <<disk, machine, process, pc, cur, history>>

Power == {"spinning", "standby", "sleeping", "gone"}
Asleep == {"standby", "sleeping"}

NotCollected == [NotOpened("ERROR") EXCEPT !.errormsg = ""]
Present(d) == disk[d].fd = "open" /\ power[d] # "gone"

-----------------------------------------------------------------------------
(* The drives by themselves. *)

(***************************************************************************)
(* The drive can be asked, and its mode be told from being active: standby *)
(* by CHECK POWER MODE, if it knows that command, and sleep mode by        *)
(* failing it without a status, if it knows it or not.                     *)
(***************************************************************************)
ShowsSleep(d, mode) ==
    kind[d].hdio /\ (mode = "sleeping" \/ (mode = "standby" /\ kind[d].pm))

\* The timers of the drive, other users of it, and its cable.
Drift(d) ==
    /\ power[d] # "gone"
    /\ \E p \in Power \ {power[d]} :
          /\ power' = [power EXCEPT ![d] = p]
          /\ asleep' = (asleep /\ (d = cur => ShowsSleep(d, p)))
    /\ UNCHANGED <<disk, kind, process, pc, cur, before, refused, first, answered>>

-----------------------------------------------------------------------------
(* The ioctls: what each may answer. *)

\* HDIO_DRIVE_CMD with a SMART command: EIO when the drive aborts it.
Answers(d) == Present(d) /\ kind[d].hdio

HdioCmd(d) == IF Answers(d) THEN {"0", "EIO"} ELSE {"other"}

(***************************************************************************)
(* HDIO_DRIVE_CMD with one of the two CHECK POWER MODE commands: the       *)
(* nsector register, or the failure and whether status and error came back *)
(* as zeros.  In sleep mode a drive answers nothing; one that spins but is *)
(* idle may call itself 0x80.                                              *)
(***************************************************************************)
Failed(e, zeros) == [errno |-> e, zeros |-> zeros, nsector |-> 0]
Nsector(n)       == [errno |-> "0", zeros |-> FALSE, nsector |-> n]

CheckPower(d) ==
    CASE ~Present(d) \/ ~kind[d].hdio                      -> {Failed("other", FALSE)}
      [] Answers(d) /\ power[d] = "sleeping"                -> {Failed("EIO", TRUE)}
      [] Answers(d) /\ power[d] # "sleeping" /\ ~kind[d].pm -> {Failed("EIO", FALSE)}
      [] Answers(d) /\ power[d] = "standby" /\ kind[d].pm   -> {Nsector(0)}
      [] Answers(d) /\ power[d] = "spinning" /\ kind[d].pm  -> {Nsector(255), Nsector(128)}

(***************************************************************************)
(* A SCSI command: what the ioctl returns, and whether the buffer holds    *)
(* the drive's answer.  SCSI_IOCTL_SEND_COMMAND returns the drive's status *)
(* (errno is left alone then).                                             *)
(***************************************************************************)
Answer(ret, data, e) == [ret |-> ret, data |-> data, errno |-> e]
NoIoctl == Answer("failed", FALSE, "other")

SG_IO(d) ==
    IF Present(d) /\ kind[d].sgio
    THEN {Answer("0", TRUE, errno), Answer("0", FALSE, errno), NoIoctl}
    ELSE {NoIoctl}

SEND_COMMAND(d) ==
    IF Present(d) /\ kind[d].send
    THEN {Answer("0", TRUE, errno), Answer("failed", FALSE, errno)}
    ELSE {NoIoctl}

\* The first command of all, if SG_IO fails, is tried again the old way, which
\* then stays.  (Mutant: at every failure, not at the first command alone.)
FallsBack_always == SG_IO_supported # 0
FallsBack == SG_IO_supported = -1

\* scsi_command: the answer, and what becomes of SG_IO_supported.
ScsiCommand(d) ==
    IF SG_IO_supported = 0
    THEN {[answer |-> a, sgio |-> 0] : a \in SEND_COMMAND(d)}
    ELSE {[answer |-> a, sgio |-> 1] : a \in {b \in SG_IO(d) : b.ret = "0" \/ ~FallsBack}}
         \cup {[answer |-> [a EXCEPT !.errno = "other"], sgio |-> 0] :
                  a \in {b \in SEND_COMMAND(d) : FallsBack}}

(***************************************************************************)
(* sata_pass_thru, which is always SG_IO and wants sense data in the       *)
(* descriptor format.  After a failed ioctl the sense buffer is whatever   *)
(* was on the stack.                                                       *)
(***************************************************************************)
PassThru(d) ==
    {[ok |-> FALSE, answer |-> a] : a \in SG_IO(d)}
        \cup {[ok |-> TRUE, answer |-> a] : a \in {b \in SG_IO(d) : b.ret = "0"}}

\* The transport has been chosen, and it is none of the drive's.
Unreachable(d) ==
    /\ Present(d)
    /\ \/ SG_IO_supported = 0 /\ ~kind[d].send
       \/ SG_IO_supported = 1 /\ ~kind[d].sgio

\* What a command leaves behind: errno, the transport, who refused.
Carried(d, a, sgio) ==
    /\ errno' = a.errno
    /\ SG_IO_supported' = sgio
    /\ refused' = IF a.data \/ Unreachable(d) THEN refused ELSE refused \cup {d}
    /\ first' = IF SG_IO_supported = -1 THEN sgio ELSE first

Passed(d, a) ==
    /\ errno' = a.errno
    /\ refused' = IF a.data THEN refused ELSE refused \cup {d}
    /\ UNCHANGED <<SG_IO_supported, first>>

Goto(label) == pc' = label /\ UNCHANGED <<disk, cur, track>>

Finish(dsk) ==
    /\ disk' = [disk EXCEPT ![cur] = dsk]
    /\ pc' = "idle"
    /\ before' = NotCollected
    /\ asleep' = FALSE
    /\ UNCHANGED cur

-----------------------------------------------------------------------------
(* main(): open() and the probes. *)

Init ==
    /\ disk = [d \in Drives |-> NotCollected]
    /\ kind \in [Drives -> Kinds]
    /\ power \in [Drives -> Power \ {"gone"}]
    /\ errno = "0"
    /\ SG_IO_supported = -1
    /\ pc = "idle"
    /\ cur \in Drives
    /\ before = NotCollected
    /\ asleep = FALSE
    /\ refused = {}
    /\ first = -1
    /\ answered = FALSE

OpenFails(d) ==
    /\ pc = "idle"
    /\ disk[d] = NotCollected
    /\ disk' = [disk EXCEPT ![d] = NotOpened("ERROR")]
    /\ errno' = "other"
    /\ UNCHANGED <<machine, SG_IO_supported, pc, cur, history>>

Model(type) ==
    CASE type = "BUS_SATA" -> "model_sata"
      [] type = "BUS_ATA"  -> "model_ata"
      [] type = "BUS_SCSI" -> "model_scsi"

\* From open() on the drive has a descriptor; errno was reset before it.
Open(d) ==
    /\ pc = "idle"
    /\ disk[d] = NotCollected
    /\ disk' = [disk EXCEPT ![d].fd = "open"]
    /\ cur' = d
    /\ errno' = "0"
    /\ \/ pc' = "probe_sata"
       \/ \E type \in Forced : pc' = Model(type)
    /\ UNCHANGED <<machine, SG_IO_supported, history>>

\* SCSI_IOCTL_GET_BUS_NUMBER, as scsi_probe and sata_probe begin.
OnScsiBus(d) == Present(d) /\ kind[d].scsi

\* sata_probe: not on a SCSI bus, or the INQUIRY fails or names another vendor.
NotSata ==
    /\ pc = "probe_sata"
    /\ \/ ~OnScsiBus(cur) /\ errno' = "other" /\ UNCHANGED <<SG_IO_supported, refused, first>>
       \/ /\ OnScsiBus(cur)
          /\ \E c \in ScsiCommand(cur) :
                /\ c.answer.ret = "0" /\ c.answer.data => ~kind[cur].ata
                /\ Carried(cur, c.answer, c.sgio)
    /\ Goto("probe_ata")
    /\ UNCHANGED <<machine, answered>>

\* sata_probe: the INQUIRY says "ATA " (a stale buffer may, too).
MaybeSata ==
    /\ pc = "probe_sata"
    /\ OnScsiBus(cur)
    /\ \E c \in ScsiCommand(cur) :
          /\ c.answer.ret = "0"
          /\ c.answer.data => kind[cur].ata
          /\ Carried(cur, c.answer, c.sgio)
    /\ Goto("probe_pass_thru")
    /\ UNCHANGED <<machine, answered>>

ProbePassThru ==
    /\ pc = "probe_pass_thru"
    /\ \E p \in PassThru(cur) :
          /\ Passed(cur, p.answer)
          /\ Goto(IF p.ok THEN Model("BUS_SATA") ELSE "probe_ata")
    /\ UNCHANGED <<machine, answered>>

\* ata_probe: HDIO_GET_IDENTITY, which the kernel answers from its own copy.
ProbeAta ==
    /\ pc = "probe_ata"
    /\ IF Answers(cur)
       THEN Goto(Model("BUS_ATA")) /\ UNCHANGED errno
       ELSE Goto("probe_scsi") /\ errno' = "other"
    /\ UNCHANGED <<machine, SG_IO_supported, tally>>

\* scsi_probe; BUS_UNKNOWN takes the drive from the list.
ProbeScsi ==
    /\ pc = "probe_scsi"
    /\ IF OnScsiBus(cur)
       THEN Goto(Model("BUS_SCSI")) /\ UNCHANGED errno
       ELSE Finish(NotCollected) /\ errno' = "other"
    /\ UNCHANGED <<machine, SG_IO_supported, tally>>

\* sata_model and ata_model, and the look-up of the model in the database.
CollectAta ==
    /\ \/ /\ pc = "model_sata"
          /\ \E p \in PassThru(cur) : Passed(cur, p.answer)
          /\ \E e \in {"attribute", "attribute0"} : Finish(Opened("BUS_SATA", e))
       \/ /\ pc = "model_ata"
          /\ errno' = IF Answers(cur) THEN errno ELSE "other"
          /\ \E e \in {"attribute", "attribute0"} : Finish(Opened("BUS_ATA", e))
          /\ UNCHANGED <<SG_IO_supported, refused, first>>
    /\ UNCHANGED <<machine, answered>>

\* scsi_model: another INQUIRY.
CollectScsi ==
    /\ pc = "model_scsi"
    /\ \E c \in ScsiCommand(cur) : Carried(cur, c.answer, c.sgio)
    /\ Finish(Opened("BUS_SCSI", "NULL"))
    /\ UNCHANGED <<machine, answered>>

-----------------------------------------------------------------------------
(* get_temperature: the beginning, by bus. *)

GiveUp(ret, msg) ==
    Finish(Return(Closed(IF msg = "" THEN disk[cur] ELSE Explained(disk[cur], msg)), ret))

\* daemon_update forgets the value; then the driver's first ioctl, if any.
Begin(d) ==
    /\ pc = "idle"
    /\ disk[d].type # "ERROR"
    /\ LET dsk == [disk[d] EXCEPT !.value = NoValue, !.measured = FALSE]
           scsi == dsk.type = "BUS_SCSI"
       IN  /\ disk' = [disk EXCEPT ![d] = IF scsi THEN OwnEntry(dsk) ELSE dsk]
           /\ before' = disk[d]
           /\ pc' = CASE scsi -> "smart_support"
                      [] ~scsi /\ dsk.db_entry = "attribute0" -> "no_sensor"
                      [] dsk.type = "BUS_SATA" /\ dsk.db_entry = "attribute" -> "power1"
                      [] dsk.type = "BUS_ATA" /\ dsk.db_entry = "attribute" -> "packet"
    /\ cur' = d
    /\ asleep' = ShowsSleep(d, power[d])
    /\ answered' = FALSE
    /\ UNCHANGED <<machine, process, refused, first>>

\* The database says that there is no sensor: close(dsk->fd).
NoSensor ==
    /\ pc = "no_sensor"
    /\ GiveUp("NOSENSOR", "")
    /\ UNCHANGED <<machine, process, tally>>

\* ata_get_packet
Packet ==
    /\ pc = "packet"
    /\ errno' = IF Answers(cur) THEN errno ELSE "other"
    /\ IF Answers(cur) /\ kind[cur].packet
       THEN Finish(Return(Explained(disk[cur], "S.M.A.R.T."), "NOT_APPLICABLE"))
       ELSE Goto("power1")
    /\ UNCHANGED <<machine, SG_IO_supported, tally>>

-----------------------------------------------------------------------------
(* get_temperature of an ATA or SATA disk: power mode, SMART ENABLE, values. *)

\* The classification of ata_get_powermode.  (Mutant: a drive whose two checks
\* fail is taken for active.)
PowermodeOf_awake(a) == IF a.nsector = 0 /\ a.errno = "0" THEN "STANDBY" ELSE "ACTIVE"
PowermodeOf(a) ==
    CASE a.errno = "EIO" /\ a.zeros            -> "SLEEPING"
      [] a.errno # "0" /\ ~(a.errno = "EIO" /\ a.zeros) -> "UNKNOWN"
      [] a.errno = "0" /\ a.nsector = 255      -> "ACTIVE"
      [] a.errno = "0" /\ a.nsector # 255      -> "STANDBY"

\* CHECK POWER MODE 0xE5, and 0x98 when that fails; then leave a sleeping drive
\* alone or go on.
CheckPowerMode ==
    /\ pc \in {"power1", "power2"}
    /\ \E a \in CheckPower(cur) :
          /\ errno' = IF a.errno = "0" THEN errno ELSE a.errno
          /\ IF pc = "power1" /\ a.errno # "0"
             THEN Goto("power2")
             ELSE IF LeftAsleep([power |-> PowermodeOf(a)])
                  THEN Finish(Return(disk[cur], "DRIVE_SLEEP"))
                  ELSE Goto("enable")
    /\ UNCHANGED <<machine, SG_IO_supported, tally>>

\* A SMART command that reaches the drive spins it up.
Spun(reached) ==
    power' = IF reached /\ power[cur] \in Asleep THEN [power EXCEPT ![cur] = "spinning"]
                                                ELSE power

\* A failed SMART ENABLE is judged by errno, whoever has set it.  (Mutant: the
\* descriptor is not closed.)
Blame_open(e) ==
    Finish(Return(Explained(disk[cur], "errno"), IF e = "EIO" THEN "NOT_APPLICABLE" ELSE "ERROR"))
Blame(e) ==
    IF e = "EIO" THEN GiveUp("NOT_APPLICABLE", "S.M.A.R.T.") ELSE GiveUp("ERROR", "errno")

EnableAta ==
    /\ pc = "enable"
    /\ disk[cur].type = "BUS_ATA"
    /\ \E e \in HdioCmd(cur) :
          IF e = "0" THEN Goto("values") /\ UNCHANGED errno
                     ELSE Blame(e) /\ errno' = e
    /\ Spun(Answers(cur))
    /\ UNCHANGED <<kind, SG_IO_supported, tally>>

EnableSata ==
    /\ pc = "enable"
    /\ disk[cur].type = "BUS_SATA"
    /\ \E p \in PassThru(cur) :
          /\ Passed(cur, p.answer)
          /\ IF p.ok THEN Goto("values") ELSE Blame(p.answer.errno)
          /\ Spun(p.answer.ret = "0")
    /\ UNCHANGED <<kind, answered>>

(***************************************************************************)
(* The attribute is looked for in what is in values: the drive's answer,   *)
(* or, after a command the drive refused, what was on the stack.           *)
(***************************************************************************)
Fields(d, data) ==
    IF ~data THEN Temps \cup {NoField}
             ELSE IF kind[d].sensor THEN Temps ELSE {NoField}

ReadAta ==
    /\ pc = "values"
    /\ disk[cur].type = "BUS_ATA"
    /\ \E e \in HdioCmd(cur) :
          IF e = "0"
          THEN /\ \E f \in Fields(cur, TRUE) : Finish(TakeField(disk[cur], [field |-> f]))
               /\ answered' = TRUE
               /\ UNCHANGED errno
          ELSE GiveUp("ERROR", "errno") /\ errno' = e /\ UNCHANGED answered
    /\ Spun(Answers(cur))
    /\ UNCHANGED <<kind, SG_IO_supported, refused, first>>

ReadSata ==
    /\ pc = "values"
    /\ disk[cur].type = "BUS_SATA"
    /\ \E p \in PassThru(cur) :
          /\ Passed(cur, p.answer)
          /\ IF p.ok
             THEN /\ \E f \in Fields(cur, p.answer.data) :
                        Finish(TakeField(disk[cur], [field |-> f]))
                  /\ answered' = p.answer.data
             ELSE GiveUp("ERROR", "errno") /\ UNCHANGED answered
          /\ Spun(p.answer.ret = "0")
    /\ UNCHANGED kind

-----------------------------------------------------------------------------
(* get_temperature of a SCSI disk. *)

\* What a MODE SENSE shows: the drive's page, or anything.
Pages(d, data) == IF data THEN {kind[d].mode} ELSE {"short", "set", "clear"}

\* scsi_smartsupport
SmartSupport ==
    /\ pc = "smart_support"
    /\ \E c \in ScsiCommand(cur) :
          /\ Carried(cur, c.answer, c.sgio)
          /\ \E page \in Pages(cur, c.answer.data) :
                IF c.answer.ret = "0" /\ page = "clear"
                THEN Goto("smart_enable")
                ELSE GiveUp("NOT_APPLICABLE", "S.M.A.R.T.")
    /\ UNCHANGED <<machine, answered>>

\* scsi_smartDEXCPTdisable: the page again, and MODE SELECT if DEXCPT is set now.
SmartEnable ==
    /\ pc = "smart_enable"
    /\ \E c \in ScsiCommand(cur) :
          /\ Carried(cur, c.answer, c.sgio)
          /\ \E page \in Pages(cur, c.answer.data) :
                CASE c.answer.ret # "0" \/ page = "short" -> GiveUp("ERROR", "errno")
                  [] c.answer.ret = "0" /\ page = "set"   -> Goto("mode_select")
                  [] c.answer.ret = "0" /\ page = "clear" -> Goto("log_pages")
    /\ UNCHANGED <<machine, answered>>

ModeSelect ==
    /\ pc = "mode_select"
    /\ \E c \in ScsiCommand(cur) :
          /\ Carried(cur, c.answer, c.sgio)
          /\ IF c.answer.ret = "0" THEN Goto("log_pages") ELSE GiveUp("ERROR", "errno")
    /\ UNCHANGED <<machine, answered>>

\* LOG SENSE of the supported pages: is the temperature page among them?
LogPages ==
    /\ pc = "log_pages"
    /\ \E c \in ScsiCommand(cur) :
          /\ Carried(cur, c.answer, c.sgio)
          /\ \/ c.answer.ret # "0" /\ GiveUp("ERROR", "errno")
             \/ /\ c.answer.ret = "0"
                /\ c.answer.data => kind[cur].sensor
                /\ Goto("log_temperature")
             \/ /\ c.answer.ret = "0"
                /\ c.answer.data => ~kind[cur].sensor
                /\ Finish(Return(disk[cur], "NOSENSOR"))
    /\ UNCHANGED <<machine, answered>>

\* LOG SENSE of the temperature page; a refused one leaves the list of pages in
\* the buffer the temperature is taken from.
LogTemperature ==
    /\ pc = "log_temperature"
    /\ \E c \in ScsiCommand(cur) :
          /\ Carried(cur, c.answer, c.sgio)
          /\ IF c.answer.ret = "0"
             THEN \E t \in Temps :
                     Finish(Return([disk[cur] EXCEPT !.value = t, !.measured = TRUE], "KNOWN"))
             ELSE GiveUp("ERROR", "errno")
          /\ answered' = (c.answer.ret = "0" /\ c.answer.data)
    /\ UNCHANGED machine

-----------------------------------------------------------------------------
Driver ==
    \/ NotSata \/ MaybeSata \/ ProbePassThru \/ ProbeAta \/ ProbeScsi
    \/ CollectAta \/ CollectScsi
    \/ NoSensor \/ Packet \/ CheckPowerMode
    \/ EnableAta \/ EnableSata \/ ReadAta \/ ReadSata
    \/ SmartSupport \/ SmartEnable \/ ModeSelect \/ LogPages \/ LogTemperature

Next ==
    \/ \E d \in Drives : Drift(d) \/ OpenFails(d) \/ Open(d) \/ Begin(d)
    \/ Driver

Spec == Init /\ [][Next]_vars

-----------------------------------------------------------------------------
(* Properties. *)

\* Every variable keeps its type.
TypeOK ==
    /\ disk \in [Drives -> Disk]
    /\ kind \in [Drives -> Kinds]
    /\ power \in [Drives -> Power]
    /\ errno \in {"0", "EIO", "other"}
    /\ SG_IO_supported \in {-1, 0, 1}
    /\ cur \in Drives
    /\ before \in Disk
    /\ refused \subseteq Drives

(***************************************************************************)
(* The disk as the callers of the drivers may think of it: while a probe   *)
(* or a query is under way, as it was before.                              *)
(***************************************************************************)
Seen ==
    [d \in Drives |->
        IF d = cur /\ pc # "idle"
        THEN IF disk[d].type = "ERROR" THEN NotCollected ELSE before
        ELSE disk[d]]

(***************************************************************************)
(* Ioctl by ioctl, with drives that change under them and an errno that    *)
(* may be somebody else's, a query ends in one of the ways GetTemperature  *)
(* says, on which the daemon's cache is built.                             *)
(***************************************************************************)
Abstract == INSTANCE Queries WITH disk <- Seen
ImplementsQueries == Abstract!Spec

(***************************************************************************)
(* Without --wake-up no query spins up a drive that answers the HDIO       *)
(* ioctls and has been asleep since before the query: in sleep mode, or    *)
(* (also in turns) in standby if it knows CHECK POWER MODE.  The others    *)
(* are not protected: the power mode of a drive without the HDIO ioctls,   *)
(* as a SATA disk may be, or of one in standby that does not know the      *)
(* command is unknown, and SMART ENABLE spins it up; so is a drive that    *)
(* falls asleep after the check.                                           *)
(***************************************************************************)
SleepUndisturbed ==
    [][~wakeup /\ asleep /\ pc # "idle"
          => (power'[cur] = "spinning" => pc' = pc)]_vars

(***************************************************************************)
(* A healthy SCSI drive, which has refused nothing, is only given up when  *)
(* the first SCSI command of the process, whichever drive it was for, has  *)
(* chosen a transport that this one does not have.                         *)
(***************************************************************************)
HealthyKept ==
    \A d \in Drives :
        disk[d].type = "BUS_SCSI" /\ disk[d].fd = NoFd
            /\ kind[d].mode = "clear" /\ d \notin refused =>
                \/ first = 0 /\ ~kind[d].send
                \/ first = 1 /\ ~kind[d].sgio

(***************************************************************************)
(* What is shown as the temperature of a drive is in the S.M.A.R.T. (or    *)
(* log) data the drive has sent for it.                                    *)
(***************************************************************************)
KnownWasAnswered ==
    pc = "idle" /\ disk[cur].ret = "KNOWN" => answered

=============================================================================
