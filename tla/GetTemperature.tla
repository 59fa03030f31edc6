--------------------------- MODULE GetTemperature ---------------------------
(***************************************************************************)
(* struct disk, and what one call of bus[dsk->type]->get_temperature(dsk)  *)
(* may do to it: one operator per bus (ata.c, sata.c, scsi.c), whose value *)
(* is the set of disks the call can return with.  The kernel and the drive *)
(* are answers, one for each ioctl the driver issues; on a descriptor that *)
(* has been closed every ioctl fails with EBADF.                           *)
(*                                                                         *)
(* --debug, which makes the drivers print every attribute instead of       *)
(* returning one, cannot be combined with the daemon modes.                *)
(***************************************************************************)
EXTENDS Integers

CONSTANTS
    Temps,   \* the temperatures a drive can answer: bytes of the SMART data
    wakeup   \* --wake-up: query a drive although it is in standby

ASSUME GetTemperatureAssumption ==
    /\ Temps \subseteq 0..255
    /\ wakeup \in BOOLEAN

(***************************************************************************)
(* enum e_bustype, without BUS_UNKNOWN: main() drops such a disk from the  *)
(* list.  ERROR is the type of a disk whose open() failed.                 *)
(***************************************************************************)
BusType == {"ERROR", "BUS_SATA", "BUS_ATA", "BUS_SCSI"}

\* enum e_gettemp, the field ret of a disk.
Verdict == {"ERROR", "NOT_APPLICABLE", "UNKNOWN", "KNOWN", "NOSENSOR",
            "DRIVE_SLEEP"}

\* enum e_powermode
PowerMode == {"UNKNOWN", "ACTIVE", "SLEEPING", "STANDBY"}

NoFd == "-1"
NoValue == -1
NoField == -2   \* sata_/ata_search_temperature returned NULL

(***************************************************************************)
(* struct disk.  db_entry is kept as what is read of it: whether it is     *)
(* there and whether its attribute_id is 0; errormsg as the kind of the    *)
(* last message formatted into it.  measured is a history field: the       *)
(* latest query stored in value what it took for the drive's answer.       *)
(***************************************************************************)
Disk == [type      : BusType,
         fd        : {"open", NoFd},
         db_entry  : {"NULL", "attribute", "attribute0"},
         value     : Int,
         ret       : Verdict,
         errormsg  : {"", "open", "S.M.A.R.T.", "errno"},
         last_time : Int,
         measured  : BOOLEAN]

\* How the fields of one struct disk go together, once main() has filled them.
Coherent(dsk) ==
    /\ dsk.type = "ERROR" => dsk.fd = NoFd /\ dsk.ret = "ERROR" /\ dsk.errormsg # ""
    /\ dsk.type \in {"BUS_SATA", "BUS_ATA"} => dsk.db_entry # "NULL"
    /\ dsk.fd = NoFd => dsk.ret \in {"ERROR", "NOT_APPLICABLE", "NOSENSOR"}

(***************************************************************************)
(* The disks main() collects: of a disk whose open() fails most fields     *)
(* stay as memset() leaves them; a SCSI disk gets no db_entry before its   *)
(* first query.                                                            *)
(***************************************************************************)
Opened_zero(type, entry) ==   \* mutant: without dsk->value = -1
    [type |-> type, fd |-> "open", db_entry |-> entry, value |-> 0,
     ret |-> "ERROR", errormsg |-> "", last_time |-> 0, measured |-> FALSE]

Opened(type, entry) ==
    [type |-> type, fd |-> "open", db_entry |-> entry, value |-> NoValue,
     ret |-> "ERROR", errormsg |-> "", last_time |-> 0, measured |-> FALSE]

NotOpened(type) ==
    [type |-> type, fd |-> NoFd, db_entry |-> "NULL", value |-> 0,
     ret |-> "ERROR", errormsg |-> "open", last_time |-> 0, measured |-> FALSE]

CollectedDisk ==
    {NotOpened("ERROR"), Opened("BUS_SCSI", "NULL")}
        \cup {Opened(type, entry) : type  \in {"BUS_SATA", "BUS_ATA"},
                                    entry \in {"attribute", "attribute0"}}

-----------------------------------------------------------------------------
(***************************************************************************)
(* The ways a driver returns: a plain verdict; a verdict with a message;   *)
(* and giving the drive up, close(dsk->fd); dsk->fd = -1.                  *)
(***************************************************************************)
Return(dsk, ret) == [dsk EXCEPT !.ret = ret]

Explained(dsk, msg) == [dsk EXCEPT !.errormsg = msg]

Closed(dsk) == [dsk EXCEPT !.fd = NoFd]

(***************************************************************************)
(* What the commands of an ATA query answer: HDIO_GET_IDENTITY (is it a    *)
(* packet device), CHECK POWER MODE as ata_get_powermode classifies it,    *)
(* SMART ENABLE with the errno the driver looks at, SMART READ VALUES and  *)
(* the temperature attribute found in them.                                *)
(***************************************************************************)
AtaAnswers(fd) ==
    IF fd = NoFd
    THEN [packet : {FALSE}, power : {"UNKNOWN"}, enable : {"failed"},
          values : {FALSE}, field : {NoField}]
    ELSE [packet : BOOLEAN, power : PowerMode, enable : {"ok", "EIO", "failed"},
          values : BOOLEAN, field : Temps \cup {NoField}]

\* Standby or sleeping, and not to be woken.  (Mutant: an unknown power mode
\* counts as asleep too.)
LeftAsleep_unknownToo(a) == a.power # "ACTIVE" /\ ~wakeup
LeftAsleep(a) == a.power \in {"STANDBY", "SLEEPING"} /\ ~wakeup

\* The attribute is stored only when found; the verdict looks at dsk->value.
TakeField(dsk, a) ==
    LET read == IF a.field = NoField
                THEN dsk
                ELSE [dsk EXCEPT !.value = a.field, !.measured = TRUE]
    IN  Return(read, IF read.value # NoValue THEN "KNOWN" ELSE "UNKNOWN")

\* Mutant: a failed SMART READ VALUES leaves errormsg alone.
ReadSmart_silent(dsk, a) ==
    IF a.enable = "ok" /\ ~a.values
    THEN Return(Closed(dsk), "ERROR")
    ELSE IF a.enable = "ok" THEN TakeField(dsk, a)
    ELSE Return(Closed(Explained(dsk, "errno")), "ERROR")

\* From SMART ENABLE to the end, the same in ata.c and sata.c.
ReadSmart(dsk, a) ==
    CASE a.enable = "EIO" ->
            Return(Closed(Explained(dsk, "S.M.A.R.T.")), "NOT_APPLICABLE")
      [] a.enable = "failed" \/ (a.enable = "ok" /\ ~a.values) ->
            Return(Closed(Explained(dsk, "errno")), "ERROR")
      [] a.enable = "ok" /\ a.values ->
            TakeField(dsk, a)

SataGetTemperature(dsk) ==
    IF dsk.db_entry = "attribute0"
    THEN {Return(Closed(dsk), "NOSENSOR")}
    ELSE {IF LeftAsleep(a) THEN Return(dsk, "DRIVE_SLEEP") ELSE ReadSmart(dsk, a)
            : a \in AtaAnswers(dsk.fd)}

\* A packet device is not given up: its descriptor stays open.
AtaGetTemperature(dsk) ==
    IF dsk.db_entry = "attribute0"
    THEN {Return(Closed(dsk), "NOSENSOR")}
    ELSE {CASE a.packet ->
                 Return(Explained(dsk, "S.M.A.R.T."), "NOT_APPLICABLE")
            [] ~a.packet /\ LeftAsleep(a) ->
                 Return(dsk, "DRIVE_SLEEP")
            [] ~a.packet /\ ~LeftAsleep(a) ->
                 ReadSmart(dsk, a)
            : a \in AtaAnswers(dsk.fd)}

(***************************************************************************)
(* A SCSI query: MODE SENSE (scsi_smartsupport), the enabling of SMART     *)
(* (scsi_smartDEXCPTdisable), LOG SENSE of the supported pages and LOG     *)
(* SENSE of the temperature page.  "none" is a drive without that page.    *)
(***************************************************************************)
ScsiAnswers(fd) ==
    IF fd = NoFd
    THEN [smart : {FALSE}, enabled : {FALSE}, pages : {FALSE},
          temperature : {"failed"}, temp : Temps]
    ELSE [smart : BOOLEAN, enabled : BOOLEAN, pages : BOOLEAN,
          temperature : {"none", "failed", "ok"}, temp : Temps]

\* Every SCSI query starts by giving the disk a db_entry of its own.
OwnEntry(dsk) == [dsk EXCEPT !.db_entry = "attribute0"]

ScsiRead(dsk, a) ==
    CASE ~a.smart ->
            Return(Closed(Explained(dsk, "S.M.A.R.T.")), "NOT_APPLICABLE")
      [] a.smart /\ (~a.enabled \/ ~a.pages \/ a.temperature = "failed") ->
            Return(Closed(Explained(dsk, "errno")), "ERROR")
      [] a.smart /\ a.enabled /\ a.pages /\ a.temperature = "none" ->
            Return(dsk, "NOSENSOR")
      [] a.smart /\ a.enabled /\ a.pages /\ a.temperature = "ok" ->
            Return([dsk EXCEPT !.value = a.temp, !.measured = TRUE], "KNOWN")

ScsiGetTemperature(dsk) ==
    {ScsiRead(OwnEntry(dsk), a) : a \in ScsiAnswers(dsk.fd)}

\* bus[dsk->type]->get_temperature(dsk), and daemon_update's own case ERROR.
GetTemperature(dsk) ==
    CASE dsk.type = "ERROR"    -> {Return(dsk, "ERROR")}
      [] dsk.type = "BUS_SATA" -> SataGetTemperature(dsk)
      [] dsk.type = "BUS_ATA"  -> AtaGetTemperature(dsk)
      [] dsk.type = "BUS_SCSI" -> ScsiGetTemperature(dsk)

=============================================================================
