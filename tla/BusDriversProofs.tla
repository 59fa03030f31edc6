-------------------------- MODULE BusDriversProofs --------------------------
(***************************************************************************)
(* Proofs about BusDrivers, for any drives of any kinds: ioctl by ioctl a  *)
(* query ends as GetTemperature says, a healthy SCSI drive is kept but for *)
(* the transport, and a sleeping drive is left asleep.                     *)
(***************************************************************************)
EXTENDS BusDrivers, GetTemperatureProofs, TLAPS

-----------------------------------------------------------------------------
(***************************************************************************)
(* The inductive invariant.                                                *)
(***************************************************************************)

Probing == {"probe_sata", "probe_pass_thru", "probe_ata", "probe_scsi",
            "model_sata", "model_ata", "model_scsi"}
AtaQuery == {"packet", "power1", "power2", "enable", "values"}
ScsiRest == {"smart_enable", "mode_select", "log_pages", "log_temperature"}
Querying == {"no_sensor", "smart_support"} \cup AtaQuery \cup ScsiRest

Errno == {"0", "EIO", "other"}

\* A disk as daemon_update hands it to its driver.
Forgotten(dsk) == [dsk EXCEPT !.value = NoValue, !.measured = FALSE]

TypeInv ==
    /\ TypeOK
    /\ pc \in {"idle"} \cup Probing \cup Querying
    /\ asleep \in BOOLEAN

\* What the drivers rely on.
FitInv == \A d \in Drives : disk[d].type # "ERROR" => Coherent(disk[d])

(***************************************************************************)
(* Where a probe or a query is, the struct disk is still as it was when it *)
(* began, but for what has been forgotten; and past its first command a    *)
(* query has found the descriptor open.                                    *)
(***************************************************************************)
PhaseInv ==
    /\ pc \in Probing => disk[cur] = [NotCollected EXCEPT !.fd = "open"]
    /\ pc \in Querying => before.type # "ERROR" /\ Coherent(before)
    /\ pc \in AtaQuery \cup {"no_sensor"} =>
          /\ disk[cur] = Forgotten(before)
          /\ before.type \in {"BUS_SATA", "BUS_ATA"}
          /\ before.db_entry = "attribute0" <=> pc = "no_sensor"
    /\ pc = "packet" => before.type = "BUS_ATA"
    /\ pc \in ScsiRest \cup {"smart_support"} =>
          disk[cur] = OwnEntry(Forgotten(before)) /\ before.type = "BUS_SCSI"
    /\ pc \in ScsiRest \cup {"values"} => disk[cur].fd = "open"

\* No transport for this drive.
Stuck(d) ==
    \/ first = 0 /\ ~kind[d].send
    \/ first = 1 /\ ~kind[d].sgio

\* What giving up a SCSI drive takes.
Excused(d) == d \in refused \/ kind[d].mode # "clear" \/ Stuck(d)

TransportInv == first = SG_IO_supported /\ HealthyKept

\* Only what wakes a drive anyway, or has lost its descriptor, gets past the
\* check of the power mode asleep.
SleepInv ==
    /\ pc \notin Querying => ~asleep
    /\ asleep /\ pc # "values" => ShowsSleep(cur, power[cur])
    /\ pc \in {"enable", "values"} /\ asleep /\ ~wakeup => disk[cur].fd = NoFd

Inv == TypeInv /\ FitInv /\ PhaseInv /\ TransportInv /\ SleepInv

-----------------------------------------------------------------------------
(* Disks. *)

LEMMA NotCollectedIs ==
    /\ NotCollected \in Disk /\ NotCollected.type = "ERROR"
    /\ NotCollected.fd = NoFd
    /\ [NotCollected EXCEPT !.fd = "open"] \in Disk
    /\ [NotCollected EXCEPT !.fd = "open"].type = "ERROR"
<1> DEFINE opened == [NotCollected EXCEPT !.fd = "open"]
<1>1. NotOpened("ERROR") \in Disk /\ NotOpened("ERROR").type = "ERROR"
      /\ NotOpened("ERROR").fd = NoFd
  BY DEF NotOpened, Disk, BusType, Verdict, NoFd
<1>2. NotCollected \in Disk /\ NotCollected.type = "ERROR" /\ NotCollected.fd = NoFd
  BY <1>1 DEF NotCollected, Disk
<1>3. opened \in Disk /\ opened.type = "ERROR"
  BY <1>2 DEF Disk
<1> QED
  BY <1>2, <1>3

LEMMA ForgottenIs ==
    ASSUME NEW dsk \in Disk
    PROVE  /\ Forgotten(dsk) \in Disk
           /\ Forgotten(dsk).type = dsk.type /\ Forgotten(dsk).fd = dsk.fd
           /\ Forgotten(dsk).db_entry = dsk.db_entry
           /\ Forgotten(dsk).value = NoValue /\ ~Forgotten(dsk).measured
           /\ Coherent(dsk) => Coherent(Forgotten(dsk))
<1>0. NoValue \in Int
  BY DEF NoValue
<1>1. Forgotten(dsk) \in Disk
  BY <1>0 DEF Forgotten, Disk
<1>2. /\ Forgotten(dsk).type = dsk.type /\ Forgotten(dsk).fd = dsk.fd
      /\ Forgotten(dsk).db_entry = dsk.db_entry /\ Forgotten(dsk).ret = dsk.ret
      /\ Forgotten(dsk).errormsg = dsk.errormsg
  BY DEF Forgotten, Disk
<1>3. Forgotten(dsk).value = NoValue
  BY DEF Forgotten, Disk
<1>4. ~Forgotten(dsk).measured
  BY DEF Forgotten, Disk
<1>5. Coherent(dsk) => Coherent(Forgotten(dsk))
  BY <1>2 DEF Coherent
<1> QED
  BY <1>1, <1>2, <1>3, <1>4, <1>5

LEMMA OwnEntryIs ==
    ASSUME NEW dsk \in Disk, dsk.type = "BUS_SCSI"
    PROVE  /\ OwnEntry(dsk) \in Disk
           /\ OwnEntry(dsk).type = dsk.type /\ OwnEntry(dsk).fd = dsk.fd
           /\ Coherent(dsk) => Coherent(OwnEntry(dsk))
<1>1. OwnEntry(dsk) \in Disk
  BY DEF OwnEntry, Disk
<1>2. /\ OwnEntry(dsk).type = dsk.type /\ OwnEntry(dsk).fd = dsk.fd
      /\ OwnEntry(dsk).ret = dsk.ret /\ OwnEntry(dsk).errormsg = dsk.errormsg
      /\ OwnEntry(dsk).db_entry = "attribute0"
  BY DEF OwnEntry, Disk
<1> QED
  BY <1>1, <1>2 DEF Coherent

\* A query leaves a disk of the same type that the drivers can be called on.
LEMMA Queried ==
    ASSUME NEW dsk \in Disk, Coherent(dsk), NEW x \in GetTemperature(Forgotten(dsk))
    PROVE  x \in Disk /\ x.type = dsk.type /\ Coherent(x)
<1>1. Asked(Forgotten(dsk))
  BY ForgottenIs DEF Asked
<1>2. Answered(Forgotten(dsk), x)
  BY <1>1, QueryAnswered
<1> QED
  BY <1>2, ForgottenIs DEF Answered

LEMMA FdIs == ASSUME NEW dsk \in Disk PROVE dsk.fd \in {"open", NoFd}
BY DEF Disk

-----------------------------------------------------------------------------
(* Results of a query that GetTemperature allows. *)

\* One result of an ATA or SATA query for each answer.
Result(dsk, a) ==
    CASE dsk.type = "BUS_ATA" /\ a.packet ->
            Return(Explained(dsk, "S.M.A.R.T."), "NOT_APPLICABLE")
      [] ~(dsk.type = "BUS_ATA" /\ a.packet) /\ LeftAsleep(a) ->
            Return(dsk, "DRIVE_SLEEP")
      [] ~(dsk.type = "BUS_ATA" /\ a.packet) /\ ~LeftAsleep(a) ->
            ReadSmart(dsk, a)

LEMMA AtaResult ==
    ASSUME NEW dsk, dsk.type \in {"BUS_SATA", "BUS_ATA"}, dsk.db_entry # "attribute0",
           NEW a \in AtaAnswers(dsk.fd)
    PROVE  Result(dsk, a) \in GetTemperature(dsk)
<1>1. CASE dsk.type = "BUS_SATA"
  <2>1. Result(dsk, a) = IF LeftAsleep(a) THEN Return(dsk, "DRIVE_SLEEP")
                                          ELSE ReadSmart(dsk, a)
    BY <1>1 DEF Result
  <2>2. Result(dsk, a) \in SataGetTemperature(dsk)
    BY <2>1 DEF SataGetTemperature
  <2> QED
    BY <1>1, <2>2 DEF GetTemperature
<1>2. CASE dsk.type = "BUS_ATA"
  <2>1. Result(dsk, a) =
          CASE a.packet ->
                 Return(Explained(dsk, "S.M.A.R.T."), "NOT_APPLICABLE")
            [] ~a.packet /\ LeftAsleep(a) ->
                 Return(dsk, "DRIVE_SLEEP")
            [] ~a.packet /\ ~LeftAsleep(a) ->
                 ReadSmart(dsk, a)
    BY <1>2 DEF Result
  <2>2. Result(dsk, a) \in AtaGetTemperature(dsk)
    BY <2>1 DEF AtaGetTemperature
  <2> QED
    BY <1>2, <2>2 DEF GetTemperature
<1> QED
  BY <1>1, <1>2

LEMMA AtaErrors ==
    ASSUME NEW dsk, dsk.type \in {"BUS_SATA", "BUS_ATA"}, dsk.db_entry # "attribute0"
    PROVE  Return(Closed(Explained(dsk, "errno")), "ERROR") \in GetTemperature(dsk)
<1>1. PICK a \in AtaAnswers(dsk.fd) :
         /\ a.packet = FALSE /\ a.power = "UNKNOWN" /\ a.enable = "failed"
         /\ a.values = FALSE /\ a.field = NoField
  <2> DEFINE r == [packet |-> FALSE, power |-> "UNKNOWN", enable |-> "failed",
                 values |-> FALSE, field |-> NoField]
  <2>1. r \in AtaAnswers(dsk.fd)
    BY DEF AtaAnswers, PowerMode, NoFd
  <2> QED
    BY <2>1
<1>2. Result(dsk, a) = Return(Closed(Explained(dsk, "errno")), "ERROR")
  BY <1>1 DEF Result, LeftAsleep, ReadSmart
<1> QED
  BY <1>2, AtaResult

LEMMA AtaRefuses ==
    ASSUME NEW dsk, dsk.type \in {"BUS_SATA", "BUS_ATA"}, dsk.db_entry # "attribute0",
           dsk.fd # NoFd
    PROVE  Return(Closed(Explained(dsk, "S.M.A.R.T.")), "NOT_APPLICABLE")
              \in GetTemperature(dsk)
<1>1. PICK a \in AtaAnswers(dsk.fd) :
         /\ a.packet = FALSE /\ a.power = "UNKNOWN" /\ a.enable = "EIO"
         /\ a.values = FALSE /\ a.field = NoField
  <2> DEFINE r == [packet |-> FALSE, power |-> "UNKNOWN", enable |-> "EIO",
                 values |-> FALSE, field |-> NoField]
  <2>1. r \in AtaAnswers(dsk.fd)
    BY DEF AtaAnswers, PowerMode, NoFd
  <2> QED
    BY <2>1
<1>2. Result(dsk, a) = Return(Closed(Explained(dsk, "S.M.A.R.T.")), "NOT_APPLICABLE")
  BY <1>1 DEF Result, LeftAsleep, ReadSmart
<1> QED
  BY <1>2, AtaResult

LEMMA AtaTakes ==
    ASSUME NEW dsk, dsk.type \in {"BUS_SATA", "BUS_ATA"}, dsk.db_entry # "attribute0",
           dsk.fd # NoFd, NEW f \in Temps \cup {NoField}
    PROVE  TakeField(dsk, [field |-> f]) \in GetTemperature(dsk)
<1>1. PICK a \in AtaAnswers(dsk.fd) :
         /\ a.packet = FALSE /\ a.power = "UNKNOWN" /\ a.enable = "ok"
         /\ a.values = TRUE /\ a.field = f
  <2> DEFINE r == [packet |-> FALSE, power |-> "UNKNOWN", enable |-> "ok",
                 values |-> TRUE, field |-> f]
  <2>1. r \in AtaAnswers(dsk.fd)
    BY DEF AtaAnswers, PowerMode, NoFd
  <2> QED
    BY <2>1
<1>2. Result(dsk, a) = TakeField(dsk, a)
  BY <1>1 DEF Result, LeftAsleep, ReadSmart
<1>3. TakeField(dsk, a) = TakeField(dsk, [field |-> f])
  BY <1>1 DEF TakeField
<1> QED
  BY <1>2, <1>3, AtaResult

LEMMA AtaSleeps ==
    ASSUME NEW dsk, dsk.type \in {"BUS_SATA", "BUS_ATA"}, dsk.db_entry # "attribute0",
           dsk.fd # NoFd, ~wakeup
    PROVE  Return(dsk, "DRIVE_SLEEP") \in GetTemperature(dsk)
<1>1. PICK a \in AtaAnswers(dsk.fd) :
         /\ a.packet = FALSE /\ a.power = "STANDBY" /\ a.enable = "ok"
         /\ a.values = FALSE /\ a.field = NoField
  <2> DEFINE r == [packet |-> FALSE, power |-> "STANDBY", enable |-> "ok",
                 values |-> FALSE, field |-> NoField]
  <2>1. r \in AtaAnswers(dsk.fd)
    BY DEF AtaAnswers, PowerMode, NoFd
  <2> QED
    BY <2>1
<1>2. Result(dsk, a) = Return(dsk, "DRIVE_SLEEP")
  BY <1>1 DEF Result, LeftAsleep
<1> QED
  BY <1>2, AtaResult

LEMMA PacketDevice ==
    ASSUME NEW dsk, dsk.type = "BUS_ATA", dsk.db_entry # "attribute0", dsk.fd # NoFd
    PROVE  Return(Explained(dsk, "S.M.A.R.T."), "NOT_APPLICABLE") \in GetTemperature(dsk)
<1>1. PICK a \in AtaAnswers(dsk.fd) :
         /\ a.packet = TRUE /\ a.power = "STANDBY" /\ a.enable = "ok"
         /\ a.values = FALSE /\ a.field = NoField
  <2> DEFINE r == [packet |-> TRUE, power |-> "STANDBY", enable |-> "ok",
                 values |-> FALSE, field |-> NoField]
  <2>1. r \in AtaAnswers(dsk.fd)
    BY DEF AtaAnswers, PowerMode, NoFd
  <2> QED
    BY <2>1
<1>2. Result(dsk, a) = Return(Explained(dsk, "S.M.A.R.T."), "NOT_APPLICABLE")
  BY <1>1 DEF Result
<1> QED
  BY <1>2, AtaResult

LEMMA NoSensorAta ==
    ASSUME NEW dsk, dsk.type \in {"BUS_SATA", "BUS_ATA"}, dsk.db_entry = "attribute0"
    PROVE  Return(Closed(dsk), "NOSENSOR") \in GetTemperature(dsk)
BY DEF GetTemperature, SataGetTemperature, AtaGetTemperature

LEMMA ScsiResult ==
    ASSUME NEW dsk, dsk.type = "BUS_SCSI", NEW a \in ScsiAnswers(dsk.fd)
    PROVE  ScsiRead(OwnEntry(dsk), a) \in GetTemperature(dsk)
BY DEF GetTemperature, ScsiGetTemperature

LEMMA ScsiRefuses ==
    ASSUME NEW dsk, dsk.type = "BUS_SCSI", Temps # {}
    PROVE  Return(Closed(Explained(OwnEntry(dsk), "S.M.A.R.T.")), "NOT_APPLICABLE")
              \in GetTemperature(dsk)
<1>0. PICK t \in Temps : TRUE
  OBVIOUS
<1>1. PICK a \in ScsiAnswers(dsk.fd) :
         /\ a.smart = FALSE /\ a.enabled = FALSE /\ a.pages = FALSE
         /\ a.temperature = "failed" /\ a.temp = t
  <2> DEFINE r == [smart |-> FALSE, enabled |-> FALSE, pages |-> FALSE,
                 temperature |-> "failed", temp |-> t]
  <2>1. r \in ScsiAnswers(dsk.fd)
    BY DEF ScsiAnswers, NoFd
  <2> QED
    BY <2>1
<1>2. ScsiRead(OwnEntry(dsk), a)
        = Return(Closed(Explained(OwnEntry(dsk), "S.M.A.R.T.")), "NOT_APPLICABLE")
  BY <1>1 DEF ScsiRead
<1> QED
  BY <1>2, ScsiResult

LEMMA ScsiErrors ==
    ASSUME NEW dsk, dsk.type = "BUS_SCSI", dsk.fd # NoFd, Temps # {}
    PROVE  Return(Closed(Explained(OwnEntry(dsk), "errno")), "ERROR") \in GetTemperature(dsk)
<1>0. PICK t \in Temps : TRUE
  OBVIOUS
<1>1. PICK a \in ScsiAnswers(dsk.fd) :
         /\ a.smart = TRUE /\ a.enabled = FALSE /\ a.pages = FALSE
         /\ a.temperature = "failed" /\ a.temp = t
  <2> DEFINE r == [smart |-> TRUE, enabled |-> FALSE, pages |-> FALSE,
                 temperature |-> "failed", temp |-> t]
  <2>1. r \in ScsiAnswers(dsk.fd)
    BY DEF ScsiAnswers, NoFd
  <2> QED
    BY <2>1
<1>2. ScsiRead(OwnEntry(dsk), a) = Return(Closed(Explained(OwnEntry(dsk), "errno")), "ERROR")
  BY <1>1 DEF ScsiRead
<1> QED
  BY <1>2, ScsiResult

LEMMA NoSensorScsi ==
    ASSUME NEW dsk, dsk.type = "BUS_SCSI", dsk.fd # NoFd, Temps # {}
    PROVE  Return(OwnEntry(dsk), "NOSENSOR") \in GetTemperature(dsk)
<1>0. PICK t \in Temps : TRUE
  OBVIOUS
<1>1. PICK a \in ScsiAnswers(dsk.fd) :
         /\ a.smart = TRUE /\ a.enabled = TRUE /\ a.pages = TRUE
         /\ a.temperature = "none" /\ a.temp = t
  <2> DEFINE r == [smart |-> TRUE, enabled |-> TRUE, pages |-> TRUE,
                 temperature |-> "none", temp |-> t]
  <2>1. r \in ScsiAnswers(dsk.fd)
    BY DEF ScsiAnswers, NoFd
  <2> QED
    BY <2>1
<1>2. ScsiRead(OwnEntry(dsk), a) = Return(OwnEntry(dsk), "NOSENSOR")
  BY <1>1 DEF ScsiRead
<1> QED
  BY <1>2, ScsiResult

LEMMA ScsiTakes ==
    ASSUME NEW dsk, dsk.type = "BUS_SCSI", dsk.fd # NoFd, NEW t \in Temps
    PROVE  Return([OwnEntry(dsk) EXCEPT !.value = t, !.measured = TRUE], "KNOWN")
              \in GetTemperature(dsk)
<1>1. PICK a \in ScsiAnswers(dsk.fd) :
         /\ a.smart = TRUE /\ a.enabled = TRUE /\ a.pages = TRUE
         /\ a.temperature = "ok" /\ a.temp = t
  <2> DEFINE r == [smart |-> TRUE, enabled |-> TRUE, pages |-> TRUE,
                 temperature |-> "ok", temp |-> t]
  <2>1. r \in ScsiAnswers(dsk.fd)
    BY DEF ScsiAnswers, NoFd
  <2> QED
    BY <2>1
<1>2. ScsiRead(OwnEntry(dsk), a)
        = Return([OwnEntry(dsk) EXCEPT !.value = t, !.measured = TRUE], "KNOWN")
  BY <1>1 DEF ScsiRead
<1> QED
  BY <1>2, ScsiResult

-----------------------------------------------------------------------------
(* The transport. *)

\* What a step may make of what outlives a query.
Transported ==
    /\ errno' \in Errno
    /\ SG_IO_supported' \in {-1, 0, 1}
    /\ SG_IO_supported # -1 => SG_IO_supported' = SG_IO_supported
    /\ first' = SG_IO_supported'
    /\ refused \subseteq refused' /\ refused' \subseteq Drives
    /\ kind' = kind

AnyAnswer == [ret : {"0", "failed"}, data : BOOLEAN, errno : Errno]

LEMMA SgIoIs ==
    ASSUME NEW d, NEW a \in SG_IO(d), errno \in Errno
    PROVE  /\ a \in AnyAnswer /\ a.ret \in {"0", "failed"} /\ a.errno \in Errno
           /\ a.data => a.ret = "0"
           /\ disk[d].fd # "open" => a = NoIoctl
<1>1. /\ NoIoctl \in AnyAnswer /\ ~NoIoctl.data
      /\ \A e \in Errno : /\ Answer("0", TRUE, e) \in AnyAnswer
                         /\ Answer("0", TRUE, e).ret = "0"
  BY DEF NoIoctl, Answer, AnyAnswer, Errno
<1>2. \A r \in {"0", "failed"}, e \in Errno : Answer(r, FALSE, e) \in AnyAnswer
  BY DEF Answer, AnyAnswer
<1>3. \A r \in {"0", "failed"}, e \in Errno : ~Answer(r, FALSE, e).data
  BY DEF Answer
<1>4. a \in AnyAnswer
  BY <1>1, <1>2 DEF SG_IO
<1>5. a.ret \in {"0", "failed"} /\ a.errno \in Errno
  BY <1>4 DEF AnyAnswer
<1> QED
  BY <1>1, <1>3, <1>4, <1>5 DEF SG_IO, Present

LEMMA SendCommandIs ==
    ASSUME NEW d, NEW a \in SEND_COMMAND(d), errno \in Errno
    PROVE  /\ a \in AnyAnswer /\ a.ret \in {"0", "failed"} /\ a.errno \in Errno
           /\ a.data => a.ret = "0"
           /\ disk[d].fd # "open" => a = NoIoctl
<1>1. /\ NoIoctl \in AnyAnswer /\ ~NoIoctl.data
      /\ \A e \in Errno : /\ Answer("0", TRUE, e) \in AnyAnswer
                         /\ Answer("0", TRUE, e).ret = "0"
  BY DEF NoIoctl, Answer, AnyAnswer, Errno
<1>2. \A r \in {"0", "failed"}, e \in Errno : Answer(r, FALSE, e) \in AnyAnswer
  BY DEF Answer, AnyAnswer
<1>3. \A r \in {"0", "failed"}, e \in Errno : ~Answer(r, FALSE, e).data
  BY DEF Answer
<1>4. a \in AnyAnswer
  BY <1>1, <1>2 DEF SEND_COMMAND
<1>5. a.ret \in {"0", "failed"} /\ a.errno \in Errno
  BY <1>4 DEF AnyAnswer
<1> QED
  BY <1>1, <1>3, <1>4, <1>5 DEF SEND_COMMAND, Present

LEMMA NoIoctlIs == NoIoctl.ret = "failed" /\ ~NoIoctl.data /\ NoIoctl.errno = "other"
BY DEF NoIoctl, Answer

\* The answer of a SCSI command; without a descriptor there is none.
LEMMA ScsiCommandIs ==
    ASSUME NEW d, NEW c \in ScsiCommand(d), errno \in Errno, SG_IO_supported \in {-1, 0, 1}
    PROVE  /\ c.answer.errno \in Errno
           /\ c.answer.ret \in {"0", "failed"}
           /\ c.answer.data => c.answer.ret = "0"
           /\ disk[d].fd # "open" => c.answer.ret = "failed"
           /\ c.sgio \in {0, 1}
           /\ SG_IO_supported # -1 => c.sgio = SG_IO_supported
<1>1. CASE SG_IO_supported = 0
  <2>1. PICK a \in SEND_COMMAND(d) : c = [answer |-> a, sgio |-> 0]
    BY <1>1 DEF ScsiCommand
  <2>2. c.answer = a /\ c.sgio = 0
    BY <2>1
  <2> QED
    BY <1>1, <2>2, SendCommandIs, NoIoctlIs
<1>2. CASE SG_IO_supported # 0 /\ \E a \in SG_IO(d) : c = [answer |-> a, sgio |-> 1]
                                  /\ (a.ret = "0" \/ ~FallsBack)
  <2>1. PICK a \in SG_IO(d) : c = [answer |-> a, sgio |-> 1]
    BY <1>2
  <2>2. c.answer = a /\ c.sgio = 1
    BY <2>1
  <2> QED
    BY <1>2, <2>2, SgIoIs, NoIoctlIs
<1>3. CASE FallsBack /\ \E a \in SEND_COMMAND(d) :
                           c = [answer |-> [a EXCEPT !.errno = "other"], sgio |-> 0]
  <2>1. PICK a \in SEND_COMMAND(d) :
           c = [answer |-> [a EXCEPT !.errno = "other"], sgio |-> 0]
    BY <1>3
  <2>2. a \in AnyAnswer
    BY SendCommandIs
  <2>3. c.answer = [a EXCEPT !.errno = "other"] /\ c.sgio = 0
    BY <2>1
  <2>4. c.answer.ret = a.ret /\ c.answer.errno = "other"
    BY <2>2, <2>3 DEF AnyAnswer
  <2>5. c.answer.data = a.data
    BY <2>2, <2>3 DEF AnyAnswer
  <2> QED
    BY <1>3, <2>2, <2>3, <2>4, <2>5, SendCommandIs, NoIoctlIs
       DEF FallsBack, Errno, AnyAnswer
<1>4. SG_IO_supported = 0 \/
      (SG_IO_supported # 0 /\ \E a \in SG_IO(d) : c = [answer |-> a, sgio |-> 1]
                                  /\ (a.ret = "0" \/ ~FallsBack)) \/
      (FallsBack /\ \E a \in SEND_COMMAND(d) :
                           c = [answer |-> [a EXCEPT !.errno = "other"], sgio |-> 0])
  BY DEF ScsiCommand
<1> QED
  BY <1>1, <1>2, <1>3, <1>4

\* Once a drive has an excuse, it has it for good.
LEMMA ExcusedKept ==
    ASSUME TransportInv, Transported, SG_IO_supported \in {-1, 0, 1},
           NEW d \in Drives, Excused(d)
    PROVE  Excused(d)'
BY DEF TransportInv, Transported, Excused, Stuck

\* A SCSI command brings data, or an excuse.
LEMMA CarriedOn ==
    ASSUME TypeOK, TransportInv, kind' = kind, cur' = cur, NEW c \in ScsiCommand(cur),
           Carried(cur, c.answer, c.sgio)
    PROVE  Transported /\ (c.answer.data \/ Excused(cur)')
<1>1. /\ SG_IO_supported \in {-1, 0, 1} /\ errno \in Errno /\ refused \subseteq Drives
      /\ cur \in Drives
  BY DEF TypeOK, Errno
<1>2. /\ c.answer.errno \in Errno /\ c.sgio \in {0, 1}
      /\ SG_IO_supported # -1 => c.sgio = SG_IO_supported
  BY <1>1, ScsiCommandIs
<1>3. Transported
  BY <1>1, <1>2 DEF Transported, Carried, TransportInv
<1>4. CASE c.answer.data
  BY <1>3, <1>4
<1>5. CASE ~c.answer.data /\ Unreachable(cur)
  <2>1. Stuck(cur)
    BY <1>5 DEF Unreachable, Stuck, TransportInv
  <2> QED
    BY <1>1, <1>3, <2>1, ExcusedKept DEF Excused
<1>6. CASE ~c.answer.data /\ ~Unreachable(cur)
  <2>1. cur \in refused'
    BY <1>6 DEF Carried
  <2> QED
    BY <1>3, <2>1 DEF Excused
<1> QED
  BY <1>4, <1>5, <1>6

LEMMA PassThruIs ==
    ASSUME NEW d, NEW p \in PassThru(d), errno \in Errno
    PROVE  /\ p.answer \in SG_IO(d)
           /\ p.ok => p.answer.ret = "0"
           /\ p.answer.errno \in Errno
           /\ disk[d].fd # "open" => ~p.ok /\ p.answer = NoIoctl
<1>1. p.answer \in SG_IO(d) /\ (p.ok => p.answer.ret = "0")
  BY DEF PassThru
<1> QED
  BY <1>1, SgIoIs, NoIoctlIs

LEMMA PassedOn ==
    ASSUME TypeOK, TransportInv, kind' = kind, NEW p \in PassThru(cur), Passed(cur, p.answer)
    PROVE  Transported
<1>1. errno \in Errno
  BY DEF TypeOK, Errno
<1>2. p.answer.errno \in Errno
  BY <1>1, PassThruIs
<1> QED
  BY <1>2 DEF Transported, Passed, TransportInv, TypeOK

\* A step that leaves the transport alone.
LEMMA Untouched ==
    ASSUME TypeOK, TransportInv, kind' = kind, errno' \in Errno,
           UNCHANGED <<SG_IO_supported, refused, first>>
    PROVE  Transported
BY DEF Transported, TransportInv, TypeOK

-----------------------------------------------------------------------------
(* Steps. *)

\* The next ioctl of a query.
Continued(label) ==
    /\ pc \in Querying /\ label \in Querying
    /\ Goto(label)
    /\ Transported
    /\ power' \in [Drives -> Power]

\* The end of a query, in one of the ways of GetTemperature.
Ended(x) ==
    /\ pc \in Querying
    /\ x \in GetTemperature(Forgotten(before))
    /\ Finish(x)
    /\ Transported
    /\ power' \in [Drives -> Power]
    /\ x.type = "BUS_SCSI" /\ x.fd = NoFd => Excused(cur)'

\* What makes the place at label right.
Arrived(label) ==
    /\ label \in AtaQuery => pc \in AtaQuery
    /\ label # "packet" /\ label # "no_sensor" /\ label # "smart_support"
    /\ label \in ScsiRest => pc \in ScsiRest \cup {"smart_support"}
    /\ label \in ScsiRest \cup {"values"} => disk[cur].fd = "open"
    /\ asleep /\ label # "values" => ShowsSleep(cur, power'[cur])
    /\ label \in {"enable", "values"} /\ asleep /\ ~wakeup => disk[cur].fd = NoFd

\* HealthyKept, whatever becomes of one drive.
LEMMA OthersKept ==
    ASSUME TypeOK, TransportInv, Transported, NEW e \in Drives, NEW x \in Disk,
           disk' = [disk EXCEPT ![e] = x],
           x.type = "BUS_SCSI" /\ x.fd = NoFd => Excused(e)'
    PROVE  TransportInv'
<1>1. disk \in [Drives -> Disk] /\ SG_IO_supported \in {-1, 0, 1}
  BY DEF TypeOK
<1>2. ASSUME NEW d \in Drives, disk'[d].type = "BUS_SCSI", disk'[d].fd = NoFd
      PROVE  Excused(d)'
  <2>1. CASE d = e
    BY <1>1, <1>2, <2>1
  <2>2. CASE d # e
    <3>1. disk'[d] = disk[d]
      BY <1>1, <2>2
    <3>2. Excused(d)
      BY <1>2, <3>1 DEF TransportInv, HealthyKept, Excused, Stuck
    <3> QED
      BY <1>1, <3>2, ExcusedKept
  <2> QED
    BY <2>1, <2>2
<1>3. HealthyKept'
  BY <1>2 DEF HealthyKept, Excused, Stuck
<1> QED
  BY <1>3 DEF TransportInv, Transported

LEMMA SameKept ==
    ASSUME TypeOK, TransportInv, Transported, disk' = disk
    PROVE  TransportInv'
<1>1. SG_IO_supported \in {-1, 0, 1}
  BY DEF TypeOK
<1>2. ASSUME NEW d \in Drives, disk'[d].type = "BUS_SCSI", disk'[d].fd = NoFd
      PROVE  Excused(d)'
  <2>1. Excused(d)
    BY <1>2 DEF TransportInv, HealthyKept, Excused, Stuck
  <2> QED
    BY <1>1, <2>1, ExcusedKept
<1>3. HealthyKept'
  BY <1>2 DEF HealthyKept, Excused, Stuck
<1> QED
  BY <1>3 DEF TransportInv, Transported

LEMMA ContinuedInv ==
    ASSUME Inv, NEW label, Continued(label), Arrived(label)
    PROVE  Inv'
<1>1. /\ pc' = label /\ disk' = disk /\ cur' = cur /\ before' = before /\ asleep' = asleep
      /\ kind' = kind
  BY DEF Continued, Goto, track, Transported
<1>2. TypeInv'
  BY <1>1 DEF Continued, Transported, Inv, TypeInv, TypeOK, Errno
<1>3. FitInv'
  BY <1>1 DEF Inv, FitInv, Coherent
<1>4. PhaseInv'
  BY <1>1 DEF Continued, Arrived, Inv, PhaseInv, Querying, AtaQuery, ScsiRest, Probing
<1>5. TransportInv'
  BY <1>1, SameKept DEF Continued, Inv, TypeInv
<1>6. SleepInv'
  BY <1>1 DEF Continued, Arrived, SleepInv, ShowsSleep, Inv, Querying, AtaQuery
<1> QED
  BY <1>2, <1>3, <1>4, <1>5, <1>6 DEF Inv

LEMMA EndedInv ==
    ASSUME Inv, NEW x, Ended(x)
    PROVE  Inv'
<1>1. /\ disk' = [disk EXCEPT ![cur] = x] /\ pc' = "idle" /\ before' = NotCollected
      /\ asleep' = FALSE /\ cur' = cur /\ kind' = kind
  BY DEF Ended, Finish, Transported
<1>2. x \in Disk /\ x.type = before.type /\ Coherent(x)
  BY Queried DEF Ended, Inv, TypeInv, TypeOK, PhaseInv
<1>3. TypeInv'
  BY <1>1, <1>2, NotCollectedIs DEF Ended, Transported, Inv, TypeInv, TypeOK, Errno
<1>4. FitInv'
  <2>1. \A d \in Drives : disk'[d] = x \/ disk'[d] = disk[d]
    BY <1>1 DEF Inv, TypeInv, TypeOK
  <2> QED
    BY <1>2, <2>1 DEF Inv, FitInv, Coherent
<1>5. PhaseInv'
  BY <1>1 DEF PhaseInv, Querying, AtaQuery, ScsiRest, Probing
<1>6. TransportInv'
  BY <1>1, <1>2, OthersKept DEF Ended, Inv, TypeInv, TypeOK
<1>7. SleepInv'
  BY <1>1 DEF SleepInv
<1> QED
  BY <1>3, <1>4, <1>5, <1>6, <1>7 DEF Inv

-----------------------------------------------------------------------------
(* The steps of a query. *)

Progress ==
    \/ \E label : Continued(label) /\ Arrived(label)
    \/ \E x : Ended(x)

LEMMA ProgressInv == Inv /\ Progress => Inv'
BY ContinuedInv, EndedInv DEF Progress

LEMMA AtaPhase ==
    ASSUME Inv, pc \in AtaQuery \cup {"no_sensor"}
    PROVE  LET dsk == Forgotten(before)
           IN  /\ pc \in Querying /\ disk[cur] = dsk /\ before \in Disk
               /\ dsk.type \in {"BUS_SATA", "BUS_ATA"} /\ dsk.type = before.type
               /\ dsk.db_entry = "attribute0" <=> pc = "no_sensor"
               /\ dsk.fd \in {"open", NoFd} /\ Coherent(before)
BY ForgottenIs, FdIs DEF Inv, TypeInv, TypeOK, PhaseInv, Querying

LEMMA AtaEnds ==
    ASSUME Inv, pc \in AtaQuery \cup {"no_sensor"}, NEW x \in GetTemperature(Forgotten(before)),
           Finish(x), Transported, power' \in [Drives -> Power]
    PROVE  Progress
<1>1. x.type # "BUS_SCSI"
  BY AtaPhase, Queried
<1> QED
  BY <1>1, AtaPhase DEF Ended, Progress

LEMMA Still ==
    ASSUME Inv, UNCHANGED machine
    PROVE  kind' = kind /\ power' = power /\ power' \in [Drives -> Power]
BY DEF Inv, TypeInv, TypeOK, machine

LEMMA NoSensorStep == Inv /\ NoSensor => Progress
<1> SUFFICES ASSUME Inv, NoSensor PROVE Progress
  OBVIOUS
<1>1. pc = "no_sensor" /\ UNCHANGED <<machine, process, tally>>
      /\ Finish(Return(Closed(disk[cur]), "NOSENSOR"))
  BY DEF NoSensor, GiveUp
<1>2. Return(Closed(disk[cur]), "NOSENSOR") \in GetTemperature(Forgotten(before))
  BY <1>1, AtaPhase, NoSensorAta
<1>3. Transported
  BY <1>1, Untouched, Still DEF Inv, TypeInv, TypeOK, process, tally, Errno
<1> QED
  BY <1>1, <1>2, <1>3, Still, AtaEnds

LEMMA PacketStep == Inv /\ Packet => Progress
<1> SUFFICES ASSUME Inv, Packet PROVE Progress
  OBVIOUS
<1>1. pc = "packet" /\ pc \in AtaQuery /\ UNCHANGED <<machine, SG_IO_supported, tally>>
      /\ before.type = "BUS_ATA"
  BY DEF Packet, AtaQuery, Inv, PhaseInv
<1>2. errno' \in Errno
  BY DEF Packet, Inv, TypeInv, TypeOK, Errno
<1>3. Transported
  BY <1>1, <1>2, Untouched, Still DEF Inv, TypeInv, tally
<1>4. CASE Answers(cur) /\ kind[cur].packet
  <2>1. Finish(Return(Explained(disk[cur], "S.M.A.R.T."), "NOT_APPLICABLE"))
    BY <1>4 DEF Packet
  <2>2. disk[cur].fd = "open"
    BY <1>4 DEF Answers, Present
  <2>3. Return(Explained(disk[cur], "S.M.A.R.T."), "NOT_APPLICABLE")
           \in GetTemperature(Forgotten(before))
    BY <1>1, <2>2, AtaPhase, PacketDevice DEF NoFd
  <2> QED
    BY <1>1, <1>3, <2>1, <2>3, Still, AtaEnds
<1>5. CASE ~(Answers(cur) /\ kind[cur].packet)
  <2>1. Goto("power1")
    BY <1>5 DEF Packet
  <2>2. Continued("power1")
    BY <1>1, <1>3, <2>1, Still, AtaPhase DEF Continued, Querying, AtaQuery
  <2>3. Arrived("power1")
    BY <1>1, Still DEF Arrived, Inv, SleepInv, AtaQuery, ScsiRest
  <2> QED
    BY <2>2, <2>3 DEF Progress
<1> QED
  BY <1>4, <1>5

\* What the check of the power mode may come to.
LEMMA ModesIs ==
    /\ PowermodeOf(Failed("other", FALSE)) = "UNKNOWN" /\ Failed("other", FALSE).errno = "other"
    /\ PowermodeOf(Failed("EIO", TRUE)) = "SLEEPING" /\ Failed("EIO", TRUE).errno = "EIO"
    /\ PowermodeOf(Nsector(0)) = "STANDBY" /\ Nsector(0).errno = "0"
    /\ \A z \in BOOLEAN : Failed("EIO", z).errno = "EIO"
    /\ \A n \in {0, 128, 255} : Nsector(n).errno = "0"
BY DEF PowermodeOf, Failed, Nsector

LEMMA CheckPowerIs ==
    ASSUME Inv, NEW a \in CheckPower(cur)
    PROVE  /\ a.errno \in Errno
           /\ disk[cur].fd # "open" => PowermodeOf(a) = "UNKNOWN"
           /\ ShowsSleep(cur, power[cur]) /\ disk[cur].fd = "open"
                 => PowermodeOf(a) \in {"SLEEPING", "STANDBY"}
                    /\ (a.errno # "0" => power[cur] = "sleeping")
<1>1. /\ kind[cur].hdio \in BOOLEAN /\ kind[cur].pm \in BOOLEAN
      /\ power[cur] \in Power
  BY BusDriversAssumption DEF Inv, TypeInv, TypeOK, Kind
<1>2. CASE ~Present(cur) \/ ~kind[cur].hdio
  <2>0. ~Answers(cur)
    BY <1>2 DEF Answers
  <2>1. a = Failed("other", FALSE)
    BY <1>2, <2>0 DEF CheckPower
  <2> QED
    BY <1>1, <1>2, <2>1, ModesIs DEF Present, ShowsSleep, Power, Errno
<1>3. CASE Present(cur) /\ kind[cur].hdio
  <2>0. Answers(cur) /\ disk[cur].fd = "open" /\ power[cur] # "gone"
    BY <1>3 DEF Answers, Present
  <2>1. CASE power[cur] = "sleeping"
    <3>1. a = Failed("EIO", TRUE)
      BY <1>3, <2>0, <2>1 DEF CheckPower
    <3> QED
      BY <2>0, <2>1, <3>1, ModesIs DEF Errno
  <2>2. CASE power[cur] # "sleeping" /\ ~kind[cur].pm
    <3>1. a = Failed("EIO", FALSE)
      BY <1>3, <2>0, <2>2 DEF CheckPower
    <3> QED
      BY <2>0, <2>2, <3>1, ModesIs DEF Errno, ShowsSleep
  <2>3. CASE power[cur] = "standby" /\ kind[cur].pm
    <3>1. a = Nsector(0)
      BY <1>3, <2>0, <2>3 DEF CheckPower
    <3> QED
      BY <2>0, <2>3, <3>1, ModesIs DEF Errno
  <2>4. CASE power[cur] = "spinning" /\ kind[cur].pm
    <3>1. a \in {Nsector(255), Nsector(128)}
      BY <1>3, <2>0, <2>4 DEF CheckPower
    <3> QED
      BY <2>0, <2>4, <3>1, ModesIs DEF Errno, ShowsSleep
  <2> QED
    BY <1>1, <2>0, <2>1, <2>2, <2>3, <2>4 DEF Power
<1> QED
  BY <1>1, <1>2, <1>3

LEMMA CheckPowerModeStep == Inv /\ CheckPowerMode => Progress
<1> SUFFICES ASSUME Inv, CheckPowerMode PROVE Progress
  OBVIOUS
<1>1. pc \in {"power1", "power2"} /\ pc \in AtaQuery
      /\ UNCHANGED <<machine, SG_IO_supported, tally>>
  BY DEF CheckPowerMode, AtaQuery
<1>2. PICK a \in CheckPower(cur) :
          /\ errno' = IF a.errno = "0" THEN errno ELSE a.errno
          /\ IF pc = "power1" /\ a.errno # "0"
             THEN Goto("power2")
             ELSE IF LeftAsleep([power |-> PowermodeOf(a)])
                  THEN Finish(Return(disk[cur], "DRIVE_SLEEP"))
                  ELSE Goto("enable")
  BY DEF CheckPowerMode
<1>3. errno' \in Errno
  BY <1>2, CheckPowerIs DEF Inv, TypeInv, TypeOK, Errno
<1>4. Transported
  BY <1>1, <1>3, Untouched, Still DEF Inv, TypeInv, tally
<1>5. CASE Goto("power2")
  <2>1. Continued("power2")
    BY <1>1, <1>4, <1>5, Still, AtaPhase DEF Continued, Querying, AtaQuery
  <2>2. Arrived("power2")
    BY <1>1, Still DEF Arrived, Inv, SleepInv, AtaQuery, ScsiRest
  <2> QED
    BY <2>1, <2>2 DEF Progress
<1>6. CASE LeftAsleep([power |-> PowermodeOf(a)]) /\ Finish(Return(disk[cur], "DRIVE_SLEEP"))
  <2>1. ~wakeup /\ PowermodeOf(a) # "UNKNOWN"
    BY <1>6 DEF LeftAsleep
  <2>2. disk[cur].fd = "open"
    BY <2>1, CheckPowerIs
  <2>3. Return(disk[cur], "DRIVE_SLEEP") \in GetTemperature(Forgotten(before))
    BY <1>1, <2>1, <2>2, AtaPhase, AtaSleeps DEF NoFd
  <2> QED
    BY <1>1, <1>4, <1>6, <2>3, Still, AtaEnds
<1>7. CASE ~LeftAsleep([power |-> PowermodeOf(a)]) /\ Goto("enable")
  <2>1. Continued("enable")
    BY <1>1, <1>4, <1>7, Still, AtaPhase DEF Continued, Querying, AtaQuery
  <2>2. ~wakeup => PowermodeOf(a) \notin {"SLEEPING", "STANDBY"}
    BY <1>7 DEF LeftAsleep
  <2>3. asleep => ShowsSleep(cur, power[cur])
    BY <1>1 DEF Inv, SleepInv
  <2>4. asleep /\ ~wakeup => disk[cur].fd = NoFd
    BY <1>1, <2>2, <2>3, CheckPowerIs, AtaPhase
  <2>5. Arrived("enable")
    BY <1>1, <2>3, <2>4, Still DEF Arrived, AtaQuery, ScsiRest
  <2> QED
    BY <2>1, <2>5 DEF Progress
<1> QED
  BY <1>2, <1>5, <1>6, <1>7

LEMMA SpunIs ==
    ASSUME Inv, NEW reached, Spun(reached)
    PROVE  power' \in [Drives -> Power]
BY DEF Spun, Inv, TypeInv, TypeOK, Power

LEMMA AnswersIs ==
    ASSUME NEW e \in HdioCmd(cur)
    PROVE  /\ e \in Errno
           /\ e \in {"0", "EIO"} => disk[cur].fd = "open"
BY DEF HdioCmd, Answers, Present, Errno

\* A failed SMART ENABLE; only a drive can answer EIO.
LEMMA Blamed ==
    ASSUME Inv, pc = "enable", NEW e, Blame(e), e = "EIO" => disk[cur].fd = "open",
           Transported, power' \in [Drives -> Power]
    PROVE  Progress
<1>1. pc \in AtaQuery /\ pc # "no_sensor"
  BY DEF AtaQuery
<1>2. CASE e = "EIO"
  <2>1. Finish(Return(Closed(Explained(disk[cur], "S.M.A.R.T.")), "NOT_APPLICABLE"))
    BY <1>2 DEF Blame, GiveUp
  <2>2. Return(Closed(Explained(disk[cur], "S.M.A.R.T.")), "NOT_APPLICABLE")
           \in GetTemperature(Forgotten(before))
    BY <1>1, <1>2, AtaPhase, AtaRefuses DEF NoFd
  <2> QED
    BY <1>1, <2>1, <2>2, AtaEnds
<1>3. CASE e # "EIO"
  <2>1. Finish(Return(Closed(Explained(disk[cur], "errno")), "ERROR"))
    BY <1>3 DEF Blame, GiveUp
  <2>2. Return(Closed(Explained(disk[cur], "errno")), "ERROR")
           \in GetTemperature(Forgotten(before))
    BY <1>1, AtaPhase, AtaErrors
  <2> QED
    BY <1>1, <2>1, <2>2, AtaEnds
<1> QED
  BY <1>2, <1>3

\* A SMART ENABLE that worked.
LEMMA Enabled ==
    ASSUME Inv, pc = "enable", Goto("values"), disk[cur].fd = "open",
           Transported, power' \in [Drives -> Power]
    PROVE  Progress
<1>1. Continued("values")
  BY AtaPhase DEF Continued, Querying, AtaQuery
<1>2. Arrived("values")
  BY DEF Arrived, AtaQuery, ScsiRest, Inv, SleepInv
<1> QED
  BY <1>1, <1>2 DEF Progress

LEMMA EnableAtaStep == Inv /\ EnableAta => Progress
<1> SUFFICES ASSUME Inv, EnableAta PROVE Progress
  OBVIOUS
<1>1. /\ pc = "enable" /\ Spun(Answers(cur))
      /\ kind' = kind /\ UNCHANGED <<SG_IO_supported, tally>>
  BY DEF EnableAta
<1>2. PICK e \in HdioCmd(cur) :
         IF e = "0" THEN Goto("values") /\ UNCHANGED errno
                    ELSE Blame(e) /\ errno' = e
  BY DEF EnableAta
<1>3. errno' \in Errno
  BY <1>2, AnswersIs DEF Inv, TypeInv, TypeOK, Errno
<1>4. Transported
  BY <1>1, <1>3, Untouched DEF Inv, TypeInv, tally
<1>5. power' \in [Drives -> Power]
  BY <1>1, SpunIs
<1>6. CASE e = "0"
  BY <1>1, <1>2, <1>4, <1>5, <1>6, AnswersIs, Enabled
<1>7. CASE e # "0"
  BY <1>1, <1>2, <1>4, <1>5, <1>7, AnswersIs, Blamed
<1> QED
  BY <1>6, <1>7

LEMMA EnableSataStep == Inv /\ EnableSata => Progress
<1> SUFFICES ASSUME Inv, EnableSata PROVE Progress
  OBVIOUS
<1>1. pc = "enable" /\ kind' = kind
  BY DEF EnableSata
<1>2. PICK p \in PassThru(cur) :
         /\ Passed(cur, p.answer)
         /\ IF p.ok THEN Goto("values") ELSE Blame(p.answer.errno)
         /\ Spun(p.answer.ret = "0")
  BY DEF EnableSata
<1>3. Transported
  BY <1>1, <1>2, PassedOn DEF Inv, TypeInv
<1>4. power' \in [Drives -> Power]
  BY <1>2, SpunIs
<1>5. errno \in Errno /\ disk[cur].fd \in {"open", NoFd}
  BY FdIs DEF Inv, TypeInv, TypeOK, Errno
<1>6. CASE p.ok
  <2>1. disk[cur].fd = "open"
    BY <1>5, <1>6, PassThruIs
  <2> QED
    BY <1>1, <1>2, <1>3, <1>4, <1>6, <2>1, Enabled
<1>7. CASE ~p.ok
  <2>1. p.answer.errno = "EIO" => disk[cur].fd = "open"
    BY <1>5, PassThruIs, NoIoctlIs
  <2> QED
    BY <1>1, <1>2, <1>3, <1>4, <1>7, <2>1, Blamed
<1> QED
  BY <1>6, <1>7

LEMMA FieldsAre == \A d, data : Fields(d, data) \subseteq Temps \cup {NoField}
BY DEF Fields

\* The reading of the values, if it worked and if not.
LEMMA ValuesRead ==
    ASSUME Inv, pc = "values", NEW f \in Temps \cup {NoField},
           Finish(TakeField(disk[cur], [field |-> f])) \/ GiveUp("ERROR", "errno"),
           Transported, power' \in [Drives -> Power]
    PROVE  Progress
<1>1. pc \in AtaQuery /\ pc # "no_sensor" /\ disk[cur].fd = "open"
  BY DEF AtaQuery, Inv, PhaseInv
<1>2. CASE Finish(TakeField(disk[cur], [field |-> f]))
  <2>1. TakeField(disk[cur], [field |-> f]) \in GetTemperature(Forgotten(before))
    BY <1>1, AtaPhase, AtaTakes DEF NoFd
  <2> QED
    BY <1>1, <1>2, <2>1, AtaEnds
<1>3. CASE GiveUp("ERROR", "errno")
  <2>1. Finish(Return(Closed(Explained(disk[cur], "errno")), "ERROR"))
    BY <1>3 DEF GiveUp
  <2>2. Return(Closed(Explained(disk[cur], "errno")), "ERROR")
           \in GetTemperature(Forgotten(before))
    BY <1>1, AtaPhase, AtaErrors
  <2> QED
    BY <1>1, <2>1, <2>2, AtaEnds
<1> QED
  BY <1>2, <1>3

LEMMA ReadAtaStep == Inv /\ ReadAta => Progress
<1> SUFFICES ASSUME Inv, ReadAta PROVE Progress
  OBVIOUS
<1>1. /\ pc = "values" /\ Spun(Answers(cur))
      /\ kind' = kind /\ UNCHANGED <<SG_IO_supported, refused, first>>
  BY DEF ReadAta
<1>2. PICK e \in HdioCmd(cur) :
          IF e = "0"
          THEN /\ \E f \in Fields(cur, TRUE) : Finish(TakeField(disk[cur], [field |-> f]))
               /\ UNCHANGED errno
          ELSE GiveUp("ERROR", "errno") /\ errno' = e
  BY DEF ReadAta
<1>3. errno' \in Errno
  BY <1>2, AnswersIs DEF Inv, TypeInv, TypeOK, Errno
<1>4. Transported
  BY <1>1, <1>3, Untouched DEF Inv, TypeInv
<1>5. power' \in [Drives -> Power]
  BY <1>1, SpunIs
<1>6. \E f \in Temps \cup {NoField} :
         Finish(TakeField(disk[cur], [field |-> f])) \/ GiveUp("ERROR", "errno")
  BY <1>2, FieldsAre
<1> QED
  BY <1>1, <1>4, <1>5, <1>6, ValuesRead

LEMMA ReadSataStep == Inv /\ ReadSata => Progress
<1> SUFFICES ASSUME Inv, ReadSata PROVE Progress
  OBVIOUS
<1>1. pc = "values" /\ kind' = kind
  BY DEF ReadSata
<1>2. PICK p \in PassThru(cur) :
          /\ Passed(cur, p.answer)
          /\ IF p.ok
             THEN \E f \in Fields(cur, p.answer.data) :
                        Finish(TakeField(disk[cur], [field |-> f]))
             ELSE GiveUp("ERROR", "errno")
          /\ Spun(p.answer.ret = "0")
  BY DEF ReadSata
<1>3. Transported
  BY <1>1, <1>2, PassedOn DEF Inv, TypeInv
<1>4. power' \in [Drives -> Power]
  BY <1>2, SpunIs
<1>5. \E f \in Temps \cup {NoField} :
         Finish(TakeField(disk[cur], [field |-> f])) \/ GiveUp("ERROR", "errno")
  BY <1>2, FieldsAre
<1> QED
  BY <1>1, <1>3, <1>4, <1>5, ValuesRead

LEMMA ScsiPhase ==
    ASSUME Inv, pc \in ScsiRest \cup {"smart_support"}
    PROVE  LET dsk == Forgotten(before)
           IN  /\ pc \in Querying /\ disk[cur] = OwnEntry(dsk) /\ before \in Disk
               /\ dsk.type = "BUS_SCSI" /\ Coherent(before)
               /\ pc \in ScsiRest => disk[cur].fd = "open" /\ dsk.fd = "open"
               /\ disk[cur].fd \in {"open", NoFd} /\ dsk.fd = disk[cur].fd
<1>1. before \in Disk /\ Coherent(before) /\ before.type = "BUS_SCSI"
      /\ disk[cur] = OwnEntry(Forgotten(before)) /\ pc \in Querying
      /\ (pc \in ScsiRest => disk[cur].fd = "open")
  BY DEF Inv, TypeInv, TypeOK, PhaseInv, Querying
<1>2. Forgotten(before) \in Disk /\ Forgotten(before).type = "BUS_SCSI"
  BY <1>1, ForgottenIs
<1>3. OwnEntry(Forgotten(before)).fd = Forgotten(before).fd
  BY <1>2, OwnEntryIs
<1>4. Forgotten(before).fd \in {"open", NoFd}
  BY <1>2, FdIs
<1> QED
  BY <1>1, <1>2, <1>3, <1>4

LEMMA ScsiEnds ==
    ASSUME Inv, pc \in ScsiRest \cup {"smart_support"},
           NEW x \in GetTemperature(Forgotten(before)), Finish(x), Transported,
           power' \in [Drives -> Power], x.fd = NoFd => Excused(cur)'
    PROVE  Progress
BY ScsiPhase DEF Ended, Progress

\* The next command of a query, to a drive that has answered one.
LEMMA ScsiGoesOn ==
    ASSUME Inv, pc \in ScsiRest \cup {"smart_support"}, NEW label \in ScsiRest, Goto(label),
           disk[cur].fd = "open", Transported, UNCHANGED machine
    PROVE  Progress
<1>1. label \in Querying /\ label \notin AtaQuery \cup {"no_sensor", "smart_support"}
      /\ pc # "values"
  BY DEF Querying, ScsiRest, AtaQuery
<1>2. Continued(label)
  BY <1>1, Still, ScsiPhase DEF Continued
<1>3. asleep => ShowsSleep(cur, power'[cur])
  BY <1>1, Still DEF Inv, SleepInv
<1>4. label \notin {"enable", "values"} /\ label # "packet"
  BY <1>1 DEF AtaQuery
<1>5. Arrived(label)
  BY <1>1, <1>3, <1>4 DEF Arrived
<1> QED
  BY <1>2, <1>5 DEF Progress

\* Giving the drive up takes an excuse.
LEMMA ScsiGivesUp ==
    ASSUME Inv, pc \in ScsiRest, GiveUp("ERROR", "errno"),
           Transported, power' \in [Drives -> Power], Excused(cur)', Temps # {}
    PROVE  Progress
<1>1. Finish(Return(Closed(Explained(disk[cur], "errno")), "ERROR"))
  BY DEF GiveUp
<1>2. Return(Closed(Explained(disk[cur], "errno")), "ERROR")
           \in GetTemperature(Forgotten(before))
  BY ScsiPhase, ScsiErrors DEF NoFd
<1> QED
  BY <1>1, <1>2, ScsiEnds

\* Any SCSI command of a query: its answer, and its page if it is a MODE SENSE.
Sent(c) ==
    /\ c \in ScsiCommand(cur)
    /\ Carried(cur, c.answer, c.sgio)

LEMMA SentIs ==
    ASSUME Inv, NEW c, Sent(c), cur' = cur, UNCHANGED machine
    PROVE  /\ Transported
           /\ ~c.answer.data => Excused(cur)'
           /\ c.answer.ret # "0" => Excused(cur)'
           /\ c.answer.ret = "0" => disk[cur].fd = "open"
<1>1. kind' = kind /\ errno \in Errno /\ SG_IO_supported \in {-1, 0, 1}
      /\ disk[cur].fd \in {"open", NoFd}
  BY FdIs DEF machine, Inv, TypeInv, TypeOK, Errno
<1>2. Transported /\ (c.answer.data \/ Excused(cur)')
  BY <1>1, CarriedOn DEF Sent, Inv, TypeInv
<1>3. c.answer.data => c.answer.ret = "0"
  BY <1>1, ScsiCommandIs DEF Sent
<1>4. c.answer.ret = "0" => disk[cur].fd = "open"
  BY <1>1, ScsiCommandIs DEF Sent
<1> QED
  BY <1>2, <1>3, <1>4

\* A page that is not clear is the drive's own, or not its answer.
LEMMA PageIs ==
    ASSUME Inv, NEW c, Sent(c), cur' = cur, UNCHANGED machine,
           NEW page \in Pages(cur, c.answer.data), page # "clear"
    PROVE  Excused(cur)'
<1>1. CASE c.answer.data
  <2>1. kind[cur].mode # "clear"
    BY <1>1 DEF Pages
  <2> QED
    BY <2>1 DEF Excused, machine
<1>2. CASE ~c.answer.data
  BY <1>2, SentIs
<1> QED
  BY <1>1, <1>2

LEMMA GotoIs == \A label : Goto(label) => cur' = cur
BY DEF Goto
LEMMA FinishIs == \A x : Finish(x) => cur' = cur
BY DEF Finish
LEMMA GiveUpIs == \A ret, msg : GiveUp(ret, msg) => cur' = cur
BY FinishIs DEF GiveUp

LEMMA SmartSupportStep == Temps # {} /\ Inv /\ SmartSupport => Progress
<1> SUFFICES ASSUME Temps # {}, Inv, SmartSupport PROVE Progress
  OBVIOUS
<1>1. pc = "smart_support" /\ UNCHANGED machine
  BY DEF SmartSupport
<1>2. PICK c \in ScsiCommand(cur) :
          /\ Carried(cur, c.answer, c.sgio)
          /\ \E page \in Pages(cur, c.answer.data) :
                IF c.answer.ret = "0" /\ page = "clear"
                THEN Goto("smart_enable")
                ELSE GiveUp("NOT_APPLICABLE", "S.M.A.R.T.")
  BY DEF SmartSupport
<1>3. PICK page \in Pages(cur, c.answer.data) :
                IF c.answer.ret = "0" /\ page = "clear"
                THEN Goto("smart_enable")
                ELSE GiveUp("NOT_APPLICABLE", "S.M.A.R.T.")
  BY <1>2
<1>4. Sent(c) /\ cur' = cur
  BY <1>2, <1>3, GotoIs, GiveUpIs DEF Sent
<1>5. CASE c.answer.ret = "0" /\ page = "clear"
  <2>1. Goto("smart_enable") /\ "smart_enable" \in ScsiRest
    BY <1>3, <1>5 DEF ScsiRest
  <2> QED
    BY <1>1, <1>4, <1>5, <2>1, SentIs, ScsiGoesOn
<1>6. CASE ~(c.answer.ret = "0" /\ page = "clear")
  <2>1. GiveUp("NOT_APPLICABLE", "S.M.A.R.T.")
    BY <1>3, <1>6
  <2>2. Finish(Return(Closed(Explained(disk[cur], "S.M.A.R.T.")), "NOT_APPLICABLE"))
    BY <2>1 DEF GiveUp
  <2>3. Return(Closed(Explained(disk[cur], "S.M.A.R.T.")), "NOT_APPLICABLE")
           \in GetTemperature(Forgotten(before))
    BY <1>1, ScsiPhase, ScsiRefuses
  <2>4. Excused(cur)' /\ Transported
    BY <1>1, <1>4, <1>6, SentIs, PageIs
  <2> QED
    BY <1>1, <2>2, <2>3, <2>4, Still, ScsiEnds
<1> QED
  BY <1>5, <1>6

LEMMA SmartEnableStep == Temps # {} /\ Inv /\ SmartEnable => Progress
<1> SUFFICES ASSUME Temps # {}, Inv, SmartEnable PROVE Progress
  OBVIOUS
<1>1. pc = "smart_enable" /\ pc \in ScsiRest /\ UNCHANGED machine
  BY DEF SmartEnable, ScsiRest
<1>2. PICK c \in ScsiCommand(cur) :
          /\ Carried(cur, c.answer, c.sgio)
          /\ \E page \in Pages(cur, c.answer.data) :
                CASE c.answer.ret # "0" \/ page = "short" -> GiveUp("ERROR", "errno")
                  [] c.answer.ret = "0" /\ page = "set"   -> Goto("mode_select")
                  [] c.answer.ret = "0" /\ page = "clear" -> Goto("log_pages")
  BY DEF SmartEnable
<1>3. PICK page \in Pages(cur, c.answer.data) :
                CASE c.answer.ret # "0" \/ page = "short" -> GiveUp("ERROR", "errno")
                  [] c.answer.ret = "0" /\ page = "set"   -> Goto("mode_select")
                  [] c.answer.ret = "0" /\ page = "clear" -> Goto("log_pages")
  BY <1>2
<1>4. page \in {"short", "set", "clear"}
  BY BusDriversAssumption DEF Pages, Kind, Inv, TypeInv, TypeOK
<1>5. CASE c.answer.ret # "0" \/ page = "short"
  <2>1. GiveUp("ERROR", "errno")
    BY <1>3, <1>5
  <2>2. Sent(c) /\ cur' = cur
    BY <1>2, <2>1, GiveUpIs DEF Sent
  <2>3. Excused(cur)' /\ Transported
    BY <1>1, <1>5, <2>2, SentIs, PageIs
  <2> QED
    BY <1>1, <2>1, <2>3, Still, ScsiGivesUp
<1>6. CASE c.answer.ret = "0" /\ page # "short"
  <2>1. PICK label \in ScsiRest : Goto(label)
    BY <1>3, <1>4, <1>6 DEF ScsiRest
  <2>2. Sent(c) /\ cur' = cur
    BY <1>2, <2>1, GotoIs DEF Sent
  <2> QED
    BY <1>1, <1>6, <2>1, <2>2, SentIs, ScsiGoesOn
<1> QED
  BY <1>5, <1>6

\* A command that is only looked at for what the ioctl returns.
LEMMA Returned ==
    ASSUME Temps # {}, Inv, pc \in ScsiRest, UNCHANGED machine, NEW c \in ScsiCommand(cur),
           Carried(cur, c.answer, c.sgio),
           \/ c.answer.ret # "0" /\ GiveUp("ERROR", "errno")
           \/ c.answer.ret = "0" /\ \E label \in ScsiRest : Goto(label)
    PROVE  Progress
<1>1. Sent(c) /\ cur' = cur
  BY GotoIs, GiveUpIs DEF Sent
<1>2. CASE c.answer.ret # "0"
  BY <1>1, <1>2, SentIs, Still, ScsiGivesUp
<1>3. CASE c.answer.ret = "0"
  BY <1>1, <1>3, SentIs, ScsiGoesOn
<1> QED
  BY <1>2, <1>3

LEMMA ModeSelectStep == Temps # {} /\ Inv /\ ModeSelect => Progress
<1> SUFFICES ASSUME Temps # {}, Inv, ModeSelect PROVE Progress
  OBVIOUS
<1>1. pc \in ScsiRest /\ UNCHANGED machine /\ "log_pages" \in ScsiRest
  BY DEF ModeSelect, ScsiRest
<1>2. PICK c \in ScsiCommand(cur) :
          /\ Carried(cur, c.answer, c.sgio)
          /\ IF c.answer.ret = "0" THEN Goto("log_pages") ELSE GiveUp("ERROR", "errno")
  BY DEF ModeSelect
<1> QED
  BY <1>1, <1>2, Returned

LEMMA LogPagesStep == Temps # {} /\ Inv /\ LogPages => Progress
<1> SUFFICES ASSUME Temps # {}, Inv, LogPages PROVE Progress
  OBVIOUS
<1>1. pc \in ScsiRest /\ UNCHANGED machine /\ "log_temperature" \in ScsiRest
  BY DEF LogPages, ScsiRest
<1>2. PICK c \in ScsiCommand(cur) :
          /\ Carried(cur, c.answer, c.sgio)
          /\ \/ c.answer.ret # "0" /\ GiveUp("ERROR", "errno")
             \/ c.answer.ret = "0" /\ Goto("log_temperature")
             \/ c.answer.ret = "0" /\ Finish(Return(disk[cur], "NOSENSOR"))
  BY DEF LogPages
<1>3. CASE \/ c.answer.ret # "0" /\ GiveUp("ERROR", "errno")
           \/ c.answer.ret = "0" /\ Goto("log_temperature")
  BY <1>1, <1>2, <1>3, Returned
<1>4. CASE Finish(Return(disk[cur], "NOSENSOR"))
  <2>1. Sent(c) /\ cur' = cur
    BY <1>2, <1>4, FinishIs DEF Sent
  <2>2. Return(disk[cur], "NOSENSOR") \in GetTemperature(Forgotten(before))
    BY <1>1, ScsiPhase, NoSensorScsi DEF NoFd
  <2>3. Return(disk[cur], "NOSENSOR").fd # NoFd
    BY <1>1, ScsiPhase DEF Return, NoFd, Disk, Inv, TypeInv, TypeOK
  <2> QED
    BY <1>1, <1>4, <2>1, <2>2, <2>3, SentIs, Still, ScsiEnds
<1> QED
  BY <1>2, <1>3, <1>4

LEMMA LogTemperatureStep == Temps # {} /\ Inv /\ LogTemperature => Progress
<1> SUFFICES ASSUME Temps # {}, Inv, LogTemperature PROVE Progress
  OBVIOUS
<1>1. pc \in ScsiRest /\ UNCHANGED machine
  BY DEF LogTemperature, ScsiRest
<1>2. PICK c \in ScsiCommand(cur) :
          /\ Carried(cur, c.answer, c.sgio)
          /\ IF c.answer.ret = "0"
             THEN \E t \in Temps :
                     Finish(Return([disk[cur] EXCEPT !.value = t, !.measured = TRUE], "KNOWN"))
             ELSE GiveUp("ERROR", "errno")
  BY DEF LogTemperature
<1>3. CASE c.answer.ret # "0"
  BY <1>1, <1>2, <1>3, Returned
<1>4. CASE c.answer.ret = "0"
  <2> DEFINE x(t) == Return([disk[cur] EXCEPT !.value = t, !.measured = TRUE], "KNOWN")
  <2>1. PICK t \in Temps : Finish(x(t))
    BY <1>2, <1>4
  <2>2. Sent(c) /\ cur' = cur
    BY <1>2, <2>1, FinishIs DEF Sent
  <2>3. x(t) \in GetTemperature(Forgotten(before))
    BY <1>1, ScsiPhase, ScsiTakes DEF NoFd
  <2>4. disk[cur] \in Disk /\ disk[cur].fd = "open"
    BY <1>1, ScsiPhase DEF Inv, TypeInv, TypeOK
  <2>5. x(t).fd # NoFd
    BY <2>4 DEF Return, NoFd, Disk
  <2> HIDE DEF x
  <2> QED
    BY <1>1, <2>1, <2>2, <2>3, <2>5, SentIs, Still, ScsiEnds
<1> QED
  BY <1>3, <1>4

-----------------------------------------------------------------------------
(* The probes. *)

\* What main() makes of a disk: collected, or dropped.
Found == CollectedDisk \cup {NotCollected}

LEMMA FoundIs ==
    ASSUME NEW x \in Found
    PROVE  /\ x \in Disk
           /\ x.type # "ERROR" => Coherent(x)
           /\ ~(x.type = "BUS_SCSI" /\ x.fd = NoFd)
<1>1. CASE x = NotCollected
  BY <1>1, NotCollectedIs
<1>2. CASE x \in CollectedDisk
  <2>1. x \in Disk /\ Coherent(x)
    BY <1>2, CollectedDiskCoherent
  <2>2. NotOpened("ERROR").type = "ERROR"
    BY DEF NotOpened
  <2>3. \A t, e : Opened(t, e).fd = "open"
    BY DEF Opened
  <2>4. x = NotOpened("ERROR") \/ \E t, e : x = Opened(t, e)
    BY <1>2 DEF CollectedDisk
  <2> QED
    BY <2>1, <2>2, <2>3, <2>4 DEF NoFd
<1> QED
  BY <1>1, <1>2 DEF Found

\* A step of a probe, and its end.
Probed ==
    /\ pc \in Probing
    /\ Transported
    /\ UNCHANGED machine
    /\ \/ \E label \in Probing : Goto(label)
       \/ \E x \in Found : Finish(x)

LEMMA ProbedInv == Inv /\ Probed => Inv'
<1> SUFFICES ASSUME Inv, Probed PROVE Inv'
  OBVIOUS
<1>0. kind' = kind /\ power' = power /\ ~asleep
  BY DEF Probed, machine, Inv, SleepInv, Probing, Querying, AtaQuery, ScsiRest
<1>1. CASE \E label \in Probing : Goto(label)
  <2>1. pc' \in Probing /\ pc' \notin Querying \cup {"idle"} /\ disk' = disk /\ cur' = cur
        /\ before' = before /\ asleep' = asleep
    BY <1>1 DEF Goto, track, Probing, Querying, AtaQuery, ScsiRest
  <2>2. TypeInv'
    BY <1>0, <2>1 DEF Probed, Transported, Inv, TypeInv, TypeOK, Errno
  <2>3. FitInv'
    BY <2>1 DEF Inv, FitInv, Coherent
  <2>4. PhaseInv'
    BY <2>1 DEF Probed, Inv, PhaseInv, Querying, AtaQuery, ScsiRest
  <2>5. TransportInv'
    BY <2>1, SameKept DEF Probed, Inv, TypeInv
  <2>6. SleepInv'
    BY <1>0, <2>1 DEF SleepInv
  <2> QED
    BY <2>2, <2>3, <2>4, <2>5, <2>6 DEF Inv
<1>2. CASE \E x \in Found : Finish(x)
  <2>0. PICK x \in Found : Finish(x)
    BY <1>2
  <2>1. /\ disk' = [disk EXCEPT ![cur] = x] /\ pc' = "idle" /\ before' = NotCollected
        /\ asleep' = FALSE /\ cur' = cur
    BY <2>0 DEF Finish
  <2>2. TypeInv'
    BY <1>0, <2>1, FoundIs, NotCollectedIs DEF Probed, Transported, Inv, TypeInv, TypeOK, Errno
  <2>3. FitInv'
    <3>1. \A d \in Drives : disk'[d] = x \/ disk'[d] = disk[d]
      BY <2>1 DEF Inv, TypeInv, TypeOK
    <3> QED
      BY <3>1, FoundIs DEF Inv, FitInv, Coherent
  <2>4. PhaseInv'
    BY <2>1 DEF PhaseInv, Querying, AtaQuery, ScsiRest, Probing
  <2>5. TransportInv'
    BY <2>1, FoundIs, OthersKept DEF Probed, Inv, TypeInv, TypeOK
  <2>6. SleepInv'
    BY <2>1 DEF SleepInv
  <2> QED
    BY <2>2, <2>3, <2>4, <2>5, <2>6 DEF Inv
<1> QED
  BY <1>1, <1>2 DEF Probed

LEMMA ModelIs == \A type \in BusType \ {"ERROR"} : Model(type) \in Probing
BY DEF Model, BusType, Probing

LEMMA NotSataStep == Inv /\ NotSata => Probed
<1> SUFFICES ASSUME Inv, NotSata PROVE Probed
  OBVIOUS
<1>1. pc \in Probing /\ Goto("probe_ata") /\ "probe_ata" \in Probing /\ UNCHANGED machine
      /\ cur' = cur /\ kind' = kind
  BY GotoIs DEF NotSata, Probing, machine
<1>2. CASE errno' = "other" /\ UNCHANGED <<SG_IO_supported, refused, first>>
  <2>1. Transported
    BY <1>1, <1>2, Untouched DEF Inv, TypeInv, Errno
  <2> QED
    BY <1>1, <2>1 DEF Probed
<1>3. CASE \E c \in ScsiCommand(cur) : Carried(cur, c.answer, c.sgio)
  <2>1. Transported
    BY <1>1, <1>3, CarriedOn DEF Inv, TypeInv
  <2> QED
    BY <1>1, <2>1 DEF Probed
<1> QED
  BY <1>2, <1>3 DEF NotSata

LEMMA MaybeSataStep == Inv /\ MaybeSata => Probed
<1> SUFFICES ASSUME Inv, MaybeSata PROVE Probed
  OBVIOUS
<1>1. pc \in Probing /\ Goto("probe_pass_thru") /\ "probe_pass_thru" \in Probing
      /\ UNCHANGED machine /\ cur' = cur /\ kind' = kind
  BY GotoIs DEF MaybeSata, Probing, machine
<1>2. \E c \in ScsiCommand(cur) : Carried(cur, c.answer, c.sgio)
  BY DEF MaybeSata
<1>3. Transported
  BY <1>1, <1>2, CarriedOn DEF Inv, TypeInv
<1> QED
  BY <1>1, <1>3 DEF Probed

LEMMA ProbePassThruStep == Inv /\ ProbePassThru => Probed
<1> SUFFICES ASSUME Inv, ProbePassThru PROVE Probed
  OBVIOUS
<1>1. pc \in Probing /\ UNCHANGED machine /\ kind' = kind
  BY DEF ProbePassThru, Probing, machine
<1>2. PICK p \in PassThru(cur) :
          /\ Passed(cur, p.answer)
          /\ Goto(IF p.ok THEN Model("BUS_SATA") ELSE "probe_ata")
  BY DEF ProbePassThru
<1>3. Transported
  BY <1>1, <1>2, PassedOn DEF Inv, TypeInv
<1>4. \E label \in Probing : Goto(label)
  BY <1>2, ModelIs DEF BusType, Probing
<1> QED
  BY <1>1, <1>3, <1>4 DEF Probed

LEMMA ProbeAtaStep == Inv /\ ProbeAta => Probed
<1> SUFFICES ASSUME Inv, ProbeAta PROVE Probed
  OBVIOUS
<1>1. /\ pc \in Probing /\ UNCHANGED machine /\ kind' = kind
      /\ UNCHANGED <<SG_IO_supported, refused, first>>
  BY DEF ProbeAta, Probing, machine, tally
<1>2. errno' \in Errno
  BY DEF ProbeAta, Errno, Inv, TypeInv, TypeOK
<1>3. Transported
  BY <1>1, <1>2, Untouched DEF Inv, TypeInv
<1>4. \E label \in Probing : Goto(label)
  BY ModelIs DEF ProbeAta, BusType, Probing
<1> QED
  BY <1>1, <1>3, <1>4 DEF Probed

LEMMA ProbeScsiStep == Inv /\ ProbeScsi => Probed
<1> SUFFICES ASSUME Inv, ProbeScsi PROVE Probed
  OBVIOUS
<1>1. /\ pc \in Probing /\ UNCHANGED machine /\ kind' = kind
      /\ UNCHANGED <<SG_IO_supported, refused, first>>
  BY DEF ProbeScsi, Probing, machine, tally
<1>2. errno' \in Errno
  BY DEF ProbeScsi, Errno, Inv, TypeInv, TypeOK
<1>3. Transported
  BY <1>1, <1>2, Untouched DEF Inv, TypeInv
<1>4. (\E label \in Probing : Goto(label)) \/ (\E x \in Found : Finish(x))
  BY ModelIs DEF ProbeScsi, BusType, Found
<1> QED
  BY <1>1, <1>3, <1>4 DEF Probed

LEMMA CollectAtaStep == Inv /\ CollectAta => Probed
<1> SUFFICES ASSUME Inv, CollectAta PROVE Probed
  OBVIOUS
<1>1. pc \in Probing /\ UNCHANGED machine /\ kind' = kind
  BY DEF CollectAta, Probing, machine
<1>2. \E t \in {"BUS_SATA", "BUS_ATA"}, e \in {"attribute", "attribute0"} : Finish(Opened(t, e))
  BY DEF CollectAta
<1>3. \E x \in Found : Finish(x)
  BY <1>2 DEF Found, CollectedDisk
<1>4. CASE \E p \in PassThru(cur) : Passed(cur, p.answer)
  <2>1. Transported
    BY <1>1, <1>4, PassedOn DEF Inv, TypeInv
  <2> QED
    BY <1>1, <1>3, <2>1 DEF Probed
<1>5. CASE /\ errno' = IF Answers(cur) THEN errno ELSE "other"
           /\ UNCHANGED <<SG_IO_supported, refused, first>>
  <2>1. errno' \in Errno
    BY <1>5 DEF Errno, Inv, TypeInv, TypeOK
  <2>2. Transported
    BY <1>1, <1>5, <2>1, Untouched DEF Inv, TypeInv
  <2> QED
    BY <1>1, <1>3, <2>2 DEF Probed
<1> QED
  BY <1>4, <1>5 DEF CollectAta

LEMMA CollectScsiStep == Inv /\ CollectScsi => Probed
<1> SUFFICES ASSUME Inv, CollectScsi PROVE Probed
  OBVIOUS
<1>1. /\ pc \in Probing /\ UNCHANGED machine /\ kind' = kind
      /\ Finish(Opened("BUS_SCSI", "NULL")) /\ cur' = cur
  BY FinishIs DEF CollectScsi, Probing, machine
<1>2. \E x \in Found : Finish(x)
  BY <1>1 DEF Found, CollectedDisk
<1>3. \E c \in ScsiCommand(cur) : Carried(cur, c.answer, c.sgio)
  BY DEF CollectScsi
<1>4. Transported
  BY <1>1, <1>3, CarriedOn DEF Inv, TypeInv
<1> QED
  BY <1>1, <1>2, <1>4 DEF Probed

-----------------------------------------------------------------------------
(* The invariant. *)

LEMMA InvInit == Init => Inv
<1> SUFFICES ASSUME Init PROVE Inv
  OBVIOUS
<1>1. /\ disk = [d \in Drives |-> NotCollected] /\ pc = "idle" /\ ~asleep
      /\ asleep \in BOOLEAN /\ SG_IO_supported = -1 /\ first = -1
  BY DEF Init
<1>2. TypeInv
  BY <1>1, NotCollectedIs DEF Init, TypeInv, TypeOK, Power
<1>3. FitInv /\ PhaseInv
  BY <1>1, NotCollectedIs DEF FitInv, PhaseInv, Probing, Querying, AtaQuery, ScsiRest
<1>4. TransportInv
  BY <1>1, NotCollectedIs DEF TransportInv, HealthyKept
<1>5. SleepInv
  BY <1>1 DEF SleepInv
<1> QED
  BY <1>2, <1>3, <1>4, <1>5 DEF Inv

LEMMA DriftInv ==
    ASSUME Inv, NEW d \in Drives, Drift(d)
    PROVE  Inv'
<1>1. PICK p \in Power : /\ power' = [power EXCEPT ![d] = p]
                         /\ asleep' = (asleep /\ (d = cur => ShowsSleep(d, p)))
  BY DEF Drift
<1>2. UNCHANGED <<disk, kind, process, pc, cur, before, refused, first, answered>>
  BY DEF Drift
<1>3. power' \in [Drives -> Power] /\ asleep' \in BOOLEAN /\ (asleep' => asleep)
  BY <1>1 DEF Inv, TypeInv, TypeOK
<1>4. TypeInv'
  BY <1>2, <1>3 DEF Inv, TypeInv, TypeOK, process
<1>5. FitInv' /\ PhaseInv'
  BY <1>2 DEF Inv, FitInv, Coherent, PhaseInv
<1>6. TransportInv'
  BY <1>2 DEF Inv, TransportInv, HealthyKept, process
<1>7. asleep' /\ ShowsSleep(cur, power[cur]) => ShowsSleep(cur, power'[cur])
  BY <1>1 DEF Inv, TypeInv, TypeOK
<1>8. SleepInv'
  BY <1>2, <1>3, <1>7 DEF Inv, SleepInv, ShowsSleep
<1> QED
  BY <1>4, <1>5, <1>6, <1>8 DEF Inv

LEMMA OpenFailsInv ==
    ASSUME Inv, NEW d \in Drives, OpenFails(d)
    PROVE  Inv'
<1>1. /\ pc = "idle" /\ pc' = pc /\ disk' = [disk EXCEPT ![d] = NotOpened("ERROR")]
      /\ errno' = "other" /\ UNCHANGED <<machine, SG_IO_supported, history, cur>>
  BY DEF OpenFails
<1>2. UNCHANGED <<kind, power, before, asleep, refused, first, answered>>
  BY <1>1 DEF machine, history, track, tally
<1>3. NotOpened("ERROR") \in CollectedDisk /\ NotOpened("ERROR").type = "ERROR"
  BY DEF CollectedDisk, NotOpened
<1>4. NotOpened("ERROR") \in Disk
  BY <1>3, CollectedDiskCoherent
<1>5. TypeInv'
  BY <1>1, <1>2, <1>4 DEF Inv, TypeInv, TypeOK
<1>6. FitInv'
  <2>1. \A e \in Drives : disk'[e] = NotOpened("ERROR") \/ disk'[e] = disk[e]
    BY <1>1 DEF Inv, TypeInv, TypeOK
  <2> QED
    BY <1>3, <2>1 DEF Inv, FitInv, Coherent
<1>7. PhaseInv'
  BY <1>1 DEF PhaseInv, Probing, Querying, AtaQuery, ScsiRest
<1>8. TransportInv'
  <2>1. Transported
    BY <1>1, <1>2, Untouched DEF Inv, TypeInv, Errno
  <2> QED
    BY <1>1, <1>3, <1>4, <2>1, OthersKept DEF Inv, TypeInv
<1>9. SleepInv'
  BY <1>1, <1>2 DEF Inv, SleepInv, Querying, AtaQuery, ScsiRest
<1> QED
  BY <1>5, <1>6, <1>7, <1>8, <1>9 DEF Inv

LEMMA OpenInv ==
    ASSUME Inv, NEW d \in Drives, Open(d)
    PROVE  Inv'
<1> DEFINE opened == [NotCollected EXCEPT !.fd = "open"]
<1>1. /\ pc = "idle" /\ disk[d] = NotCollected /\ cur' = d /\ errno' = "0"
      /\ disk' = [disk EXCEPT ![d].fd = "open"]
      /\ UNCHANGED <<machine, SG_IO_supported, history>>
  BY DEF Open
<1>2. UNCHANGED <<kind, power, before, asleep, refused, first, answered>>
  BY <1>1 DEF machine, history, track, tally
<1>3. disk' = [disk EXCEPT ![d] = opened]
  BY <1>1 DEF Inv, TypeInv, TypeOK
<1>4. pc' \in Probing /\ pc' \notin Querying \cup {"idle"}
  BY ModelIs, BusDriversAssumption DEF Open, Probing, Querying, AtaQuery, ScsiRest
<1>5. opened \in Disk /\ opened.type = "ERROR"
  BY NotCollectedIs
<1> HIDE DEF opened
<1>6. TypeInv'
  BY <1>1, <1>2, <1>3, <1>4, <1>5 DEF Inv, TypeInv, TypeOK
<1>7. \A e \in Drives : disk'[e] = IF e = d THEN opened ELSE disk[e]
  BY <1>3 DEF Inv, TypeInv, TypeOK
<1>8. FitInv'
  BY <1>5, <1>7 DEF Inv, FitInv, Coherent
<1>9. PhaseInv'
  BY <1>1, <1>4, <1>7 DEF PhaseInv, Querying, AtaQuery, ScsiRest, opened
<1>10. TransportInv'
  <2>1. Transported
    BY <1>1, <1>2, Untouched DEF Inv, TypeInv, Errno
  <2> QED
    BY <1>3, <1>5, <2>1, OthersKept DEF Inv, TypeInv
<1>11. SleepInv'
  <2>1. ~asleep
    BY <1>1 DEF Inv, SleepInv, Querying, AtaQuery, ScsiRest
  <2> QED
    BY <1>2, <2>1 DEF SleepInv
<1> QED
  BY <1>6, <1>8, <1>9, <1>10, <1>11 DEF Inv

\* The disk a driver starts on, and where it starts.
Handed(dsk) == IF dsk.type = "BUS_SCSI" THEN OwnEntry(Forgotten(dsk)) ELSE Forgotten(dsk)

LEMMA BeginIs ==
    ASSUME Inv, NEW d \in Drives, Begin(d)
    PROVE  /\ pc = "idle" /\ disk[d].type # "ERROR" /\ Coherent(disk[d])
           /\ disk' = [disk EXCEPT ![d] = Handed(disk[d])]
           /\ before' = disk[d] /\ cur' = d /\ asleep' = ShowsSleep(d, power[d])
           /\ UNCHANGED <<machine, process, refused, first>>
           /\ disk[d].type = "BUS_SCSI" => pc' = "smart_support"
           /\ disk[d].type # "BUS_SCSI" =>
                 /\ disk[d].type \in {"BUS_SATA", "BUS_ATA"}
                 /\ disk[d].db_entry = "attribute0" => pc' = "no_sensor"
                 /\ disk[d].db_entry # "attribute0" =>
                       /\ disk[d].type = "BUS_ATA" => pc' = "packet"
                       /\ disk[d].type = "BUS_SATA" => pc' = "power1"
<1>1. pc = "idle" /\ disk[d].type # "ERROR" /\ disk[d] \in Disk
  BY DEF Begin, Inv, TypeInv, TypeOK
<1>2. Coherent(disk[d])
  BY <1>1 DEF Inv, FitInv
<1>3. /\ disk[d].type \in {"BUS_SATA", "BUS_ATA", "BUS_SCSI"}
      /\ disk[d].db_entry \in {"NULL", "attribute", "attribute0"}
  BY <1>1 DEF Disk, BusType
<1>4. disk[d].type \in {"BUS_SATA", "BUS_ATA"} => disk[d].db_entry # "NULL"
  BY <1>2 DEF Coherent
<1> DEFINE dsk == Forgotten(disk[d])
<1>5. dsk.type = disk[d].type /\ dsk.db_entry = disk[d].db_entry
  BY <1>1, ForgottenIs
<1>6. LET scsi == dsk.type = "BUS_SCSI"
      IN  /\ disk' = [disk EXCEPT ![d] = IF scsi THEN OwnEntry(dsk) ELSE dsk]
          /\ pc' = CASE scsi -> "smart_support"
                     [] ~scsi /\ dsk.db_entry = "attribute0" -> "no_sensor"
                     [] dsk.type = "BUS_SATA" /\ dsk.db_entry = "attribute" -> "power1"
                     [] dsk.type = "BUS_ATA" /\ dsk.db_entry = "attribute" -> "packet"
  BY DEF Begin, Forgotten
<1>7. disk' = [disk EXCEPT ![d] = Handed(disk[d])]
  BY <1>5, <1>6 DEF Handed
<1>8. /\ disk[d].type = "BUS_SCSI" => pc' = "smart_support"
      /\ disk[d].type # "BUS_SCSI" =>
            /\ disk[d].db_entry = "attribute0" => pc' = "no_sensor"
            /\ disk[d].db_entry # "attribute0" =>
                  /\ disk[d].type = "BUS_ATA" => pc' = "packet"
                  /\ disk[d].type = "BUS_SATA" => pc' = "power1"
  <2> HIDE DEF dsk
  <2> QED
    BY <1>3, <1>4, <1>5, <1>6
<1>9. /\ before' = disk[d] /\ cur' = d /\ asleep' = ShowsSleep(d, power[d])
      /\ UNCHANGED <<machine, process, refused, first>>
  BY DEF Begin
<1> QED
  BY <1>1, <1>2, <1>3, <1>7, <1>8, <1>9

LEMMA BeginInv ==
    ASSUME Inv, NEW d \in Drives, Begin(d)
    PROVE  Inv'
<1>1. disk[d] \in Disk /\ pc' \in Querying
  BY BeginIs DEF Inv, TypeInv, TypeOK, Querying, AtaQuery
<1>2. /\ Handed(disk[d]) \in Disk /\ Handed(disk[d]).type = disk[d].type
      /\ Handed(disk[d]).fd = disk[d].fd /\ Coherent(Handed(disk[d]))
  BY <1>1, BeginIs, ForgottenIs, OwnEntryIs DEF Handed
<1>3. UNCHANGED <<kind, power, errno, SG_IO_supported, refused, first>>
  BY BeginIs DEF machine, process
<1>4. \A e \in Drives : disk'[e] = IF e = d THEN Handed(disk[d]) ELSE disk[e]
  BY BeginIs DEF Inv, TypeInv, TypeOK
<1>5. TypeInv'
  <2>1. asleep' = ShowsSleep(d, power[d])
    BY BeginIs
  <2>2. asleep' \in BOOLEAN
    BY <2>1 DEF ShowsSleep
  <2>3. disk' = [disk EXCEPT ![d] = Handed(disk[d])] /\ before' = disk[d] /\ cur' = d
    BY BeginIs
  <2>4. disk' \in [Drives -> Disk] /\ before' \in Disk /\ cur' \in Drives
    BY <1>1, <1>2, <2>3 DEF Inv, TypeInv, TypeOK
  <2> QED
    BY <1>1, <1>3, <2>2, <2>4 DEF Inv, TypeInv, TypeOK
<1>6. FitInv'
  BY <1>2, <1>4 DEF Inv, FitInv, Coherent
<1>7. PhaseInv'
  <2>1. disk'[cur'] = Handed(before') /\ before'.type # "ERROR" /\ Coherent(before)'
    BY <1>4, BeginIs DEF Coherent
  <2>2. CASE disk[d].type = "BUS_SCSI"
    <3>1. pc' = "smart_support" /\ disk'[cur'] = OwnEntry(Forgotten(before'))
          /\ before'.type = "BUS_SCSI"
      BY <2>1, <2>2, BeginIs DEF Handed
    <3> QED
      BY <2>1, <3>1 DEF PhaseInv, Probing, Querying, AtaQuery, ScsiRest, OwnEntry, Forgotten
  <2>3. CASE disk[d].type # "BUS_SCSI"
    <3>1. disk'[cur'] = Forgotten(before') /\ before'.type \in {"BUS_SATA", "BUS_ATA"}
          /\ before' = disk[d]
      BY <2>1, <2>3, BeginIs DEF Handed
    <3>2. pc' \in {"no_sensor", "packet", "power1"}
          /\ (before'.db_entry = "attribute0" <=> pc' = "no_sensor")
          /\ (pc' = "packet" => before'.type = "BUS_ATA")
      BY <2>3, <3>1, BeginIs
    <3> QED
      BY <2>1, <3>1, <3>2 DEF PhaseInv, Probing, Querying, AtaQuery, ScsiRest, Forgotten
  <2> QED
    BY <2>2, <2>3
<1>8. TransportInv'
  <2>1. Transported
    BY <1>3, Untouched DEF Inv, TypeInv, TypeOK, Errno
  <2>2. disk[d].type = "BUS_SCSI" /\ disk[d].fd = NoFd => Excused(d)'
    <3>1. disk[d].type = "BUS_SCSI" /\ disk[d].fd = NoFd => Excused(d)
      BY DEF Inv, TransportInv, HealthyKept, Excused, Stuck
    <3> QED
      BY <2>1, <3>1, ExcusedKept DEF Inv, TypeInv, TypeOK
  <2> QED
    BY <1>2, <2>1, <2>2, BeginIs, OthersKept DEF Inv, TypeInv
<1>9. SleepInv'
  <2>1. pc' \notin {"enable", "values"}
    BY BeginIs
  <2> QED
    BY <1>1, <1>3, <2>1, BeginIs DEF SleepInv, ShowsSleep
<1> QED
  BY <1>5, <1>6, <1>7, <1>8, <1>9 DEF Inv

LEMMA DriverStep == Temps # {} /\ Inv /\ Driver => Probed \/ Progress
BY NotSataStep, MaybeSataStep, ProbePassThruStep, ProbeAtaStep, ProbeScsiStep,
   CollectAtaStep, CollectScsiStep, NoSensorStep, PacketStep, CheckPowerModeStep,
   EnableAtaStep, EnableSataStep, ReadAtaStep, ReadSataStep,
   SmartSupportStep, SmartEnableStep, ModeSelectStep, LogPagesStep, LogTemperatureStep
   DEF Driver

LEMMA InvStep == Temps # {} /\ Inv /\ [Next]_vars => Inv'
<1> SUFFICES ASSUME Temps # {}, Inv, [Next]_vars PROVE Inv'
  OBVIOUS
<1>1. ASSUME NEW d \in Drives, Drift(d) \/ OpenFails(d) \/ Open(d) \/ Begin(d)
      PROVE  Inv'
  BY <1>1, DriftInv, OpenFailsInv, OpenInv, BeginInv
<1>2. CASE Driver
  BY <1>2, DriverStep, ProbedInv, ProgressInv
<1>3. CASE UNCHANGED vars
  <2>1. UNCHANGED <<disk, kind, power, errno, SG_IO_supported, pc, cur, before, asleep,
                    refused, first>>
    BY <1>3 DEF vars, machine, process, history, track, tally
  <2>2. TypeInv'
    BY <2>1 DEF Inv, TypeInv, TypeOK
  <2>3. FitInv' /\ PhaseInv'
    BY <2>1 DEF Inv, FitInv, Coherent, PhaseInv
  <2>4. TransportInv' /\ SleepInv'
    BY <2>1 DEF Inv, TransportInv, HealthyKept, SleepInv, ShowsSleep
  <2> QED
    BY <2>2, <2>3, <2>4 DEF Inv
<1> QED
  BY <1>1, <1>2, <1>3 DEF Next

LEMMA Invariance == ASSUME Temps # {} PROVE Spec => []Inv
<1>1. Inv /\ [Next]_vars => Inv'
  BY InvStep
<1> QED
  BY InvInit, <1>1, PTL DEF Spec

-----------------------------------------------------------------------------
(* What follows from it. *)

(***************************************************************************)
(* Every variable of the drivers keeps its type, whatever the drives and   *)
(* their kernel drivers answer (BusDrivers.tla, and struct disk of         *)
(* hddtemp.h).                                                             *)
(***************************************************************************)
THEOREM TypeCorrect == ASSUME Temps # {} PROVE Spec => []TypeOK
<1>1. Inv => TypeOK
  BY DEF Inv, TypeInv
<1> QED
  BY <1>1, Invariance, PTL

(***************************************************************************)
(* A SCSI drive that answers every command is never given up, unless the   *)
(* transport the first SCSI command of the process has chosen              *)
(* (scsicmds.c) is not one of its own.                                     *)
(***************************************************************************)
THEOREM HealthyDrivesAreKept == ASSUME Temps # {} PROVE Spec => []HealthyKept
<1>1. Inv => HealthyKept
  BY DEF Inv, TransportInv
<1> QED
  BY <1>1, Invariance, PTL

\* What the check of the power mode is for.
Undisturbed ==
    ~wakeup /\ asleep /\ pc # "idle"
          => (power'[cur] = "spinning" => pc' = pc)

LEMMA UndisturbedStep == Inv /\ [Next]_vars => Undisturbed
<1> SUFFICES ASSUME Inv, [Next]_vars,
                    ~wakeup, asleep, pc # "idle",
                    power'[cur] = "spinning"
             PROVE  pc' = pc
  BY DEF Undisturbed
<1>1. pc = "values" => disk[cur].fd = "open"
  BY DEF Inv, PhaseInv
<1>2. pc \in {"enable", "values"} => disk[cur].fd = NoFd
  BY DEF Inv, SleepInv
<1>3. pc # "values" /\ power[cur] # "spinning"
  BY <1>1, <1>2 DEF Inv, SleepInv, ShowsSleep, NoFd
<1>4. power'[cur] # power[cur]
  BY <1>3
<1>5. CASE EnableAta
  <2>1. ~Answers(cur)
    BY <1>2, <1>5 DEF EnableAta, Answers, Present, NoFd
  <2> QED
    BY <1>4, <1>5, <2>1 DEF EnableAta, Spun
<1>6. CASE EnableSata
  <2>1. PICK p \in PassThru(cur) : Spun(p.answer.ret = "0")
    BY <1>6 DEF EnableSata
  <2>2. p.answer.ret # "0"
    BY <1>2, <1>6, PassThruIs, NoIoctlIs DEF EnableSata, NoFd, Inv, TypeInv, TypeOK, Errno
  <2> QED
    BY <1>4, <2>1, <2>2 DEF Spun
<1>7. CASE ReadAta \/ ReadSata
  BY <1>3, <1>7 DEF ReadAta, ReadSata
<1>8. CASE \E d \in Drives : Drift(d)
  BY <1>8 DEF Drift
<1>9. CASE UNCHANGED vars
  BY <1>9 DEF vars
<1>10. CASE \E d \in Drives : OpenFails(d) \/ Open(d) \/ Begin(d)
  BY <1>10 DEF OpenFails, Open, Begin
<1>11. CASE UNCHANGED machine
  BY <1>4, <1>11 DEF machine
<1>12. Driver => EnableAta \/ EnableSata \/ ReadAta \/ ReadSata \/ UNCHANGED machine
  BY DEF Driver, NotSata, MaybeSata, ProbePassThru, ProbeAta, ProbeScsi, CollectAta,
     CollectScsi, NoSensor, Packet, CheckPowerMode, SmartSupport, SmartEnable, ModeSelect,
     LogPages, LogTemperature
<1> QED
  BY <1>5, <1>6, <1>7, <1>8, <1>9, <1>10, <1>11, <1>12 DEF Next

(***************************************************************************)
(* Without --wake-up, a drive that answers the HDIO ioctls is not spun up  *)
(* by a query of it if it has been asleep since before: in sleep mode, or  *)
(* in standby and knowing CHECK POWER MODE (ata.c and sata.c, the power    *)
(* mode first).  Of other drives the theorem says nothing.                 *)
(***************************************************************************)
THEOREM SleepersAreLeftAlone == ASSUME Temps # {} PROVE Spec => SleepUndisturbed
<1>1. Inv /\ [Next]_vars => [Undisturbed]_vars
  BY UndisturbedStep
<1>2. Spec => [][Undisturbed]_vars
  BY <1>1, Invariance, PTL DEF Spec
<1> QED
  BY <1>2 DEF SleepUndisturbed, Undisturbed

-----------------------------------------------------------------------------
(***************************************************************************)
(* The refinement: the operators of GetTemperature mean the same on both   *)
(* sides, Seen begins as Queries says, and every ioctl is a step of        *)
(* Queries or leaves Seen alone.                                           *)
(***************************************************************************)

LEMMA SameDisks ==
    /\ Abstract!NotCollected = NotCollected
    /\ Abstract!CollectedDisk = CollectedDisk
    /\ \A dsk : Abstract!Asked(dsk) = Forgotten(dsk)
BY DEF Abstract!NotCollected, NotCollected, Abstract!NotOpened, NotOpened,
   Abstract!CollectedDisk, CollectedDisk, Abstract!Opened, Opened,
   Abstract!Asked, Forgotten, Abstract!NoFd, NoFd, Abstract!NoValue, NoValue

LEMMA SameParts ==
    /\ \A dsk, r : Abstract!Return(dsk, r) = Return(dsk, r)
    /\ \A dsk, m : Abstract!Explained(dsk, m) = Explained(dsk, m)
    /\ \A dsk : Abstract!Closed(dsk) = Closed(dsk)
    /\ \A dsk : Abstract!OwnEntry(dsk) = OwnEntry(dsk)
    /\ \A a : Abstract!LeftAsleep(a) <=> LeftAsleep(a)
BY DEF Abstract!Return, Return, Abstract!Explained, Explained, Abstract!Closed, Closed,
   Abstract!OwnEntry, OwnEntry, Abstract!LeftAsleep, LeftAsleep, Abstract!NoFd, NoFd

LEMMA SameAnswers ==
    /\ \A fd : Abstract!AtaAnswers(fd) = AtaAnswers(fd)
    /\ \A fd : Abstract!ScsiAnswers(fd) = ScsiAnswers(fd)
BY DEF Abstract!AtaAnswers, AtaAnswers, Abstract!ScsiAnswers, ScsiAnswers,
   Abstract!NoFd, NoFd, Abstract!NoField, NoField, Abstract!PowerMode, PowerMode

LEMMA SameReads ==
    /\ \A dsk, a : Abstract!ReadSmart(dsk, a) = ReadSmart(dsk, a)
    /\ \A dsk, a : Abstract!ScsiRead(dsk, a) = ScsiRead(dsk, a)
BY DEF Abstract!ReadSmart, ReadSmart, Abstract!TakeField, TakeField,
   Abstract!ScsiRead, ScsiRead, Abstract!NoField, NoField, Abstract!NoValue, NoValue,
   Abstract!Return, Return, Abstract!Explained, Explained, Abstract!Closed, Closed,
   Abstract!NoFd, NoFd

LEMMA SameQueries == \A dsk : Abstract!GetTemperature(dsk) = GetTemperature(dsk)
BY SameParts, SameAnswers, SameReads
   DEF Abstract!GetTemperature, GetTemperature, Abstract!SataGetTemperature,
   SataGetTemperature, Abstract!AtaGetTemperature, AtaGetTemperature,
   Abstract!ScsiGetTemperature, ScsiGetTemperature

LEMMA SeenIdle == ASSUME Inv, pc = "idle" PROVE Seen = disk
BY DEF Seen, Inv, TypeInv, TypeOK

LEMMA SeenInit == Init => Abstract!Init
<1> SUFFICES ASSUME Init PROVE Abstract!Init
  OBVIOUS
<1>1. Seen = disk
  BY InvInit, SeenIdle DEF Init
<1> QED
  BY <1>1, SameDisks DEF Init, Abstract!Init

\* Between two ioctls nothing is to be seen.
LEMMA SeenGoto ==
    ASSUME Inv, NEW label, Goto(label), pc # "idle", label # "idle"
    PROVE  Seen' = Seen
BY DEF Goto, track, Seen

LEMMA SeenFinish ==
    ASSUME Inv, NEW x, Finish(x), pc # "idle"
    PROVE  Seen' = [Seen EXCEPT ![cur] = x]
<1>1. /\ disk' = [disk EXCEPT ![cur] = x] /\ pc' = "idle" /\ cur' = cur /\ cur \in Drives
      /\ disk \in [Drives -> Disk]
  BY DEF Finish, Inv, TypeInv, TypeOK
<1>2. Seen' = [d \in Drives |-> disk'[d]]
  BY <1>1 DEF Seen
<1>3. \A d \in Drives : d # cur => Seen[d] = disk[d] /\ disk'[d] = disk[d]
  BY <1>1 DEF Seen
<1>4. disk'[cur] = x
  BY <1>1
<1>5. Seen = [d \in Drives |-> Seen[d]]
  BY DEF Seen
<1> QED
  BY <1>1, <1>2, <1>3, <1>4, <1>5

LEMMA SeenProbed == Inv /\ Probed => Abstract!Next \/ Seen' = Seen
<1> SUFFICES ASSUME Inv, Probed PROVE Abstract!Next \/ Seen' = Seen
  OBVIOUS
<1>1. pc \in Probing /\ pc # "idle" /\ "idle" \notin Probing /\ cur \in Drives
  BY DEF Probed, Probing, Inv, TypeInv, TypeOK
<1>2. CASE \E label \in Probing : Goto(label)
  BY <1>1, <1>2, SeenGoto
<1>3. CASE \E x \in Found : Finish(x)
  <2>1. PICK x \in Found : Finish(x)
    BY <1>3
  <2>2. Seen' = [Seen EXCEPT ![cur] = x]
    BY <1>1, <2>1, SeenFinish
  <2>3. Seen[cur] = NotCollected
    BY <1>1, NotCollectedIs DEF Inv, PhaseInv, Seen
  <2>4. CASE x = NotCollected
    <3>1. Seen = [d \in Drives |-> Seen[d]]
      BY DEF Seen
    <3> QED
      BY <2>2, <2>3, <2>4, <3>1
  <2>5. CASE x \in CollectedDisk
    <3>1. Abstract!Collect(cur)
      BY <2>2, <2>3, <2>5, SameDisks DEF Abstract!Collect
    <3> QED
      BY <1>1, <3>1 DEF Abstract!Next
  <2> QED
    BY <2>1, <2>4, <2>5 DEF Found
<1> QED
  BY <1>2, <1>3 DEF Probed

LEMMA SeenProgress == Inv /\ Progress => Abstract!Next \/ Seen' = Seen
<1> SUFFICES ASSUME Inv, Progress PROVE Abstract!Next \/ Seen' = Seen
  OBVIOUS
<1>1. "idle" \notin Querying /\ cur \in Drives
  BY DEF Querying, AtaQuery, ScsiRest, Inv, TypeInv, TypeOK
<1>2. ASSUME NEW label, Continued(label) PROVE Seen' = Seen
  BY <1>1, <1>2, SeenGoto DEF Continued
<1>3. ASSUME NEW x, Ended(x) PROVE Abstract!Next
  <2>1. pc \in Querying /\ pc # "idle" /\ Finish(x) /\ x \in GetTemperature(Forgotten(before))
    BY <1>1, <1>3 DEF Ended
  <2>2. Seen' = [Seen EXCEPT ![cur] = x]
    BY <2>1, SeenFinish
  <2>3. disk[cur].type # "ERROR" /\ before.type # "ERROR"
    <3>1. CASE pc \in AtaQuery \cup {"no_sensor"}
      BY <3>1, AtaPhase
    <3>2. CASE pc \in ScsiRest \cup {"smart_support"}
      <4>1. before.type # "ERROR" /\ Forgotten(before) \in Disk
            /\ Forgotten(before).type = "BUS_SCSI"
        BY <2>1, <3>2, ScsiPhase, ForgottenIs DEF Inv, PhaseInv
      <4> QED
        BY <3>2, <4>1, ScsiPhase, OwnEntryIs
    <3> QED
      BY <2>1, <3>1, <3>2 DEF Querying
  <2>4. Seen[cur] = before
    BY <1>1, <2>1, <2>3 DEF Seen
  <2>5. x \in Abstract!GetTemperature(Abstract!Asked(Seen[cur]))
    BY <2>1, <2>4, SameQueries, SameDisks
  <2>6. Abstract!Query(cur)
    BY <2>2, <2>3, <2>4, <2>5 DEF Abstract!Query
  <2> QED
    BY <1>1, <2>6 DEF Abstract!Next
<1> QED
  BY <1>2, <1>3 DEF Progress

LEMMA SeenMain ==
    ASSUME Inv, NEW d \in Drives, Drift(d) \/ OpenFails(d) \/ Open(d) \/ Begin(d)
    PROVE  Abstract!Next \/ Seen' = Seen
<1>0. disk \in [Drives -> Disk]
  BY DEF Inv, TypeInv, TypeOK
<1>1. CASE Drift(d)
  BY <1>1 DEF Drift, Seen
<1>2. CASE OpenFails(d)
  <2>1. /\ pc = "idle" /\ pc' = "idle" /\ disk[d] = NotCollected
        /\ disk' = [disk EXCEPT ![d] = NotOpened("ERROR")]
    BY <1>2 DEF OpenFails
  <2>2. Seen = disk /\ Seen' = disk'
    BY <1>0, <2>1, SeenIdle DEF Seen
  <2>0. NotOpened("ERROR") \in CollectedDisk
    BY DEF CollectedDisk
  <2>3. Abstract!Collect(d)
    BY <2>0, <2>1, <2>2, SameDisks DEF Abstract!Collect
  <2> QED
    BY <2>3 DEF Abstract!Next
<1>3. CASE Open(d)
  <2>1. /\ pc = "idle" /\ pc' # "idle" /\ cur' = d /\ disk[d] = NotCollected
        /\ disk' = [disk EXCEPT ![d].fd = "open"]
    BY <1>3, ModelIs, BusDriversAssumption DEF Open, Probing
  <2>2. disk'[d] = [NotCollected EXCEPT !.fd = "open"]
    BY <1>0, <2>1
  <2>3. disk'[d].type = "ERROR"
    BY <2>2, NotCollectedIs
  <2>4. \A e \in Drives : e # d => disk'[e] = disk[e]
    BY <1>0, <2>1
  <2>5. Seen = disk
    BY <2>1, SeenIdle
  <2>6. Seen' = [e \in Drives |-> disk[e]]
    BY <2>1, <2>3, <2>4 DEF Seen
  <2> QED
    BY <1>0, <2>5, <2>6
<1>4. CASE Begin(d)
  <2>1. /\ pc = "idle" /\ cur' = d /\ before' = disk[d] /\ disk[d].type # "ERROR"
        /\ disk' = [disk EXCEPT ![d] = Handed(disk[d])]
    BY <1>4, BeginIs
  <2>2. pc' # "idle"
    BY <1>4, <2>1, BeginIs
  <2>3. disk'[d].type # "ERROR"
    BY <1>0, <2>1, ForgottenIs, OwnEntryIs DEF Handed
  <2>4. \A e \in Drives : e # d => disk'[e] = disk[e]
    BY <1>0, <2>1
  <2>5. Seen = disk
    BY <2>1, SeenIdle
  <2>6. Seen' = [e \in Drives |-> disk[e]]
    BY <2>1, <2>2, <2>3, <2>4 DEF Seen
  <2> QED
    BY <1>0, <2>5, <2>6
<1> QED
  BY <1>1, <1>2, <1>3, <1>4

LEMMA SeenStep == Temps # {} /\ Inv /\ [Next]_vars => [Abstract!Next]_Seen
<1> SUFFICES ASSUME Temps # {}, Inv, [Next]_vars PROVE Abstract!Next \/ Seen' = Seen
  OBVIOUS
<1>1. CASE UNCHANGED vars
  BY <1>1 DEF vars, history, track, Seen
<1>2. CASE Driver
  BY <1>2, DriverStep, SeenProbed, SeenProgress
<1> QED
  BY <1>1, <1>2, SeenMain DEF Next

(***************************************************************************)
(* Ioctl by ioctl, whatever drives and kernel drivers answer and whoever   *)
(* has set errno, the drivers end every query as GetTemperature says, and  *)
(* touch no disk but the one they were called for (ata.c, sata.c, scsi.c   *)
(* against the callers of bus->get_temperature).                           *)
(***************************************************************************)
THEOREM DriversImplementQueries == ASSUME Temps # {} PROVE Spec => ImplementsQueries
<1>1. Inv /\ [Next]_vars => [Abstract!Next]_Seen
  BY SeenStep
<1> QED
  BY <1>1, SeenInit, Invariance, PTL DEF Spec, ImplementsQueries, Abstract!Spec

=============================================================================
