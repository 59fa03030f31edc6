------------------------ MODULE GetTemperatureProofs ------------------------
(***************************************************************************)
(* Lemmas about one query, used in the proofs about the daemon's cache and *)
(* about main(): what get_temperature leaves in a struct disk, whatever    *)
(* the drive and the kernel answer.                                        *)
(***************************************************************************)
EXTENDS GetTemperature, TLAPS

-----------------------------------------------------------------------------
(* What a query does to a struct disk. *)

\* A temperature is a number, and never the -1 that stands for no value.
LEMMA TempsAreValues == Temps \subseteq Int /\ NoValue \notin Temps
BY GetTemperatureAssumption DEF NoValue

\* A disk as BeginQuery hands it to get_temperature.
Asked(dsk) ==
    /\ dsk \in Disk
    /\ Coherent(dsk)
    /\ dsk.value = NoValue
    /\ ~dsk.measured

\* What holds of the disk that get_temperature leaves behind.
Answered(dsk, answer) ==
    /\ answer \in Disk
    /\ answer.type = dsk.type
    /\ Coherent(answer)
    /\ dsk.fd = NoFd => answer.fd = NoFd
    /\ answer.ret = "KNOWN" =>
          /\ answer.measured
          /\ answer.value \in Temps
          /\ answer.db_entry # "NULL"
          /\ answer.fd = "open"
    /\ answer.ret \in {"ERROR", "NOT_APPLICABLE"} => answer.errormsg # ""

(***************************************************************************)
(* From SMART ENABLE on, what the ATA and SATA drivers share, on the       *)
(* answers of an open or a closed descriptor.                              *)
(***************************************************************************)
LEMMA ReadSmartAnswered ==
    ASSUME NEW dsk, Asked(dsk), dsk.type \in {"BUS_SATA", "BUS_ATA"},
           NEW a \in AtaAnswers(dsk.fd)
    PROVE  Answered(dsk, ReadSmart(dsk, a))
<1> USE DEF Asked, Answered, Disk, Coherent, BusType, Verdict, NoFd, NoValue
<1>1. /\ a.enable \in {"ok", "EIO", "failed"}
      /\ a.values \in BOOLEAN
      /\ a.field \in Temps \cup {NoField}
      /\ dsk.fd = NoFd => a.enable = "failed"
  BY DEF AtaAnswers
<1>2. CASE a.enable = "EIO"
  BY <1>1, <1>2 DEF ReadSmart, Return, Closed, Explained
<1>3. CASE a.enable = "failed" \/ (a.enable = "ok" /\ ~a.values)
  BY <1>1, <1>3 DEF ReadSmart, Return, Closed, Explained
<1>4. CASE a.enable = "ok" /\ a.values
  <2>1. ReadSmart(dsk, a) = TakeField(dsk, a)
    BY <1>4 DEF ReadSmart
  <2>2. CASE a.field = NoField
    BY <1>1, <1>4, <2>1, <2>2 DEF TakeField, Return
  <2>3. CASE a.field # NoField
    <3>1. a.field \in Temps /\ a.field \in Int /\ a.field # NoValue
      BY <1>1, <2>3, TempsAreValues
    <3> QED
      BY <1>1, <1>4, <2>1, <2>3, <3>1 DEF TakeField, Return
  <2> QED
    BY <2>2, <2>3
<1> QED
  BY <1>1, <1>2, <1>3, <1>4

\* Every query ends with a coherent disk whose verdict is earned.
LEMMA QueryAnswered ==
    ASSUME NEW dsk, Asked(dsk), NEW answer \in GetTemperature(dsk)
    PROVE  Answered(dsk, answer)
<1>0. dsk.type \in {"BUS_SATA", "BUS_ATA"} =>
         \A a \in AtaAnswers(dsk.fd) : Answered(dsk, ReadSmart(dsk, a))
  BY ReadSmartAnswered
<1> USE DEF Asked, Answered, Disk, Coherent, BusType, Verdict, NoFd, NoValue
<1>1. CASE dsk.type = "ERROR"
  BY <1>1 DEF GetTemperature, Return
<1>2. CASE dsk.type = "BUS_SATA"
  <2>1. answer \in SataGetTemperature(dsk)
    BY <1>2 DEF GetTemperature
  <2>2. CASE dsk.db_entry = "attribute0"
    BY <1>2, <2>1, <2>2 DEF SataGetTemperature, Return, Closed
  <2>3. CASE dsk.db_entry # "attribute0"
    <3>1. PICK a \in AtaAnswers(dsk.fd) :
             answer = IF LeftAsleep(a) THEN Return(dsk, "DRIVE_SLEEP")
                                       ELSE ReadSmart(dsk, a)
      BY <2>1, <2>3 DEF SataGetTemperature
    <3>2. CASE LeftAsleep(a)
      <4>1. dsk.fd # NoFd
        BY <3>2 DEF LeftAsleep, AtaAnswers
      <4> QED
        BY <1>2, <3>1, <3>2, <4>1 DEF Return
    <3>3. CASE ~LeftAsleep(a)
      BY <1>2, <3>1, <3>3, <1>0
    <3> QED
      BY <3>2, <3>3
  <2> QED
    BY <2>2, <2>3
<1>3. CASE dsk.type = "BUS_ATA"
  <2>1. answer \in AtaGetTemperature(dsk)
    BY <1>3 DEF GetTemperature
  <2>2. CASE dsk.db_entry = "attribute0"
    BY <1>3, <2>1, <2>2 DEF AtaGetTemperature, Return, Closed
  <2>3. CASE dsk.db_entry # "attribute0"
    <3>1. PICK a \in AtaAnswers(dsk.fd) :
             answer = CASE a.packet ->
                             Return(Explained(dsk, "S.M.A.R.T."), "NOT_APPLICABLE")
                        [] ~a.packet /\ LeftAsleep(a) ->
                             Return(dsk, "DRIVE_SLEEP")
                        [] ~a.packet /\ ~LeftAsleep(a) ->
                             ReadSmart(dsk, a)
      BY <2>1, <2>3 DEF AtaGetTemperature
    <3>2. a.packet \in BOOLEAN /\ (dsk.fd = NoFd => ~a.packet /\ ~LeftAsleep(a))
      BY DEF AtaAnswers, LeftAsleep
    <3>3. CASE a.packet
      BY <1>3, <3>1, <3>2, <3>3 DEF Return, Explained
    <3>4. CASE ~a.packet /\ LeftAsleep(a)
      BY <1>3, <3>1, <3>2, <3>4 DEF Return
    <3>5. CASE ~a.packet /\ ~LeftAsleep(a)
      <4>1. answer = ReadSmart(dsk, a)
        BY <3>1, <3>5
      <4> QED
        BY <1>3, <4>1, <1>0
    <3> QED
      BY <3>2, <3>3, <3>4, <3>5
  <2> QED
    BY <2>2, <2>3
<1>4. CASE dsk.type = "BUS_SCSI"
  <2>1. PICK a \in ScsiAnswers(dsk.fd) : answer = ScsiRead(OwnEntry(dsk), a)
    BY <1>4 DEF GetTemperature, ScsiGetTemperature
  <2>2. /\ a.smart \in BOOLEAN /\ a.enabled \in BOOLEAN /\ a.pages \in BOOLEAN
        /\ a.temperature \in {"none", "failed", "ok"}
        /\ a.temp \in Temps /\ a.temp \in Int
        /\ dsk.fd = NoFd => ~a.smart
    BY TempsAreValues DEF ScsiAnswers
  <2>3. CASE ~a.smart
    BY <1>4, <2>1, <2>2, <2>3
       DEF ScsiRead, OwnEntry, Return, Closed, Explained
  <2>4. CASE a.smart /\ (~a.enabled \/ ~a.pages \/ a.temperature = "failed")
    BY <1>4, <2>1, <2>2, <2>4
       DEF ScsiRead, OwnEntry, Return, Closed, Explained
  <2>5. CASE a.smart /\ a.enabled /\ a.pages /\ a.temperature = "none"
    BY <1>4, <2>1, <2>2, <2>5 DEF ScsiRead, OwnEntry, Return
  <2>6. CASE a.smart /\ a.enabled /\ a.pages /\ a.temperature = "ok"
    BY <1>4, <2>1, <2>2, <2>6 DEF ScsiRead, OwnEntry, Return
  <2> QED
    BY <2>2, <2>3, <2>4, <2>5, <2>6
<1> QED
  BY <1>1, <1>2, <1>3, <1>4

-----------------------------------------------------------------------------
(* The disks main() collects. *)

LEMMA CollectedDiskCoherent ==
    ASSUME NEW dsk \in CollectedDisk
    PROVE  dsk \in Disk /\ Coherent(dsk) /\ dsk.ret = "ERROR"
<1>1. ASSUME NEW type \in {"BUS_SATA", "BUS_ATA", "BUS_SCSI"},
             NEW entry \in {"NULL", "attribute", "attribute0"}
      PROVE  Opened(type, entry) \in Disk
  BY DEF Opened, Disk, BusType, Verdict, NoFd, NoValue
<1>2. NotOpened("ERROR") \in Disk
  BY DEF NotOpened, Disk, BusType, Verdict, NoFd
<1>3. Coherent(NotOpened("ERROR")) /\ Coherent(Opened("BUS_SCSI", "NULL"))
  BY DEF NotOpened, Opened, Coherent, NoFd
<1>4. ASSUME NEW type \in {"BUS_SATA", "BUS_ATA"},
             NEW entry \in {"attribute", "attribute0"}
      PROVE  Coherent(Opened(type, entry))
  BY DEF Opened, Coherent, NoFd
<1>5. NotOpened("ERROR").ret = "ERROR"
  BY DEF NotOpened
<1>6. \A type, entry : Opened(type, entry).ret = "ERROR"
  BY DEF Opened
<1>7. CASE dsk = NotOpened("ERROR")
  BY <1>2, <1>3, <1>5, <1>7
<1>8. CASE dsk = Opened("BUS_SCSI", "NULL")
  BY <1>1, <1>3, <1>6, <1>8
<1>9. ASSUME NEW type \in {"BUS_SATA", "BUS_ATA"},
             NEW entry \in {"attribute", "attribute0"},
             dsk = Opened(type, entry)
      PROVE  dsk \in Disk /\ Coherent(dsk) /\ dsk.ret = "ERROR"
  BY <1>1, <1>4, <1>6, <1>9
<1> QED
  BY <1>7, <1>8, <1>9 DEF CollectedDisk

=============================================================================
