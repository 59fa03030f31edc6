-------------------------- MODULE DiskCacheProofs ---------------------------
(***************************************************************************)
(* Proofs about DiskCache: Inv is an inductive invariant, for any number   *)
(* of disks, any DELAY, any wander of the wall clock smaller than the year *)
(* (YearAssumption) and any set of temperatures; the safety properties of  *)
(* DiskCache follow from it.                                               *)
(***************************************************************************)
EXTENDS DiskCache, GetTemperatureProofs

-----------------------------------------------------------------------------
(* The inductive invariant. *)

\* The numbers the parameters stand for, as facts about integers.
LEMMA Parameters ==
    /\ NDisks \in Nat /\ DELAY \in Nat /\ YEAR \in Nat /\ MaxSkew \in Nat
    /\ YEAR > DELAY + 2 * MaxSkew
    /\ Callers \subseteq {"tcp", "syslog"}
BY DiskCacheAssumption, YearAssumption

\* A disk that main() hands over is coherent, and was "asked" a year ago.
LEMMA InitialDiskCoherent ==
    ASSUME NEW t \in Int, NEW x \in InitialDisk(t)
    PROVE  /\ x \in Disk /\ Coherent(x)
           /\ x.ret = "ERROR" /\ x.last_time = t - YEAR
<1>1. PICK dsk \in CollectedDisk : x = [dsk EXCEPT !.last_time = StartTime(t)]
  BY DEF InitialDisk
<1>2. dsk \in Disk /\ Coherent(dsk) /\ dsk.ret = "ERROR"
  BY CollectedDiskCoherent
<1>3. StartTime(t) = t - YEAR /\ t - YEAR \in Int
  BY Parameters DEF StartTime
<1> QED
  BY <1>1, <1>2, <1>3 DEF Disk, Coherent

\* Init establishes the invariant.
LEMMA InvInit == Init => Inv
<1> SUFFICES ASSUME Init PROVE Inv
  OBVIOUS
<1> USE Parameters
<1>1. now = 0 /\ skew \in Skews /\ Clock \in Int /\ Clock <= MaxSkew
  BY DEF Init, Clock, Skews
<1>2. \A d \in Disks : disk[d] \in InitialDisk(Clock)
  BY DEF Init
<1>3. \A x \in InitialDisk(Clock) :
         /\ x \in Disk /\ Coherent(x)
         /\ x.ret = "ERROR" /\ x.last_time = Clock - YEAR
  BY <1>1, InitialDiskCoherent
<1>4. TypeOK
  BY <1>1, <1>2, <1>3 DEF Init, TypeOK, Skews
<1>5. StampsInv
  BY <1>1, <1>2, <1>3 DEF Init, StampsInv
<1>6. LoopInv
  BY DEF Init, LoopInv
<1>7. DisksInv
  BY <1>2, <1>3 DEF Init, DisksInv
<1>8. KnownIsMeasured
  BY <1>2, <1>3 DEF Init, KnownIsMeasured
<1> QED
  BY <1>4, <1>5, <1>6, <1>7, <1>8 DEF Inv

(***************************************************************************)
(* The two environment actions and the two loop actions that leave the     *)
(* disks alone.  Reuse is where the year matters: a disk that has never    *)
(* answered is not within DELAY.                                           *)
(***************************************************************************)
LEMMA TickInv == Inv /\ Tick => Inv'
<1> SUFFICES ASSUME Inv, Tick PROVE Inv'
  OBVIOUS
<1> USE Parameters DEF Inv, Tick, history
<1>1. TypeOK'
  BY DEF TypeOK
<1>2. StampsInv'
  BY DEF TypeOK, StampsInv
<1>3. LoopInv'
  BY DEF LoopInv, Fresh
<1>4. DisksInv' /\ KnownIsMeasured'
  BY DEF DisksInv, KnownIsMeasured, InQuery
<1> QED
  BY <1>1, <1>2, <1>3, <1>4

LEMMA AdjustClockInv == Inv /\ AdjustClock => Inv'
<1> SUFFICES ASSUME Inv, AdjustClock PROVE Inv'
  OBVIOUS
<1> USE DEF Inv, AdjustClock, history
<1>1. TypeOK'
  BY DEF TypeOK
<1>2. StampsInv'
  BY DEF StampsInv
<1>3. LoopInv'
  BY DEF LoopInv, Fresh
<1>4. DisksInv' /\ KnownIsMeasured'
  BY DEF DisksInv, KnownIsMeasured, InQuery
<1> QED
  BY <1>1, <1>2, <1>3, <1>4

LEMMA AskInv == Inv /\ (\E c \in Callers : Ask(c)) => Inv'
<1> SUFFICES ASSUME Inv, NEW c \in Callers, Ask(c) PROVE Inv'
  OBVIOUS
<1> USE Parameters DEF Inv, Ask, clocks
<1>1. TypeOK'
  BY DEF TypeOK
<1>2. StampsInv'
  BY DEF TypeOK, StampsInv
<1>3. LoopInv'
  BY DEF LoopInv, Disks
<1>4. DisksInv' /\ KnownIsMeasured'
  BY DEF DisksInv, KnownIsMeasured, InQuery
<1> QED
  BY <1>1, <1>2, <1>3, <1>4

LEMMA ReuseInv == Inv /\ Reuse => Inv'
<1> SUFFICES ASSUME Inv, Reuse PROVE Inv'
  OBVIOUS
<1> USE Parameters DEF Inv, Reuse, clocks, history
<1>1. TypeOK'
  BY DEF TypeOK, Disks
<1>2. StampsInv'
  BY DEF StampsInv
<1>3. LoopInv'
  <2>1. Fresh(cur)
    <3> DEFINE last == disk[cur].last_time
    <3>1. /\ now \in Nat /\ skew \in Int /\ -MaxSkew <= skew /\ skew <= MaxSkew
          /\ last \in Int /\ began \in Nat /\ asked[cur] \in Nat
          /\ queried[cur] \in BOOLEAN
      <4>1. cur \in Disks /\ disk[cur] \in Disk
        BY DEF TypeOK
      <4>2. last \in Int
        BY <4>1 DEF Disk
      <4> QED
        BY <4>1, <4>2 DEF TypeOK, Skews
    <3>2. caller # "syslog" /\ now + skew - last <= DELAY
      BY <3>1 DEF Stale, Expired, Clock
    <3>3. began <= now
      BY DEF StampsInv
    <3>4. queried[cur]
      <4>1. ~queried[cur] => last <= MaxSkew - YEAR
        BY DEF StampsInv
      <4> QED
        BY <3>1, <3>2, <4>1
    <3>5. last - asked[cur] <= MaxSkew
      BY <3>1, <3>4 DEF StampsInv, Skews
    <3> HIDE DEF last
    <3>6. asked[cur] >= began - DELAY - 2 * MaxSkew
      BY <3>1, <3>2, <3>3, <3>5
    <3> QED
      BY <3>2, <3>4, <3>6 DEF Fresh
  <2>2. \A d \in Disks : d < cur + 1 => d < cur \/ d = cur
    BY DEF Disks, TypeOK
  <2> QED
    BY <2>1, <2>2 DEF LoopInv, Fresh
<1>4. DisksInv' /\ KnownIsMeasured'
  BY DEF DisksInv, KnownIsMeasured, InQuery
<1> QED
  BY <1>1, <1>2, <1>3, <1>4

(***************************************************************************)
(* The query of one disk: BeginQuery forgets the old reading, EndQuery     *)
(* takes whatever get_temperature returns and stamps it.                   *)
(***************************************************************************)
LEMMA ForgetDisk ==
    ASSUME NEW dsk \in Disk
    PROVE  /\ Forget(dsk) \in Disk
           /\ Forget(dsk).value = NoValue
           /\ Forget(dsk).measured = FALSE
           /\ Forget(dsk).last_time = dsk.last_time
           /\ Forget(dsk).ret = dsk.ret
           /\ Coherent(dsk) => Coherent(Forget(dsk))
<1>1. Forget(dsk) \in Disk
  <2>1. ASSUME NEW v \in Int
        PROVE  [dsk EXCEPT !.value = v, !.measured = FALSE] \in Disk
    BY DEF Disk
  <2>2. NoValue \in Int
    BY DEF NoValue
  <2> QED
    BY <2>1, <2>2 DEF Forget
<1>2. /\ Forget(dsk).value = NoValue
      /\ Forget(dsk).measured = FALSE
      /\ Forget(dsk).last_time = dsk.last_time
      /\ Forget(dsk).ret = dsk.ret
  BY DEF Forget, Disk
<1>3. Coherent(dsk) => Coherent(Forget(dsk))
  BY DEF Forget, Disk, Coherent
<1> QED
  BY <1>1, <1>2, <1>3

LEMMA BeginQueryInv == Inv /\ BeginQuery => Inv'
<1> SUFFICES ASSUME Inv, BeginQuery PROVE Inv'
  OBVIOUS
<1> USE Parameters DEF Inv, BeginQuery, clocks, history
<1>1. /\ pc = "update" /\ cur \in Disks /\ disk[cur] \in Disk
      /\ disk' = [disk EXCEPT ![cur] = Forget(disk[cur])]
  BY DEF TypeOK
<1>2. /\ Forget(disk[cur]) \in Disk
      /\ Forget(disk[cur]).value = NoValue
      /\ Forget(disk[cur]).measured = FALSE
      /\ Forget(disk[cur]).last_time = disk[cur].last_time
      /\ Coherent(disk[cur]) => Coherent(Forget(disk[cur]))
  BY <1>1, ForgetDisk
<1>3. Forget(disk[cur]).ret = disk[cur].ret
  BY <1>1, ForgetDisk
<1>4. TypeOK'
  BY <1>1, <1>2 DEF TypeOK
<1>5. StampsInv'
  BY <1>1, <1>2 DEF TypeOK, StampsInv
<1>6. LoopInv'
  BY <1>1, <1>2 DEF TypeOK, LoopInv, Fresh
<1>7. DisksInv'
  BY <1>1, <1>2, <1>3 DEF TypeOK, DisksInv, InQuery
<1>8. KnownIsMeasured'
  BY <1>1, <1>2 DEF TypeOK, KnownIsMeasured, InQuery
<1> QED
  BY <1>4, <1>5, <1>6, <1>7, <1>8

\* EndQuery as a step on one disk: what it leaves there is fresh and earned.
LEMMA EndQueryAnswered ==
    ASSUME Inv, EndQuery
    PROVE  \E new :
              /\ disk' = [disk EXCEPT ![cur] = new]
              /\ Answered(disk[cur], new)
              /\ new.last_time = now + skew
<1>1. PICK answer \in GetTemperature(disk[cur]) :
         disk' = [disk EXCEPT ![cur] = Stamped(answer, Clock)]
  BY DEF EndQuery
<1>2. Asked(disk[cur])
  BY DEF Inv, TypeOK, LoopInv, DisksInv, Asked, EndQuery
<1>3. Answered(disk[cur], answer)
  BY <1>1, <1>2, QueryAnswered
<1>4. Clock = now + skew /\ Clock \in Int
  BY Parameters DEF Inv, TypeOK, Clock, Skews
<1>5. Answered(disk[cur], Stamped(answer, Clock))
  BY <1>3, <1>4 DEF Answered, Stamped, Disk, Coherent
<1>6. Stamped(answer, Clock).last_time = now + skew
  BY <1>3, <1>4 DEF Answered, Stamped, Disk
<1> QED
  BY <1>1, <1>5, <1>6

LEMMA EndQueryInv == Inv /\ EndQuery => Inv'
<1> SUFFICES ASSUME Inv, EndQuery PROVE Inv'
  OBVIOUS
<1> USE Parameters DEF EndQuery, clocks
<1>1. PICK new :
         /\ disk' = [disk EXCEPT ![cur] = new]
         /\ Answered(disk[cur], new)
         /\ new.last_time = now + skew
  BY EndQueryAnswered
<1>2. TypeOK /\ StampsInv /\ LoopInv /\ DisksInv /\ KnownIsMeasured
  BY DEF Inv
<1>3. /\ pc = "query" /\ cur \in Disks /\ disk \in [Disks -> Disk]
      /\ now \in Nat /\ skew \in Skews /\ began \in Nat /\ began <= now
      /\ asked \in [Disks -> Nat] /\ queried \in [Disks -> BOOLEAN]
  BY <1>2 DEF TypeOK, LoopInv, StampsInv
<1>4. TypeOK'
  <2>1. disk' \in [Disks -> Disk]
    BY <1>1, <1>3 DEF Answered
  <2>2. cur' \in 1..(NDisks + 1)
    BY <1>3 DEF Disks
  <2>3. asked' \in [Disks -> Nat] /\ queried' \in [Disks -> BOOLEAN]
    BY <1>3
  <2> QED
    BY <1>2, <1>3, <2>1, <2>2, <2>3 DEF TypeOK
<1>5. StampsInv'
  <2> SUFFICES ASSUME NEW d \in Disks
               PROVE  /\ asked'[d] <= now
                      /\ queried'[d] => disk'[d].last_time - asked'[d] \in Skews
                      /\ ~queried'[d] => disk'[d].last_time <= MaxSkew - YEAR
    BY <1>3 DEF StampsInv, Skews
  <2>1. CASE d = cur
    BY <1>1, <1>3, <2>1 DEF Skews
  <2>2. CASE d # cur
    BY <1>1, <1>2, <1>3, <2>2 DEF StampsInv
  <2> QED
    BY <2>1, <2>2
<1>6. LoopInv'
  <2>1. ASSUME NEW d \in Disks, d < cur + 1 PROVE Fresh(d)'
    <3>1. CASE d = cur
      BY <1>3, <3>1 DEF Fresh
    <3>2. CASE d # cur
      <4>1. d < cur
        BY <1>3, <2>1, <3>2 DEF Disks
      <4> QED
        BY <1>2, <1>3, <3>2, <4>1 DEF LoopInv, Fresh
    <3> QED
      BY <3>1, <3>2
  <2>2. report' = <<>>
    BY <1>2 DEF LoopInv
  <2> QED
    BY <1>3, <2>1, <2>2 DEF LoopInv
<1>7. DisksInv'
  BY <1>1, <1>2, <1>3 DEF DisksInv, InQuery, Answered
<1>8. KnownIsMeasured'
  BY <1>1, <1>2, <1>3 DEF KnownIsMeasured, InQuery, Answered
<1> QED
  BY <1>4, <1>5, <1>6, <1>7, <1>8 DEF Inv

LEMMA OutOfMemoryInv == Inv /\ OutOfMemory => Inv'
<1> SUFFICES ASSUME Inv, OutOfMemory PROVE Inv'
  OBVIOUS
<1> USE DEF Inv, OutOfMemory, clocks, history
<1>1. TypeOK'
  BY DEF TypeOK
<1>2. StampsInv'
  BY DEF StampsInv
<1>3. LoopInv'
  BY DEF LoopInv, Fresh
<1>4. DisksInv' /\ KnownIsMeasured'
  BY DEF DisksInv, KnownIsMeasured, InQuery
<1> QED
  BY <1>1, <1>2, <1>3, <1>4

LEMMA ReportInv == Inv /\ Report => Inv'
<1> SUFFICES ASSUME Inv, Report PROVE Inv'
  OBVIOUS
<1> USE Parameters DEF Inv, Report, clocks, history
<1>1. TypeOK'
  BY DEF TypeOK
<1>2. StampsInv'
  BY DEF StampsInv
<1>3. LoopInv'
  <2>1. \A d \in Disks : d < cur
    BY DEF Disks
  <2>2. \A d \in Disks : Fresh(d)'
    BY <2>1 DEF LoopInv, Fresh
  <2>3. report' = [d \in Disks |-> Line(disk[d], caller)]'
    BY DEF Line
  <2>4. pc' = "idle"
    OBVIOUS
  <2> QED
    BY <2>2, <2>3, <2>4 DEF LoopInv
<1>4. DisksInv' /\ KnownIsMeasured'
  BY DEF DisksInv, KnownIsMeasured, InQuery
<1> QED
  BY <1>1, <1>2, <1>3, <1>4

\* Every step of the daemon and of its environment keeps the invariant.
LEMMA InvNext == Inv /\ [Next]_vars => Inv'
<1> SUFFICES ASSUME Inv, [Next]_vars PROVE Inv'
  OBVIOUS
<1>1. CASE UNCHANGED vars
  BY <1>1 DEF vars, Inv, TypeOK, StampsInv, LoopInv, Fresh, DisksInv,
              KnownIsMeasured, InQuery
<1> QED
  BY <1>1, TickInv, AdjustClockInv, AskInv, ReuseInv, BeginQueryInv, EndQueryInv,
     OutOfMemoryInv, ReportInv
     DEF Next

-----------------------------------------------------------------------------
(* The theorems. *)

\* Inv holds in every state daemon mode reaches.
THEOREM Invariance == Spec => []Inv
<1>1. Init => Inv
  BY InvInit
<1>2. Inv /\ [Next]_vars => Inv'
  BY InvNext
<1> QED
  BY <1>1, <1>2, PTL DEF Spec

\* The struct disks, the loop position and the stamps keep their types.
THEOREM TypeCorrectness == Spec => []TypeOK
<1>1. Inv => TypeOK
  BY DEF Inv
<1> QED
  BY <1>1, Invariance, PTL

(***************************************************************************)
(* A reader is never given a reading older than DELAY and the movements of *)
(* the clock allow, and the log only what was read for it.                 *)
(***************************************************************************)
THEOREM BoundedStaleness == Spec => []StalenessBound
<1>1. Inv => StalenessBound
  BY DEF Inv, LoopInv, Fresh, StalenessBound
<1> QED
  BY <1>1, Invariance, PTL

\* No verdict is reported of a disk that has not been asked.
THEOREM EveryDiskQueried == Spec => []NothingUnqueried
<1>1. Inv => NothingUnqueried
  BY DEF Inv, LoopInv, Fresh, NothingUnqueried
<1> QED
  BY <1>1, Invariance, PTL

\* A temperature on display was read by the latest query of its drive.
THEOREM KnownWasMeasured == Spec => []KnownIsMeasured
<1>1. Inv => KnownIsMeasured
  BY DEF Inv
<1> QED
  BY <1>1, Invariance, PTL

\* A failure in the log comes with its reason.
THEOREM FailuresAreExplained == Spec => []FailuresExplained
<1>1. Inv => FailuresExplained
  <2> SUFFICES ASSUME Inv, report # <<>>, NEW d \in Disks, report[d].says = "error"
               PROVE  report[d].why # ""
    BY DEF FailuresExplained
  <2>1. report[d] = Line(disk[d], caller) /\ queried[d] /\ ~InQuery(d)
    BY DEF Inv, LoopInv, Fresh, InQuery
  <2>2. disk[d].ret \in Verdict /\ caller \in {"tcp", "syslog"}
    BY DEF Inv, TypeOK, Disk
  <2>3. disk[d].ret \in {"ERROR", "NOT_APPLICABLE"} /\ caller = "syslog"
    BY <2>1, <2>2 DEF Line, Verdict
  <2>4. report[d].why = disk[d].errormsg
    BY <2>1, <2>3 DEF Line
  <2> QED
    BY <2>1, <2>3, <2>4 DEF Inv, DisksInv
<1> QED
  BY <1>1, Invariance, PTL

(***************************************************************************)
(* No drive is asked more often than every DELAY on behalf of clients,     *)
(* less what the clock was moved.                                          *)
(***************************************************************************)
THEOREM RateIsLimited == Spec => RateLimit
<1>1. ASSUME Inv, [Next]_vars, NEW d \in Disks,
             ~InQuery(d), InQuery(d)', caller = "tcp", queried[d]
      PROVE  now - asked[d] > DELAY - 2 * MaxSkew
  <2> DEFINE last == disk[d].last_time
  <2>1. BeginQuery /\ d = cur
    BY <1>1 DEF Next, vars, clocks, history, InQuery, Tick, AdjustClock, Ask, Reuse,
                BeginQuery, EndQuery, OutOfMemory, Report
  <2>2. /\ now \in Nat /\ skew \in Int /\ skew <= MaxSkew
        /\ last \in Int /\ asked[d] \in Nat
    <3>1. disk[d] \in Disk
      BY <1>1 DEF Inv, TypeOK
    <3>2. last \in Int
      BY <3>1 DEF Disk
    <3> QED
      BY <1>1, <3>2, Parameters DEF Inv, TypeOK, Skews
  <2>3. now + skew - last > DELAY
    <3>1. Stale(d)
      BY <2>1 DEF BeginQuery
    <3>2. caller # "syslog"
      BY <1>1
    <3>3. Expired(d)
      BY <3>1, <3>2 DEF Stale
    <3> QED
      BY <2>2, <3>3, Parameters DEF Expired, Clock
  <2>4. -MaxSkew <= last - asked[d]
    BY <1>1 DEF Inv, StampsInv, Skews
  <2> HIDE DEF last
  <2> QED
    BY <2>2, <2>3, <2>4, Parameters
<1>2. Inv /\ [Next]_vars =>
         [\A d \in Disks :
             ~InQuery(d) /\ InQuery(d)' /\ caller = "tcp" /\ queried[d]
                 => now - asked[d] > DELAY - 2 * MaxSkew]_vars
  BY <1>1
<1> QED
  BY <1>2, Invariance, PTL DEF Spec, RateLimit

\* A drive that was given up is never heard of again.
THEOREM GivenUpForGood == Spec => LostForever
<1>1. ASSUME Inv, Next, NEW d \in Disks, disk[d].fd = NoFd
      PROVE  disk'[d].fd = NoFd
  <2>1. CASE UNCHANGED disk
    BY <1>1, <2>1
  <2>2. CASE BeginQuery
    BY <1>1, <2>2 DEF BeginQuery, Forget, Inv, TypeOK, Disk
  <2>3. CASE EndQuery
    BY <1>1, <2>3, EndQueryAnswered DEF Answered, Inv, TypeOK
  <2> QED
    BY <1>1, <2>1, <2>2, <2>3
       DEF Next, clocks, Tick, AdjustClock, Ask, Reuse, OutOfMemory, Report
<1>2. ASSUME Inv', NEW d \in Disks, disk'[d].fd = NoFd
      PROVE  disk'[d].ret \notin {"KNOWN", "UNKNOWN", "DRIVE_SLEEP"}
  BY <1>2 DEF Inv, DisksInv, Coherent
<1>3. Inv /\ Inv' /\ [Next]_vars =>
         [\A d \in Disks : disk[d].fd = NoFd =>
             /\ disk'[d].fd = NoFd
             /\ disk'[d].ret \notin {"KNOWN", "UNKNOWN", "DRIVE_SLEEP"}]_vars
  BY <1>1, <1>2
<1> QED
  BY <1>3, Invariance, PTL DEF Spec, LostForever

=============================================================================
