----------------------------- MODULE DiskCache ------------------------------
(***************************************************************************)
(* The daemon's cache of readings: daemon_update, and the two callers that *)
(* report the cached disks, daemon_send_msg for a TCP client and           *)
(* daemon_syslog for the log (daemon.c).                                   *)
(*                                                                         *)
(* The cache is timed by time(NULL), the wall clock.  The model keeps the  *)
(* true time in now and the error of the wall clock in skew, which an      *)
(* administrator or an NTP daemon may change at any moment.                *)
(***************************************************************************)
EXTENDS GetTemperature

CONSTANTS
    NDisks,    \* length of the list ldisks; a disk is its position in it
    DELAY,     \* readings at most this old are served again (DELAY)
    YEAR,      \* how far back last_time starts
    MaxSkew,   \* the wall clock is wrong by at most this much
    MaxNow,    \* bound on the true time
    Callers    \* which of daemon_send_msg ("tcp") and daemon_syslog run

ASSUME DiskCacheAssumption ==
    /\ NDisks \in Nat
    /\ DELAY \in Nat
    /\ YEAR \in Nat
    /\ MaxSkew \in Nat
    /\ MaxNow \in Nat
    /\ Callers \subseteq {"tcp", "syslog"}

(***************************************************************************)
(* The clock is never set back by as much as a year: what daemon mode      *)
(* needs for its start value of last_time to mean "long ago".              *)
(***************************************************************************)
ASSUME YearAssumption == YEAR > DELAY + 2 * MaxSkew

VARIABLES
    now,       \* true time
    skew,      \* wall clock minus true time
    disk,      \* disk[d]: the d-th struct disk of ldisks
    pc,        \* where the daemon is in daemon_update and its callers
    caller,    \* who called daemon_update: nocache is 1 for "syslog"
    cur,       \* the disk the loop is at
    report,    \* the lines of the latest report; <<>> while none is complete
    began,     \* history: true time at which the latest report was asked for
    asked,     \* history: asked[d] is the true time d last answered
    queried    \* history: queried[d], d has answered since the daemon started

vars == <<now, skew, disk, pc, caller, cur, report, began, asked, queried>>
clocks == <<now, skew>>
history == <<began, asked, queried>>

Disks == 1..NDisks
Skews == -MaxSkew..MaxSkew

\* time(NULL)
Clock == now + skew

(***************************************************************************)
(* What a reader sees of a disk.  The log does not tell an unknown drive   *)
(* from one without a sensor, and gives the reason of a failure, which the *)
(* TCP reply does not.                                                     *)
(***************************************************************************)
Line(dsk, c) ==
    CASE dsk.ret = "KNOWN" ->
            [says |-> "temperature", temp |-> dsk.value]
      [] dsk.ret = "DRIVE_SLEEP" ->
            [says |-> "SLP"]
      [] dsk.ret \in {"NOSENSOR", "UNKNOWN"} /\ c = "syslog" ->
            [says |-> "no_sensor"]
      [] dsk.ret = "NOSENSOR" /\ c = "tcp" ->
            [says |-> "NOS"]
      [] dsk.ret = "UNKNOWN" /\ c = "tcp" ->
            [says |-> "UNK"]
      [] dsk.ret = "NOT_APPLICABLE" /\ c = "tcp" ->
            [says |-> "NA"]
      [] dsk.ret = "ERROR" /\ c = "tcp" ->
            [says |-> "ERR"]
      [] dsk.ret \in {"ERROR", "NOT_APPLICABLE"} /\ c = "syslog" ->
            [says |-> "error", why |-> dsk.errormsg]

-----------------------------------------------------------------------------
(***************************************************************************)
(* The disks as main() leaves them, with the timers do_daemon_mode gives   *)
(* them: a year back, give or take the time zone, since mktime() reads     *)
(* gmtime()'s fields as local time.                                        *)
(***************************************************************************)
StartTime_now(t) == t   \* mutant: a disk counts as asked when the daemon starts
StartTime(t) == t - YEAR

InitialDisk(t) == {[dsk EXCEPT !.last_time = StartTime(t)] : dsk \in CollectedDisk}

Init ==
    /\ now = 0
    /\ skew \in Skews
    /\ disk \in [Disks -> InitialDisk(Clock)]
    /\ pc = "idle"
    /\ caller \in Callers
    /\ cur = 1
    /\ report = <<>>
    /\ began = 0
    /\ asked = [d \in Disks |-> 0]
    /\ queried = [d \in Disks |-> FALSE]

-----------------------------------------------------------------------------
(* The environment: time passes, and the wall clock is set. *)

Tick ==
    /\ now < MaxNow
    /\ now' = now + 1
    /\ UNCHANGED <<skew, disk, pc, caller, cur, report, history>>

AdjustClock ==
    /\ skew' \in Skews
    /\ UNCHANGED <<now, disk, pc, caller, cur, report, history>>

-----------------------------------------------------------------------------
(* The daemon. *)

\* A client was accepted, or the syslog interval is over.
Ask(c) ==
    /\ pc = "idle"
    /\ pc' = "update"
    /\ caller' = c
    /\ cur' = 1
    /\ report' = <<>>
    /\ began' = now
    /\ UNCHANGED <<clocks, disk, asked, queried>>

\* nocache || difftime(time(NULL), dsk->last_time) > DELAY
Expired(d) == Clock - disk[d].last_time > DELAY

Stale_cached(d) == Expired(d)   \* mutant: the log is served from the cache
Stale(d) == caller = "syslog" \/ Expired(d)

\* The disk's reading is recent enough.
Reuse ==
    /\ pc = "update"
    /\ cur \in Disks
    /\ ~Stale(cur)
    /\ cur' = cur + 1
    /\ UNCHANGED <<clocks, disk, pc, caller, report, history>>

\* dsk->value = -1, and the call of get_temperature.
\* (Mutant: the value of the previous query is kept.)
Forget_keepsValue(dsk) == [dsk EXCEPT !.measured = FALSE]
Forget(dsk) == [dsk EXCEPT !.value = NoValue, !.measured = FALSE]

BeginQuery ==
    /\ pc = "update"
    /\ cur \in Disks
    /\ Stale(cur)
    /\ disk' = [disk EXCEPT ![cur] = Forget(@)]
    /\ pc' = "query"
    /\ UNCHANGED <<clocks, caller, cur, report, history>>

\* get_temperature returns; time(&dsk->last_time).  (Mutant: only a query
\* that succeeds is remembered.)
Stamped_successOnly(dsk, t) ==
    IF dsk.ret = "KNOWN" THEN [dsk EXCEPT !.last_time = t] ELSE dsk
Stamped(dsk, t) == [dsk EXCEPT !.last_time = t]

EndQuery ==
    /\ pc = "query"
    /\ \E answer \in GetTemperature(disk[cur]) :
          disk' = [disk EXCEPT ![cur] = Stamped(answer, Clock)]
    /\ asked' = [asked EXCEPT ![cur] = now]
    /\ queried' = [queried EXCEPT ![cur] = TRUE]
    /\ cur' = cur + 1
    /\ pc' = "update"
    /\ UNCHANGED <<clocks, caller, report, began>>

\* scsi_get_temperature finds no memory for the disk's db_entry: exit(-1).
OutOfMemory ==
    /\ pc = "query"
    /\ disk[cur].type = "BUS_SCSI"
    /\ pc' = "exited"
    /\ UNCHANGED <<clocks, disk, caller, cur, report, history>>

\* daemon_update is over; the second loop of its caller reports every disk.
Report ==
    /\ pc = "update"
    /\ cur = NDisks + 1
    /\ report' = [d \in Disks |-> Line(disk[d], caller)]
    /\ pc' = "idle"
    /\ UNCHANGED <<clocks, disk, caller, cur, history>>

Next ==
    \/ Tick
    \/ AdjustClock
    \/ \E c \in Callers : Ask(c)
    \/ Reuse
    \/ BeginQuery
    \/ EndQuery
    \/ OutOfMemory
    \/ Report

Spec == Init /\ [][Next]_vars

-----------------------------------------------------------------------------
(* Properties. *)

\* Every variable, and every field of every disk, keeps its type.
TypeOK ==
    /\ now \in Nat
    /\ skew \in Skews
    /\ disk \in [Disks -> Disk]
    /\ pc \in {"idle", "update", "query", "exited"}
    /\ caller \in {"tcp", "syslog"}
    /\ cur \in 1..(NDisks + 1)
    /\ began \in Nat
    /\ asked \in [Disks -> Nat]
    /\ queried \in [Disks -> BOOLEAN]

\* d is between BeginQuery and EndQuery, or the process exited there.
InQuery(d) == pc \in {"query", "exited"} /\ d = cur

(***************************************************************************)
(* A disk said to have a temperature has the one its latest query stored,  *)
(* never one left over from an earlier query, still has its device, and    *)
(* has the db_entry that value_to_unit() and get_unit() follow without a   *)
(* check (hddtemp.c).                                                      *)
(***************************************************************************)
KnownIsMeasured ==
    \A d \in Disks : disk[d].ret = "KNOWN" /\ ~InQuery(d) =>
        /\ disk[d].measured
        /\ disk[d].value \in Temps
        /\ disk[d].db_entry # "NULL"
        /\ disk[d].fd = "open"

(***************************************************************************)
(* Nobody is told about a disk the daemon has not asked yet: the ERROR     *)
(* that memset() leaves in ret at startup is never reported as a verdict,  *)
(* however the clock is set between the start and the first client.        *)
(***************************************************************************)
NothingUnqueried ==
    report # <<>> => \A d \in Disks : queried[d]

(***************************************************************************)
(* How old a reported reading can be: a client gets readings taken at most *)
(* DELAY before it was accepted, plus what the clock was moved meanwhile;  *)
(* the log only gets readings taken for it.                                *)
(***************************************************************************)
StalenessBound ==
    report # <<>> => \A d \in Disks :
        asked[d] >= IF caller = "syslog" THEN began
                                         ELSE began - DELAY - 2 * MaxSkew

(***************************************************************************)
(* A failure in the log always comes with its reason: errormsg has been    *)
(* filled in by the time the line is formatted from it.                    *)
(***************************************************************************)
FailuresExplained ==
    report # <<>> => \A d \in Disks :
        report[d].says = "error" => report[d].why # ""

(***************************************************************************)
(* Clients cannot make the daemon ask a drive more often than every DELAY, *)
(* whatever the verdict of the previous query was, less what the clock was *)
(* moved meanwhile.                                                        *)
(***************************************************************************)
RateLimit ==
    [][\A d \in Disks :
          ~InQuery(d) /\ InQuery(d)' /\ caller = "tcp" /\ queried[d]
              => now - asked[d] > DELAY - 2 * MaxSkew]_vars

(***************************************************************************)
(* A drive given up (close(dsk->fd); dsk->fd = -1) stays given up until    *)
(* the daemon is restarted: it never has a temperature again, and nobody   *)
(* is told that it sleeps.                                                 *)
(***************************************************************************)
LostForever ==
    [][\A d \in Disks : disk[d].fd = NoFd =>
          /\ disk'[d].fd = NoFd
          /\ disk'[d].ret \notin {"KNOWN", "UNKNOWN", "DRIVE_SLEEP"}]_vars

-----------------------------------------------------------------------------
(***************************************************************************)
(* What makes these properties inductive.                                  *)
(***************************************************************************)

(***************************************************************************)
(* last_time is what the wall clock showed when the disk answered; before  *)
(* that, longer ago than DELAY by any clock.                               *)
(***************************************************************************)
StampsInv ==
    /\ began <= now
    /\ \A d \in Disks :
          /\ asked[d] <= now
          /\ queried[d] => disk[d].last_time - asked[d] \in Skews
          /\ ~queried[d] => disk[d].last_time <= MaxSkew - YEAR

\* d's reading is recent enough for the present caller.
Fresh(d) ==
    /\ queried[d]
    /\ asked[d] >= IF caller = "syslog" THEN began
                                       ELSE began - DELAY - 2 * MaxSkew

(***************************************************************************)
(* The disks behind the loop are fresh, and all are once it has reported;  *)
(* the disk being queried has been forgotten.                              *)
(***************************************************************************)
LoopInv ==
    /\ report # <<>> => pc = "idle"
    /\ report # <<>> => \A d \in Disks : Fresh(d)
    /\ report # <<>> => report = [d \in Disks |-> Line(disk[d], caller)]
    /\ pc # "idle" => \A d \in Disks : d < cur => Fresh(d)
    /\ pc \in {"query", "exited"} => cur \in Disks
    /\ pc = "query" => disk[cur].value = NoValue /\ ~disk[cur].measured

DisksInv ==
    /\ \A d \in Disks : Coherent(disk[d])
    /\ \A d \in Disks :
          queried[d] /\ ~InQuery(d) /\ disk[d].ret \in {"ERROR", "NOT_APPLICABLE"}
              => disk[d].errormsg # ""

(***************************************************************************)
(* The inductive invariant: the type, the stamps, the loop, the disks and  *)
(* that a disk with a temperature has just been measured.                  *)
(***************************************************************************)
Inv ==
    /\ TypeOK
    /\ StampsInv
    /\ LoopInv
    /\ DisksInv
    /\ KnownIsMeasured

=============================================================================
