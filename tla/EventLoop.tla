----------------------------- MODULE EventLoop ------------------------------
(***************************************************************************)
(* The main loop of do_daemon_mode (daemon.c): select() on the listening   *)
(* sockets with the time to the next log as its timeout, one client or one *)
(* log per round, and the signal handler that asks the loop to end.        *)
(*                                                                         *)
(* next_time is wall-clock time and the timeout of select() is not: the    *)
(* model keeps remaining, next_time minus the wall clock, and left, the    *)
(* true time select() still sleeps.  What daemon_update does to the disks  *)
(* is in DiskCache; here serving a client and logging only take time.      *)
(***************************************************************************)
EXTENDS Integers, Sequences, FiniteSets, FiniteSetsExt

CONSTANTS
    Clients,         \* who may connect, each with one connection at a time
    NSockets,        \* listening sockets, sks_serv_num; 0 without --daemon
    Intervals,       \* values of syslog_interval; 0 is without --syslog
    Backlog,         \* connections the kernel queues on a socket
    MaxSkew          \* the wall clock is wrong by at most this much

ASSUME EventLoopAssumption ==
    /\ NSockets \in Nat
    /\ Intervals \subseteq Nat
    /\ NSockets > 0 \/ 0 \notin Intervals   \* else main() does not come here
    /\ Backlog \in Nat
    /\ MaxSkew \in Nat

VARIABLES
    syslog_interval, \* the option's value, which stays
    pc,           \* where the loop is
    stop_daemon,  \* set by daemon_stop
    interrupted,  \* a handler has run while select() sleeps
    skew,         \* wall clock minus true time
    remaining,    \* next_time minus the wall clock
    left,         \* what is left of the timeout of select()
    ready,        \* fds, as select() left it
    cfd,          \* the client being served
    queue,        \* queue[s]: the connections socket s has not accepted yet
    client,       \* client[c]: what client c is doing
    killed,       \* history: somebody signalled the daemon
    late,         \* history: rounds of work begun after stop_daemon was set
    since         \* history: true time since the latest log

loop == <<pc, stop_daemon, interrupted, ready, cfd>>
timers == <<syslog_interval, skew, remaining, left>>
network == <<queue, client>>
history == <<killed, late, since>>
vars == <<loop, timers, network, history>>

Sockets == 1..NSockets
Skews == -MaxSkew..MaxSkew

Nobody == "nobody"
Forever == -1   \* select() without a timeout

(***************************************************************************)
(* A client that is away may connect; one that waits is in a queue, until  *)
(* it is accepted or it hangs up, which leaves its connection in the       *)
(* queue.                                                                  *)
(***************************************************************************)
ClientState == {"away", "waiting", "hung_up", "answered", "reset"}

Signals == {"SIGTERM", "SIGPIPE"}

-----------------------------------------------------------------------------
Init ==
    /\ syslog_interval \in Intervals
    /\ pc = "test"
    /\ stop_daemon = FALSE
    /\ interrupted = FALSE
    /\ skew \in IF syslog_interval > 0 THEN Skews ELSE {0}
    /\ remaining = 0          \* next_time = time(NULL)
    /\ left = Forever
    /\ ready = {}
    /\ cfd = Nobody
    /\ queue = [s \in Sockets |-> <<>>]
    /\ client = [c \in Clients |-> "away"]
    /\ killed = FALSE
    /\ late = 0
    /\ since = syslog_interval \* nothing has been logged yet

-----------------------------------------------------------------------------
(* The environment: time, the wall clock, the clients. *)

\* Without a log nobody looks at the clock; and remaining need not be kept once no
\* clock can make it positive again.
Clocked == syslog_interval > 0
Lapsed(r) == IF Clocked THEN Max({r, -2 * MaxSkew}) ELSE 0

\* One unit of time passes.
Tick ==
    /\ pc # "exited"
    /\ remaining' = Lapsed(remaining - 1)
    /\ left' = IF pc = "select" /\ left > 0 THEN left - 1 ELSE left
    /\ since' = Min({since + 1, syslog_interval})
    /\ UNCHANGED <<syslog_interval, loop, skew, network, killed, late>>

AdjustClock ==
    /\ pc # "exited"
    /\ Clocked
    /\ skew' \in Skews
    /\ remaining' = Lapsed(remaining - (skew' - skew))
    /\ UNCHANGED <<syslog_interval, loop, left, network, history>>

Connect(c, s) ==
    /\ pc # "exited"
    /\ client[c] = "away"
    /\ Len(queue[s]) < Backlog
    /\ client' = [client EXCEPT ![c] = "waiting"]
    /\ queue' = [queue EXCEPT ![s] = Append(@, c)]
    /\ UNCHANGED <<loop, timers, history>>

HangUp(c) ==
    /\ client[c] = "waiting"
    /\ client' = [client EXCEPT ![c] = "hung_up"]
    /\ UNCHANGED <<loop, timers, queue, history>>

\* A client that is done may come again.
Return(c) ==
    /\ client[c] \in {"answered", "reset"}
    /\ client' = [client EXCEPT ![c] = "away"]
    /\ UNCHANGED <<loop, timers, queue, history>>

-----------------------------------------------------------------------------
(* Signals. *)

\* The dispositions installed at the start.  (Mutant: SIGPIPE like the rest.)
Stops_pipeToo(sig) == TRUE
Stops(sig) == sig # "SIGPIPE"

\* daemon_stop runs; a sleeping select() is interrupted by it.
Signal(sig) ==
    /\ pc # "exited"
    /\ Stops(sig)
    /\ stop_daemon' = TRUE
    /\ interrupted' = (pc = "select")
    /\ killed' = (killed \/ sig # "SIGPIPE")
    /\ UNCHANGED <<pc, ready, cfd, timers, network, late, since>>

-----------------------------------------------------------------------------
(* The loop. *)

\* while(stop_daemon == 0)
Test_once ==   \* mutant: the loop only ends by an interrupted select()
    /\ pc = "test"
    /\ pc' = "arm"
    /\ UNCHANGED <<stop_daemon, interrupted, ready, cfd, timers, network, history>>

Test ==
    /\ pc = "test"
    /\ pc' = IF stop_daemon THEN "cleanup" ELSE "arm"
    /\ UNCHANGED <<stop_daemon, interrupted, ready, cfd, timers, network, history>>

\* tv, from next_time and the clock.  (Mutants: an infinite timeout whatever the
\* options are; a time that is over is not rounded up to 0.)
Timeout_never == Forever
Timeout_past == IF syslog_interval > 0 THEN remaining ELSE Forever
Timeout == IF syslog_interval > 0 THEN Max({remaining, 0}) ELSE Forever

Arm ==
    /\ pc = "arm"
    /\ left' = Timeout
    /\ interrupted' = FALSE
    /\ pc' = "select"
    /\ UNCHANGED <<syslog_interval, stop_daemon, ready, cfd, skew, remaining, network, history>>

Readable == {s \in Sockets : queue[s] # <<>>}

SelectReady ==
    /\ pc = "select"
    /\ Readable # {}
    /\ ready' = Readable
    /\ pc' = "accept"
    /\ UNCHANGED <<stop_daemon, interrupted, cfd, timers, network, history>>

\* A round of work begins.  (late is only told up to two.)
Begun == late' = IF stop_daemon THEN Min({late + 1, 2}) ELSE late

SelectTimeout ==
    /\ pc = "select"
    /\ Readable = {}
    /\ left = 0
    /\ pc' = "syslog"
    /\ Begun
    /\ UNCHANGED <<stop_daemon, interrupted, ready, cfd, timers, network, killed,
                   since>>

\* select() returns -1: break.
SelectInterrupted ==
    /\ pc = "select"
    /\ interrupted
    /\ pc' = "cleanup"
    /\ UNCHANGED <<stop_daemon, interrupted, ready, cfd, timers, network, history>>

\* The first socket of the list that is readable.  (Mutants: the last one; the
\* first one of all.)
First_last == Max(ready)
First_ofAll == 1
First == Min(ready)

Accept ==
    /\ pc = "accept"
    /\ cfd' = Head(queue[First])
    /\ queue' = [queue EXCEPT ![First] = Tail(@)]
    /\ pc' = "serve"
    /\ Begun
    /\ UNCHANGED <<stop_daemon, interrupted, ready, timers, client, killed, since>>

(***************************************************************************)
(* accept() returns -1: continue.  The connection stays in the queue (no   *)
(* descriptor is free) or is lost (it was aborted).                        *)
(***************************************************************************)
AcceptFails ==
    /\ pc = "accept"
    /\ \/ UNCHANGED network
       \/ /\ queue' = [queue EXCEPT ![First] = Tail(@)]
          /\ client' = [client EXCEPT ![Head(queue[First])] = "reset"]
    /\ pc' = "test"
    /\ UNCHANGED <<stop_daemon, interrupted, ready, cfd, timers, history>>

(***************************************************************************)
(* daemon_send_msg and close(cfd).  Writing to a client that has hung up   *)
(* raises SIGPIPE.                                                         *)
(***************************************************************************)
Serve ==
    /\ pc = "serve"
    /\ client' = [client EXCEPT ![cfd] = IF @ = "waiting" THEN "answered" ELSE "reset"]
    /\ stop_daemon' = (stop_daemon \/ (client[cfd] = "hung_up" /\ Stops("SIGPIPE")))
    /\ cfd' = Nobody
    /\ pc' = "test"
    /\ UNCHANGED <<interrupted, ready, timers, queue, history>>

\* daemon_syslog; next_time = time(NULL) + syslog_interval
Rearm_forgotten == remaining   \* mutant: next_time stays
Rearm == syslog_interval

Syslog ==
    /\ pc = "syslog"
    /\ remaining' = Rearm
    /\ since' = 0
    /\ pc' = "test"
    /\ UNCHANGED <<syslog_interval, stop_daemon, interrupted, ready, cfd, skew, left,
                   network, killed, late>>

\* What becomes of the clients when the listening sockets are closed.
Hangups ==
    [c \in Clients |-> IF client[c] \in {"waiting", "hung_up"} THEN "reset"
                                                               ELSE client[c]]

\* daemon_close_sockets and closelog; do_daemon_mode returns and main exits.
Cleanup ==
    /\ pc = "cleanup"
    /\ queue' = [s \in Sockets |-> <<>>]
    /\ client' = Hangups
    /\ pc' = "exited"
    /\ UNCHANGED <<stop_daemon, interrupted, ready, cfd, timers, history>>

(***************************************************************************)
(* daemon_update cannot allocate the db_entry of a SCSI disk, which it     *)
(* does at each query: exit(-1).                                           *)
(***************************************************************************)
OutOfMemory ==
    /\ pc \in {"serve", "syslog"}
    /\ queue' = [s \in Sockets |-> <<>>]
    /\ client' = Hangups
    /\ cfd' = Nobody
    /\ pc' = "exited"
    /\ UNCHANGED <<stop_daemon, interrupted, ready, timers, history>>

Daemon ==
    \/ Test \/ Arm
    \/ SelectReady \/ SelectTimeout \/ SelectInterrupted
    \/ Accept \/ AcceptFails
    \/ Serve \/ Syslog \/ Cleanup

Next ==
    \/ Tick
    \/ AdjustClock
    \/ \E c \in Clients, s \in Sockets : Connect(c, s)
    \/ \E c \in Clients : HangUp(c) \/ Return(c)
    \/ \E sig \in Signals : Signal(sig)
    \/ Daemon
    \/ OutOfMemory

Spec == Init /\ [][Next]_vars

(***************************************************************************)
(* The process is scheduled, time passes, and accept() does not fail       *)
(* forever.                                                                *)
(***************************************************************************)
FairSpec ==
    /\ Spec
    /\ WF_vars(Daemon)
    /\ WF_vars(Tick)
    /\ SF_vars(Accept)

-----------------------------------------------------------------------------
(* Properties. *)

\* Every variable keeps its type; in particular select() never gets a negative
\* timeout, however the clock is set (a negative tv_sec makes it fail).
TypeOK ==
    /\ pc \in {"test", "arm", "select", "accept", "serve", "syslog", "cleanup",
               "exited"}
    /\ stop_daemon \in BOOLEAN
    /\ interrupted \in BOOLEAN
    /\ syslog_interval \in Intervals
    /\ skew \in Skews
    /\ remaining \in -2 * MaxSkew .. syslog_interval + 2 * MaxSkew
    /\ left \in Nat \cup {Forever}
    /\ ready \subseteq Sockets
    /\ cfd \in Clients \cup {Nobody}
    /\ queue \in [Sockets -> Seq(Clients)]
    /\ client \in [Clients -> ClientState]
    /\ killed \in BOOLEAN
    /\ late \in 0..2
    /\ since \in 0..syslog_interval

(***************************************************************************)
(* Once the daemon has been told to stop it begins at most one more round  *)
(* of work, a client or a log: the one that select() announced before, or  *)
(* that wakes up a select() entered just after the test of stop_daemon.    *)
(***************************************************************************)
LateWork == late <= 1

(***************************************************************************)
(* The loop only ends, and its sockets are only closed, after a signal     *)
(* from outside.  In particular no client makes it end by hanging up       *)
(* before its reply is written.  (Want of memory ends the process at once, *)
(* wherever it is: OutOfMemory.)                                           *)
(***************************************************************************)
ClientsCannotStop == stop_daemon \/ pc = "cleanup" => killed

(***************************************************************************)
(* accept() never blocks: the socket picked from fds still has a           *)
(* connection, though fds was filled in before.                            *)
(***************************************************************************)
AcceptNeverBlocks == pc = "accept" => ready # {} /\ queue[First] # <<>>

(***************************************************************************)
(* Two logs are syslog_interval apart, less what the clock was moved; it   *)
(* is what next_time is for, tv being computed anew after every client.    *)
(***************************************************************************)
LogSpacing ==
    [][pc # "syslog" /\ pc' = "syslog" => since >= syslog_interval - 2 * MaxSkew]_vars

(***************************************************************************)
(* A daemon told to stop does.  A signal that comes between the test of    *)
(* stop_daemon and select() does not interrupt select(): when the daemon   *)
(* logs, the timeout ends the wait; when it does not, the signal is lost   *)
(* until a client comes, which ends the daemon.                            *)
(***************************************************************************)
StopHonoured ==
    stop_daemon /\ (syslog_interval > 0 \/ Readable # {}) ~> pc = "exited"

(***************************************************************************)
(* A client is answered (or refused) unless sockets before its own in the  *)
(* list are readable again and again.                                      *)
(***************************************************************************)
Waits(c, s) == client[c] = "waiting" /\ \E i \in DOMAIN queue[s] : queue[s][i] = c

ClientsAnswered ==
    \A c \in Clients, s \in Sockets :
        \/ Waits(c, s) ~> ~Waits(c, s)
        \/ []<>(\E t \in Sockets : t < s /\ queue[t] # <<>>)

\* Without clients the log goes on, whatever is done to the clock.
LogsWhenQuiet ==
    \/ syslog_interval = 0
    \/ []<>(pc = "syslog")
    \/ []<>(Readable # {})
    \/ <>(pc = "exited")

=============================================================================
