-------------------------- MODULE DaemonProofs --------------------------
(***************************************************************************)
(* Proofs about the daemon between its start and the signal that ends it:  *)
(* its loop (EventLoop), for any number of clients and sockets, any        *)
(* interval, any length of the queues, and any error of the wall clock;    *)
(* and what it answers (Replies), for every list of disks, every bytes     *)
(* their names consist of, every temperature and every separator.          *)
(***************************************************************************)
EXTENDS EventLoop, Replies, BasicLemmas

(***************************************************************************)
(* What TypeOK needs to be inductive: true time plus remaining is the      *)
(* wall-clock time of the next log, which no clock can put off further     *)
(* than when it was computed; and only the log makes the clock matter.     *)
(***************************************************************************)
Bounded ==
    /\ remaining + skew <= syslog_interval + MaxSkew
    /\ syslog_interval = 0 => skew = 0 /\ remaining = 0

\* Nobody takes a connection out of the queues while fds waits to be looked at.
StillReadable ==
    pc = "accept" => ready # {} /\ \A s \in ready : queue[s] # <<>>

\* A stop is somebody's doing.
Ordered ==
    /\ stop_daemon \/ interrupted \/ pc = "cleanup" => killed

\* The round of work that was begun too late is the last one.
LastRound ==
    late # 0 => /\ late = 1
                /\ stop_daemon
                /\ pc \in {"serve", "syslog", "test", "cleanup", "exited"}

\* Either enough time has passed, or what the log still has to wait makes up for
\* it; and select() sleeps for as long as that, but for the error of the clock.
Paced ==
    /\ since = syslog_interval \/ since + remaining + skew >= syslog_interval - MaxSkew
    /\ pc = "select" => IF syslog_interval = 0 THEN left = Forever
                        ELSE left >= 0 /\ remaining + skew <= left + MaxSkew

Inv == TypeOK /\ Bounded /\ StillReadable /\ Ordered /\ LastRound /\ Paced

-----------------------------------------------------------------------------
LEMMA MaxOfTwo ==
    ASSUME NEW a \in Int, NEW b \in Int
    PROVE  Max({a, b}) = IF a >= b THEN a ELSE b
<1>1. \E x \in {a, b} : \A y \in {a, b} : x >= y
  OBVIOUS
<1>2. Max({a, b}) \in {a, b} /\ \A y \in {a, b} : Max({a, b}) >= y
  BY <1>1 DEF Max
<1> QED
  BY <1>2

LEMMA MinOfTwo ==
    ASSUME NEW a \in Int, NEW b \in Int
    PROVE  Min({a, b}) = IF a <= b THEN a ELSE b
<1>1. \E x \in {a, b} : \A y \in {a, b} : x <= y
  OBVIOUS
<1>2. Min({a, b}) \in {a, b} /\ \A y \in {a, b} : Min({a, b}) <= y
  BY <1>1 DEF Min
<1> QED
  BY <1>2

LEMMA FirstIsReady ==
    ASSUME ready \subseteq Sockets, ready # {}
    PROVE  First \in ready
<1>1. ready \subseteq Nat
  BY EventLoopAssumption DEF Sockets
<1> QED
  BY <1>1, LeastOf DEF First, Min

LEMMA InvInit == ASSUME Init PROVE Inv
<1>1. TypeOK
  <2>1. skew \in Skews
    BY EventLoopAssumption DEF Init, Skews
  <2>2. syslog_interval \in Nat
    BY EventLoopAssumption DEF Init
  <2>3. remaining \in -2 * MaxSkew .. syslog_interval + 2 * MaxSkew
    BY <2>2, EventLoopAssumption DEF Init
  <2>4. queue \in [Sockets -> Seq(Clients)] /\ client \in [Clients -> ClientState]
    BY DEF Init, ClientState
  <2>5. since \in 0..syslog_interval /\ left \in Nat \cup {Forever}
    BY <2>2 DEF Init
  <2>6. /\ syslog_interval \in Intervals /\ cfd \in Clients \cup {Nobody}
        /\ pc = "test" /\ ready \subseteq Sockets /\ late \in 0..2
    BY DEF Init
  <2>7. stop_daemon \in BOOLEAN /\ interrupted \in BOOLEAN /\ killed \in BOOLEAN
    BY Zenon DEF Init
  <2> QED
    BY <2>1, <2>2, <2>3, <2>4, <2>5, <2>6, <2>7 DEF TypeOK
<1>2. Bounded /\ Paced
  BY <1>1, EventLoopAssumption DEF Init, Bounded, Paced, TypeOK, Skews
<1>3. StillReadable /\ Ordered /\ LastRound
  BY DEF Init, StillReadable, Ordered, LastRound
<1> QED
  BY <1>1, <1>2, <1>3 DEF Inv

-----------------------------------------------------------------------------
(* Time. *)

\* What the clock shows as over is forgotten, and no more.
LEMMA LapsedIs ==
    ASSUME NEW r \in Int, syslog_interval \in Nat
    PROVE  Lapsed(r) = IF syslog_interval = 0 THEN 0
                       ELSE IF r >= -2 * MaxSkew THEN r ELSE -2 * MaxSkew
BY MaxOfTwo, EventLoopAssumption DEF Lapsed, Clocked

LEMMA TimeKeeps == ASSUME Inv, Tick \/ AdjustClock PROVE Inv'
<1>0. /\ MaxSkew \in Nat /\ syslog_interval \in Nat /\ skew \in Int /\ remaining \in Int
      /\ left \in Int /\ since \in Nat /\ since <= syslog_interval
      /\ skew >= -MaxSkew /\ skew <= MaxSkew
  BY EventLoopAssumption DEF Inv, TypeOK, Skews, Forever
<1>1. CASE Tick
  <2>1. /\ remaining' = IF syslog_interval = 0 THEN 0
                        ELSE IF remaining - 1 >= -2 * MaxSkew THEN remaining - 1
                        ELSE -2 * MaxSkew
        /\ since' = IF since + 1 <= syslog_interval THEN since + 1 ELSE syslog_interval
        /\ left' = IF pc = "select" /\ left > 0 THEN left - 1 ELSE left
        /\ UNCHANGED <<syslog_interval, skew, pc>>
    BY <1>0, <1>1, LapsedIs, MinOfTwo DEF Tick, loop
  <2>2. TypeOK'
    <3>1. remaining' \in -2 * MaxSkew .. syslog_interval + 2 * MaxSkew
      BY <1>0, <2>1 DEF Inv, TypeOK
    <3>2. since' \in 0..syslog_interval /\ left' \in Nat \cup {Forever}
      BY <1>0, <2>1 DEF Inv, TypeOK, Forever
    <3> QED
      BY <1>1, <3>1, <3>2 DEF Inv, TypeOK, Tick, loop, network
  <2>3. Bounded' /\ Paced'
    BY <1>0, <2>1 DEF Inv, Bounded, Paced, Forever
  <2>4. StillReadable' /\ Ordered' /\ LastRound'
    BY <1>1 DEF Inv, StillReadable, Ordered, LastRound, Tick, loop, network
  <2> QED
    BY <2>2, <2>3, <2>4 DEF Inv
<1>2. CASE AdjustClock
  <2>0. PICK new \in Int : new = skew' /\ new \in Skews
    BY <1>0, <1>2 DEF AdjustClock, Skews
  <2>a. new >= -MaxSkew /\ new <= MaxSkew /\ syslog_interval > 0
    BY <1>0, <1>2, <2>0 DEF AdjustClock, Skews, Clocked
  <2>1. /\ remaining' = IF remaining - (new - skew) >= -2 * MaxSkew
                        THEN remaining - (new - skew) ELSE -2 * MaxSkew
        /\ UNCHANGED <<syslog_interval, left, since, pc>>
    <3>1. ASSUME NEW r \in Int
          PROVE  Lapsed(r) = IF r >= -2 * MaxSkew THEN r ELSE -2 * MaxSkew
      BY <1>0, <2>a, LapsedIs
    <3>2. remaining - (new - skew) \in Int
      BY <1>0
    <3> QED
      BY <1>2, <2>0, <3>1, <3>2 DEF AdjustClock, loop, history
  <2>2. PICK rest : rest = remaining'
    OBVIOUS
  <2>3. rest = IF remaining - (new - skew) >= -2 * MaxSkew
               THEN remaining - (new - skew) ELSE -2 * MaxSkew
    BY <2>1, <2>2, Zenon
  <2>4. /\ rest \in Int /\ rest >= -2 * MaxSkew
        /\ rest + new >= remaining + skew
        /\ rest + new = remaining + skew \/ rest + new <= -MaxSkew
    BY <1>0, <2>a, <2>3
  <2>5. rest + new <= syslog_interval + MaxSkew
    BY <1>0, <2>a, <2>4 DEF Inv, Bounded
  <2>7. Bounded' /\ Paced'
    <3>1. Bounded'
      BY <2>0, <2>a, <2>1, <2>2, <2>5 DEF Bounded
    <3>2. since = syslog_interval \/ since + rest + new >= syslog_interval - MaxSkew
      BY <1>0, <2>a, <2>4 DEF Inv, Paced
    <3>3. pc = "select" => left >= 0 /\ rest + new <= left + MaxSkew
      BY <1>0, <2>a, <2>4 DEF Inv, Paced
    <3>4. syslog_interval # 0
      BY <1>0, <2>a
    <3> QED
      BY <2>0, <2>1, <2>2, <3>1, <3>2, <3>3, <3>4, Zenon DEF Paced
  <2>8. TypeOK'
    <3>1. rest \in -2 * MaxSkew .. syslog_interval + 2 * MaxSkew
      BY <1>0, <2>a, <2>4, <2>5
    <3> QED
      BY <1>2, <2>2, <3>1 DEF Inv, TypeOK, AdjustClock, loop, network, history
  <2>6. StillReadable' /\ Ordered' /\ LastRound'
    BY <1>2 DEF Inv, StillReadable, Ordered, LastRound, AdjustClock, loop, network, history
  <2> QED
    BY <2>6, <2>7, <2>8 DEF Inv
<1> QED
  BY <1>1, <1>2

-----------------------------------------------------------------------------
\* What depends on the clock, if no timer moves and select() is not entered.
LEMMA TimersKeep ==
    ASSUME Inv, UNCHANGED <<timers, since>>, pc' = "select" => pc = "select"
    PROVE  /\ Bounded' /\ Paced'
           /\ syslog_interval' \in Intervals /\ skew' \in Skews
           /\ remaining' \in -2 * MaxSkew .. syslog_interval' + 2 * MaxSkew
           /\ left' \in Nat \cup {Forever} /\ since' \in 0..syslog_interval'
BY DEF Inv, TypeOK, timers, Bounded, Paced

(* Clients and signals. *)

LEMMA OutsideKeeps ==
    ASSUME Inv,
           \/ \E c \in Clients, s \in Sockets : Connect(c, s)
           \/ \E c \in Clients : HangUp(c) \/ Return(c)
           \/ \E sig \in Signals : Signal(sig)
    PROVE  Inv'
<1>1. ASSUME NEW c \in Clients, NEW s \in Sockets, Connect(c, s) PROVE Inv'
  <2>0. UNCHANGED <<timers, since, loop, history>>
    BY <1>1 DEF Connect, history
  <2>1. queue \in [Sockets -> Seq(Clients)] /\ queue' = [queue EXCEPT ![s] = Append(@, c)]
    BY <1>1 DEF Connect, Inv, TypeOK
  <2>2. /\ queue' \in [Sockets -> Seq(Clients)]
        /\ \A t \in Sockets : queue[t] # <<>> => queue'[t] # <<>>
    BY <2>1
  <2>3. client' \in [Clients -> ClientState]
    BY <1>1 DEF Connect, Inv, TypeOK, ClientState
  <2>4. TypeOK'
    BY <2>0, <2>2, <2>3, TimersKeep DEF Inv, TypeOK, loop, history, timers
  <2>5. StillReadable' /\ Ordered' /\ LastRound'
    BY <2>0, <2>2 DEF Inv, TypeOK, StillReadable, Ordered, LastRound, loop, history
  <2> QED
    BY <2>0, <2>4, <2>5, TimersKeep DEF Inv, loop
<1>2. ASSUME NEW c \in Clients, HangUp(c) \/ Return(c) PROVE Inv'
  <2>0. UNCHANGED <<timers, since, loop, history, queue>>
    BY <1>2 DEF HangUp, Return, history
  <2>1. client' \in [Clients -> ClientState]
    BY <1>2 DEF HangUp, Return, Inv, TypeOK, ClientState
  <2>2. TypeOK'
    BY <2>0, <2>1, TimersKeep DEF Inv, TypeOK, loop, history, timers
  <2>3. StillReadable' /\ Ordered' /\ LastRound'
    BY <2>0 DEF Inv, StillReadable, Ordered, LastRound, loop, history
  <2> QED
    BY <2>0, <2>2, <2>3, TimersKeep DEF Inv, loop
<1>3. ASSUME NEW sig \in Signals, Signal(sig) PROVE Inv'
  <2>0. /\ UNCHANGED <<timers, since, pc, ready, cfd, queue, client, late>>
        /\ sig # "SIGPIPE"
    BY <1>3 DEF Signal, Stops, network
  <2>1. /\ stop_daemon' = TRUE /\ killed' = TRUE
        /\ interrupted' \in BOOLEAN
    BY <1>3, <2>0, Zenon DEF Signal
  <2>2. TypeOK'
    BY <2>0, <2>1, TimersKeep DEF Inv, TypeOK
  <2>3. StillReadable' /\ Ordered' /\ LastRound'
    BY <2>0, <2>1 DEF Inv, StillReadable, Ordered, LastRound
  <2> QED
    BY <2>0, <2>2, <2>3, TimersKeep DEF Inv
<1> QED
  BY <1>1, <1>2, <1>3

-----------------------------------------------------------------------------
(* The loop. *)

\* The steps that take no work on.
LEMMA IdleKeeps ==
    ASSUME Inv, Test \/ SelectReady \/ SelectInterrupted \/ Cleanup \/ OutOfMemory
    PROVE  Inv'
<1>0. /\ UNCHANGED <<timers, since, stop_daemon, interrupted, killed, late>>
      /\ pc' # "select" /\ pc # "accept"
  BY DEF Test, SelectReady, SelectInterrupted, Cleanup, OutOfMemory, history
<1>1. ready' \subseteq Sockets /\ cfd' \in Clients \cup {Nobody}
  BY DEF Inv, TypeOK, Test, SelectReady, SelectInterrupted, Cleanup, OutOfMemory, Readable
<1>2. queue' \in [Sockets -> Seq(Clients)]
  <2>1. UNCHANGED queue \/ queue' = [s \in Sockets |-> <<>>]
    BY DEF Test, SelectReady, SelectInterrupted, Cleanup, OutOfMemory, network
  <2>2. queue \in [Sockets -> Seq(Clients)] /\ <<>> \in Seq(Clients)
    BY DEF Inv, TypeOK
  <2> QED
    BY <2>1, <2>2, Zenon
<1>3. client' \in [Clients -> ClientState]
  BY DEF Inv, TypeOK, Test, SelectReady, SelectInterrupted, Cleanup, OutOfMemory, network,
         Hangups, ClientState
<1>4. pc' \in {"test", "arm", "select", "accept", "serve", "syslog", "cleanup", "exited"}
  BY DEF Test, SelectReady, SelectInterrupted, Cleanup, OutOfMemory
<1>5. TypeOK'
  BY <1>0, <1>1, <1>2, <1>3, <1>4, TimersKeep DEF Inv, TypeOK
<1>6. StillReadable'
  BY DEF StillReadable, Test, SelectReady, SelectInterrupted, Cleanup, OutOfMemory,
         Readable, network
<1>7. Ordered' /\ LastRound'
  <2>1. CASE Test
    BY <1>0, <2>1 DEF Inv, Ordered, LastRound, Test
  <2>2. CASE SelectReady \/ SelectInterrupted
    BY <1>0, <2>2 DEF Inv, Ordered, LastRound, SelectReady, SelectInterrupted
  <2>3. CASE Cleanup \/ OutOfMemory
    BY <1>0, <2>3 DEF Inv, Ordered, LastRound, Cleanup, OutOfMemory
  <2> QED
    BY <2>1, <2>2, <2>3
<1> QED
  BY <1>0, <1>5, <1>6, <1>7, TimersKeep DEF Inv

\* select() is given a timeout that is never negative.
LEMMA ArmKeeps == ASSUME Inv, Arm PROVE Inv'
<1>0. /\ MaxSkew \in Nat /\ syslog_interval \in Nat /\ skew \in Int /\ remaining \in Int
      /\ skew >= -MaxSkew /\ skew <= MaxSkew
  BY EventLoopAssumption DEF Inv, TypeOK, Skews
<1>1. left' = IF syslog_interval = 0 THEN Forever
              ELSE IF remaining >= 0 THEN remaining ELSE 0
  BY <1>0, MaxOfTwo DEF Arm, Timeout
<1>2. left' \in Nat \cup {Forever}
  BY <1>0, <1>1
<1>3. TypeOK'
  BY <1>2, Zenon DEF Arm, Inv, TypeOK, network, history
<1>4. Bounded'
  BY DEF Arm, Inv, Bounded
<1>5. Paced'
  BY <1>0, <1>1 DEF Arm, Inv, Paced, history
<1>6. StillReadable' /\ Ordered' /\ LastRound'
  BY DEF Arm, Inv, StillReadable, Ordered, LastRound, history
<1> QED
  BY <1>3, <1>4, <1>5, <1>6 DEF Inv

\* A round of work that begins after the stop is the first such round.
LEMMA BegunIs ==
    ASSUME Inv, Begun, pc \in {"select", "accept"}
    PROVE  late' = IF stop_daemon THEN 1 ELSE 0
<1>1. late = 0
  BY DEF Inv, LastRound
<1> QED
  BY <1>1, MinOfTwo DEF Begun

\* The connection that is taken, or lost, was in the queue.
LEMMA AcceptKeeps == ASSUME Inv, Accept \/ AcceptFails \/ SelectTimeout PROVE Inv'
<1>1. CASE SelectTimeout
  <2>1. UNCHANGED <<timers, since, stop_daemon, interrupted, ready, cfd, queue, client, killed>>
    BY <1>1 DEF SelectTimeout, network
  <2>2. late' = IF stop_daemon THEN 1 ELSE 0
    BY <1>1, BegunIs DEF SelectTimeout
  <2>3. TypeOK'
    BY <1>1, <2>1, <2>2, TimersKeep DEF Inv, TypeOK, SelectTimeout
  <2>4. StillReadable' /\ Ordered' /\ LastRound'
    BY <1>1, <2>1, <2>2 DEF Inv, StillReadable, Ordered, LastRound, SelectTimeout
  <2> QED
    BY <1>1, <2>1, <2>3, <2>4, TimersKeep DEF Inv, SelectTimeout
<1>2. CASE Accept \/ AcceptFails
  <2>0. pc = "accept" /\ UNCHANGED <<timers, since, stop_daemon, interrupted, ready, killed>>
    BY <1>2 DEF Accept, AcceptFails, history
  <2>1. First \in Sockets /\ queue[First] # <<>> /\ queue[First] \in Seq(Clients)
    BY <2>0, FirstIsReady DEF Inv, TypeOK, StillReadable
  <2>2. Head(queue[First]) \in Clients /\ Tail(queue[First]) \in Seq(Clients)
    BY <2>1
  <2>3. queue \in [Sockets -> Seq(Clients)] /\ client \in [Clients -> ClientState]
    BY DEF Inv, TypeOK
  <2>4. CASE Accept
    <3>1. queue' \in [Sockets -> Seq(Clients)] /\ cfd' \in Clients /\ client' = client
      BY <2>2, <2>3, <2>4 DEF Accept
    <3>2. late' = IF stop_daemon THEN 1 ELSE 0
      BY <2>4, BegunIs DEF Accept
    <3>3. TypeOK'
      BY <2>0, <2>4, <3>1, <3>2, TimersKeep DEF Inv, TypeOK, Accept
    <3>4. StillReadable' /\ Ordered' /\ LastRound'
      BY <2>0, <2>4, <3>2 DEF Inv, StillReadable, Ordered, LastRound, Accept
    <3> QED
      BY <2>0, <2>4, <3>3, <3>4, TimersKeep DEF Inv, Accept
  <2>5. CASE AcceptFails
    <3>1. queue' \in [Sockets -> Seq(Clients)] /\ client' \in [Clients -> ClientState]
      BY <2>2, <2>3, <2>5 DEF AcceptFails, network, ClientState
    <3>2. UNCHANGED <<cfd, late>> /\ pc' = "test"
      BY <2>5 DEF AcceptFails, history
    <3>3. TypeOK'
      BY <2>0, <3>1, <3>2, TimersKeep DEF Inv, TypeOK
    <3>4. StillReadable' /\ Ordered' /\ LastRound'
      BY <2>0, <3>2 DEF Inv, StillReadable, Ordered, LastRound
    <3> QED
      BY <2>0, <3>2, <3>3, <3>4, TimersKeep DEF Inv
  <2> QED
    BY <1>2, <2>4, <2>5
<1> QED
  BY <1>1, <1>2

\* The work itself; a client that has hung up does not end the loop.
LEMMA WorkKeeps == ASSUME Inv, Serve \/ Syslog PROVE Inv'
<1>1. CASE Serve
  <2>0. UNCHANGED <<timers, since, interrupted, ready, queue, killed, late>> /\ pc' = "test"
    BY <1>1 DEF Serve, history
  <2>1. stop_daemon' = stop_daemon
    BY <1>1, Zenon DEF Serve, Stops, Inv, TypeOK
  <2>2. client' \in [Clients -> ClientState] /\ cfd' = Nobody
    BY <1>1 DEF Serve, Inv, TypeOK, ClientState
  <2>3. TypeOK'
    BY <2>0, <2>1, <2>2, TimersKeep DEF Inv, TypeOK
  <2>4. StillReadable' /\ Ordered' /\ LastRound'
    BY <2>0, <2>1 DEF Inv, StillReadable, Ordered, LastRound
  <2> QED
    BY <2>0, <2>3, <2>4, TimersKeep DEF Inv
<1>2. CASE Syslog
  <2>0. /\ UNCHANGED <<syslog_interval, stop_daemon, interrupted, ready, cfd, skew, left,
                        queue, client, killed, late>>
        /\ remaining' = syslog_interval /\ since' = 0 /\ pc' = "test"
    BY <1>2 DEF Syslog, Rearm, network
  <2>1. /\ MaxSkew \in Nat /\ syslog_interval \in Nat /\ skew \in Int
        /\ skew >= -MaxSkew /\ skew <= MaxSkew
    BY EventLoopAssumption DEF Inv, TypeOK, Skews
  <2>2. Bounded' /\ Paced'
    BY <2>0, <2>1 DEF Inv, Bounded, Paced
  <2>3. remaining' \in -2 * MaxSkew .. syslog_interval + 2 * MaxSkew
        /\ since' \in 0..syslog_interval
    BY <2>0, <2>1
  <2>4. TypeOK'
    BY <2>0, <2>3 DEF Inv, TypeOK
  <2>5. StillReadable' /\ Ordered' /\ LastRound'
    BY <2>0 DEF Inv, StillReadable, Ordered, LastRound
  <2> QED
    BY <2>2, <2>4, <2>5 DEF Inv
<1> QED
  BY <1>1, <1>2

LEMMA StutterKeeps == ASSUME Inv, UNCHANGED vars PROVE Inv'
<1>0. UNCHANGED <<timers, since, pc, stop_daemon, interrupted, ready, cfd, queue, client,
                  killed, late>>
  BY DEF vars, loop, network, history
<1>1. TypeOK'
  BY <1>0, TimersKeep DEF Inv, TypeOK
<1>2. StillReadable' /\ Ordered' /\ LastRound'
  BY <1>0 DEF Inv, StillReadable, Ordered, LastRound
<1> QED
  BY <1>0, <1>1, <1>2, TimersKeep DEF Inv

-----------------------------------------------------------------------------
\* Every reachable state of the loop satisfies Inv.
THEOREM Invariance == Spec => []Inv
<1>1. Init => Inv
  BY InvInit
<1>2. Inv /\ [Next]_vars => Inv'
  <2> SUFFICES ASSUME Inv, [Next]_vars PROVE Inv'
    OBVIOUS
  <2>1. CASE Tick \/ AdjustClock
    BY <2>1, TimeKeeps
  <2>2. CASE \/ \E c \in Clients, s \in Sockets : Connect(c, s)
             \/ \E c \in Clients : HangUp(c) \/ Return(c)
             \/ \E sig \in Signals : Signal(sig)
    BY <2>2, OutsideKeeps
  <2>3. CASE Test \/ SelectReady \/ SelectInterrupted \/ Cleanup \/ OutOfMemory
    BY <2>3, IdleKeeps
  <2>4. CASE Arm
    BY <2>4, ArmKeeps
  <2>5. CASE Accept \/ AcceptFails \/ SelectTimeout
    BY <2>5, AcceptKeeps
  <2>6. CASE Serve \/ Syslog
    BY <2>6, WorkKeeps
  <2>7. CASE UNCHANGED vars
    BY <2>7, StutterKeeps
  <2> QED
    BY <2>1, <2>2, <2>3, <2>4, <2>5, <2>6, <2>7 DEF Next, Daemon
<1> QED
  BY <1>1, <1>2, PTL DEF Spec

\* Every variable keeps its type; the timeout of select() is never negative, however
\* the clock is set (do_daemon_mode's tv).
THEOREM TypeCorrectness == Spec => []TypeOK
<1>1. Inv => TypeOK
  BY DEF Inv
<1> QED
  BY <1>1, Invariance, PTL

\* After daemon_stop at most one more client is served, or one log written.
THEOREM OneLateRound == Spec => []LateWork
<1>1. Inv => LateWork
  BY DEF Inv, LastRound, LateWork
<1> QED
  BY <1>1, Invariance, PTL

\* Without a signal from outside the daemon does not end its loop: clients that hang
\* up cannot make it, SIGPIPE being ignored (do_daemon_mode).
THEOREM OnlySignalsStop == Spec => []ClientsCannotStop
<1>1. Inv => ClientsCannotStop
  BY DEF Inv, Ordered, ClientsCannotStop
<1> QED
  BY <1>1, Invariance, PTL

\* accept() is only called on a socket that still has a connection.
THEOREM AcceptIsReady == Spec => []AcceptNeverBlocks
<1>1. Inv => AcceptNeverBlocks
  BY FirstIsReady DEF Inv, TypeOK, StillReadable, AcceptNeverBlocks
<1> QED
  BY <1>1, Invariance, PTL

(***************************************************************************)
(* Logs are syslog_interval apart, less twice the error of the clock,      *)
(* however often clients interrupt select() (do_daemon_mode).              *)
(***************************************************************************)
THEOREM LogsAreSpaced == Spec => LogSpacing
<1>1. Inv /\ [Next]_vars =>
        [pc # "syslog" /\ pc' = "syslog" => since >= syslog_interval - 2 * MaxSkew]_vars
  <2> SUFFICES ASSUME Inv, Next, pc # "syslog", pc' = "syslog"
               PROVE  since >= syslog_interval - 2 * MaxSkew
    OBVIOUS
  <2>1. SelectTimeout
    BY DEF Next, Daemon, Tick, AdjustClock, Connect, HangUp, Return, Signal, Test, Arm,
           SelectReady, SelectInterrupted, Accept, AcceptFails, Serve, Syslog, Cleanup,
           OutOfMemory, loop
  <2>2. /\ MaxSkew \in Nat /\ syslog_interval \in Nat /\ skew \in Int
        /\ remaining \in Int /\ since \in Nat
    BY EventLoopAssumption DEF Inv, TypeOK, Skews
  <2>3. remaining + skew <= MaxSkew
    BY <2>1, <2>2 DEF SelectTimeout, Inv, Paced, Forever
  <2> QED
    BY <2>2, <2>3 DEF Inv, Paced
<1> QED
  BY <1>1, Invariance, PTL DEF Spec, LogSpacing

-----------------------------------------------------------------------------
(* The conversions (hddtemp.c), with C's division towards zero.            *)

LEMMA DivIs ==
    ASSUME NEW n \in Int, NEW d \in {5, 9}
    PROVE  n \div d \in Int /\ d * (n \div d) <= n /\ n < d * (n \div d) + d
<1>1. CASE d = 5
  BY <1>1
<1>2. CASE d = 9
  BY <1>2
<1> QED
  BY <1>1, <1>2

LEMMA TruncIs ==
    ASSUME NEW n \in Int, NEW d \in {5, 9}
    PROVE  Trunc(n, d) \in Int /\ d * Trunc(n, d) - n \in (1 - d)..(d - 1)
<1>1. CASE n >= 0
  <2>1. Trunc(n, d) = n \div d
    BY <1>1 DEF Trunc
  <2>2. n \div d \in Int /\ d * (n \div d) <= n /\ n < d * (n \div d) + d
    BY DivIs
  <2> QED
    BY <2>1, <2>2
<1>2. CASE ~(n >= 0)
  <2>1. Trunc(n, d) = -((-n) \div d)
    BY <1>2 DEF Trunc
  <2>2. (-n) \div d \in Int /\ d * ((-n) \div d) <= -n /\ -n < d * ((-n) \div d) + d
    BY DivIs
  <2> QED
    BY <2>1, <2>2
<1> QED
  BY <1>1, <1>2

LEMMA FahrenheitIs ==
    ASSUME NEW v \in Int
    PROVE  5 * (C_to_F(v) - 32) - 9 * v \in -4..4
<1> DEFINE n == 9 * v + 160
<1>1. n \in Int
  OBVIOUS
<1>2. Trunc(n, 5) \in Int /\ 5 * Trunc(n, 5) - n \in (1 - 5)..(5 - 1)
  BY <1>1, TruncIs
<1>3. C_to_F(v) = Trunc(n, 5)
  BY DEF C_to_F
<1> QED
  BY <1>2, <1>3

LEMMA CelsiusIs ==
    ASSUME NEW v \in Int
    PROVE  9 * F_to_C(v) - 5 * (v - 32) \in -8..8
<1> DEFINE n == 5 * (v - 32)
<1>1. n \in Int
  OBVIOUS
<1>2. Trunc(n, 9) \in Int /\ 9 * Trunc(n, 9) - n \in (1 - 9)..(9 - 1)
  BY <1>1, TruncIs
<1>3. F_to_C(v) = Trunc(n, 9)
  BY DEF F_to_C
<1> QED
  BY <1>2, <1>3

-----------------------------------------------------------------------------
\* What the conversions are called with.
CollectedInv == disks \in Lists /\ unit \in {"DEFAULT", "CELSIUS", "FAHRENHEIT"}

LEMMA InvTells == CollectedInv => SameTemperature
<1> SUFFICES ASSUME CollectedInv, NEW i \in DOMAIN disks
             PROVE  LET dsk == disks[i]
                        val == ValueToUnit(dsk)
                    IN  CASE dsk.unit = GetUnit(dsk)               -> val = dsk.value
                          [] dsk.unit = "C" /\ GetUnit(dsk) = "F" ->
                                5 * (val - 32) - 9 * dsk.value \in -4..4
                          [] dsk.unit = "F" /\ GetUnit(dsk) = "C" ->
                                9 * val - 5 * (dsk.value - 32) \in -8..8
  BY DEF SameTemperature
<1> DEFINE dsk == disks[i]
<1>1. dsk.unit \in {"C", "F"} /\ dsk.value \in Int
  BY RepliesAssumption DEF CollectedInv
<1>2. unit \in {"DEFAULT", "CELSIUS", "FAHRENHEIT"}
  BY DEF CollectedInv
<1> HIDE DEF dsk
<1>3. CASE dsk.unit = GetUnit(dsk)
  <2>1. ValueToUnit(dsk) = dsk.value
    BY <1>1, <1>2, <1>3 DEF GetUnit, ValueToUnit
  <2> QED
    BY <1>3, <2>1 DEF dsk
<1>4. CASE dsk.unit = "C" /\ dsk.unit # GetUnit(dsk)
  <2>1. ValueToUnit(dsk) = C_to_F(dsk.value) /\ GetUnit(dsk) = "F"
    BY <1>1, <1>2, <1>4 DEF GetUnit, ValueToUnit
  <2>2. 5 * (ValueToUnit(dsk) - 32) - 9 * dsk.value \in -4..4
    BY <1>1, <2>1, FahrenheitIs
  <2> QED
    BY <1>4, <2>1, <2>2 DEF dsk
<1>5. CASE dsk.unit = "F" /\ dsk.unit # GetUnit(dsk)
  <2>1. ValueToUnit(dsk) = F_to_C(dsk.value) /\ GetUnit(dsk) = "C"
    BY <1>1, <1>2, <1>5 DEF GetUnit, ValueToUnit
  <2>2. 9 * ValueToUnit(dsk) - 5 * (dsk.value - 32) \in -8..8
    BY <1>1, <2>1, CelsiusIs
  <2> QED
    BY <1>5, <2>1, <2>2 DEF dsk
<1> QED
  BY <1>1, <1>3, <1>4, <1>5

(***************************************************************************)
(* Whatever a drive has measured and whatever unit is asked for, the       *)
(* number and the unit that are shown are that temperature, to the degree  *)
(* (value_to_unit and get_unit of hddtemp.c).                              *)
(***************************************************************************)
THEOREM UnitsAgree == ReplySpec => []SameTemperature
<1>1. ReplyInit => CollectedInv
  BY DEF ReplyInit, CollectedInv
<1>2. CollectedInv /\ [ReplyNext]_replyVars => CollectedInv'
  BY DEF CollectedInv, ReplyNext, Collect, Reply, replyVars
<1> QED
  BY <1>1, <1>2, InvTells, PTL DEF ReplySpec

-----------------------------------------------------------------------------
(* Strings.                                                                *)

\* A string with a NUL has a first one.
LEMMA FirstNul ==
    ASSUME NEW L \in Nat, NEW s, \E k \in 1..L : s[k] = NUL
    PROVE  \E c \in 0..(L - 1) : s[c + 1] = NUL /\ \A j \in 1..c : s[j] # NUL
<1> DEFINE T == {k \in 1..L : s[k] = NUL}
<1>1. PICK k \in T : \A m \in T : k <= m
  <2>1. T \subseteq Nat /\ T # {}
    OBVIOUS
  <2> HIDE DEF T
  <2> QED
    BY <2>1, LeastOf
<1>2. k - 1 \in 0..(L - 1) /\ (k - 1) + 1 = k
  OBVIOUS
<1>3. ASSUME NEW j \in 1..(k - 1) PROVE s[j] # NUL
  BY <1>1
<1>4. s[(k - 1) + 1] = NUL
  BY <1>2
<1> QED
  BY <1>2, <1>3, <1>4

\* The first NUL of a string of this length is behind c bytes.
Ends(s, L, c) ==
    /\ s = [k \in 1..L |-> s[k]]
    /\ c \in 0..(L - 1) /\ s[c + 1] = NUL /\ \A j \in 1..c : s[j] # NUL

\* CString ends at the first NUL.
LEMMA CStringIs ==
    ASSUME NEW L \in Nat, NEW s, NEW c, Ends(s, L, c)
    PROVE  CString(s) = [j \in 1..c |-> s[j]]
<1>0. /\ s = [k \in 1..L |-> s[k]]
      /\ c \in 0..(L - 1) /\ s[c + 1] = NUL /\ \A j \in 1..c : s[j] # NUL
  BY Zenon DEF Ends
<1>1. (CHOOSE k \in DOMAIN s : s[k] = NUL /\ \A j \in 1..(k - 1) : s[j] # NUL) = c + 1
  <2>0. DOMAIN s = 1..L
    BY <1>0
  <2>1. c + 1 \in DOMAIN s /\ (c + 1) - 1 = c
    BY <1>0, <2>0
  <2>2. \A i \in DOMAIN s : 1..i \subseteq DOMAIN s
    BY <2>0
  <2>3. \A j \in 1..((c + 1) - 1) : s[j] # NUL
    BY <1>0, <2>1
  <2>4. DOMAIN s \subseteq Nat /\ DOMAIN s \subseteq Nat \ {0}
    BY <2>0
  <2> QED
    BY <1>0, <2>1, <2>2, <2>3, <2>4, FirstOf
<1>2. CString(s) = SubSeq(s, 1, (c + 1) - 1)
  BY <1>1, Zenon DEF CString
<1>3. (c + 1) - 1 = c
  BY <1>0
<1>4. s \in Seq({s[k] : k \in 1..L}) /\ Len(s) = L
  BY <1>0, SequenceOfFunction
<1>5. SubSeq(s, 1, c) = [j \in 1..c |-> s[j]]
  BY <1>0, <1>4
<1> QED
  BY <1>2, <1>3, <1>5

-----------------------------------------------------------------------------
(* Names.                                                                  *)

Proper(dsk) ==
    /\ dsk.bytes \in Seq(ToSet(dsk.bytes)) /\ dsk.bytes[Len(dsk.bytes)] = NUL
    /\ dsk.field \in FIXED..(Len(dsk.bytes) - 1)
    /\ dsk.sata \in BOOLEAN /\ (dsk.sata => dsk.field % 2 = 0)

\* Where the byte of a place comes from.
From(dsk, k) == IF ~dsk.sata THEN k ELSE IF k % 2 = 1 THEN k + 1 ELSE k - 1

\* The bytes in order.
InSequence(dsk) == IF dsk.sata THEN Swapped(dsk.bytes) ELSE dsk.bytes

\* Bytes are swapped within their pairs.
LEMMA Pairs ==
    ASSUME NEW f \in Nat, f % 2 = 0, NEW k \in Nat
    PROVE  /\ k \in 1..f /\ k % 2 = 1 => k + 1 \in 1..f
           /\ k \in 1..f /\ k % 2 # 1 => k - 1 \in 1..f
           /\ k > f /\ k % 2 # 1 => k - 1 > f
OBVIOUS

\* The fixed bytes are in order; those that follow are as they were.
LEMMA InSequenceIs ==
    ASSUME NEW dsk, Proper(dsk), FIXED \in Nat, FIXED % 2 = 0
    PROVE  LET L == Len(dsk.bytes) IN
           /\ L \in Nat \ {0}
           /\ InSequence(dsk) = [k \in 1..L |-> InSequence(dsk)[k]]
           /\ \A k \in 1..FIXED : InSequence(dsk)[k] = dsk.bytes[From(dsk, k)]
           /\ \A k \in (FIXED + 1)..L : InSequence(dsk)[k] = dsk.bytes[k]
<1> DEFINE L == Len(dsk.bytes)
<1>1. L \in Nat /\ DOMAIN dsk.bytes = 1..L /\ L > FIXED
  BY DEF Proper
<1>2. dsk.bytes = [k \in 1..L |-> dsk.bytes[k]]
  BY <1>1 DEF Proper
<1> HIDE DEF L
<1>3. CASE dsk.sata
  <2>1. InSequence(dsk)
          = [k \in 1..L |-> IF k > FIXED THEN dsk.bytes[k]
                            ELSE IF k % 2 = 1 THEN dsk.bytes[k + 1] ELSE dsk.bytes[k - 1]]
    BY <1>1, <1>3 DEF InSequence, Swapped
  <2>2. \A k \in 1..FIXED : k \in 1..L /\ ~(k > FIXED)
    BY <1>1
  <2>3. \A k \in (FIXED + 1)..L : k \in 1..L /\ k > FIXED
    BY <1>1
  <2>4. InSequence(dsk) = [k \in 1..L |-> InSequence(dsk)[k]]
    BY <2>1
  <2>5. \A k \in 1..FIXED : InSequence(dsk)[k] = dsk.bytes[From(dsk, k)]
    BY <1>3, <2>1, <2>2 DEF From
  <2>6. \A k \in (FIXED + 1)..L : InSequence(dsk)[k] = dsk.bytes[k]
    BY <2>1, <2>3
  <2>7. L \in Nat \ {0}
    BY <1>1
  <2> QED
    BY <2>4, <2>5, <2>6, <2>7 DEF L
<1>4. CASE ~dsk.sata
  <2>1. InSequence(dsk) = dsk.bytes
    BY <1>4, Zenon DEF InSequence
  <2>2. \A k \in 1..FIXED : From(dsk, k) = k
    BY <1>4, Zenon DEF From
  <2>3. L \in Nat \ {0}
    BY <1>1
  <2> QED
    BY <1>2, <2>1, <2>2, <2>3, Zenon DEF L
<1> QED
  BY <1>3, <1>4


\* The field as it is read, with a NUL behind it, and the places of it that are
\* in a name of c bytes.
FieldOf(dsk) ==
    [k \in 1..dsk.field |->
        IF ~dsk.sata THEN dsk.bytes[k] ELSE dsk.bytes[IF k % 2 = 1 THEN k + 1 ELSE k - 1]]

InUse(text, c) == {j \in 1..c : text[j] # BLANK}
Joins(text, c) ==
    {j \in (1..c) \ InUse(text, c) : j + 1 \in InUse(text, c) /\ \E k \in InUse(text, c) : k < j}
Places(text, c) == InUse(text, c) \cup Joins(text, c)

\* The places that are kept of the first bytes.
KeptPlaces(str) ==
    {k \in (DOMAIN str) \ ({i \in DOMAIN str : \A j \in 1..i : str[j] = BLANK}
                             \cup {i \in DOMAIN str : \E j \in 1..i : str[j] = NUL}) :
        KeptOf(str, k)}

\* Text is what is in front of the first NUL of a field.
Reads(dsk, text, c) ==
    /\ c \in 0..dsk.field
    /\ text = [k \in 1..c |-> FieldOf(dsk)[k]]
    /\ \A k \in 1..c : text[k] # NUL
    /\ c < dsk.field => FieldOf(dsk)[c + 1] = NUL

\* Text is the field up to its first NUL.
LEMMA TextIs ==
    ASSUME NEW dsk, dsk.field \in Nat
    PROVE  \E c : Reads(dsk, CString(Append(FieldOf(dsk), NUL)), c)
<1> DEFINE f == dsk.field
           A == Append(FieldOf(dsk), NUL)
<1>1. FieldOf(dsk) = [k \in 1..f |-> FieldOf(dsk)[k]]
  BY DEF FieldOf
<1>2. A = [k \in 1..(f + 1) |-> A[k]] /\ A[f + 1] = NUL
      /\ \A k \in 1..f : A[k] = FieldOf(dsk)[k]
  <2>1. FieldOf(dsk) \in Seq({FieldOf(dsk)[k] : k \in 1..f}) /\ Len(FieldOf(dsk)) = f
    BY <1>1, SequenceOfFunction
  <2> DEFINE V == {FieldOf(dsk)[k] : k \in 1..f} \cup {NUL}
  <2>2. FieldOf(dsk) \in Seq(V) /\ NUL \in V
    <3>1. FieldOf(dsk) \in [1..f -> V]
      BY <1>1
    <3> QED
      BY <3>1
  <2> HIDE DEF V
  <2>3. A \in Seq(V) /\ Len(A) = f + 1 /\ A[f + 1] = NUL
        /\ \A k \in 1..f : A[k] = FieldOf(dsk)[k]
    BY <2>1, <2>2
  <2> HIDE DEF A
  <2>4. A = [k \in 1..Len(A) |-> A[k]]
    BY <2>3, SequenceIs
  <2> QED
    BY <2>3, <2>4, Zenon
<1> HIDE DEF A
<1>3. PICK c \in 0..((f + 1) - 1) : A[c + 1] = NUL /\ \A j \in 1..c : A[j] # NUL
  <2>1. f + 1 \in Nat /\ \E k \in 1..(f + 1) : A[k] = NUL
    BY <1>2
  <2> QED
    BY <2>1, FirstNul
<1>4. CString(A) = [j \in 1..c |-> A[j]]
  <2> DEFINE L == f + 1
  <2>1. L \in Nat /\ A = [k \in 1..L |-> A[k]] /\ c \in 0..(L - 1)
    BY <1>2
  <2>2. A[c + 1] = NUL /\ \A j \in 1..c : A[j] # NUL
    BY <1>3
  <2> HIDE DEF L, A
  <2>3. Ends(A, L, c)
    BY <2>1, <2>2, Zenon DEF Ends
  <2> QED
    BY <2>1, <2>3, CStringIs, Zenon
<1>5. \A j \in 1..c : j \in 1..f
  BY <1>3
<1>6. CString(A) = [j \in 1..c |-> FieldOf(dsk)[j]]
  BY <1>2, <1>4, <1>5
<1>7. \A k \in 1..c : CString(A)[k] # NUL
  BY <1>3, <1>4
<1>8. c \in 0..f
  BY <1>3
<1>9. c < f => FieldOf(dsk)[c + 1] = NUL
  <2>1. c < f => c + 1 \in 1..f
    BY <1>3
  <2> QED
    BY <1>2, <1>3, <2>1
<1>10. Reads(dsk, CString(A), c)
  BY <1>6, <1>7, <1>8, <1>9, Zenon DEF Reads
<1> QED
  BY <1>10 DEF A

\* The name consists of the bytes at those places.
LEMMA NameIs ==
    ASSUME NEW dsk, dsk.field \in Nat, NEW c, NEW text,
           text = CString(Append(FieldOf(dsk), NUL)), Reads(dsk, text, c)
    PROVE  Name(dsk) = [k \in DOMAIN Ascending(Places(text, c)) |->
                           text[Ascending(Places(text, c))[k]]]
<1>1. DOMAIN text = 1..c
  BY DEF Reads
<1> DEFINE used  == {j \in DOMAIN text : text[j] # BLANK}
           joins == {j \in DOMAIN text \ used : j + 1 \in used /\ \E k \in used : k < j}
           order == Ascending(used \cup joins)
<1>2. used = InUse(text, c)
  BY <1>1, Zenon DEF InUse
<1>3. joins = Joins(text, c)
  <2>1. joins = {j \in (1..c) \ used : j + 1 \in used /\ \E k \in used : k < j}
    BY <1>1, Zenon
  <2> HIDE DEF used, joins
  <2> QED
    BY <1>2, <2>1, Zenon DEF Joins
<1>4. Name(dsk) = [k \in DOMAIN order |-> text[order[k]]]
  BY Zenon DEF Name, FieldOf
<1> HIDE DEF used, joins
<1>5. order = Ascending(Places(text, c))
  BY <1>2, <1>3, Zenon DEF Places
<1> HIDE DEF order
<1> QED
  BY <1>4, <1>5, Zenon

\* A string consists of the first bytes, behind which the field is blank.
Begins(dsk, str) ==
    /\ str = [k \in 1..FIXED |-> str[k]]
    /\ dsk.field \in Nat /\ FIXED <= dsk.field
    /\ \A k \in 1..FIXED : str[k] = FieldOf(dsk)[k]
    /\ \A k \in (FIXED + 1)..dsk.field : FieldOf(dsk)[k] = BLANK

\* Of the first bytes just these are kept.
LEMMA KeptAre ==
    ASSUME NEW dsk, FIXED \in Nat, NEW str, Begins(dsk, str),
           NEW c, NEW text, Reads(dsk, text, c)
    PROVE  /\ KeptPlaces(str) = Places(text, c)
           /\ \A k \in Places(text, c) : k \in 1..FIXED /\ k \in 1..c /\ str[k] = text[k]
<1>a. /\ str = [k \in 1..FIXED |-> str[k]]
      /\ dsk.field \in Nat /\ FIXED <= dsk.field
      /\ \A k \in 1..FIXED : str[k] = FieldOf(dsk)[k]
      /\ \A k \in (FIXED + 1)..dsk.field : FieldOf(dsk)[k] = BLANK
  BY Zenon DEF Begins
<1>0. c \in Nat /\ c <= dsk.field /\ \A k \in 1..c : text[k] = FieldOf(dsk)[k] /\ text[k] # NUL
  BY <1>a DEF Reads
<1>1. \A k \in 1..FIXED : k <= c => str[k] = text[k] /\ k \in 1..c /\ str[k] # NUL
  BY <1>0, <1>a
<1>2. c < FIXED => c + 1 \in 1..FIXED /\ str[c + 1] = NUL
  BY <1>0, <1>a DEF Reads
<1>3. \A k \in 1..c : FIXED < k => text[k] = BLANK
  BY <1>0, <1>a
<1>4. BLANK # NUL
  BY DEF BLANK, NUL
<1>5. DOMAIN str = 1..FIXED /\ Len(str) = FIXED
  BY <1>a
<1> HIDE DEF BLANK, NUL
<1>6. \A j \in InUse(text, c) : j \in 1..c /\ j \in 1..FIXED /\ text[j] # BLANK
  BY <1>0, <1>3 DEF InUse
<1>7. \A j \in Joins(text, c) : /\ j \in 1..c /\ j \in 1..FIXED /\ text[j] = BLANK
                                /\ j + 1 \in InUse(text, c)
                                /\ \E k \in InUse(text, c) : k < j
  <2> SUFFICES ASSUME NEW j \in Joins(text, c)
               PROVE  /\ j \in 1..c /\ j \in 1..FIXED /\ text[j] = BLANK
                      /\ j + 1 \in InUse(text, c)
                      /\ \E k \in InUse(text, c) : k < j
    OBVIOUS
  <2>1. j \in 1..c /\ text[j] = BLANK /\ j + 1 \in InUse(text, c)
        /\ \E k \in InUse(text, c) : k < j
    BY DEF Joins, InUse
  <2>2. j + 1 \in 1..FIXED
    BY <1>6, <2>1
  <2> QED
    BY <2>1, <2>2
<1>8. ASSUME NEW k \in Places(text, c) PROVE k \in 1..FIXED /\ k \in 1..c /\ str[k] = text[k]
  BY <1>1, <1>6, <1>7 DEF Places
<1>9. ASSUME NEW k \in KeptPlaces(str) PROVE k \in Places(text, c)
  <2>1. /\ k \in 1..FIXED /\ KeptOf(str, k)
        /\ \A j \in 1..k : str[j] # NUL
        /\ \E j \in 1..k : str[j] # BLANK
    BY <1>5 DEF KeptPlaces
  <2>2. k <= c
    <3>1. ~(c < FIXED /\ c + 1 \in 1..k)
      BY <1>2, <2>1
    <3> QED
      BY <1>0, <2>1, <3>1
  <2>3. CASE str[k] # BLANK
    BY <1>1, <2>1, <2>2, <2>3 DEF Places, InUse
  <2>4. CASE str[k] = BLANK
    <3>1. k < FIXED /\ str[k + 1] # NUL /\ str[k + 1] # BLANK
      <4>1. k < Len(str) /\ str[k + 1] \notin {NUL, BLANK}
        BY <2>1, <2>4 DEF KeptOf
      <4> QED
        BY <1>5, <4>1
    <3>2. k + 1 <= c
      <4>1. k = c => c < FIXED
        BY <3>1
      <4>2. k # c
        BY <1>2, <3>1, <4>1
      <4> QED
        BY <1>0, <2>1, <2>2, <4>2
    <3>3. k + 1 \in InUse(text, c)
      <4>1. k + 1 \in 1..FIXED /\ k + 1 \in 1..c
        BY <2>1, <1>0, <3>1, <3>2
      <4>2. str[k + 1] = text[k + 1]
        BY <1>1, <3>2, <4>1
      <4> QED
        BY <3>1, <4>1, <4>2 DEF InUse
    <3>4. PICK j \in 1..k : str[j] # BLANK
      BY <2>1
    <3>5. j \in InUse(text, c) /\ j < k
      <4>1. j \in 1..FIXED /\ j <= c /\ j # k
        BY <1>0, <2>1, <2>2, <2>4, <3>4
      <4>2. j \in 1..c /\ text[j] # BLANK
        BY <1>1, <3>4, <4>1
      <4> QED
        BY <2>1, <4>1, <4>2 DEF InUse
    <3>6. k \in (1..c) \ InUse(text, c)
      BY <1>1, <2>1, <2>2, <2>4 DEF InUse
    <3> QED
      BY <3>3, <3>5, <3>6 DEF Places, Joins
  <2> QED
    BY <2>3, <2>4
<1>10. ASSUME NEW k \in Places(text, c) PROVE k \in KeptPlaces(str)
  <2>0. k \in 1..FIXED /\ k \in 1..c /\ str[k] = text[k]
    BY <1>8
  <2>1. \A j \in 1..k : str[j] # NUL
    <3>1. \A j \in 1..k : j \in 1..FIXED /\ j <= c
      BY <1>0, <2>0
    <3> QED
      BY <1>1, <3>1
  <2>2. CASE k \in InUse(text, c)
    <3>1. str[k] # BLANK /\ k \in 1..k
      BY <1>6, <2>0, <2>2
    <3>2. KeptOf(str, k)
      BY <3>1 DEF KeptOf
    <3> QED
      BY <1>5, <2>0, <2>1, <3>1, <3>2 DEF KeptPlaces
  <2>3. CASE k \in Joins(text, c)
    <3>1. k + 1 \in InUse(text, c) /\ \E j \in InUse(text, c) : j < k
      BY <1>7, <2>3
    <3>2. k + 1 \in 1..FIXED /\ str[k + 1] = text[k + 1] /\ text[k + 1] # BLANK
          /\ text[k + 1] # NUL
      BY <1>0, <1>6, <1>8, <3>1 DEF Places
    <3>3. KeptOf(str, k)
      <4>1. Len(str) = FIXED /\ k < FIXED
        BY <1>5, <2>0, <3>2
      <4> QED
        BY <3>2, <4>1 DEF KeptOf
    <3>4. \E j \in 1..k : str[j] # BLANK
      <4>1. PICK j \in InUse(text, c) : j < k
        BY <3>1
      <4>2. j \in 1..k /\ str[j] = text[j] /\ text[j] # BLANK
        BY <1>6, <1>8, <2>0, <4>1 DEF Places
      <4> QED
        BY <4>2
    <3> QED
      BY <1>5, <2>0, <2>1, <3>3, <3>4 DEF KeptPlaces
  <2> QED
    BY <2>2, <2>3 DEF Places
<1> QED
  BY <1>8, <1>9, <1>10


\* Of a drive with a short name the fixed bytes are those of the field, and blanks
\* follow.
LEMMA FieldIs ==
    ASSUME NEW dsk, Proper(dsk), FIXED \in Nat, FIXED % 2 = 0, Short(dsk)
    PROVE  /\ dsk.field \in Nat /\ FIXED <= dsk.field /\ dsk.field < Len(dsk.bytes)
           /\ \A k \in 1..FIXED : InSequence(dsk)[k] = FieldOf(dsk)[k]
           /\ \A k \in (FIXED + 1)..dsk.field : FieldOf(dsk)[k] = BLANK
<1>1. dsk.field \in Nat /\ FIXED <= dsk.field /\ dsk.field < Len(dsk.bytes)
  BY DEF Proper
<1>2. \A k \in 1..FIXED : InSequence(dsk)[k] = dsk.bytes[From(dsk, k)]
  BY InSequenceIs
<1>3. \A k \in 1..dsk.field : FieldOf(dsk)[k] = dsk.bytes[From(dsk, k)]
  BY DEF FieldOf, From
<1>4. \A k \in (FIXED + 1)..dsk.field : dsk.bytes[k] = BLANK
  BY DEF Short
<1>5. ASSUME NEW k \in (FIXED + 1)..dsk.field
      PROVE  From(dsk, k) \in (FIXED + 1)..dsk.field
  <2>1. CASE ~dsk.sata
    BY <2>1 DEF From
  <2>2. CASE dsk.sata
    <3>0. dsk.field % 2 = 0 /\ k \in Nat
      BY <1>1, <2>2 DEF Proper
    <3>1. k % 2 = 1 => k + 1 \in 1..dsk.field
      BY <1>1, <3>0, Pairs
    <3>2. k % 2 # 1 => k - 1 > FIXED
      BY <3>0, Pairs
    <3>3. k > FIXED /\ k <= dsk.field
      BY <1>1
    <3>4. CASE k % 2 = 1
      <4>1. From(dsk, k) = k + 1
        BY <2>2, <3>4, Zenon DEF From
      <4> QED
        BY <1>1, <3>0, <3>1, <3>3, <3>4, <4>1
    <3>5. CASE k % 2 # 1
      <4>1. From(dsk, k) = k - 1
        BY <2>2, <3>5, Zenon DEF From
      <4> QED
        BY <1>1, <3>0, <3>2, <3>3, <3>5, <4>1
    <3> QED
      BY <3>4, <3>5
  <2> QED
    BY <2>1, <2>2
<1>6. \A k \in 1..FIXED : k \in 1..dsk.field
  BY <1>1
<1>7. \A k \in (FIXED + 1)..dsk.field : k \in 1..dsk.field
  BY <1>1
<1>8. \A k \in (FIXED + 1)..dsk.field : FieldOf(dsk)[k] = BLANK
  BY <1>3, <1>4, <1>5, <1>7, Zenon
<1>9. \A k \in 1..FIXED : InSequence(dsk)[k] = FieldOf(dsk)[k]
  BY <1>2, <1>3, <1>6, Zenon
<1> QED
  BY <1>1, <1>8, <1>9, Zenon

\* What strdup() finds: the fixed bytes, of which n are kept, and those that follow.
Fixed(dsk) == FixString(SubSeq(InSequence(dsk), 1, FIXED))
Whole(dsk) == Fixed(dsk) \o SubSeq(InSequence(dsk), FIXED + 1, Len(InSequence(dsk)))

\* The bytes kept, a NUL if there is room for one, what follows, and a NUL.
LEMMA WholeIs ==
    ASSUME NEW dsk, Proper(dsk), FIXED \in Nat, FIXED % 2 = 0
    PROVE  LET L == Len(dsk.bytes)
               str == SubSeq(InSequence(dsk), 1, FIXED)
               at == Ascending(KeptPlaces(str))
           IN  /\ str = [k \in 1..FIXED |-> str[k]]
               /\ \A k \in 1..FIXED : str[k] = InSequence(dsk)[k]
               /\ L \in Nat /\ FIXED < L
               /\ Whole(dsk) = [k \in 1..L |-> Whole(dsk)[k]]
               /\ \A k \in 1..FIXED : Whole(dsk)[k] = IF k \in DOMAIN at THEN str[at[k]] ELSE NUL
               /\ Whole(dsk)[L] = NUL
<1> DEFINE L == Len(dsk.bytes)
           B == InSequence(dsk)
           str == SubSeq(B, 1, FIXED)
           rest == SubSeq(B, FIXED + 1, Len(B))
           at == Ascending(KeptPlaces(str))
<1>1. L \in Nat /\ FIXED < L
  BY DEF Proper
<1>2. B = [k \in 1..L |-> B[k]] /\ \A k \in (FIXED + 1)..L : B[k] = dsk.bytes[k]
  BY InSequenceIs
<1>3. dsk.bytes[L] = NUL
  BY DEF Proper
<1> HIDE DEF L, B
<1> DEFINE V == {B[k] : k \in 1..L}
<1>4. B \in Seq(V) /\ Len(B) = L
  BY <1>1, <1>2, SequenceOfFunction
<1> HIDE DEF V
<1>5. str \in Seq(V) /\ Len(str) = FIXED /\ \A k \in 1..FIXED : str[k] = B[k]
  BY <1>1, <1>4
<1>6. rest \in Seq(V) /\ Len(rest) = L - FIXED /\ rest[L - FIXED] = B[L]
  BY <1>1, <1>4
<1>7. str = [k \in 1..FIXED |-> str[k]] /\ DOMAIN str = 1..FIXED
  <2> HIDE DEF str
  <2>1. str = [k \in 1..Len(str) |-> str[k]]
    BY <1>5, SequenceIs
  <2> QED
    BY <1>5, <2>1
<1>8. Fixed(dsk) = [k \in DOMAIN str |-> IF k \in DOMAIN at THEN str[at[k]] ELSE NUL]
  BY Zenon DEF Fixed, FixString, KeptPlaces, B
<1> HIDE DEF str, at, rest
<1>9. Fixed(dsk) = [k \in 1..FIXED |-> IF k \in DOMAIN at THEN str[at[k]] ELSE NUL]
  BY <1>7, <1>8, Zenon
<1> DEFINE F == Fixed(dsk)
           U == {F[k] : k \in 1..FIXED} \cup V
<1>10. F \in Seq(U) /\ Len(F) = FIXED /\ rest \in Seq(U)
  <2>1. F = [k \in 1..FIXED |-> F[k]]
    BY <1>9
  <2>2. F \in [1..FIXED -> U]
    <3> HIDE DEF F
    <3> QED
      BY <2>1
  <2>3. FIXED \in Nat
    OBVIOUS
  <2>4. rest \in [1..Len(rest) -> U] /\ Len(rest) \in Nat
    BY <1>6, <1>1
  <2> HIDE DEF U, F
  <2> QED
    BY <2>2, <2>3, <2>4
<1>11. Whole(dsk) = F \o rest
  BY Zenon DEF Whole, B, rest
<1> HIDE DEF F, U
<1>12. /\ F \o rest \in Seq(U) /\ Len(F \o rest) = L
       /\ \A k \in 1..FIXED : (F \o rest)[k] = F[k]
       /\ (F \o rest)[L] = rest[L - FIXED]
  <2>0. \A s, t \in Seq(U) :
          /\ s \o t \in Seq(U) /\ Len(s \o t) = Len(s) + Len(t)
          /\ \A k \in 1..Len(s) : (s \o t)[k] = s[k]
          /\ \A k \in 1..Len(t) : (s \o t)[Len(s) + k] = t[k]
    BY AppendedIs
  <2>1. /\ F \o rest \in Seq(U) /\ Len(F \o rest) = Len(F) + Len(rest)
        /\ \A k \in 1..Len(F) : (F \o rest)[k] = F[k]
        /\ \A k \in 1..Len(rest) : (F \o rest)[Len(F) + k] = rest[k]
    BY <1>10, <2>0, Zenon
  <2>2. FIXED + (L - FIXED) = L /\ L - FIXED \in 1..(L - FIXED)
    BY <1>1
  <2> QED
    BY <1>6, <1>10, <2>1, <2>2, Zenon
<1>13. Whole(dsk) = [k \in 1..L |-> Whole(dsk)[k]]
  <2>1. Whole(dsk) \in Seq(U) /\ Len(Whole(dsk)) = L
    BY <1>11, <1>12, Zenon
  <2> QED
    BY <2>1, SequenceIs
<1>14. \A k \in 1..FIXED : Whole(dsk)[k] = IF k \in DOMAIN at THEN str[at[k]] ELSE NUL
  <2>1. \A k \in 1..FIXED : Whole(dsk)[k] = F[k]
    BY <1>11, <1>12, Zenon
  <2>2. \A k \in 1..FIXED : F[k] = IF k \in DOMAIN at THEN str[at[k]] ELSE NUL
    BY <1>9 DEF F
  <2> QED
    BY <2>1, <2>2, Zenon
<1>15. Whole(dsk)[L] = NUL
  <2>1. L \in (FIXED + 1)..L
    BY <1>1
  <2> QED
    BY <1>2, <1>3, <1>6, <1>11, <1>12, <2>1, Zenon
<1> QED
  BY <1>1, <1>5, <1>7, <1>13, <1>14, <1>15, Zenon DEF L, str, at, B


(***************************************************************************)
(* The model of a drive with a short name is its name.                     *)
(***************************************************************************)
LEMMA CleanedIs ==
    ASSUME NEW dsk, Proper(dsk), FIXED \in Nat, FIXED % 2 = 0, Short(dsk)
    PROVE  ModelOf(dsk) = Name(dsk)
<1> DEFINE L == Len(dsk.bytes)
           str == SubSeq(InSequence(dsk), 1, FIXED)
           text == CString(Append(FieldOf(dsk), NUL))
           at == Ascending(KeptPlaces(str))
<1>1. /\ dsk.field \in Nat /\ FIXED <= dsk.field
      /\ \A k \in 1..FIXED : InSequence(dsk)[k] = FieldOf(dsk)[k]
      /\ \A k \in (FIXED + 1)..dsk.field : FieldOf(dsk)[k] = BLANK
  BY FieldIs
<1>2. /\ str = [k \in 1..FIXED |-> str[k]]
      /\ \A k \in 1..FIXED : str[k] = InSequence(dsk)[k]
      /\ L \in Nat /\ FIXED < L
      /\ Whole(dsk) = [k \in 1..L |-> Whole(dsk)[k]]
      /\ \A k \in 1..FIXED : Whole(dsk)[k] = IF k \in DOMAIN at THEN str[at[k]] ELSE NUL
  BY WholeIs
<1>3. PICK c : Reads(dsk, text, c)
  BY <1>1, TextIs
<1>4. Name(dsk) = [k \in DOMAIN Ascending(Places(text, c)) |->
                      text[Ascending(Places(text, c))[k]]]
  BY <1>1, <1>3, NameIs
<1>5. ModelOf(dsk) = CString(Whole(dsk))
  BY Zenon DEF ModelOf, Whole, Fixed, InSequence
<1> HIDE DEF L, str, text
<1>6. /\ KeptPlaces(str) = Places(text, c)
      /\ \A k \in Places(text, c) : k \in 1..FIXED /\ k \in 1..c /\ str[k] = text[k]
  <2>1. \A k \in 1..FIXED : str[k] = FieldOf(dsk)[k]
    BY <1>1, <1>2, Zenon
  <2>2. Begins(dsk, str)
    BY <1>1, <1>2, <2>1, Zenon DEF Begins
  <2> QED
    BY <1>3, <2>2, KeptAre
<1> DEFINE K == Places(text, c)
           N == Cardinality(K)
<1>7. /\ N \in Nat /\ DOMAIN at = 1..N
      /\ \A k \in 1..N : at[k] \in K
  <2>1. K \in SUBSET Nat /\ IsFiniteSet(K)
    <3>1. K \in SUBSET (1..FIXED)
      BY <1>6
    <3>2. IsFiniteSet(1..FIXED)
      <4>1. 1 \in Int /\ FIXED \in Int
        OBVIOUS
      <4> QED
        BY <4>1, FS_Interval
    <3> HIDE DEF K
    <3>3. IsFiniteSet(K)
      BY <3>1, <3>2, FS_Subset
    <3>4. K \in SUBSET Nat
      BY <3>1
    <3> QED
      BY <3>3, <3>4
  <2>2. at = Ascending(K)
    BY <1>6, Zenon
  <2> HIDE DEF K, at
  <2> QED
    BY <2>1, <2>2, AscendingIs
<1>8. Name(dsk) = [k \in 1..N |-> text[at[k]]]
  <2>1. at = Ascending(Places(text, c))
    BY <1>6, Zenon
  <2> HIDE DEF at, N
  <2> QED
    BY <1>4, <1>7, <2>1, Zenon
<1>9. N < FIXED
  <2> HIDE DEF at, N
  <2>1. Len(Name(dsk)) = N
    BY <1>7, <1>8
  <2> QED
    BY <2>1, Zenon DEF Short
<1>10. \A k \in 1..N : /\ k \in 1..FIXED
                       /\ Whole(dsk)[k] = text[at[k]] /\ text[at[k]] # NUL
  <2> SUFFICES ASSUME NEW k \in 1..N
               PROVE  /\ k \in 1..FIXED
                      /\ Whole(dsk)[k] = text[at[k]] /\ text[at[k]] # NUL
    OBVIOUS
  <2> HIDE DEF N, K, at
  <2>1. k \in 1..FIXED
    BY <1>7, <1>9
  <2>2. Whole(dsk)[k] = str[at[k]] /\ at[k] \in K
    BY <1>2, <1>7, <2>1, Zenon
  <2>3. at[k] \in 1..c /\ str[at[k]] = text[at[k]]
    BY <1>6, <2>2, Zenon DEF K
  <2>4. text[at[k]] # NUL
    BY <1>3, <2>3, Zenon DEF Reads
  <2> QED
    BY <2>1, <2>2, <2>3, <2>4, Zenon
<1> HIDE DEF N, K, at
<1>11. Ends(Whole(dsk), L, N)
  <2>1. N \in 0..(L - 1) /\ N + 1 \in 1..FIXED /\ N + 1 \notin 1..N
    BY <1>2, <1>7, <1>9
  <2>2. Whole(dsk)[N + 1] = NUL
    BY <1>2, <1>7, <2>1, Zenon
  <2>3. \A k \in 1..N : Whole(dsk)[k] # NUL
    BY <1>10, Zenon
  <2> QED
    BY <1>2, <2>1, <2>2, <2>3, Zenon DEF Ends
<1>12. CString(Whole(dsk)) = [k \in 1..N |-> Whole(dsk)[k]]
  <2>1. L \in Nat
    BY <1>2
  <2> QED
    BY <1>11, <2>1, CStringIs, Zenon
<1> QED
  BY <1>5, <1>8, <1>10, <1>12, Zenon

-----------------------------------------------------------------------------
(* One disk's part of the reply.                                           *)

\* From place a on, s holds a model t of m characters between separators, with
\* the path in front of it and the temperature and the unit behind.
Cells(s, a, m, sep, path, t, temperature, unt) ==
    /\ s[a + 1] = sep /\ s[a + 2] = path /\ s[a + 3] = sep
    /\ \A k \in 1..m : s[(a + 3) + k] = t[k]
    /\ s[a + (m + 4)] = sep /\ s[a + (m + 5)] = temperature
    /\ s[a + (m + 6)] = sep /\ s[a + (m + 7)] = unt
    /\ s[a + (m + 8)] = sep

\* So daemon_send_msg writes them.
LEMMA CellsIs ==
    ASSUME NEW V, NEW t \in Seq(V), NEW sep \in V, NEW path \in V,
           NEW temperature \in V, NEW unt \in V
    PROVE  LET m == Len(t)
               s == <<sep>> \o (<<path, sep>> \o t \o <<sep, temperature, sep, unt>>)
                      \o <<sep>>
           IN  /\ <<path, sep>> \o t \o <<sep, temperature, sep, unt>> \in Seq(V)
               /\ s \in Seq(V) /\ Len(s) = m + 8
               /\ Cells(s, 0, m, sep, path, t, temperature, unt)
<1> DEFINE m == Len(t)
           head == <<path, sep>>
           tail == <<sep, temperature, sep, unt>>
           one == <<sep>>
<1>1. /\ head \in Seq(V) /\ Len(head) = 2 /\ head[1] = path /\ head[2] = sep
      /\ tail \in Seq(V) /\ Len(tail) = 4
      /\ tail[1] = sep /\ tail[2] = temperature /\ tail[3] = sep /\ tail[4] = unt
      /\ one \in Seq(V) /\ Len(one) = 1 /\ one[1] = sep
      /\ m \in Nat
  OBVIOUS
<1> HIDE DEF head, tail, one
<1> DEFINE ht == head \o t
           msg == ht \o tail
           om == one \o msg
           s == om \o one
<1>2. /\ ht \in Seq(V) /\ Len(ht) = m + 2
      /\ \A k \in 1..2 : ht[k] = head[k]
      /\ \A k \in 1..m : ht[2 + k] = t[k]
  <2>1. Joined(ht, V, head, 2, t, m)
    BY <1>1, JoinedIs
  <2>2. 2 + m = m + 2
    BY <1>1
  <2> QED
    BY <2>1, <2>2, Zenon DEF Joined
<1> HIDE DEF ht
<1>3. /\ msg \in Seq(V) /\ Len(msg) = m + 6
      /\ \A k \in 1..(m + 2) : msg[k] = ht[k]
      /\ \A k \in 1..4 : msg[(m + 2) + k] = tail[k]
  <2>1. Joined(msg, V, ht, m + 2, tail, 4)
    BY <1>1, <1>2, JoinedIs
  <2>2. (m + 2) + 4 = m + 6
    BY <1>1
  <2> QED
    BY <2>1, <2>2, Zenon DEF Joined
<1> HIDE DEF msg
<1>4. /\ om \in Seq(V) /\ Len(om) = m + 7 /\ om[1] = sep
      /\ \A k \in 1..(m + 6) : om[1 + k] = msg[k]
  <2>1. Joined(om, V, one, 1, msg, m + 6)
    BY <1>1, <1>3, JoinedIs
  <2>2. 1 + (m + 6) = m + 7 /\ 1 \in 1..1
    BY <1>1
  <2> QED
    BY <1>1, <2>1, <2>2, Zenon DEF Joined
<1> HIDE DEF om
<1>5. /\ s \in Seq(V) /\ Len(s) = m + 8 /\ s[(m + 7) + 1] = sep
      /\ \A k \in 1..(m + 7) : s[k] = om[k]
  <2>1. Joined(s, V, om, m + 7, one, 1)
    BY <1>1, <1>4, JoinedIs
  <2>2. (m + 7) + 1 = m + 8 /\ 1 \in 1..1
    BY <1>1
  <2> QED
    BY <1>1, <2>1, <2>2, Zenon DEF Joined
<1> HIDE DEF s
<1>6. s[1] = sep /\ \A k \in 1..(m + 6) : s[1 + k] = msg[k]
  <2>1. 1 \in 1..(m + 7) /\ \A k \in 1..(m + 6) : 1 + k \in 1..(m + 7)
    BY <1>1
  <2> QED
    BY <1>4, <1>5, <2>1, Zenon
<1>7. s[2] = path /\ s[3] = sep
  <2>1. /\ 1 \in 1..2 /\ 2 \in 1..2 /\ 1 \in 1..(m + 2) /\ 2 \in 1..(m + 2)
        /\ 1 \in 1..(m + 6) /\ 2 \in 1..(m + 6) /\ 1 + 1 = 2 /\ 1 + 2 = 3
    BY <1>1
  <2>2. msg[1] = path
    BY <1>1, <1>2, <1>3, <2>1
  <2>3. msg[2] = sep
    BY <1>1, <1>2, <1>3, <2>1
  <2> QED
    BY <1>6, <2>1, <2>2, <2>3
<1>8. \A k \in 1..m : s[3 + k] = t[k]
  <2> SUFFICES ASSUME NEW k \in 1..m PROVE s[3 + k] = t[k]
    OBVIOUS
  <2>1. 2 + k \in 1..(m + 2) /\ 2 + k \in 1..(m + 6) /\ 1 + (2 + k) = 3 + k
    BY <1>1
  <2> QED
    BY <1>2, <1>3, <1>6, <2>1
<1>9. /\ s[m + 4] = sep /\ s[m + 5] = temperature /\ s[m + 6] = sep /\ s[m + 7] = unt
  <2>1. \A k \in 1..4 : (m + 2) + k \in 1..(m + 6) /\ 1 + ((m + 2) + k) = (m + 3) + k
    BY <1>1
  <2>2. \A k \in 1..4 : s[(m + 3) + k] = tail[k]
    <3> SUFFICES ASSUME NEW k \in 1..4 PROVE s[(m + 3) + k] = tail[k]
      OBVIOUS
    <3>1. s[1 + ((m + 2) + k)] = msg[(m + 2) + k]
      BY <1>6, <2>1, Zenon
    <3> QED
      BY <1>3, <2>1, <3>1, Zenon
  <2>3. /\ 1 \in 1..4 /\ 2 \in 1..4 /\ 3 \in 1..4 /\ 4 \in 1..4
        /\ (m + 3) + 1 = m + 4 /\ (m + 3) + 2 = m + 5
        /\ (m + 3) + 3 = m + 6 /\ (m + 3) + 4 = m + 7
    BY <1>1
  <2>4. s[(m + 3) + 1] = sep /\ s[(m + 3) + 2] = temperature
        /\ s[(m + 3) + 3] = sep /\ s[(m + 3) + 4] = unt
    BY <1>1, <2>2, <2>3, Zenon
  <2> QED
    BY <2>3, <2>4, Zenon
<1>10. /\ 0 + 1 = 1 /\ 0 + 2 = 2 /\ 0 + 3 = 3 /\ 0 + (m + 4) = m + 4 /\ 0 + (m + 5) = m + 5
       /\ 0 + (m + 6) = m + 6 /\ 0 + (m + 7) = m + 7 /\ 0 + (m + 8) = m + 8
       /\ (m + 7) + 1 = m + 8
  BY <1>1
<1>11. Cells(s, 0, m, sep, path, t, temperature, unt)
  BY <1>5, <1>6, <1>7, <1>8, <1>9, <1>10, Zenon DEF Cells
<1> QED
  BY <1>3, <1>5, <1>11 DEF s, om, msg, ht, head, tail, one

-----------------------------------------------------------------------------
(* The separators of a reply.                                              *)

\* Separator r of those around a model of m characters.
Offset(r, m) == IF r = 0 THEN 1 ELSE IF r = 1 THEN 3 ELSE m + (2 * r)

\* A string of N parts, number i behind place at[i - 1], with a model of m[i]
\* characters in it, and separators at five places and nowhere else.
Rows(s, N, at, m, sep) ==
    /\ at \in [Nat -> Nat] /\ m \in [1..N -> Nat] /\ at[0] = 0
    /\ DOMAIN s = 1..at[N]
    /\ \A p \in 1..at[N] : \E i \in 1..N : at[i - 1] < p /\ p <= at[i]
    /\ \A i \in 1..N :
          /\ at[i] = at[i - 1] + (m[i] + 8) /\ at[i] <= at[N]
          /\ \A p \in 1..(m[i] + 8) :
                s[at[i - 1] + p] = sep <=> \E r \in 0..4 : p = Offset(r, m[i])

\* The five separators are in this order, the last one at the end.
LEMMA OffsetsIncrease ==
    \A n \in Nat :
       /\ \A r \in 0..4 : Offset(r, n) \in Nat /\ Offset(r, n) \in 1..(n + 8)
       /\ \A r \in 0..3 : Offset(r, n) < Offset(r + 1, n)
       /\ Offset(4, n) = n + 8 /\ Offset(0, n) = 1
BY DEF Offset

\* Five separators for each part.
LEMMA ByFives ==
    ASSUME NEW N \in Nat
    PROVE  /\ \A q \in 1..(5 * N) : \E i \in 1..N, r \in 0..4 : q = ((5 * (i - 1)) + r) + 1
           /\ \A i \in 1..N, r \in 0..4 :
                 LET q == ((5 * (i - 1)) + r) + 1
                 IN  q \in 1..(5 * N) /\ (q - 1) \div 5 = i - 1 /\ (q - 1) % 5 = r
<1>1. ASSUME NEW q \in 1..(5 * N)
      PROVE  \E i \in 1..N, r \in 0..4 : q = ((5 * (i - 1)) + r) + 1
  <2> DEFINE d == (q - 1) \div 5
             r == (q - 1) % 5
  <2>1. /\ d \in Int /\ r \in 0..4 /\ q - 1 = (5 * d) + r
    <3>1. q - 1 \in Int /\ 5 \in Nat \ {0} /\ 5 - 1 = 4
      OBVIOUS
    <3> QED
      BY <3>1, DivMod
  <2> HIDE DEF d, r
  <2>2. d + 1 \in 1..N /\ (d + 1) - 1 = d
    BY <2>1
  <2>3. q = ((5 * ((d + 1) - 1)) + r) + 1
    BY <2>1, <2>2
  <2> QED
    BY <2>1, <2>2, <2>3
<1>2. ASSUME NEW i \in 1..N, NEW r \in 0..4
      PROVE  LET q == ((5 * (i - 1)) + r) + 1
             IN  q \in 1..(5 * N) /\ (q - 1) \div 5 = i - 1 /\ (q - 1) % 5 = r
  OBVIOUS
<1> QED
  BY <1>1, <1>2

\* Five for each part, where they belong.
InPlace(bars, N, at, m) ==
    /\ DOMAIN bars = 1..(5 * N)
    /\ \A i \in 1..N, r \in 0..4 :
          bars[((5 * (i - 1)) + r) + 1] = at[i - 1] + Offset(r, m[i])

\* Where a character is in a string.
PlacesOf(s, sep) == {k \in DOMAIN s : s[k] = sep}

\* So the separators are found, from the left to the right.
LEMMA BarsAre ==
    ASSUME NEW s, NEW N \in Nat, NEW at, NEW m, NEW sep, Rows(s, N, at, m, sep)
    PROVE  InPlace(Ascending(PlacesOf(s, sep)), N, at, m)
<1> DEFINE P == 1..(5 * N)
           S == {k \in DOMAIN s : s[k] = sep}
           b == [q \in P |-> at[(q - 1) \div 5]
                                + Offset((q - 1) % 5, m[((q - 1) \div 5) + 1])]
<1>1. /\ at \in [Nat -> Nat] /\ m \in [1..N -> Nat] /\ DOMAIN s = 1..at[N]
      /\ \A p \in 1..at[N] : \E i \in 1..N : at[i - 1] < p /\ p <= at[i]
      /\ \A i \in 1..N :
            /\ at[i] = at[i - 1] + (m[i] + 8) /\ at[i] <= at[N]
            /\ \A p \in 1..(m[i] + 8) :
                  s[at[i - 1] + p] = sep <=> \E r \in 0..4 : p = Offset(r, m[i])
  BY Zenon DEF Rows
<1>2. \A q \in P : \E i \in 1..N, r \in 0..4 : q = ((5 * (i - 1)) + r) + 1
  BY ByFives
<1>3. ASSUME NEW i \in 1..N, NEW r \in 0..4
      PROVE  /\ ((5 * (i - 1)) + r) + 1 \in P
             /\ b[((5 * (i - 1)) + r) + 1] = at[i - 1] + Offset(r, m[i])
  <2> DEFINE q == ((5 * (i - 1)) + r) + 1
  <2>1. q \in P /\ (q - 1) \div 5 = i - 1 /\ (q - 1) % 5 = r
    BY ByFives
  <2>2. (i - 1) + 1 = i
    OBVIOUS
  <2> HIDE DEF q, P
  <2>3. b[q] = at[(q - 1) \div 5] + Offset((q - 1) % 5, m[((q - 1) \div 5) + 1])
    BY <2>1
  <2> QED
    BY <2>1, <2>2, <2>3, Zenon DEF q
<1> HIDE DEF P, b, S
<1>4. \A i \in 1..N : /\ i - 1 \in Nat /\ i \in Nat /\ at[i - 1] \in Nat /\ at[i] \in Nat
                      /\ m[i] \in Nat /\ at[N] \in Nat
  BY <1>1
<1>5. \A i \in 1..N, r \in 0..4 :
         /\ Offset(r, m[i]) \in Nat
         /\ Offset(r, m[i]) \in 1..(m[i] + 8)
         /\ r \in 0..3 => Offset(r, m[i]) < Offset(r + 1, m[i])
         /\ Offset(4, m[i]) = m[i] + 8 /\ Offset(0, m[i]) = 1
  BY <1>4, OffsetsIncrease
<1>6. \A q \in P : b[q] \in Nat
  <2> SUFFICES ASSUME NEW q \in P PROVE b[q] \in Nat
    OBVIOUS
  <2>1. PICK i \in 1..N, r \in 0..4 : q = ((5 * (i - 1)) + r) + 1
    BY <1>2
  <2>2. b[q] = at[i - 1] + Offset(r, m[i])
    BY <1>3, <2>1
  <2> QED
    BY <1>4, <1>5, <2>2
<1>7. b \in [P -> Nat]
  BY <1>6 DEF b
<1>8. ASSUME NEW q \in P, q + 1 \in P PROVE b[q] < b[q + 1]
  <2>1. PICK i \in 1..N, r \in 0..4 : q = ((5 * (i - 1)) + r) + 1
    BY <1>2
  <2>2. b[q] = at[i - 1] + Offset(r, m[i])
    BY <1>3, <2>1
  <2>3. CASE r # 4
    <3>1. r + 1 \in 0..4 /\ r \in 0..3 /\ q + 1 = ((5 * (i - 1)) + (r + 1)) + 1
      BY <2>1, <2>3
    <3>2. b[q + 1] = at[i - 1] + Offset(r + 1, m[i])
      BY <1>3, <3>1
    <3>3. Offset(r, m[i]) \in Nat /\ Offset(r + 1, m[i]) \in Nat
          /\ Offset(r, m[i]) < Offset(r + 1, m[i]) /\ at[i - 1] \in Nat
      BY <1>4, <1>5, <3>1
    <3> QED
      BY <2>2, <3>2, <3>3
  <2>4. CASE r = 4
    <3>1. /\ i + 1 \in 1..N /\ 0 \in 0..4 /\ (i + 1) - 1 = i
          /\ q + 1 = ((5 * ((i + 1) - 1)) + 0) + 1
      <4>1. q = (5 * i) /\ q + 1 <= 5 * N /\ i \in Nat
        BY <1>8, <2>1, <2>4 DEF P
      <4> QED
        BY <4>1
    <3>2. b[q + 1] = at[(i + 1) - 1] + Offset(0, m[i + 1])
      BY <1>3, <3>1, Zenon
    <3>3. b[q + 1] = at[i] + 1
      BY <1>5, <3>1, <3>2
    <3>4. b[q] = at[i - 1] + (m[i] + 8)
      BY <1>5, <2>2, <2>4
    <3>5. b[q] = at[i] /\ at[i] \in Nat
      BY <1>1, <1>4, <3>4
    <3> QED
      BY <3>3, <3>5
  <2> QED
    BY <2>3, <2>4
<1>9. S = {b[q] : q \in P}
  <2>1. ASSUME NEW q \in P PROVE b[q] \in S
    <3>1. PICK i \in 1..N, r \in 0..4 : q = ((5 * (i - 1)) + r) + 1
      BY <1>2
    <3>2. b[q] = at[i - 1] + Offset(r, m[i])
      BY <1>3, <3>1
    <3>3. s[at[i - 1] + Offset(r, m[i])] = sep
      <4>1. Offset(r, m[i]) \in 1..(m[i] + 8)
        BY <1>5
      <4> QED
        BY <1>1, <4>1
    <3>4. at[i - 1] + Offset(r, m[i]) \in 1..at[N]
      <4>1. /\ at[i] = at[i - 1] + (m[i] + 8) /\ at[i] <= at[N]
            /\ at[i - 1] \in Nat /\ m[i] \in Nat /\ at[N] \in Nat
        BY <1>1, <1>4
      <4>2. Offset(r, m[i]) \in 1..(m[i] + 8)
        BY <1>5
      <4> QED
        BY <4>1, <4>2
    <3> QED
      BY <1>1, <3>2, <3>3, <3>4 DEF S
  <2>2. ASSUME NEW p \in S PROVE \E q \in P : b[q] = p
    <3>0. p \in 1..at[N] /\ s[p] = sep
      BY <1>1 DEF S
    <3>1. PICK i \in 1..N : at[i - 1] < p /\ p <= at[i]
      BY <1>1, <3>0
    <3>2. PICK o \in Int : o = p - at[i - 1]
      BY <1>4, <3>0
    <3>3. o \in 1..(m[i] + 8) /\ at[i - 1] + o = p
      <4>1. at[i] = at[i - 1] + (m[i] + 8) /\ at[i - 1] \in Nat /\ m[i] \in Nat
        BY <1>1, <1>4
      <4> QED
        BY <3>0, <3>1, <3>2, <4>1
    <3>4. PICK r \in 0..4 : o = Offset(r, m[i])
      BY <1>1, <3>0, <3>3
    <3>5. b[((5 * (i - 1)) + r) + 1] = p /\ ((5 * (i - 1)) + r) + 1 \in P
      BY <1>3, <3>3, <3>4
    <3> QED
      BY <3>5
  <2> QED
    BY <2>1, <2>2
<1>10. /\ DOMAIN Ascending(S) = P
       /\ \A q \in P : Ascending(S)[q] = b[q]
  <2> DEFINE n == 5 * N
  <2>1. n \in Nat /\ P = 1..n
    BY DEF P
  <2> HIDE DEF n
  <2>2. /\ DOMAIN Ascending({b[q] : q \in 1..n}) = 1..n
        /\ \A q \in 1..n : Ascending({b[k] : k \in 1..n})[q] = b[q]
    BY <1>7, <1>8, <2>1, AscendingList
  <2> QED
    BY <1>9, <2>1, <2>2
<1> QED
  BY <1>3, <1>10 DEF S, P, InPlace, PlacesOf

\* The separators of a part are the five of it.
AtOffsets(s, a, m, sep) ==
    \A p \in 1..(m + 8) : s[a + p] = sep <=> \E r \in 0..4 : p = Offset(r, m)

\* No field contains the separator.
NoField(sep, m, path, t, temperature, unt) ==
    /\ sep \notin {path, temperature, unt}
    /\ \A k \in 1..m : t[k] # sep

\* Then nothing but what is put between the fields is a separator.
LEMMA CellsApart ==
    ASSUME NEW s, NEW a \in Nat, NEW m \in Nat, NEW sep, NEW path, NEW t,
           NEW temperature, NEW unt,
           Cells(s, a, m, sep, path, t, temperature, unt),
           NoField(sep, m, path, t, temperature, unt)
    PROVE  AtOffsets(s, a, m, sep)
<1>1. /\ s[a + 1] = sep /\ s[a + 2] = path /\ s[a + 3] = sep
      /\ \A k \in 1..m : s[(a + 3) + k] = t[k]
      /\ s[a + (m + 4)] = sep /\ s[a + (m + 5)] = temperature
      /\ s[a + (m + 6)] = sep /\ s[a + (m + 7)] = unt
      /\ s[a + (m + 8)] = sep
  BY Zenon DEF Cells
<1>0. sep \notin {path, temperature, unt} /\ \A k \in 1..m : t[k] # sep
  BY Zenon DEF NoField
<1>2. \A p : (\E r \in 0..4 : p = Offset(r, m)) <=> p \in {1, 3, m + 4, m + 6, m + 8}
  <2>1. /\ Offset(0, m) = 1 /\ Offset(1, m) = 3 /\ Offset(2, m) = m + 4
        /\ Offset(3, m) = m + 6 /\ Offset(4, m) = m + 8
    BY DEF Offset
  <2>2. 0..4 = {0, 1, 2, 3, 4}
    OBVIOUS
  <2> QED
    BY <2>1, <2>2, Zenon
<1>3. ASSUME NEW p \in 1..(m + 8) PROVE s[a + p] = sep <=> p \in {1, 3, m + 4, m + 6, m + 8}
  <2>1. CASE p \in {1, 3, m + 4, m + 6, m + 8}
    BY <1>1, <2>1
  <2>2. CASE p = 2
    <3>1. s[a + p] # sep
      BY <1>0, <1>1, <2>2
    <3>2. p \notin {1, 3, m + 4, m + 6, m + 8}
      BY <2>2
    <3> QED
      BY <3>1, <3>2
  <2>3. CASE p = m + 5 \/ p = m + 7
    <3>1. s[a + p] # sep
      BY <1>0, <1>1, <2>3
    <3>2. p \notin {1, 3, m + 4, m + 6, m + 8}
      BY <2>3
    <3> QED
      BY <3>1, <3>2
  <2>4. CASE p \in 4..(m + 3)
    <3>0. PICK k \in 1..m : p = 3 + k
      <4>1. p - 3 \in 1..m /\ p = 3 + (p - 3)
        BY <2>4
      <4> QED
        BY <4>1
    <3>1. s[a + p] # sep
      <4>1. a + p = (a + 3) + k
        BY <3>0
      <4>2. s[(a + 3) + k] = t[k]
        BY <1>1
      <4> QED
        BY <1>0, <4>1, <4>2
    <3>2. p \notin {1, 3, m + 4, m + 6, m + 8}
      BY <2>4
    <3> QED
      BY <3>1, <3>2
  <2>5. \/ p \in {1, 3, m + 4, m + 6, m + 8} \/ p = 2 \/ p = m + 5 \/ p = m + 7
        \/ p \in 4..(m + 3)
    OBVIOUS
  <2> QED
    BY <2>1, <2>2, <2>3, <2>4, <2>5, Zenon
<1> QED
  BY <1>2, <1>3, Zenon DEF AtOffsets

\* What is between two separators that follow each other.
Between(s, a, m, path, t, temperature, unt) ==
    /\ SubSeq(s, (a + 1) + 1, (a + 3) - 1) = <<path>>
    /\ SubSeq(s, (a + 3) + 1, (a + (m + 4)) - 1) = t
    /\ SubSeq(s, (a + (m + 4)) + 1, (a + (m + 6)) - 1) = <<temperature>>
    /\ SubSeq(s, (a + (m + 6)) + 1, (a + (m + 8)) - 1) = <<unt>>

\* It is a field.
LEMMA CellsBetween ==
    ASSUME NEW V, NEW s \in Seq(V), NEW a \in Nat, NEW m \in Nat, NEW sep, NEW path,
           NEW t, NEW temperature, NEW unt,
           Cells(s, a, m, sep, path, t, temperature, unt),
           a + (m + 8) <= Len(s), t = [k \in 1..m |-> t[k]]
    PROVE  Between(s, a, m, path, t, temperature, unt)
<1>1. /\ s[a + 2] = path
      /\ \A k \in 1..m : s[(a + 3) + k] = t[k]
      /\ s[a + (m + 5)] = temperature
      /\ s[a + (m + 7)] = unt
  BY Zenon DEF Cells
<1>2. ASSUME NEW b \in Nat, NEW x, b + 1 <= Len(s), s[b + 1] = x
      PROVE  SubSeq(s, b + 1, b + 1) = <<x>>
  <2>1. <<x>> = [k \in 1..1 |-> <<x>>[k]]
    OBVIOUS
  <2>2. \A k \in 1..1 : k = 1
    OBVIOUS
  <2>3. Matches(s, b, 1, <<x>>)
    BY <1>2, <2>1, <2>2 DEF Matches
  <2> QED
    BY <2>3, SliceIs
<1>3. SubSeq(s, (a + 1) + 1, (a + 3) - 1) = <<path>>
  <2>1. (a + 1) + 1 = a + 2 /\ (a + 3) - 1 = (a + 1) + 1 /\ a + 1 \in Nat
        /\ (a + 1) + 1 <= Len(s)
    OBVIOUS
  <2> QED
    BY <1>1, <1>2, <2>1
<1>4. SubSeq(s, (a + (m + 4)) + 1, (a + (m + 6)) - 1) = <<temperature>>
  <2>1. (a + (m + 4)) + 1 = a + (m + 5) /\ (a + (m + 6)) - 1 = (a + (m + 4)) + 1
        /\ a + (m + 4) \in Nat /\ (a + (m + 4)) + 1 <= Len(s)
    OBVIOUS
  <2> QED
    BY <1>1, <1>2, <2>1
<1>5. SubSeq(s, (a + (m + 6)) + 1, (a + (m + 8)) - 1) = <<unt>>
  <2>1. (a + (m + 6)) + 1 = a + (m + 7) /\ (a + (m + 8)) - 1 = (a + (m + 6)) + 1
        /\ a + (m + 6) \in Nat /\ (a + (m + 6)) + 1 <= Len(s)
    OBVIOUS
  <2> QED
    BY <1>1, <1>2, <2>1
<1>6. SubSeq(s, (a + 3) + 1, (a + (m + 4)) - 1) = t
  <2>1. (a + (m + 4)) - 1 = (a + 3) + m /\ a + 3 \in Nat /\ (a + 3) + m <= Len(s)
    OBVIOUS
  <2>2. Matches(s, a + 3, m, t)
    BY <1>1, <2>1, Zenon DEF Matches
  <2>3. SubSeq(s, (a + 3) + 1, (a + 3) + m) = t
    BY <2>2, SliceIs
  <2> QED
    BY <2>1, <2>3
<1> QED
  BY <1>3, <1>4, <1>5, <1>6 DEF Between

-----------------------------------------------------------------------------
(* The lists of disks.                                                     *)

\* A list is a sequence of drives as the model functions get them.
LEMMA ListsAre ==
    ASSUME NEW list \in Lists
    PROVE  /\ FIXED \in Nat /\ FIXED % 2 = 0
           /\ Len(list) \in Nat /\ DOMAIN list = 1..Len(list)
           /\ \A i \in DOMAIN list : Proper(list[i])
<1>1. FIXED \in Nat /\ FIXED % 2 = 0 /\ list \in Seq(ToSet(list))
  BY RepliesAssumption
<1>2. Len(list) \in Nat /\ DOMAIN list = 1..Len(list)
  BY <1>1
<1>3. \A i \in DOMAIN list : Proper(list[i])
  BY RepliesAssumption, Zenon DEF Proper
<1> QED
  BY <1>1, <1>2, <1>3

\* strdup() returns a string, up to the first NUL.
LEMMA ModelIsString ==
    ASSUME NEW dsk, Proper(dsk), FIXED \in Nat, FIXED % 2 = 0
    PROVE  \E m \in Nat : /\ ModelOf(dsk) = [k \in 1..m |-> ModelOf(dsk)[k]]
                         /\ \A k \in 1..m : ModelOf(dsk)[k] # NUL
<1> DEFINE L == Len(dsk.bytes)
<1>1. L \in Nat /\ FIXED < L /\ Whole(dsk) = [k \in 1..L |-> Whole(dsk)[k]]
      /\ Whole(dsk)[L] = NUL
  BY WholeIs
<1>2. ModelOf(dsk) = CString(Whole(dsk))
  BY Zenon DEF ModelOf, Whole, Fixed, InSequence
<1> HIDE DEF L
<1>3. PICK c \in 0..(L - 1) : Whole(dsk)[c + 1] = NUL /\ \A j \in 1..c : Whole(dsk)[j] # NUL
  <2>1. L \in 1..L
    BY <1>1
  <2> QED
    BY <1>1, <2>1, FirstNul
<1>4. Ends(Whole(dsk), L, c)
  BY <1>1, <1>3, Zenon DEF Ends
<1>5. ModelOf(dsk) = [k \in 1..c |-> Whole(dsk)[k]]
  <2>1. L \in Nat
    BY <1>1
  <2>2. CString(Whole(dsk)) = [k \in 1..c |-> Whole(dsk)[k]]
    BY <1>4, <2>1, CStringIs, Zenon
  <2> QED
    BY <1>2, <2>2, Zenon
<1>6. c \in Nat
  BY <1>1, <1>3
<1>7. \A k \in 1..c : ModelOf(dsk)[k] # NUL
  BY <1>3, <1>5
<1> QED
  BY <1>5, <1>6, <1>7

-----------------------------------------------------------------------------
(* Models and replies are what they were made as.                          *)

RepliesInv ==
    /\ disks \in Lists
    /\ model # <<>> => model = [i \in DOMAIN disks |-> ModelField(disks[i])]
    /\ stream # <<>> =>
          /\ model # <<>>
          /\ stream = FlattenSeq([i \in DOMAIN disks |-> Framed(Sent(Message(i)))])

\* What they were made from does not change.
LEMMA SameReply ==
    ASSUME disks' = disks, model' = model, unit' = unit, separator' = separator
    PROVE  FlattenSeq([i \in DOMAIN disks |-> Framed(Sent(Message(i)))])'
             = FlattenSeq([i \in DOMAIN disks |-> Framed(Sent(Message(i)))])
<1>1. ASSUME NEW i
      PROVE  Verdict(disks[i])' = Verdict(disks[i]) /\ Unit(disks[i])' = Unit(disks[i])
  BY DEF Verdict, Unit, ValueToUnit, GetUnit
<1>2. ASSUME NEW i PROVE Message(i)' = Message(i)
  BY <1>1 DEF Message, Shown
<1>3. ASSUME NEW i PROVE Framed(Sent(Message(i)))' = Framed(Sent(Message(i)))
  BY <1>2 DEF Framed, Sent
<1> QED
  BY <1>3

\* Neither do they.
LEMMA RepliesInvHolds == ReplySpec => []RepliesInv
<1>1. ReplyInit => RepliesInv
  BY DEF ReplyInit, RepliesInv
<1>2. RepliesInv /\ [ReplyNext]_replyVars => RepliesInv'
  <2> SUFFICES ASSUME RepliesInv, [ReplyNext]_replyVars PROVE RepliesInv'
    OBVIOUS
  <2>1. CASE Collect
    <3>1. disks' = disks /\ stream' = stream /\ model = <<>>
          /\ model' = [i \in DOMAIN disks |-> ModelField(disks[i])]
      BY <2>1 DEF Collect
    <3>2. stream = <<>>
      BY <3>1 DEF RepliesInv
    <3> QED
      BY <3>1, <3>2 DEF RepliesInv
  <2>2. CASE Reply
    <3>1. /\ disks' = disks /\ model' = model /\ unit' = unit /\ separator' = separator
          /\ model # <<>>
          /\ stream' = FlattenSeq([i \in DOMAIN disks |-> Framed(Sent(Message(i)))])
      BY <2>2 DEF Reply
    <3>2. stream' = FlattenSeq([i \in DOMAIN disks |-> Framed(Sent(Message(i)))])'
      BY <3>1, SameReply
    <3> QED
      BY <3>1, <3>2 DEF RepliesInv
  <2>3. CASE UNCHANGED replyVars
    <3>1. /\ disks' = disks /\ model' = model /\ unit' = unit /\ separator' = separator
          /\ stream' = stream
      BY <2>3 DEF replyVars
    <3>2. FlattenSeq([i \in DOMAIN disks |-> Framed(Sent(Message(i)))])'
            = FlattenSeq([i \in DOMAIN disks |-> Framed(Sent(Message(i)))])
      BY <3>1, SameReply
    <3> QED
      BY <3>1, <3>2 DEF RepliesInv
  <2> QED
    BY <2>1, <2>2, <2>3 DEF ReplyNext
<1> QED
  BY <1>1, <1>2, PTL DEF ReplySpec

(***************************************************************************)
(* What sata_model and scsi_model return is the name of the drive, put in  *)
(* order and cleaned, whatever bytes a name of less than FIXED consists of *)
(* and whatever follows it.                                                *)
(***************************************************************************)
THEOREM ModelsAreNames == ReplySpec => []ModelIsName
<1>1. RepliesInv => ModelIsName
  <2> SUFFICES ASSUME RepliesInv, model # <<>>, NEW i \in DOMAIN disks,
                      disks[i].opened, Short(disks[i])
               PROVE  model[i] = Name(disks[i])
    BY DEF ModelIsName
  <2>1. disks \in Lists /\ model[i] = ModelOf(disks[i])
    BY DEF RepliesInv, ModelField
  <2>2. Proper(disks[i]) /\ FIXED \in Nat /\ FIXED % 2 = 0
    BY <2>1, ListsAre
  <2> QED
    BY <2>1, <2>2, CleanedIs
<1> QED
  BY <1>1, RepliesInvHolds, PTL

\* A model is replaced only where there is none; what is shown is a string.
LEMMA ShownIs ==
    ASSUME RepliesInv, model # <<>>, NEW i \in DOMAIN disks
    PROVE  /\ Shown(i) = IF disks[i].opened THEN model[i] ELSE <<"?", "?", "?">>
           /\ \E n \in Nat : Shown(i) = [k \in 1..n |-> Shown(i)[k]]
<1>1. disks \in Lists /\ model[i] = ModelField(disks[i])
  BY DEF RepliesInv
<1>2. Proper(disks[i]) /\ FIXED \in Nat /\ FIXED % 2 = 0
  BY <1>1, ListsAre
<1>3. disks[i].opened \in BOOLEAN /\ (disks[i].opened \/ disks[i].ret = "ERR")
  BY <1>1, RepliesAssumption
<1>4. CASE disks[i].opened
  <2>1. model[i] = ModelOf(disks[i])
    BY <1>1, <1>4 DEF ModelField
  <2>2. PICK n \in Nat : /\ model[i] = [k \in 1..n |-> model[i][k]]
                        /\ \A k \in 1..n : model[i][k] # NUL
    BY <1>2, <2>1, ModelIsString
  <2>3. model[i] # NoModel
    <3> SUFFICES ASSUME model[i] = NoModel PROVE FALSE
      OBVIOUS
    <3>1. DOMAIN model[i] = 1..1 /\ model[i][1] = NUL
      BY DEF NoModel
    <3>2. DOMAIN model[i] = 1..n
      BY <2>2
    <3>3. 1 \in 1..n
      BY <3>1, <3>2
    <3> QED
      BY <2>2, <3>1, <3>3
  <2>4. Shown(i) = model[i]
    BY <2>3 DEF Shown
  <2> QED
    BY <1>4, <2>2, <2>4
<1>5. CASE ~disks[i].opened
  <2>1. model[i] = NoModel /\ disks[i].ret = "ERR"
    BY <1>1, <1>3, <1>5 DEF ModelField
  <2>2. Shown(i) = <<"?", "?", "?">>
    BY <2>1 DEF Shown
  <2>3. <<"?", "?", "?">> = [k \in 1..3 |-> <<"?", "?", "?">>[k]]
    OBVIOUS
  <2> QED
    BY <1>5, <2>2, <2>3
<1> QED
  BY <1>3, <1>4, <1>5

\* What is written for disk i, if the separator is in no field and all fits in msg.
RowOf(i) == Framed(Sent(Message(i)))

\* The characters of disk i's fields.
Characters(i) ==
    {separator, disks[i].drive, Verdict(disks[i]), Unit(disks[i])}
      \cup {Shown(i)[k] : k \in DOMAIN Shown(i)}

\* It has the fields between separators, and eight characters besides the model.
LEMMA RowIs ==
    ASSUME NEW V, NEW i, Shown(i) \in Seq(V), separator \in V, disks[i].drive \in V,
           Verdict(disks[i]) \in V, Unit(disks[i]) \in V, Clear(i)
    PROVE  /\ RowOf(i) \in Seq(V) /\ Len(RowOf(i)) = Len(Shown(i)) + 8
           /\ Cells(RowOf(i), 0, Len(Shown(i)), separator, disks[i].drive, Shown(i),
                    Verdict(disks[i]), Unit(disks[i]))
<1> DEFINE msg == Message(i)
           row == <<separator>> \o msg \o <<separator>>
<1>1. /\ msg \in Seq(V)
      /\ row \in Seq(V) /\ Len(row) = Len(Shown(i)) + 8
      /\ Cells(row, 0, Len(Shown(i)), separator, disks[i].drive, Shown(i),
               Verdict(disks[i]), Unit(disks[i]))
  BY CellsIs DEF Message
<1>2. Sent(msg) = msg
  <2>1. Len(msg) < MSG
    BY DEF Clear
  <2>2. Sent(msg) = [k \in DOMAIN msg |-> msg[k]]
    BY <2>1 DEF Sent
  <2> HIDE DEF msg
  <2>3. msg = [k \in DOMAIN msg |-> msg[k]]
    BY <1>1
  <2> QED
    BY <2>2, <2>3
<1>3. RowOf(i) = row
  BY <1>2, Zenon DEF RowOf, Framed
<1> QED
  BY <1>1, <1>3, Zenon

\* The rows lie in the stream one behind the other.
LEMMA RowsAre ==
    ASSUME RepliesInv, stream # <<>>, \A i \in DOMAIN disks : Clear(i)
    PROVE  \E V, at, m :
             /\ stream \in Seq(V)
             /\ Rows(stream, Len(disks), at, m, separator)
             /\ \A i \in DOMAIN disks :
                   /\ Shown(i) = [k \in 1..m[i] |-> Shown(i)[k]]
                   /\ Cells(stream, at[i - 1], m[i], separator, disks[i].drive, Shown(i),
                            Verdict(disks[i]), Unit(disks[i]))
<1> DEFINE N == Len(disks)
           V == UNION {Characters(i) : i \in 1..N}
           seqs == [i \in 1..N |-> RowOf(i)]
           m == [i \in 1..N |-> Len(Shown(i))]
<1>1. N \in Nat /\ DOMAIN disks = 1..N /\ FIXED \in Nat /\ FIXED % 2 = 0
      /\ \A i \in 1..N : Proper(disks[i])
  <2>1. disks \in Lists
    BY DEF RepliesInv
  <2> QED
    BY <2>1, ListsAre
<1>2. /\ model # <<>> /\ model = [i \in 1..N |-> ModelField(disks[i])]
      /\ stream = FlattenSeq(seqs)
  BY <1>1 DEF RepliesInv, RowOf
<1> HIDE DEF N
<1>3. N \in Nat \ {0}
  <2>1. N # 0
    BY <1>2
  <2> QED
    BY <1>1, <2>1
<1>4. ASSUME NEW i \in 1..N
      PROVE  /\ Shown(i) \in Seq(V) /\ Len(Shown(i)) \in Nat
             /\ Shown(i) = [k \in 1..Len(Shown(i)) |-> Shown(i)[k]]
             /\ separator \in V /\ disks[i].drive \in V
             /\ Verdict(disks[i]) \in V /\ Unit(disks[i]) \in V
  <2>1. Characters(i) \subseteq V
    OBVIOUS
  <2>3. PICK n \in Nat : Shown(i) = [k \in 1..n |-> Shown(i)[k]]
    BY <1>1, <1>2, ShownIs
  <2>4. Len(Shown(i)) = n /\ DOMAIN Shown(i) = 1..n
    BY <2>3, SequenceOfFunction
  <2>5. /\ separator \in V /\ disks[i].drive \in V
        /\ Verdict(disks[i]) \in V /\ Unit(disks[i]) \in V
        /\ \A k \in 1..n : Shown(i)[k] \in V
    BY <2>1, <2>4 DEF Characters
  <2> HIDE DEF V
  <2>6. Shown(i) \in [1..n -> V]
    BY <2>3, <2>5
  <2>7. Shown(i) \in Seq(V)
    BY <2>6
  <2> QED
    BY <2>3, <2>4, <2>5, <2>7
<1> HIDE DEF V
<1>5. ASSUME NEW i \in 1..N
      PROVE  /\ seqs[i] \in Seq(V) /\ Len(seqs[i]) = m[i] + 8
             /\ Cells(seqs[i], 0, m[i], separator, disks[i].drive, Shown(i),
                      Verdict(disks[i]), Unit(disks[i]))
  <2>1. Clear(i)
    BY <1>1
  <2>2. seqs[i] = RowOf(i) /\ m[i] = Len(Shown(i))
    OBVIOUS
  <2> HIDE DEF seqs, m
  <2>3. /\ RowOf(i) \in Seq(V) /\ Len(RowOf(i)) = Len(Shown(i)) + 8
        /\ Cells(RowOf(i), 0, Len(Shown(i)), separator, disks[i].drive, Shown(i),
                 Verdict(disks[i]), Unit(disks[i]))
    BY <1>4, <2>1, RowIs
  <2> QED
    BY <2>2, <2>3, Zenon
<1>6. Len(seqs) = N
  BY <1>3
<1>7. m \in [1..N -> Nat]
  BY <1>4
<1>8. \A i \in 1..N : Shown(i) = [k \in 1..m[i] |-> Shown(i)[k]]
  BY <1>4
<1> HIDE DEF seqs, m
<1>9. stream \in Seq(V) /\ \E at \in [Nat -> Nat] : Laid(seqs, at, stream)
  BY <1>2, <1>3, <1>5, <1>6, FlattenIs
<1>10. PICK at \in [Nat -> Nat] : Laid(seqs, at, stream)
  BY <1>9
<1>11. /\ at \in [Nat -> Nat] /\ at[0] = 0 /\ DOMAIN stream = 1..at[N]
       /\ \A i \in 1..N :
             /\ at[i] = at[i - 1] + Len(seqs[i]) /\ at[i] <= at[N]
             /\ \A k \in 1..Len(seqs[i]) : stream[at[i - 1] + k] = seqs[i][k]
  BY <1>6, <1>10, Zenon DEF Laid
<1>12. ASSUME NEW i \in 1..N
       PROVE  /\ at[i] = at[i - 1] + (m[i] + 8) /\ at[i - 1] \in Nat /\ m[i] \in Nat
              /\ \A k \in 1..(m[i] + 8) : stream[at[i - 1] + k] = seqs[i][k]
  <2>1. Len(seqs[i]) = m[i] + 8
    BY <1>5
  <2>2. i - 1 \in Nat
    OBVIOUS
  <2> QED
    BY <1>7, <1>11, <2>1, <2>2
<1>13. ASSUME NEW i \in 1..N
       PROVE  Cells(stream, at[i - 1], m[i], separator, disks[i].drive, Shown(i),
                    Verdict(disks[i]), Unit(disks[i]))
  <2> DEFINE a == at[i - 1]
             n == m[i]
  <2>1. a \in Nat /\ n \in Nat /\ \A k \in 1..(n + 8) : stream[a + k] = seqs[i][k]
    BY <1>12
  <2>2. Cells(seqs[i], 0, n, separator, disks[i].drive, Shown(i),
              Verdict(disks[i]), Unit(disks[i]))
    BY <1>5
  <2> HIDE DEF a, n
  <2>3. /\ 1 \in 1..(n + 8) /\ 2 \in 1..(n + 8) /\ 3 \in 1..(n + 8) /\ n + 4 \in 1..(n + 8)
        /\ n + 5 \in 1..(n + 8) /\ n + 6 \in 1..(n + 8) /\ n + 7 \in 1..(n + 8)
        /\ n + 8 \in 1..(n + 8)
        /\ 0 + 1 = 1 /\ 0 + 2 = 2 /\ 0 + 3 = 3 /\ 0 + (n + 4) = n + 4 /\ 0 + (n + 5) = n + 5
        /\ 0 + (n + 6) = n + 6 /\ 0 + (n + 7) = n + 7 /\ 0 + (n + 8) = n + 8
    BY <2>1
  <2>4. ASSUME NEW k \in 1..n PROVE stream[(a + 3) + k] = Shown(i)[k]
    <3>1. 3 + k \in 1..(n + 8) /\ (a + 3) + k = a + (3 + k) /\ (0 + 3) + k = 3 + k
      BY <2>1
    <3>2. seqs[i][3 + k] = Shown(i)[k]
      BY <2>2, <3>1 DEF Cells
    <3>3. stream[a + (3 + k)] = seqs[i][3 + k]
      BY <2>1, <3>1
    <3> QED
      BY <3>1, <3>2, <3>3
  <2>5. /\ seqs[i][1] = separator /\ seqs[i][2] = disks[i].drive /\ seqs[i][3] = separator
        /\ seqs[i][n + 4] = separator /\ seqs[i][n + 5] = Verdict(disks[i])
        /\ seqs[i][n + 6] = separator /\ seqs[i][n + 7] = Unit(disks[i])
        /\ seqs[i][n + 8] = separator
    BY <2>2, <2>3 DEF Cells
  <2>6. /\ stream[a + 1] = separator /\ stream[a + 2] = disks[i].drive
        /\ stream[a + 3] = separator
        /\ stream[a + (n + 4)] = separator /\ stream[a + (n + 5)] = Verdict(disks[i])
        /\ stream[a + (n + 6)] = separator /\ stream[a + (n + 7)] = Unit(disks[i])
        /\ stream[a + (n + 8)] = separator
    BY <2>1, <2>3, <2>5
  <2>7. Cells(stream, a, n, separator, disks[i].drive, Shown(i),
              Verdict(disks[i]), Unit(disks[i]))
    BY <2>4, <2>6, Zenon DEF Cells
  <2> QED
    BY <2>7 DEF a, n
<1>14. \A i \in 1..N : \A p \in 1..(m[i] + 8) :
          stream[at[i - 1] + p] = separator <=> \E r \in 0..4 : p = Offset(r, m[i])
  <2> SUFFICES ASSUME NEW i \in 1..N
               PROVE  \A p \in 1..(m[i] + 8) :
                         stream[at[i - 1] + p] = separator <=> \E r \in 0..4 : p = Offset(r, m[i])
    OBVIOUS
  <2>1. separator \notin {disks[i].drive, Verdict(disks[i]), Unit(disks[i])}
        /\ \A k \in DOMAIN Shown(i) : Shown(i)[k] # separator
    BY <1>1 DEF Clear
  <2>2. DOMAIN Shown(i) = 1..m[i]
    BY <1>8
  <2>3. \A k \in 1..m[i] : Shown(i)[k] # separator
    BY <2>1, <2>2, Zenon
  <2>4. at[i - 1] \in Nat /\ m[i] \in Nat
    BY <1>12
  <2>5. Cells(stream, at[i - 1], m[i], separator, disks[i].drive, Shown(i),
              Verdict(disks[i]), Unit(disks[i]))
    BY <1>13
  <2>6. NoField(separator, m[i], disks[i].drive, Shown(i), Verdict(disks[i]), Unit(disks[i]))
    BY <2>1, <2>3, Zenon DEF NoField
  <2>7. AtOffsets(stream, at[i - 1], m[i], separator)
    BY <2>4, <2>5, <2>6, CellsApart, Zenon
  <2> QED
    BY <2>7, Zenon DEF AtOffsets
<1>15. \A p \in 1..at[N] : \E i \in 1..N : at[i - 1] < p /\ p <= at[i]
  <2>1. Len(seqs) \in Nat
    BY <1>1, <1>6
  <2>2. \A p \in DOMAIN stream : \E i \in 1..Len(seqs) : at[i - 1] < p /\ p <= at[i]
    BY <1>10, <2>1, LaidCovers
  <2> QED
    BY <1>6, <1>11, <2>2, Zenon
<1>16. Rows(stream, N, at, m, separator)
  <2>1. \A i \in 1..N : at[i] = at[i - 1] + (m[i] + 8) /\ at[i] <= at[N]
    BY <1>11, <1>12
  <2> QED
    BY <1>7, <1>11, <1>14, <1>15, <2>1, Zenon DEF Rows
<1> QED
  BY <1>1, <1>8, <1>9, <1>13, <1>16, Zenon DEF N

(***************************************************************************)
(* A client that splits at the separators what daemon_send_msg writes gets *)
(* the four fields of every drive in turn, for any number of drives, if    *)
(* they fit in msg and the separator is in none of them.                   *)
(***************************************************************************)
THEOREM StreamsAreReadable == ReplySpec => []RepliesReadable
<1>1. RepliesInv => RepliesReadable
  <2> SUFFICES ASSUME RepliesInv, stream # <<>>, \A i \in DOMAIN disks : Clear(i)
               PROVE  /\ Len(Bars) = 5 * Len(disks)
                      /\ \A i \in DOMAIN disks :
                            LET at == 5 * (i - 1)
                            IN  /\ Piece(at + 1) = <<disks[i].drive>>
                                /\ Piece(at + 2) = IF disks[i].opened THEN model[i]
                                                   ELSE <<"?", "?", "?">>
                                /\ Piece(at + 3) = <<Verdict(disks[i])>>
                                /\ Piece(at + 4) = <<Unit(disks[i])>>
    BY DEF RepliesReadable
  <2> DEFINE N == Len(disks)
  <2>1. N \in Nat /\ DOMAIN disks = 1..N
    BY ListsAre DEF RepliesInv
  <2>2. PICK V, at, m :
             /\ stream \in Seq(V)
             /\ Rows(stream, N, at, m, separator)
             /\ \A i \in DOMAIN disks :
                   /\ Shown(i) = [k \in 1..m[i] |-> Shown(i)[k]]
                   /\ Cells(stream, at[i - 1], m[i], separator, disks[i].drive, Shown(i),
                            Verdict(disks[i]), Unit(disks[i]))
    BY RowsAre
  <2> HIDE DEF N
  <2>3. /\ DOMAIN Bars = 1..(5 * N)
        /\ \A i \in 1..N, r \in 0..4 : Bars[((5 * (i - 1)) + r) + 1] = at[i - 1] + Offset(r, m[i])
    <3>1. Rows(stream, N, at, m, separator)
      BY <2>2
    <3> DEFINE bars == Ascending(PlacesOf(stream, separator))
    <3>2. InPlace(bars, N, at, m)
      BY <2>1, <3>1, BarsAre, Zenon
    <3>3. Bars = bars
      BY Zenon DEF Bars, PlacesOf
    <3> HIDE DEF bars
    <3> QED
      BY <3>2, <3>3, Zenon DEF InPlace
  <2>4. Len(Bars) = 5 * N
    <3>1. PICK n : n = 5 * N
      OBVIOUS
    <3>2. n \in Nat /\ DOMAIN Bars = 1..n
      BY <2>1, <2>3, <3>1
    <3>3. Bars = [k \in DOMAIN Bars |-> Bars[k]]
      BY AscendingIsFunction, Zenon DEF Bars
    <3>4. Bars = [k \in 1..n |-> Bars[k]]
      BY <3>2, <3>3
    <3>5. Len(Bars) = n
      BY <3>2, <3>4, SequenceOfFunction
    <3> QED
      BY <3>1, <3>5
  <2>5. ASSUME NEW i \in 1..N
        PROVE  /\ Piece((5 * (i - 1)) + 1) = <<disks[i].drive>>
               /\ Piece((5 * (i - 1)) + 2) = Shown(i)
               /\ Piece((5 * (i - 1)) + 3) = <<Verdict(disks[i])>>
               /\ Piece((5 * (i - 1)) + 4) = <<Unit(disks[i])>>
    <3> DEFINE a == at[i - 1]
               n == m[i]
               q == 5 * (i - 1)
    <3>1. /\ a \in Nat /\ n \in Nat /\ a + (n + 8) <= Len(stream)
      <4>1. /\ at \in [Nat -> Nat] /\ m \in [1..N -> Nat] /\ DOMAIN stream = 1..at[N]
            /\ at[i] = at[i - 1] + (m[i] + 8) /\ at[i] <= at[N]
        BY <2>2, Zenon DEF Rows
      <4>2. i - 1 \in Nat
        OBVIOUS
      <4>3. a \in Nat /\ n \in Nat /\ at[N] \in Nat
        BY <2>1, <4>1, <4>2
      <4>4. Len(stream) = at[N]
        BY <2>2, <4>1, <4>3
      <4> QED
        BY <4>1, <4>3, <4>4
    <3>2. /\ Bars[(q + 0) + 1] = a + Offset(0, n) /\ Bars[(q + 1) + 1] = a + Offset(1, n)
          /\ Bars[(q + 2) + 1] = a + Offset(2, n) /\ Bars[(q + 3) + 1] = a + Offset(3, n)
          /\ Bars[(q + 4) + 1] = a + Offset(4, n)
      BY <2>3
    <3>3. Shown(i) = [k \in 1..n |-> Shown(i)[k]]
          /\ Cells(stream, a, n, separator, disks[i].drive, Shown(i),
                   Verdict(disks[i]), Unit(disks[i]))
      BY <2>1, <2>2
    <3>4. q \in Int
      OBVIOUS
    <3> HIDE DEF a, n, q
    <3>5. /\ Bars[q + 1] = a + 1 /\ Bars[(q + 1) + 1] = a + 3
          /\ Bars[(q + 2) + 1] = a + (n + 4) /\ Bars[(q + 3) + 1] = a + (n + 6)
          /\ Bars[(q + 4) + 1] = a + (n + 8)
      <4>1. /\ Offset(0, n) = 1 /\ Offset(1, n) = 3 /\ Offset(2, n) = n + 4
            /\ Offset(3, n) = n + 6 /\ Offset(4, n) = n + 8
        BY <3>1 DEF Offset
      <4>2. q + 0 = q
        BY <3>4
      <4> QED
        BY <3>2, <4>1, <4>2, Zenon
    <3>6. q + 2 = (q + 1) + 1 /\ q + 3 = (q + 2) + 1 /\ q + 4 = (q + 3) + 1
      BY <3>4
    <3>a. stream \in Seq(V)
      BY <2>2
    <3>b. Between(stream, a, n, disks[i].drive, Shown(i), Verdict(disks[i]), Unit(disks[i]))
      BY <3>a, <3>1, <3>3, CellsBetween, Zenon
    <3>7. /\ SubSeq(stream, (a + 1) + 1, (a + 3) - 1) = <<disks[i].drive>>
          /\ SubSeq(stream, (a + 3) + 1, (a + (n + 4)) - 1) = Shown(i)
          /\ SubSeq(stream, (a + (n + 4)) + 1, (a + (n + 6)) - 1) = <<Verdict(disks[i])>>
          /\ SubSeq(stream, (a + (n + 6)) + 1, (a + (n + 8)) - 1) = <<Unit(disks[i])>>
      BY <3>b, Zenon DEF Between
    <3>8. /\ Piece(q + 1) = <<disks[i].drive>> /\ Piece(q + 2) = Shown(i)
          /\ Piece(q + 3) = <<Verdict(disks[i])>> /\ Piece(q + 4) = <<Unit(disks[i])>>
      BY <3>5, <3>6, <3>7, Zenon DEF Piece
    <3> QED
      BY <3>8 DEF q
  <2>6. \A i \in 1..N : Shown(i) = IF disks[i].opened THEN model[i] ELSE <<"?", "?", "?">>
    BY <2>1, ShownIs DEF RepliesInv
  <2> QED
    BY <2>1, <2>4, <2>5, <2>6 DEF N
<1> QED
  BY <1>1, RepliesInvHolds, PTL

=============================================================================
