---------------------------- MODULE Descriptors -----------------------------
(***************************************************************************)
(* The file descriptors of the daemon, from the first open() of main() to  *)
(* the last client: drives (hddtemp.c), the database (db.c), the standard  *)
(* descriptors it closes, the sockets it opens (daemon.c), the connection  *)
(* to the system log, and clients.  The kernel gives the lowest number     *)
(* that is free; close() of a number that is not open has no effect.       *)
(***************************************************************************)
EXTENDS Integers, Sequences, FiniteSets

CONSTANTS
    NDrives,    \* drives named on the command line
    Addresses,  \* what getaddrinfo() returns, in order: 1..Addresses
    NFds,       \* RLIMIT_NOFILE
    Inherited   \* the sets of standard descriptors the program may start with

ASSUME DescriptorsAssumption ==
    /\ NDrives \in Nat
    /\ Addresses \in Nat
    /\ NFds \in Nat
    /\ Inherited \subseteq SUBSET {0, 1, 2}

VARIABLES
    table,      \* table[n]: what descriptor n is open on
    pc,         \* where the program is
    tcp, log,   \* --daemon, --syslog
    next,       \* the drive to collect, then the address to open
    db_loaded,  \* the database has been read
    fd,         \* fd[d]: dsk->fd of a listed drive
    listed,     \* the drives in ldisks
    sks_serv,   \* the listening sockets
    cfd,        \* the client being served
    logfd,      \* syslog()'s own descriptor
    dropped     \* history: drives taken from the list again

options == <<tcp, log>>
lists == <<fd, listed, dropped>>
vars == <<table, pc, options, next, db_loaded, lists, sks_serv, cfd, logfd>>

Drives == 1..NDrives
Fds == 0..(NFds - 1)
None == -1

Drive(d) == <<"drive", d>>
Socket(a) == <<"socket", a>>
Standard(n) == <<"standard", n>>
Client == <<"client", 0>>
Database == <<"database", 0>>
SystemLog == <<"log", 0>>
Free == <<"free", 0>>

Object == {Drive(d) : d \in Drives} \cup {Socket(a) : a \in 1..Addresses}
    \cup {Standard(n) : n \in {0, 1, 2}} \cup {Client, Database, SystemLog, Free}

-----------------------------------------------------------------------------
(* The kernel. *)

FreeFds(t) == {n \in Fds : t[n] = Free}
Lowest(t) == CHOOSE n \in FreeFds(t) : \A m \in FreeFds(t) : n <= m
Full == FreeFds(table) = {}

Opens(obj) == ~Full /\ table' = [table EXCEPT ![Lowest(table)] = obj]
Closing(t, ns) == [n \in Fds |-> IF n \in ns THEN Free ELSE t[n]]

-----------------------------------------------------------------------------
Init ==
    /\ \E std \in Inherited :
          table = [n \in Fds |-> IF n \in std THEN Standard(n) ELSE Free]
    /\ pc = "collect"
    /\ tcp \in BOOLEAN
    /\ log \in BOOLEAN
    /\ tcp \/ log
    /\ next = NDrives
    /\ db_loaded = FALSE
    /\ fd = [d \in Drives |-> None]
    /\ listed = {}
    /\ sks_serv = <<>>
    /\ cfd = None
    /\ logfd = None
    /\ dropped = {}

Exit == pc' = "exited" /\ table' = [n \in Fds |-> Free]

-----------------------------------------------------------------------------
(* main(): the arguments, from the last to the first. *)

Collecting == pc = "collect" /\ next >= 1

\* open() fails, for want of a descriptor or otherwise; the disk is listed.
OpenFails ==
    /\ Collecting
    /\ listed' = listed \cup {next}
    /\ next' = next - 1
    /\ UNCHANGED <<table, pc, options, db_loaded, fd, dropped, sks_serv, cfd, logfd>>

OpenScsi ==
    /\ Collecting
    /\ Opens(Drive(next))
    /\ fd' = [fd EXCEPT ![next] = Lowest(table)]
    /\ listed' = listed \cup {next}
    /\ next' = next - 1
    /\ UNCHANGED <<pc, options, db_loaded, dropped, sks_serv, cfd, logfd>>

\* The bus is unknown: the disk is freed, its descriptor stays open.
UnknownBus ==
    /\ Collecting
    /\ Opens(Drive(next))
    /\ dropped' = dropped \cup {next}
    /\ next' = next - 1
    /\ UNCHANGED <<pc, options, db_loaded, fd, listed, sks_serv, cfd, logfd>>

\* An ATA disk; the first one has the database read.
OpenAta ==
    /\ Collecting
    /\ Opens(Drive(next))
    /\ fd' = [fd EXCEPT ![next] = Lowest(table)]
    /\ listed' = listed \cup {next}
    /\ IF db_loaded THEN next' = next - 1 /\ UNCHANGED pc
                    ELSE pc' = "open_database" /\ UNCHANGED next
    /\ UNCHANGED <<options, db_loaded, dropped, sks_serv, cfd, logfd>>

\* load_database: open(), which may fail (exit(2)) ...
OpenDatabase ==
    /\ pc = "open_database"
    /\ \/ Opens(Database) /\ pc' = "close_database"
       \/ Exit
    /\ UNCHANGED <<options, next, db_loaded, lists, sks_serv, cfd, logfd>>

\* ... and close() at the end of the file, unless a line stops the program.
CloseDatabase ==
    /\ pc = "close_database"
    /\ \/ /\ table' = Closing(table, {n \in Fds : table[n] = Database})
          /\ pc' = "collect"
          /\ db_loaded' = TRUE
          /\ next' = next - 1
       \/ Exit /\ UNCHANGED <<db_loaded, next>>
    /\ UNCHANGED <<options, lists, sks_serv, cfd, logfd>>

-----------------------------------------------------------------------------
(* do_daemon_mode. *)

\* Two fork()s, each of which may fail; the child goes on with the same table.
ForkFails ==
    /\ pc = "collect"
    /\ next = 0
    /\ Exit
    /\ UNCHANGED <<options, next, db_loaded, lists, sks_serv, cfd, logfd>>

\* close(0); close(1); close(2).
Standards == 0..2

Daemonize ==
    /\ pc = "collect"
    /\ next = 0
    /\ table' = Closing(table, Standards)
    /\ pc' = IF tcp THEN "sockets" ELSE "select"
    /\ next' = 1
    /\ UNCHANGED <<options, db_loaded, lists, sks_serv, cfd, logfd>>

\* daemon_open_sockets, one address: socket(), bind() and listen() succeed.
OpenSocket ==
    /\ pc = "sockets"
    /\ next <= Addresses
    /\ Opens(Socket(next))
    /\ sks_serv' = Append(sks_serv, Lowest(table))
    /\ next' = next + 1
    /\ UNCHANGED <<pc, options, db_loaded, lists, cfd, logfd>>

\* socket() fails, or bind() does and the socket is closed again.  (Mutant: the one
\* before it is closed.)
Unbound_previous ==
    table' = Closing(table, {n \in Fds : sks_serv # <<>> /\ n = sks_serv[Len(sks_serv)]})
Unbound == UNCHANGED table

NoSocket ==
    /\ pc = "sockets"
    /\ next <= Addresses
    /\ Unbound
    /\ next' = next + 1
    /\ UNCHANGED <<pc, options, db_loaded, lists, sks_serv, cfd, logfd>>

\* getaddrinfo() fails, or malloc(): exit(1).
NoAddresses ==
    /\ pc = "sockets"
    /\ next = 1
    /\ sks_serv = <<>>
    /\ Exit
    /\ UNCHANGED <<options, next, db_loaded, lists, sks_serv, cfd, logfd>>

\* listen() fails: exit(1).
ListenFails ==
    /\ pc = "sockets"
    /\ next <= Addresses
    /\ ~Full
    /\ Exit
    /\ UNCHANGED <<options, next, db_loaded, lists, sks_serv, cfd, logfd>>

\* All addresses are tried; without any socket exit(1).
Listening ==
    /\ pc = "sockets"
    /\ next > Addresses
    /\ IF sks_serv = <<>> THEN Exit ELSE pc' = "select" /\ UNCHANGED table
    /\ UNCHANGED <<options, next, db_loaded, lists, sks_serv, cfd, logfd>>

-----------------------------------------------------------------------------
(* The loop. *)

\* accept(); when it fails the loop goes on.
Accept ==
    /\ pc = "select"
    /\ sks_serv # <<>>
    /\ Opens(Client)
    /\ cfd' = Lowest(table)
    /\ pc' = "update"
    /\ UNCHANGED <<options, next, db_loaded, lists, sks_serv, logfd>>

\* The timeout of select(), for the log.
Interval ==
    /\ pc = "select"
    /\ log
    /\ pc' = "update"
    /\ UNCHANGED <<table, options, next, db_loaded, lists, sks_serv, cfd, logfd>>

\* A driver gives a drive up: close(dsk->fd); dsk->fd = -1.  (Mutant: the number
\* is kept.)
Lost_kept(d) == fd
Lost(d) == [fd EXCEPT ![d] = None]

GiveUp(d) ==
    /\ pc = "update"
    /\ d \in listed
    /\ fd[d] # None
    /\ table' = Closing(table, {fd[d]})
    /\ fd' = Lost(d)
    /\ UNCHANGED <<pc, options, next, db_loaded, listed, dropped, sks_serv, cfd, logfd>>

\* daemon_send_msg has written its reply: close(cfd).  (Mutant: it is not.)
Served_open == {}
Served == {cfd}

Reply ==
    /\ pc = "update"
    /\ cfd # None
    /\ table' = Closing(table, Served)
    /\ cfd' = None
    /\ pc' = "select"
    /\ UNCHANGED <<options, next, db_loaded, lists, sks_serv, logfd>>

\* daemon_syslog: the first syslog() connects, if it can.
Syslog ==
    /\ pc = "update"
    /\ cfd = None
    /\ \/ logfd = None /\ Opens(SystemLog) /\ logfd' = Lowest(table)
       \/ UNCHANGED <<table, logfd>>
    /\ pc' = "select"
    /\ UNCHANGED <<options, next, db_loaded, lists, sks_serv, cfd>>

\* daemon_close_sockets, closelog; then main() returns.
CloseSockets ==
    /\ pc = "select"
    /\ table' = Closing(table, {sks_serv[i] : i \in DOMAIN sks_serv}
                                   \cup (IF logfd = None THEN {} ELSE {logfd}))
    /\ pc' = "closed"
    /\ UNCHANGED <<options, next, db_loaded, lists, sks_serv, cfd, logfd>>

Collect == OpenFails \/ OpenScsi \/ UnknownBus \/ OpenAta \/ OpenDatabase \/ CloseDatabase

Start == ForkFails \/ Daemonize \/ NoAddresses \/ OpenSocket \/ NoSocket \/ ListenFails \/ Listening

Loop == Accept \/ Interval \/ (\E d \in Drives : GiveUp(d)) \/ Reply \/ Syslog \/ CloseSockets

Next == Collect \/ Start \/ Loop

Spec == Init /\ [][Next]_vars

-----------------------------------------------------------------------------
(* Properties. *)

\* Every variable keeps its type.
TypeOK ==
    /\ table \in [Fds -> Object]
    /\ pc \in {"collect", "open_database", "close_database", "sockets", "select",
               "update", "closed", "exited"}
    /\ tcp \in BOOLEAN
    /\ log \in BOOLEAN
    /\ next \in Nat
    /\ db_loaded \in BOOLEAN
    /\ fd \in [Drives -> Fds \cup {None}]
    /\ listed \subseteq Drives
    /\ dropped \subseteq Drives
    /\ sks_serv \in Seq(Fds)
    /\ cfd \in Fds \cup {None}
    /\ logfd \in Fds \cup {None}

Alive == pc # "exited"

(***************************************************************************)
(* The ioctls of the drivers reach the drive they are meant for: the       *)
(* number in dsk->fd is never that of a socket, of a client or of the log, *)
(* which take the lowest numbers, and those of drives given up.            *)
(***************************************************************************)
OwnDrives == Alive => \A d \in Drives : fd[d] # None => table[fd[d]] = Drive(d)

(***************************************************************************)
(* A reply goes to the client that was accepted, select() watches the      *)
(* listening sockets and the log goes to the log, whichever drives are     *)
(* given up in between.                                                    *)
(***************************************************************************)
OwnSockets ==
    /\ Alive /\ cfd # None => table[cfd] = Client
    /\ pc \in {"sockets", "select", "update"} =>
          \A i \in DOMAIN sks_serv : table[sks_serv[i]][1] = "socket"
    /\ pc \in {"select", "update"} /\ logfd # None => table[logfd] = SystemLog

(***************************************************************************)
(* The daemon does not run out of descriptors by serving: in select() only *)
(* the listed drives, the listening sockets and the log have one, and the  *)
(* drives dropped at the start, whose descriptors are never closed.        *)
(***************************************************************************)
Known(n) ==
    \/ table[n] = Free
    \/ \E d \in Drives : table[n] = Drive(d) /\ (fd[d] = n \/ d \in dropped)
    \/ \E i \in DOMAIN sks_serv : sks_serv[i] = n
    \/ n = logfd

NothingLeaks == pc = "select" => \A n \in Fds : Known(n)

=============================================================================
