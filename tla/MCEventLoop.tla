---------------------------- MODULE MCEventLoop -----------------------------
(* Small instances of EventLoop for TLC. *)
EXTENDS EventLoop

CONSTANTS c1, c2

TwoClients == {c1, c2}
QuietOrLogged == {0, 3}

=============================================================================
