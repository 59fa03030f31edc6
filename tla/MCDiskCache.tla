---------------------------- MODULE MCDiskCache -----------------------------
(* Small instances of DiskCache for TLC. *)
EXTENDS DiskCache

BothCallers == {"tcp", "syslog"}
OneTemp == {38}

=============================================================================
