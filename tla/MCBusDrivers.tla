---------------------------- MODULE MCBusDrivers ----------------------------
(* Small instances of BusDrivers for TLC. *)
EXTENDS BusDrivers, TLC

CONSTANTS d1, d2

Pata(packet, sensor) ==
    [hdio |-> TRUE, scsi |-> FALSE, sgio |-> FALSE, send |-> FALSE, ata |-> FALSE,
     packet |-> packet, pm |-> ~packet, mode |-> "short", sensor |-> sensor]

Sata == [hdio |-> TRUE, scsi |-> TRUE, sgio |-> TRUE, send |-> FALSE, ata |-> TRUE,
         packet |-> FALSE, pm |-> TRUE, mode |-> "short", sensor |-> TRUE]

Scsi(sgio, send, mode) ==
    [hdio |-> FALSE, scsi |-> TRUE, sgio |-> sgio, send |-> send, ata |-> FALSE,
     packet |-> FALSE, pm |-> TRUE, mode |-> mode, sensor |-> TRUE]

OneTemp == {38}
NoType == {}
EveryType == {"BUS_SATA", "BUS_ATA", "BUS_SCSI"}
EveryKind == {Pata(TRUE, TRUE), Sata, Scsi(TRUE, FALSE, "clear"),
              Scsi(FALSE, TRUE, "set")}
TwoDrives == {d1, d2}
OneDrive == {d1}
Alike == Permutations(TwoDrives)

=============================================================================
