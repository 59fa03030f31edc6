------------------------------ MODULE Queries -------------------------------
(***************************************************************************)
(* What the bus drivers promise their callers: main() collects each disk   *)
(* once, and from then on one call of get_temperature at a time replaces a *)
(* disk by one of GetTemperature's results.  No ioctl, no errno, no        *)
(* transport.                                                              *)
(***************************************************************************)
EXTENDS GetTemperature

CONSTANTS Drives   \* the drives named on the command line

VARIABLE disk      \* disk[d]: the struct disk of d

\* A drive main() has not come to yet, or has dropped (its bus is unknown).
NotCollected == [NotOpened("ERROR") EXCEPT !.errormsg = ""]

\* daemon_update forgets the value before it asks; main() has just set it.
Asked(dsk) == [dsk EXCEPT !.value = NoValue, !.measured = FALSE]

Init == disk = [d \in Drives |-> NotCollected]

Collect(d) ==
    /\ disk[d] = NotCollected
    /\ \E dsk \in CollectedDisk : disk' = [disk EXCEPT ![d] = dsk]

Query(d) ==
    /\ disk[d].type # "ERROR"
    /\ \E dsk \in GetTemperature(Asked(disk[d])) : disk' = [disk EXCEPT ![d] = dsk]

Next == \E d \in Drives : Collect(d) \/ Query(d)

Spec == Init /\ [][Next]_disk

=============================================================================
