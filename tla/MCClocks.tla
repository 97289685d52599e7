------------------------------ MODULE MCClocks ------------------------------
(* What the clock drives, for TLC: the runs that are due (Schedules) and the   *)
(* hours that are billed (Metering).  The two touch no state of one another,   *)
(* so a behaviour is of the one or of the other.                               *)
EXTENDS Schedules, TLC

CONSTANTS
    HourTicks, MaxNow, MaxEvents, Never

VARIABLES
    part,
    tick, up, lastUp, lastDown, status, destroyed, log, mark, seconds, disk,
    sweep, was, first, fooled

Meter == INSTANCE Metering WITH Sweeps <- Planes, now <- tick, row <- status
meter == <<tick, up, lastUp, lastDown, status, destroyed, log, mark, seconds, disk,
           sweep, was, first, fooled>>

ASSUME MeterAssumption == Meter!BoundsAssumption

MCInit == part \in {"schedules", "metering"} /\ Init /\ Meter!Init
MCNext ==
    /\ UNCHANGED part
    /\ \/ part = "schedules" /\ Next /\ UNCHANGED meter
       \/ part = "metering" /\ Meter!Next /\ UNCHANGED vars
MCSpec == MCInit /\ [][MCNext]_<<part, vars, meter>>

Symmetry == Permutations(Planes)
(* What no property speaks of is not looked into further.                      *)
NotFooled == ~fooled

(* Every hour that is metered has the seconds the machine was up and the disk  *)
(* was held: the two of Metering (meter_machines).                             *)
HoursAreExact == Meter!TimeIsExact /\ Meter!DiskIsExact
=============================================================================
