------------------------------- MODULE MCDoor -------------------------------
(* The heartbeats of a box's conversations beside the idle sweep (Door), for   *)
(* TLC and for the proofs: the names below keep clear of other components'.    *)
EXTENDS Naturals

CONSTANTS Conversations, Beat, Gap, Answer, Floor, IdleAfter, MaxWords, MaxTroubles

VARIABLES box, quiet, sweep, conv, turn, words, troubles

Doorway == INSTANCE Door

ASSUME DoorAssumption == Doorway!TicksAssumption /\ Doorway!BoundsAssumption

DoorSpec == Doorway!FairSpec

(* The sweep does not take a box for idle while a turn of an open conversation *)
(* works on it, once the words that began it have had the time to be noted,    *)
(* though a heartbeat may fail (Liveness, keep_awake, idle_boxes).             *)
BusyBoxIsNotIdle == Doorway!BusyBoxIsNotIdle

(* A forgotten tab does not keep the box awake for ever (is_keepalive).        *)
ForgottenTabsLetItSleep == Doorway!ForgottenTabsLetItSleep
=============================================================================
