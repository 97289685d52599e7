----------------------------- MODULE MCFrontDoor -----------------------------
(* The front door, for TLC: which box a credential opens (DoorAccess), and     *)
(* what a socket that is open lets through (Conversations).  The two touch no  *)
(* state of one another, so a behaviour is of the one or of the other.         *)
EXTENDS DoorAccess, TLC

CONSTANTS a1, a2, k1, k2, s1, s2,
    Gates, TicketsOf, MaxSessions, MaxAsks, MaxFrames,   \* those of Conversations
    MaxForgotten   \* bound: sessions Hermes has forgotten at once

MCClientOf == a1 :> k1 @@ a2 :> k2
MCTicketsOf == s1 :> {"agency"} @@ s2 :> {"client", "approver"}

VARIABLES part, made, stale, ask, listed, gate

Talk == INSTANCE Conversations WITH Sockets <- Gates, sock <- gate
talk == <<made, stale, ask, listed, gate>>

ASSUME TalkAssumption == Talk!KindsAssumption /\ Talk!BoundsAssumption

MCInit == part \in {"access", "talk"} /\ Init /\ Talk!Init
MCNext ==
    /\ UNCHANGED part
    /\ \/ part = "access" /\ Next /\ UNCHANGED talk
       \/ part = "talk" /\ Talk!Next /\ Cardinality(stale') <= MaxForgotten /\ UNCHANGED vars
MCSpec == MCInit /\ [][MCNext]_<<part, vars, talk>>

Symmetry == Permutations(Ports)

(* A client's socket is attached to the sessions of its own page alone, and an *)
(* approval that the agency's conversation raised is answered by the agency,   *)
(* or by a client whose answers were let through for it: the two of            *)
(* Conversations (door/conversation.py).                                       *)
ClientsStayApart == Talk!ClientsKeepToTheirs /\ Talk!ApprovalsStayTheAgencys
=============================================================================
