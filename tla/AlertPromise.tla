---------------------------- MODULE AlertPromise ----------------------------
(***************************************************************************)
(* What the alerts outbox promises (docs/ALERTS.md), without the sweeps    *)
(* and processes that keep it: a threshold is queued once for each place   *)
(* an org names, each delivery is settled once, as sent only if it arrived *)
(* and otherwise given up, and a webhook that moves takes with it whatever *)
(* is still being tried.  Alerts shows that flotta/alerts.py implements it. *)
(***************************************************************************)
CONSTANTS Events, Urls, None

VARIABLES
    hook,     \* the org's webhook, or None
    queued,   \* events whose deliveries are in the outbox
    status,   \* of each event at each place
    arrived   \* deliveries that reached their place, maybe more than once

vars == <<hook, queued, status, arrived>>

Webhook(u) == IF u = None THEN {} ELSE {u}

Init ==
    /\ hook \in Urls \cup {None}
    /\ queued = {}
    /\ status = [d \in Events \X Urls |-> "none"]
    /\ arrived = {}

Queue ==
    /\ \E new \in SUBSET (Events \ queued) :
        /\ queued' = queued \cup new
        /\ status' = [d \in Events \X Urls |->
                        IF d[1] \in new /\ d[2] \in Webhook(hook)
                        THEN "pending" ELSE status[d]]
    /\ UNCHANGED <<hook, arrived>>

Arrive(d) ==
    /\ d[1] \in queued
    /\ arrived' = arrived \cup {d}
    /\ UNCHANGED <<hook, queued, status>>

Settle(d) ==
    /\ status[d] = "pending"
    /\ \/ d \in arrived /\ status' = [status EXCEPT ![d] = "sent"]
       \/ status' = [status EXCEPT ![d] = "failed"]
    /\ UNCHANGED <<hook, queued, arrived>>

Tried(e) == {u \in Urls : status[<<e, u>>] = "pending"}

Move(url) ==
    /\ hook' = url
    /\ status' =
        IF url = None THEN status
        ELSE [d \in Events \X Urls |->
                IF d[2] \in Tried(d[1]) \ {url} THEN "replaced"
                ELSE IF d[2] = url /\ Tried(d[1]) \ {url} # {} /\ status[d] \in {"none", "replaced"}
                THEN "pending" ELSE status[d]]
    /\ UNCHANGED <<queued, arrived>>

Next ==
    \/ Queue
    \/ \E d \in Events \X Urls : Arrive(d) \/ Settle(d)
    \/ \E url \in Urls \cup {None} : Move(url)

(* Whatever is tried is settled in the end, or its webhook moves on.       *)
Spec == Init /\ [][Next]_vars /\ \A d \in Events \X Urls : WF_vars(Settle(d))
=============================================================================
