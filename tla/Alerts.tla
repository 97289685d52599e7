------------------------------- MODULE Alerts -------------------------------
(***************************************************************************)
(* Budget alerts: the outbox of flotta/store.py, the sweep of              *)
(* flotta/alerts.py that sends from it, in each of the control planes that *)
(* run, and the endpoint that says where alerts go (flotta/control/app.py). *)
(*                                                                         *)
(* A sweep queues what is new, claims what is due, sends it all, and only  *)
(* then notes how each went.  Another plane may claim the same row as soon *)
(* as its next try is due, however long the first takes to note; a crash   *)
(* forgets what was claimed, and the webhook may move at any point.        *)
(*                                                                         *)
(* A place is a webhook's URL.  An owner's address is a place that never   *)
(* moves, with the rows and sends of any other.                            *)
(*                                                                         *)
(* External: the mail service and the endpoint, which may get a message    *)
(* and answer too late, or not get it at all.                              *)
(***************************************************************************)
EXTENDS Naturals

CONSTANTS
    Planes, Events, Urls, None,
    MaxAttempts,  \* MAX_ATTEMPTS
    MaxMoves,     \* bound: times the alerts are edited
    MaxFaults     \* bound: crashes

ASSUME BoundsAssumption ==
    MaxAttempts \in Nat \ {0} /\ MaxMoves \in Nat /\ MaxFaults \in Nat
ASSUME PlacesAssumption == None \notin Urls \cup {"ok", "error", "final"}

Deliveries == Events \X Urls
Results == {"ok", "error", "final"}

VARIABLES
    recorded,  \* the thresholds in budget_events
    queued,    \* those with alerts_queued_at
    hook,      \* org_alerts.webhook_url
    status, attempts,
    fresh,     \* rows whose next_attempt_at is still 0: nobody claimed them
    due,       \* rows whose next_attempt_at has come
    sweep,     \* how far each plane's sweep is
    found,     \* the rows it read as due, as it read them
    hand,      \* those it claimed, as it read them, and how their send went
    arrived,   \* deliveries that reached their place
    tries,     \* history: sends of each delivery; a refusal counts as all
    moves, faults

outbox == <<status, attempts, fresh, due>>
senders == <<sweep, found, hand>>
world == <<arrived, tries>>
vars == <<recorded, queued, hook, outbox, senders, world, moves, faults>>

Reading == [d : Deliveries, attempts : Nat, fresh : BOOLEAN]
Work == [d : Deliveries, attempts : Nat, current : BOOLEAN, result : Results \cup {None}]

TypeOK ==
    /\ recorded \subseteq Events /\ queued \subseteq recorded
    /\ hook \in Urls \cup {None}
    /\ status \in [Deliveries -> {"none", "pending", "sent", "failed", "replaced"}]
    /\ attempts \in [Deliveries -> Nat]
    /\ fresh \subseteq Deliveries /\ due \subseteq Deliveries
    /\ sweep \in [Planes -> {"idle", "working"}]
    /\ found \in [Planes -> SUBSET Reading]
    /\ hand \in [Planes -> SUBSET Work]
    /\ arrived \subseteq Deliveries
    /\ tries \in [Deliveries -> 0..MaxAttempts]
    /\ moves \in 0..MaxMoves /\ faults \in 0..MaxFaults

Init ==
    /\ recorded = {} /\ queued = {}
    /\ hook \in Urls \cup {None}
    /\ status = [d \in Deliveries |-> "none"]
    /\ attempts = [d \in Deliveries |-> 0]
    /\ fresh = {} /\ due = {}
    /\ sweep = [p \in Planes |-> "idle"]
    /\ found = [p \in Planes |-> {}]
    /\ hand = [p \in Planes |-> {}]
    /\ arrived = {}
    /\ tries = [d \in Deliveries |-> 0]
    /\ moves = 0 /\ faults = 0

-----------------------------------------------------------------------------
(* A budget crosses a threshold: once a period, whoever saw it.            *)
Threshold(e) ==
    /\ e \notin recorded
    /\ recorded' = recorded \cup {e}
    /\ UNCHANGED <<queued, hook, outbox, senders, world, moves, faults>>

(* The rows of new that are queued or queued again, with all their tries.  *)
Queues(new) ==
    /\ attempts' = [d \in Deliveries |-> IF d \in new THEN 0 ELSE attempts[d]]
    /\ fresh' = fresh \cup new
    /\ due' = due \cup new

AlertTargets == IF hook = None THEN {} ELSE {hook}

(* queue_budget_alerts: a delivery per place, and the mark that says so.   *)
New == {d \in (recorded \ queued) \X AlertTargets : status[d] = "none"}

QueueAlerts ==
    /\ status' = [d \in Deliveries |-> IF d \in New THEN "pending" ELSE status[d]]
    /\ Queues(New)
    /\ queued' = recorded

(* due_alert_deliveries: the rows _claim_due goes through, as they are now. *)
DueNow == {[d |-> d, attempts |-> attempts'[d], fresh |-> d \in fresh'] :
              d \in {x \in due' : status'[x] = "pending"}}

(* A sweep begins.  What comes between its two reads might as well come    *)
(* before them, as another plane may have queued.                          *)
Sweeps(p) ==
    /\ sweep[p] = "idle"
    /\ QueueAlerts
    /\ found' = [found EXCEPT ![p] = DueNow]
    /\ sweep' = [sweep EXCEPT ![p] = IF DueNow = {} THEN "idle" ELSE "working"]
    /\ UNCHANGED <<recorded, hook, hand, world, moves, faults>>

(* claim_alert_delivery: only a row that is as it was read.  A claim sets  *)
(* a next_attempt_at no earlier reader of the row has seen.                *)
MayClaim(r) ==
    /\ status[r.d] = "pending" /\ attempts[r.d] = r.attempts
    /\ r.fresh = (r.d \in fresh)

Outrun(q, d) == {r \in found[q] : r.d = d /\ ~r.fresh}

Claims(p, r) ==
    /\ sweep[p] = "working"
    /\ r \in found[p]
    /\ IF MayClaim(r)
       THEN /\ fresh' = fresh \ {r.d}
            /\ due' = due \ {r.d}
            /\ found' = [q \in Planes |-> (IF q = p THEN found[q] \ {r} ELSE found[q]) \ Outrun(q, r.d)]
            /\ hand' = [hand EXCEPT ![p] = @ \cup
                {[d |-> r.d, attempts |-> r.attempts, current |-> r.d[2] = hook, result |-> None]}]
       ELSE /\ found' = [found EXCEPT ![p] = @ \ {r}]
            /\ UNCHANGED <<fresh, due, hand>>
    /\ UNCHANGED <<recorded, queued, hook, status, attempts, sweep, world, moves, faults>>

(* Nothing was claimed, so the sweep is over.                              *)
ClaimsNothing(p) ==
    /\ sweep[p] = "working"
    /\ found[p] = {} /\ hand[p] = {}
    /\ sweep' = [sweep EXCEPT ![p] = "idle"]
    /\ UNCHANGED <<recorded, queued, hook, outbox, found, hand, world, moves, faults>>

(* _attempt: how a send may go, and whether the message got there.  The    *)
(* answer is final when the webhook is no longer the one set, when a name  *)
(* has an address that is not public, and when nothing here sends mail.    *)
Outcomes(w) ==
    {<<"final", FALSE>>}
        \cup (IF w.current THEN {<<"ok", TRUE>>, <<"error", TRUE>>, <<"error", FALSE>>} ELSE {})

(* The sends begin when everything due was claimed.                        *)
Sends(p, w) ==
    /\ sweep[p] = "working" /\ found[p] = {}
    /\ w \in hand[p] /\ w.result = None
    /\ \E o \in Outcomes(w) :
        /\ hand' = [hand EXCEPT ![p] = (@ \ {w}) \cup {[w EXCEPT !.result = o[1]]}]
        /\ arrived' = IF o[2] THEN arrived \cup {w.d} ELSE arrived
        /\ tries' = [tries EXCEPT ![w.d] =
                        IF o[1] = "final" \/ @ = MaxAttempts THEN MaxAttempts ELSE @ + 1]
    /\ UNCHANGED <<recorded, queued, hook, outbox, sweep, found, moves, faults>>

(* finish_alert_delivery and note_alert_failure speak of a row that is     *)
(* still pending, and of no other.                                         *)
MutSpoken(d) == TRUE
Spoken(d) == status[d] = "pending"

MutGivesUp(w) == w.result = "final" \/ w.attempts + 2 >= MaxAttempts
GivesUp(w) == w.result = "final" \/ w.attempts + 1 >= MaxAttempts

Verdict(w) ==
    IF w.result = "ok" THEN "sent" ELSE IF GivesUp(w) THEN "failed" ELSE "pending"

(* The notes begin when every send has ended.                              *)
Notes(p, w) ==
    /\ w \in hand[p]
    /\ \A other \in hand[p] : other.result # None
    /\ hand' = [hand EXCEPT ![p] = @ \ {w}]
    /\ sweep' = [sweep EXCEPT ![p] = IF hand[p] = {w} THEN "idle" ELSE @]
    /\ IF Spoken(w.d)
       THEN /\ status' = [status EXCEPT ![w.d] = Verdict(w)]
            /\ attempts' = [attempts EXCEPT ![w.d] = @ + 1]
       ELSE UNCHANGED <<status, attempts>>
    /\ UNCHANGED <<recorded, queued, hook, fresh, due, found, world, moves, faults>>

(* The time a claim set comes, whether or not its sweep has noted.         *)
ComesDue(d) ==
    /\ status[d] = "pending"
    /\ d \notin due
    /\ due' = due \cup {d}
    /\ UNCHANGED <<recorded, queued, hook, status, attempts, fresh, senders, world,
                   moves, faults>>

(* The process dies; what it claimed waits for its next try.               *)
Crash(p) ==
    /\ faults < MaxFaults /\ faults' = faults + 1
    /\ sweep[p] # "idle"
    /\ sweep' = [sweep EXCEPT ![p] = "idle"]
    /\ found' = [found EXCEPT ![p] = {}]
    /\ hand' = [hand EXCEPT ![p] = {}]
    /\ UNCHANGED <<recorded, queued, hook, outbox, world, moves>>

-----------------------------------------------------------------------------
(* _move_queued_webhooks: each alert still tried elsewhere goes to url.    *)
Tried(e) == {u \in Urls : status[<<e, u>>] = "pending"}
Left(url) == {d \in Deliveries : d[2] # url /\ status[d] = "pending"}
Taken(url) == {<<e, url>> : e \in {x \in Events : Tried(x) \ {url} # {}
                                   /\ status[<<x, url>>] \in {"none", "replaced"}}}

SetOrgAlerts(url) ==
    /\ hook' = url
    /\ IF url = None
       THEN UNCHANGED outbox
       ELSE /\ status' = [d \in Deliveries |->
                            IF d \in Left(url) THEN "replaced"
                            ELSE IF d \in Taken(url) THEN "pending" ELSE status[d]]
            /\ Queues(Taken(url))

(* put_alerts writes every setting back, so a body that names no webhook   *)
(* writes the one its request read, which may be an older one.  Writing    *)
(* the same one again only makes a new secret.                             *)
PutAlerts ==
    /\ moves < MaxMoves /\ moves' = moves + 1
    /\ \E url \in (Urls \cup {None}) \ {hook} : SetOrgAlerts(url)
    /\ UNCHANGED <<recorded, queued, senders, world, faults>>

SweepStep(p) ==
    \/ Sweeps(p) \/ ClaimsNothing(p)
    \/ \E r \in found[p] : Claims(p, r)
    \/ \E w \in hand[p] : Sends(p, w) \/ Notes(p, w)

Next ==
    \/ \E e \in Events : Threshold(e)
    \/ \E p \in Planes : SweepStep(p) \/ Crash(p)
    \/ \E d \in Deliveries : ComesDue(d)
    \/ PutAlerts

Spec == Init /\ [][Next]_vars

(* run_alert_loop comes round whatever a sweep raised, a send ends within  *)
(* its deadline, and time passes.                                          *)
FairSpec ==
    /\ Spec
    /\ \A p \in Planes : WF_vars(SweepStep(p))
    /\ \A d \in Deliveries : WF_vars(ComesDue(d))

-----------------------------------------------------------------------------
(* What must hold.                                                         *)

Promise == INSTANCE AlertPromise

(* The sweeps, claims and notes of any number of planes, with crashes and  *)
(* a webhook that moves, keep the promise of the outbox: queued once,      *)
(* sent only if it arrived, settled once, taken along by a new webhook,    *)
(* and settled in the end.                                                 *)
PromiseKept == Promise!Spec

(* An alert is given up only after every try, or when an answer was final  *)
(* (alerts.py, _note), also when slow sweeps overlap.                      *)
GivenUpAfterEveryTry ==
    \A d \in Deliveries :
        status[d] = "failed" => tries[d] = MaxAttempts

=============================================================================
