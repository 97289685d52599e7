--------------------------- MODULE GatewayBudget ---------------------------
(***************************************************************************)
(* Model calls against budgets: the gateway (flotta/gateway/app.py), what  *)
(* it asks of flotta/budgets.py, and the ledger, budgets and prices of     *)
(* flotta/store.py.                                                        *)
(*                                                                         *)
(* A call is admitted on the spend the store knows, goes out, ends, and    *)
(* only then becomes a row, which a thread of `_Ledger` writes, tries      *)
(* again, or loses with the process.  Budgets, prices and the period       *)
(* change meanwhile.  There is one gateway process, as in the fleet's      *)
(* deployment: its list of rows still missing is what makes a sum of the   *)
(* store trustworthy, and it is in memory.                                 *)
(*                                                                         *)
(* A call here is an agent's, with its retries after a refusal; what it    *)
(* costs is the price of its model, or nothing when it never reached the   *)
(* upstream.  Euro rates are taken to exist.                               *)
(***************************************************************************)
EXTENDS Integers, FiniteSets, FiniteSetsExt

CONSTANTS
    Calls, Boxes,
    BoxOf,      \* the agent that makes each call
    Wants,      \* the model each call names
    Budgets,    \* scopes that may have a budget: an org, a client, an agent
    Covers,     \* the agents each scope covers
    Models,     \* a model is its price, a call's cost at most
    Unknown,    \* the cost of a call on a model without a price
    None,
    MaxLimit,   \* bound: limits are 1..MaxLimit
    MaxDay,     \* bound: periods that begin
    MaxEdits,   \* bound: budgets set or removed
    MaxFaults   \* bound: failed writes, stops and crashes

ASSUME BoundsAssumption ==
    /\ MaxLimit \in Nat \ {0} /\ MaxDay \in Nat
    /\ MaxEdits \in Nat /\ MaxFaults \in Nat
ASSUME ScopesAssumption ==
    /\ BoxOf \in [Calls -> Boxes] /\ Wants \in [Calls -> Models]
    /\ Covers \in [Budgets -> SUBSET Boxes]
ASSUME FiniteAssumption ==
    /\ IsFiniteSet(Calls) /\ IsFiniteSet(Boxes)
    /\ IsFiniteSet(Models) /\ Models # {}
ASSUME PricesAssumption == Models \subseteq Nat /\ Unknown \notin Nat /\ None \notin Nat
ASSUME VerdictAssumption == None \notin {"unsettled", "unpriced", "exceeded", "no_price"}

Rules == [limit: 1..MaxLimit, action: {"notify", "stop"}]
            \cup [limit: 1..MaxLimit, action: {"downgrade"}, fallback: Models]

VARIABLES
    budget,   \* the budgets set, or None
    priced,   \* models with a price
    usage,    \* rows of each call in the ledger
    phase,    \* how far each call is
    model,    \* the model it goes to
    missing,  \* what `settle` returned to it: agents with rows missing
    entry,    \* its _Entry of _Ledger._unsettled
    cost,     \* what it cost, fixed at the price of its end
    at,       \* the period it ended in
    day,      \* the period it is now
    gateway,  \* "up", "stopping" or "down"
    edits, faults,
    most      \* history: the most calls that were ever under way at once

store == <<budget, priced, usage>>
talk == <<phase, model, missing>>
ledger == <<entry, cost, at>>
bounds == <<edits, faults>>
vars == <<store, talk, ledger, day, gateway, bounds, most>>

Asking == {"asked", "settled"}
Over == {"ended", "cut"}

TypeOK ==
    /\ budget \in [Budgets -> Rules \cup {None}]
    /\ priced \subseteq Models
    /\ usage \in [Calls -> Nat]
    /\ phase \in [Calls -> {"new", "sent"} \cup Asking \cup Over]
    /\ model \in [Calls -> Models \cup {None}]
    /\ missing \in [Calls -> SUBSET Boxes]
    /\ entry \in [Calls -> {"none", "running", "parked", "due", "lost"}]
    /\ cost \in [Calls -> Models \cup {0, Unknown}]
    /\ at \in [Calls -> 0..MaxDay]
    /\ day \in 0..MaxDay
    /\ gateway \in {"up", "stopping", "down"}
    /\ edits \in 0..MaxEdits /\ faults \in 0..MaxFaults
    /\ most \in 0..Cardinality(Calls)

(* set_budget refuses a fallback that has no price.                        *)
Allowed == {rule \in Rules : rule.action = "downgrade" => rule.fallback \in priced}

Init ==
    /\ priced = {Max(Models)}
    /\ budget \in [Budgets -> Allowed \cup {None}]
    /\ usage = [c \in Calls |-> 0]
    /\ phase = [c \in Calls |-> "new"]
    /\ model = [c \in Calls |-> None]
    /\ missing = [c \in Calls |-> {}]
    /\ entry = [c \in Calls |-> "none"]
    /\ cost = [c \in Calls |-> 0]
    /\ at = [c \in Calls |-> 0]
    /\ day = 0
    /\ gateway = "up"
    /\ edits = 0 /\ faults = 0
    /\ most = 0

Fault == faults < MaxFaults /\ faults' = faults + 1
Bounded == edits < MaxEdits /\ edits' = edits + 1

-----------------------------------------------------------------------------
(* budgets.py on the store.                                                *)

Covering(c) == {b \in Budgets : budget[b] # None /\ BoxOf[c] \in Covers[b]}

RowsOf(b) == {c \in Calls : usage[c] > 0 /\ at[c] = day /\ BoxOf[c] \in Covers[b]}
Unpriced(b) == {c \in RowsOf(b) : cost[c] = Unknown}
Spent(b) == MapThenSumSet(LAMBDA c : usage[c] * cost[c], RowsOf(b) \ Unpriced(b))

MutReached(b) == Spent(b) > budget[b].limit
Reached(b) == Spent(b) >= budget[b].limit

Uncounted(c) == {b \in Covering(c) : missing[c] \cap Covers[b] # {}}
Stopping(c) == {b \in Covering(c) : budget[b].action = "stop" /\ Reached(b)}
Lowering(c) == {b \in Covering(c) : budget[b].action = "downgrade" /\ Reached(b)}

(* The narrowest budget's fallback, or the model the call asked for.       *)
Calling(c) ==
    IF Lowering(c) = {} THEN Wants[c]
    ELSE LET narrowest == CHOOSE b \in Lowering(c) :
               \A other \in Lowering(c) : Cardinality(Covers[b]) <= Cardinality(Covers[other])
         IN  budget[narrowest].fallback

(* Why check_budgets refuses, in its order, or None.                       *)
Verdict(c) ==
    CASE Uncounted(c) # {} -> "unsettled"
      [] \E b \in Covering(c) : Unpriced(b) # {} -> "unpriced"
      [] Stopping(c) # {} -> "exceeded"
      [] Covering(c) # {} /\ Calling(c) \notin priced -> "no_price"
      [] OTHER -> None

-----------------------------------------------------------------------------
(* A call.                                                                 *)

Unsettled == {c \in Calls : entry[c] \in {"running", "parked", "due"}}

(* _retry_due: the rows parked long enough are tried again.                *)
Retried == [c \in Calls |-> IF entry[c] = "due" THEN "running" ELSE entry[c]]

(* `caller`: an agent that exists, with its own token.                     *)
MayCall(c) == gateway = "up" /\ phase[c] = "new"

(* chat_completions up to `settle`, which first tries what is due.         *)
Asks(c) ==
    /\ MayCall(c)
    /\ phase' = [phase EXCEPT ![c] = "asked"]
    /\ entry' = Retried
    /\ UNCHANGED <<store, model, missing, cost, at, day, gateway, bounds, most>>

(* `settle` waits a moment, or its timeout, for the rows being written,    *)
(* and names the agents whose rows are still missing.                      *)
MutMissing == {}
Missing == {BoxOf[c] : c \in Unsettled}

Settles(c) ==
    /\ phase[c] = "asked"
    /\ phase' = [phase EXCEPT ![c] = "settled"]
    /\ missing' = [missing EXCEPT ![c] = Missing]
    /\ most' = Max({most, 1 + Cardinality({d \in Calls : phase[d] \in {"settled", "sent"}})})
    /\ UNCHANGED <<store, model, ledger, day, gateway, bounds>>

(* check_budgets in a worker thread: the call goes out, on the fallback if *)
(* a budget says so, or is refused; the agent may then ask again.          *)
Checks(c) ==
    /\ phase[c] = "settled"
    /\ IF Verdict(c) = None
       THEN /\ phase' = [phase EXCEPT ![c] = "sent"]
            /\ model' = [model EXCEPT ![c] = Calling(c)]
       ELSE /\ phase' = [phase EXCEPT ![c] = "new"]
            /\ UNCHANGED model
    /\ missing' = [missing EXCEPT ![c] = {}]
    /\ UNCHANGED <<store, ledger, day, gateway, bounds, most>>

(* A check that raises is a refusal.                                       *)
CheckFails(c) ==
    /\ Fault
    /\ phase[c] \in Asking
    /\ phase' = [phase EXCEPT ![c] = "new"]
    /\ missing' = [missing EXCEPT ![c] = {}]
    /\ UNCHANGED <<store, model, ledger, day, gateway, edits, most>>

(* What a call that ends now costs, whenever its row is written: the price *)
(* of its model, if it has one, or nothing if it used no tokens.           *)
PossibleCosts(c) == {0, IF model[c] \in priced THEN model[c] ELSE Unknown}

(* The reply ended, was cut, or never came: its row joins `_unsettled`.    *)
Ends(c) ==
    /\ phase[c] = "sent"
    /\ phase' = [phase EXCEPT ![c] = "ended"]
    /\ \E spent \in PossibleCosts(c) : cost' = [cost EXCEPT ![c] = spent]
    /\ at' = [at EXCEPT ![c] = day]
    /\ entry' = [entry EXCEPT ![c] = "running"]
    /\ UNCHANGED <<store, model, missing, day, gateway, bounds, most>>

-----------------------------------------------------------------------------
(* _Ledger: a row stays until it is written.                               *)

(* record_usage: INSERT ... ON CONFLICT (box_id, idempotency_key) DO NOTHING *)
MutInserted(c) == [usage EXCEPT ![c] = @ + 1]
Inserted(c) == [usage EXCEPT ![c] = 1]

Writes(c) ==
    /\ entry[c] = "running"
    /\ usage' = Inserted(c)
    /\ entry' = [entry EXCEPT ![c] = "none"]
    /\ UNCHANGED <<budget, priced, talk, cost, at, day, gateway, bounds, most>>

(* Every attempt failed, though one may have reached the store.            *)
WriteFails(c) ==
    /\ Fault
    /\ entry[c] = "running"
    /\ usage' \in {usage, Inserted(c)}
    /\ entry' = [entry EXCEPT ![c] = "parked"]
    /\ UNCHANGED <<budget, priced, talk, cost, at, day, gateway, edits, most>>

RetryComesDue(c) ==
    /\ entry[c] = "parked"
    /\ entry' = [entry EXCEPT ![c] = "due"]
    /\ UNCHANGED <<store, talk, cost, at, day, gateway, bounds, most>>

-----------------------------------------------------------------------------
(* The process.                                                            *)

(* A planned stop: no new requests, the open ones run to their end.        *)
Stop ==
    /\ Fault
    /\ gateway = "up"
    /\ gateway' = "stopping"
    /\ UNCHANGED <<store, talk, ledger, day, edits, most>>

(* drain waits for the threads, close gives each row left one last try.    *)
Close ==
    /\ gateway = "stopping"
    /\ \A c \in Calls : phase[c] \notin Asking \cup {"sent"} /\ entry[c] # "running"
    /\ \E lost \in SUBSET Unsettled :
        /\ IF lost = {} THEN UNCHANGED faults ELSE Fault
        /\ usage' = [c \in Calls |-> IF c \in Unsettled \ lost THEN Inserted(c)[c] ELSE usage[c]]
        /\ entry' = [c \in Calls |-> IF c \in lost THEN "lost"
                                     ELSE IF c \in Unsettled THEN "none" ELSE entry[c]]
    /\ gateway' = "down"
    /\ UNCHANGED <<budget, priced, talk, cost, at, day, edits, most>>

(* A crash loses the rows not written, and the calls under way.            *)
Crash ==
    /\ Fault
    /\ gateway # "down"
    /\ gateway' = "down"
    /\ entry' = [c \in Calls |-> IF c \in Unsettled THEN "lost" ELSE entry[c]]
    /\ phase' = [c \in Calls |-> IF phase[c] \in Asking THEN "new"
                                 ELSE IF phase[c] = "sent" THEN "cut" ELSE phase[c]]
    /\ missing' = [c \in Calls |-> {}]
    /\ UNCHANGED <<store, model, cost, at, day, edits, most>>

Boot ==
    /\ gateway = "down"
    /\ gateway' = "up"
    /\ UNCHANGED <<store, talk, ledger, day, bounds, most>>

-----------------------------------------------------------------------------
(* The people and the clock.                                               *)

(* put_budget and set_budget: one budget per scope, replaced whole.        *)
SetBudget(b) ==
    /\ Bounded
    /\ \E rule \in Allowed : budget' = [budget EXCEPT ![b] = rule]
    /\ UNCHANGED <<priced, usage, talk, ledger, day, gateway, faults, most>>

Without(b) == [budget EXCEPT ![b] = None]

DeleteBudget(b) ==
    /\ Bounded
    /\ budget[b] # None
    /\ budget' = Without(b)
    /\ UNCHANGED <<priced, usage, talk, ledger, day, gateway, faults, most>>

(* refresh_prices: a model gets its price, and never loses it.             *)
RefreshPrices ==
    /\ priced # Models
    /\ \E new \in (SUBSET (Models \ priced)) \ {{}} : priced' = priced \cup new
    /\ UNCHANGED <<budget, usage, talk, ledger, day, gateway, bounds, most>>

NewDay ==
    /\ day < MaxDay
    /\ day' = day + 1
    /\ UNCHANGED <<store, talk, ledger, gateway, bounds, most>>

CallStep(c) == Asks(c) \/ Settles(c) \/ Checks(c) \/ Ends(c)
RowStep(c) == Writes(c) \/ RetryComesDue(c)
ProcessStep == Close \/ Boot
Trouble == \/ Stop \/ Crash \/ \E c \in Calls : CheckFails(c) \/ WriteFails(c)
Edit == \E b \in Budgets : SetBudget(b) \/ DeleteBudget(b)

Next ==
    \/ \E c \in Calls : CallStep(c) \/ RowStep(c)
    \/ ProcessStep
    \/ Trouble
    \/ Edit
    \/ RefreshPrices
    \/ NewDay

Spec == Init /\ [][Next]_vars

-----------------------------------------------------------------------------
(* What must hold.                                                         *)

(* What the calls of d that are not lost cost against b in this period.    *)
Owed(b, d) ==
    MapThenSumSet(LAMBDA c : cost[c],
                  {c \in d : BoxOf[c] \in Covers[b] /\ at[c] = day
                             /\ entry[c] # "lost" /\ cost[c] # Unknown})

(* A budget left alone is overrun by at most the cost of the calls that    *)
(* are under way at one moment (budgets.py, "How far past the limit").     *)
OverrunIsBounded ==
    edits = 0 => \A b \in Budgets :
        budget[b] # None /\ budget[b].action = "stop" =>
            Owed(b, {c \in Calls : phase[c] = "ended"})
                <= budget[b].limit - 1 + most * Max(Models)

(* A call is in the ledger once at most, however often its row is written, *)
(* and a row nobody holds any more is there.                               *)
BilledOnce ==
    \A c \in Calls :
        /\ usage[c] <= 1
        /\ phase[c] = "ended" /\ entry[c] = "none" => usage[c] = 1
        /\ phase[c] # "ended" => usage[c] = 0
=============================================================================
