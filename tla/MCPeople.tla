------------------------------ MODULE MCPeople ------------------------------
(* People, for TLC: who is in which org (Accounts), and the GitHub accounts    *)
(* they connect (Github).  The two touch no state of one another, so a         *)
(* behaviour is of the one or of the other; and what the connections decide is *)
(* looked at in two parts: whose name is on the commits, with connections of   *)
(* the agent's org by owners of two accounts, and which credentials are handed *)
(* out, with one account, another org and whoever tries.                       *)
EXTENDS Accounts, TLC

CONSTANTS
    ann, bob, home, agency, k1, d1, d2,
    Tenants, Operator, Clients, Persons, Staff, FleetOwner, Handles,
    MaxInstalls, MaxClaims, Hands, Threads, MaxFailures,
    MaxChanges,    \* bound: login links, requests and troubles together
    MaxUpsets      \* bound: connection links, claims and failures together

MCFounders == home :> {ann} @@ agency :> {}

VARIABLES
    part,
    owner, installed, live, links, rows, grants, tenant, box, author, hand, thread,
    mint, started, claims, failures, decided, excused, starter, late, authorised

Hub == INSTANCE Github WITH
    Orgs <- Tenants, People <- Persons, Accounts <- Handles, Desks <- Hands, MaxTroubles <- MaxFailures,
    home <- tenant, desk <- hand, troubles <- failures, asked <- starter
hub == <<owner, installed, live, links, rows, grants, tenant, box, author, hand,
         thread, mint, started, claims, failures, decided, excused, starter, late, authorised>>

ASSUME HubAssumption == Hub!ConstantsAssumption

MCInit ==
    /\ part \in {"accounts", "authors", "credentials"} /\ Init /\ Hub!Init
    /\ part # "credentials" => \A a, b \in Handles : owner[a] = owner[b] => a = b
    /\ part = "accounts" => tenant.org = Operator /\ live = {}

Authoring ==
    /\ UNCHANGED <<grants, mint>> /\ \A d \in Hands : hand'[d].at # "check"
    /\ \A l \in links' : /\ l.scope.org = tenant.org
                         /\ l.inst # None => l.by = owner[installed[l.inst]]
Touched ==
    ({installed[i] : i \in Hub!Installs} \ {None}) \cup {a \in Handles : grants[a] # None}
        \cup {hand[d].repo : d \in {x \in Hands : hand[x].at \in {"check", "grant"}}}
Crediting ==
    /\ UNCHANGED box
    /\ (\E t \in Threads : thread[t] # Hub!Idle) => thread' # thread
    /\ mint.at \in {"fleet", "app"} => mint' # mint
    /\ Cardinality(Touched') <= 1
    /\ \A l \in links' : IF l.scope.org = tenant.org THEN l.scope = tenant
                         ELSE l.scope.client = None
MCNext ==
    /\ UNCHANGED part
    /\ \/ part = "accounts" /\ Next /\ made' + asked' + troubles' <= MaxChanges
          /\ UNCHANGED hub
       \/ /\ part # "accounts" /\ Hub!Next /\ UNCHANGED vars
          /\ started' + claims' + failures' <= MaxUpsets
          /\ IF part = "authors" THEN Authoring ELSE Crediting
MCSpec == MCInit /\ [][MCNext]_<<part, vars, hub>>

Symmetry ==
    Permutations({d1, d2}) \cup Permutations(Persons) \cup Permutations(Handles)
        \cup Permutations(Clients)

(* An account is connected where its owner asked for it, and the agent commits *)
(* as who proved the nearest scope that is connected, but for what a refresh   *)
(* missed: the two of Github (_started_by_caller, _refresh_authors).           *)
ConnectionsAreTheirs == Hub!ConnectedByItsOwner /\ Hub!NamedByItsScope

(* The operator's token is handed out for what the operator granted alone, and *)
(* an installation's never to one tenant's agent once another holds it         *)
(* (may_spend_fleet_token, disconnect_github).                                 *)
TokensAreTheirs == Hub!FleetTokenIsGranted /\ Hub!TokenOfItsTenant
=============================================================================
