------------------------------ MODULE MCGateway ------------------------------
(* What an agent reaches through the gateway, for TLC: models, under a budget  *)
(* (GatewayBudget), and the tools of MCP servers, with a connection somebody   *)
(* signed in for (McpAccess).  The two touch no state of one another, so a     *)
(* behaviour is of the one or of the other.                                    *)
EXTENDS GatewayBudget, TLC

CONSTANTS
    c1, c2, c3, busy, other, org,
    People, Addresses, Desks, Tools,
    MaxSignIns, MaxAgeings, MaxMoves, MaxTroubles,
    MaxTurns,      \* bound: edits, new days and faults together
    MaxUpsets      \* bound: sign-ins, ageings, moves and troubles together

MCBoxOf == c1 :> busy @@ c2 :> busy @@ c3 :> other
MCCovers == org :> {busy, other}
MCWants == c1 :> 1 @@ c2 :> 1 @@ c3 :> 0

VARIABLES
    part,
    address, flow, code, connection, provider, lock, call, desk,
    made, ageings, moves, troubles, spoilt, overtaken

Mcp == INSTANCE McpAccess WITH Calls <- Tools, entry <- address
mcp == <<address, flow, code, connection, provider, lock, call, desk,
         made, ageings, moves, troubles, spoilt, overtaken>>

ASSUME McpAssumption == Mcp!BoundsAssumption /\ Mcp!NoneAssumption

MCInit ==
    /\ part \in {"models", "tools"} /\ Init /\ Mcp!Init
    /\ part = "tools" => budget = [b \in Budgets |-> None]
MCNext ==
    /\ UNCHANGED part
    /\ \/ part = "models" /\ Next /\ edits' + day' + faults' <= MaxTurns /\ UNCHANGED mcp
       \/ part = "tools" /\ Mcp!Next /\ made' + ageings' + moves' + troubles' <= MaxUpsets
          /\ UNCHANGED vars
MCSpec == MCInit /\ [][MCNext]_<<part, vars, mcp>>

Symmetry ==
    Permutations({c1, c2}) \cup Permutations(People)
        \cup Permutations(Addresses)

(* A connection holds the tokens of the sign-in its starter finished, and no   *)
(* overlap of refreshes, retries and disconnects leaves an agent without a     *)
(* sign-in that still works (claim_mcp_oauth, resolve, break_mcp_connection).  *)
SignInsAreKept == Mcp!ConnectedByItsStarter /\ Mcp!WorkingSignInStays

(* A token goes only to the address it was signed in at, though the catalogue  *)
(* may move the server between the read of the entry and the call.             *)
SentWhereItIsFor == Mcp!SentWhereItIsFor
=============================================================================
