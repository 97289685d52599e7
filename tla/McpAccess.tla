------------------------------ MODULE McpAccess ------------------------------
(***************************************************************************)
(* How an agent's tool calls reach an MCP server that takes only OAuth:    *)
(* the sign-in of an owner (flotta/control/app.py, flotta/mcp_oauth.py),   *)
(* the connection it leaves in the store, and the gateway that puts its    *)
(* access token on each call and renews it (flotta/gateway/mcp.py).        *)
(*                                                                         *)
(* One server of the catalogue, one agent, whose client may have a         *)
(* connection of its own before its org's, and one gateway process.  The   *)
(* provider rotates: a refresh token is good once.  Every statement of the *)
(* store and every request to the provider or the server is a step.        *)
(*                                                                         *)
(* Discovery, registration, sealing, scopes, servers that take a key, the  *)
(* grant of a tool and the rows of the audit are left out: a call here is  *)
(* one that was granted.                                                   *)
(***************************************************************************)
EXTENDS Naturals

CONSTANTS
    People,        \* who may sign in at the provider; all are owners
    Addresses,     \* where the catalogue's entry may point
    Calls,         \* tool calls
    Desks,         \* requests of owners under way
    None,
    MaxSignIns,    \* bound: sign-ins started
    MaxAgeings,    \* bound: access tokens that stop working
    MaxMoves,      \* bound: changes of the entry
    MaxTroubles    \* bound: answers lost, calls that fail, sign-ins revoked

SignIns == 1..MaxSignIns
Levels == {"client", "org"}
Ages == 0..(MaxAgeings + 1)

BoundsAssumption ==
    MaxSignIns \in Nat /\ MaxAgeings \in Nat /\ MaxMoves \in Nat /\ MaxTroubles \in Nat

VARIABLES
    entry,      \* the address of the catalogue's entry
    flow,       \* mcp_oauth_flows; a claimed one is kept, as taken
    code,       \* whose browser holds the code of a sign-in
    connection, \* mcp_connections, by level
    provider,   \* what the provider made of each sign-in
    lock,       \* Proxy._locks, by level
    call,       \* what each tool call has read
    desk,       \* what each request of an owner has read
    made, ageings, moves, troubles,
    spoilt,     \* history: sign-ins whose new tokens were lost
    overtaken   \* history: sign-ins marked broken for another one

store == <<entry, flow, connection>>
world == <<code, provider>>
gateway == <<lock, call>>
bounds == <<made, ageings, moves, troubles>>
history == <<spoilt, overtaken>>
vars == <<store, world, gateway, desk, bounds, history>>

Idle == [at |-> "idle"]
Tokens == [k : SignIns, gen : Ages]
Connection == [k : SignIns, gen : Ages, ok : BOOLEAN]
Flow == [by : People, level : Levels, address : Addresses, open : BOOLEAN]
NoneAssumption == None \notin People \cup Addresses \cup Calls \cup Flow \cup Connection \cup Tokens

TypeOK ==
    /\ entry \in Addresses
    /\ flow \in [SignIns -> Flow \cup {None}]
    /\ code \in [SignIns -> People \cup {None}]
    /\ connection \in [Levels -> Connection \cup {None}]
    /\ provider \in [SignIns -> [gen : Ages, live : BOOLEAN, renews : BOOLEAN, expired : Ages, dead : Ages]]
    /\ lock \in [Levels -> Calls \cup {None}]
    /\ call \in [Calls -> {Idle}
         \cup [at : {"done"}]
         \cup [at : {"resolve"}, address : Addresses, stale : Tokens \cup {None}]
         \cup [at : {"lock", "refresh", "keep", "break", "send", "lost"}, address : Addresses,
               stale : Tokens \cup {None}, level : Levels, found : Connection,
               use : Tokens, renewed : BOOLEAN]]
    /\ desk \in [Desks -> {Idle} \cup [at : {"trade", "connect"}, k : SignIns]
         \cup [at : {"delete", "revoke"}, level : Levels, found : Connection]]
    /\ made \in 0..MaxSignIns /\ ageings \in 0..MaxAgeings
    /\ moves \in 0..MaxMoves /\ troubles \in 0..MaxTroubles
    /\ spoilt \subseteq SignIns /\ overtaken \subseteq SignIns

Init ==
    /\ entry \in Addresses
    /\ flow = [k \in SignIns |-> None] /\ code = [k \in SignIns |-> None]
    /\ connection = [l \in Levels |-> None]
    /\ provider = [k \in SignIns |->
         [gen |-> 0, live |-> FALSE, renews |-> FALSE, expired |-> 0, dead |-> 0]]
    /\ lock = [l \in Levels |-> None]
    /\ call = [c \in Calls |-> Idle] /\ desk = [d \in Desks |-> Idle]
    /\ made = 0 /\ ageings = 0 /\ moves = 0 /\ troubles = 0
    /\ spoilt = {} /\ overtaken = {}

Trouble == troubles < MaxTroubles /\ troubles' = troubles + 1 /\ UNCHANGED <<made, ageings, moves>>

-----------------------------------------------------------------------------
(* Signing in. *)

(* _start_sign_in keeps a flow; the state sent along names it.             *)
StartSignIn(p, l) ==
    /\ made < MaxSignIns /\ made' = made + 1
    /\ flow' = [flow EXCEPT ![made + 1] =
                  [by |-> p, level |-> l, address |-> entry, open |-> TRUE]]
    /\ UNCHANGED <<entry, connection, world, gateway, desk, ageings, moves, troubles, history>>

(* Whoever follows the link signs in at the provider, and the callback     *)
(* leaves the code with that browser.                                      *)
Consent(p, k) ==
    /\ flow[k] # None /\ code[k] = None
    /\ code' = [code EXCEPT ![k] = p]
    /\ UNCHANGED <<store, provider, gateway, desk, bounds, history>>

(* claim_mcp_oauth, by somebody with the code: the flow is taken by the    *)
(* person who started it, before the code is traded.                       *)
MayClaim(p, k) == flow[k].open /\ flow[k].by = p

TakesFlow(d, p, k) ==
    /\ desk[d] = Idle
    /\ code[k] = p /\ MayClaim(p, k)
    /\ flow' = [flow EXCEPT ![k].open = FALSE]
    /\ desk' = [desk EXCEPT ![d] = IF flow[k].address = entry THEN [at |-> "trade", k |-> k] ELSE Idle]
    /\ UNCHANGED <<entry, connection, world, gateway, bounds, history>>

(* Tokens for the code; a provider need not give one to renew them with.   *)
Trades(d) ==
    /\ desk[d].at = "trade"
    /\ \/ /\ \E renews \in BOOLEAN :
               provider' = [provider EXCEPT ![desk[d].k].gen = 1, ![desk[d].k].live = TRUE,
                                            ![desk[d].k].renews = renews]
          /\ desk' = [desk EXCEPT ![d].at = "connect"]
          /\ UNCHANGED bounds
       \/ Trouble /\ desk' = [desk EXCEPT ![d] = Idle] /\ UNCHANGED provider
    /\ UNCHANGED <<store, code, gateway, history>>

(* set_mcp_connection: ok, whatever it was before.                         *)
Connects(d) ==
    /\ desk[d].at = "connect"
    /\ connection' = [connection EXCEPT ![flow[desk[d].k].level] =
                        [k |-> desk[d].k, gen |-> 1, ok |-> TRUE]]
    /\ desk' = [desk EXCEPT ![d] = Idle]
    /\ UNCHANGED <<entry, flow, world, gateway, bounds, history>>

(* _disconnect: delete_mcp_connection reads, then deletes; then what was   *)
(* read is revoked, if it can be.                                          *)
Disconnect(d, l) ==
    /\ desk[d] = Idle /\ connection[l] # None
    /\ desk' = [desk EXCEPT ![d] = [at |-> "delete", level |-> l, found |-> connection[l]]]
    /\ UNCHANGED <<store, world, gateway, bounds, history>>

Deletes(d) ==
    /\ desk[d].at = "delete"
    /\ connection' = [connection EXCEPT ![desk[d].level] = None]
    /\ desk' = [desk EXCEPT ![d].at = "revoke"]
    /\ UNCHANGED <<entry, flow, world, gateway, bounds, history>>

Revokes(d) ==
    LET f == desk[d].found IN
    /\ desk[d].at = "revoke"
    /\ \/ /\ provider' = [provider EXCEPT ![f.k].live = @ /\ f.gen # provider[f.k].gen]
          /\ UNCHANGED bounds
       \/ Trouble /\ UNCHANGED provider
    /\ desk' = [desk EXCEPT ![d] = Idle]
    /\ UNCHANGED <<store, code, gateway, history>>

(* The operator points the entry somewhere else.                           *)
EntryMoves(a) ==
    /\ moves < MaxMoves /\ moves' = moves + 1
    /\ a # entry /\ entry' = a
    /\ UNCHANGED <<flow, connection, world, gateway, desk, made, ageings, troubles, history>>

-----------------------------------------------------------------------------
(* The provider. *)

(* An access token grows old, and with it those before it; or it is no     *)
(* longer taken before its time.                                           *)
Ageing(k) == ageings < MaxAgeings /\ ageings' = ageings + 1 /\ provider[k].gen # 0
Expires(k) ==
    /\ Ageing(k)
    /\ provider' = [provider EXCEPT ![k].expired = provider[k].gen, ![k].dead = provider[k].gen]
    /\ UNCHANGED <<store, code, gateway, desk, made, moves, troubles, history>>
Drops(k) ==
    /\ Ageing(k)
    /\ provider' = [provider EXCEPT ![k].dead = provider[k].gen]
    /\ UNCHANGED <<store, code, gateway, desk, made, moves, troubles, history>>

(* Somebody ends a sign-in at the provider.                                *)
EndedThere(k) ==
    /\ Trouble /\ provider[k].live
    /\ provider' = [provider EXCEPT ![k].live = FALSE]
    /\ UNCHANGED <<store, code, gateway, desk, history>>

Taken(t) == provider[t.k].live /\ t.gen > provider[t.k].dead
Renewable(t) == provider[t.k].renews /\ provider[t.k].live /\ t.gen = provider[t.k].gen
NeedsRefresh(t) == t.gen <= provider[t.k].expired

-----------------------------------------------------------------------------
(* A tool call. *)

Goes(c, at) == call' = [call EXCEPT ![c].at = at]
Done == [at |-> "done"]
Ends(c) == call' = [call EXCEPT ![c] = Done]
TokensOf(row) == [k |-> row.k, gen |-> row.gen]

(* _lookup: the server as the catalogue has it now.                        *)
Looks(c) ==
    /\ call[c] = Idle
    /\ call' = [call EXCEPT ![c] = [at |-> "resolve", address |-> entry, stale |-> None]]
    /\ UNCHANGED <<store, world, lock, desk, bounds, history>>

(* connection_usable: ok, and made for this address.                       *)
MutUsable(row, address) == row.ok
Usable(row, address) == row.ok /\ flow[row.k].address = address

(* resolve: the client's connection, else the org's, and no other if it    *)
(* does not work.                                                          *)
LevelFor == IF connection["client"] # None THEN "client" ELSE "org"
Resolves(c) ==
    LET l == LevelFor  row == connection[l] IN
    /\ call[c].at = "resolve"
    /\ IF row # None /\ Usable(row, call[c].address)
       THEN call' = [call EXCEPT ![c] =
              [at |-> IF call[c].stale = None /\ ~NeedsRefresh(TokensOf(row)) THEN "send" ELSE "lock",
               address |-> call[c].address, stale |-> call[c].stale, level |-> l,
               found |-> row, use |-> TokensOf(row), renewed |-> FALSE]]
       ELSE Ends(c)
    /\ UNCHANGED <<store, world, lock, desk, bounds, history>>

(* Under the lock, a connection changed meanwhile is looked at again.      *)
MutLocks(c) ==
    /\ call[c].at = "lock" /\ lock[call[c].level] = None
    /\ lock' = [lock EXCEPT ![call[c].level] = c]
    /\ Goes(c, "refresh")
    /\ UNCHANGED <<store, world, desk, bounds, history>>
Locks(c) ==
    LET l == call[c].level  again == connection[l] IN
    /\ call[c].at = "lock" /\ lock[l] = None
    /\ IF again \in {None, call[c].found}
       THEN lock' = [lock EXCEPT ![l] = c] /\ Goes(c, "refresh")
       ELSE IF ~again.ok
       THEN Ends(c) /\ UNCHANGED lock
       ELSE LET fresh == TokensOf(again) # call[c].stale /\ ~NeedsRefresh(TokensOf(again)) IN
            /\ lock' = IF fresh THEN lock ELSE [lock EXCEPT ![l] = c]
            /\ call' = [call EXCEPT ![c].found = again, ![c].use = TokensOf(again),
                                    ![c].renewed = TRUE,
                                    ![c].at = IF fresh THEN "send" ELSE "refresh"]
    /\ UNCHANGED <<store, world, desk, bounds, history>>

(* mcp_oauth.refresh: new tokens, a refusal, no answer, or an answer that  *)
(* was lost.  With no token to renew with, nobody is asked (_refresh).     *)
Renewed(t) == provider' = [provider EXCEPT ![t.k].gen = @ + 1]
Refreshes(c) ==
    LET t == call[c].use IN
    /\ call[c].at = "refresh"
    /\ \/ /\ Renewable(t) /\ t.gen <= MaxAgeings /\ Renewed(t)
          /\ call' = [call EXCEPT ![c].at = "keep", ![c].use = [t EXCEPT !.gen = @ + 1]]
          /\ UNCHANGED <<bounds, spoilt>>
       \/ ~Renewable(t) /\ Goes(c, "break") /\ UNCHANGED <<provider, bounds, spoilt>>
       \/ Trouble /\ provider[t.k].renews /\ Goes(c, "lost") /\ UNCHANGED <<provider, spoilt>>
       \/ /\ Trouble /\ Renewable(t) /\ t.gen <= MaxAgeings /\ Renewed(t)
          /\ Goes(c, "lost") /\ spoilt' = spoilt \cup {t.k}
    /\ UNCHANGED <<store, code, lock, desk, overtaken>>

Releases(c) == lock' = [lock EXCEPT ![call[c].level] = None]

(* refresh_mcp_connection: unless somebody changed it since.               *)
Keeps(c) ==
    LET l == call[c].level IN
    /\ call[c].at = "keep"
    /\ connection' = IF connection[l] = call[c].found
                     THEN [connection EXCEPT ![l].gen = call[c].use.gen] ELSE connection
    /\ Goes(c, "send") /\ Releases(c)
    /\ UNCHANGED <<entry, flow, world, desk, bounds, history>>

(* break_mcp_connection: whatever is there now.                            *)
Breaks(c) ==
    LET l == call[c].level  row == connection[l] IN
    /\ call[c].at = "break"
    /\ IF row = None THEN UNCHANGED <<connection, overtaken>>
       ELSE /\ connection' = [connection EXCEPT ![l].ok = FALSE]
            /\ overtaken' = IF row.k = call[c].use.k THEN overtaken ELSE overtaken \cup {row.k}
    /\ Ends(c) /\ Releases(c)
    /\ UNCHANGED <<entry, flow, world, desk, bounds, spoilt>>

Unreached(c) ==
    /\ call[c].at = "lost"
    /\ Ends(c) /\ Releases(c)
    /\ UNCHANGED <<store, world, desk, bounds, history>>

(* forward: a token that is not taken is renewed once.                     *)
Sends(c) ==
    /\ call[c].at = "send"
    /\ IF Taken(call[c].use) \/ call[c].stale # None
       THEN Ends(c)
       ELSE call' = [call EXCEPT ![c] =
              [at |-> "resolve", address |-> call[c].address, stale |-> call[c].use]]
    /\ UNCHANGED <<store, world, lock, desk, bounds, history>>

(* The gateway's process is killed, with the answers it was waiting for.   *)
Crash ==
    /\ Trouble
    /\ call' = [c \in Calls |-> IF call[c] = Idle THEN Idle ELSE Done]
    /\ lock' = [l \in Levels |-> None]
    /\ spoilt' = spoilt \cup {call[c].use.k : c \in {x \in Calls : call[x].at = "keep"}}
    /\ UNCHANGED <<store, world, desk, overtaken>>

-----------------------------------------------------------------------------
Next ==
    \/ \E p \in People, l \in Levels : StartSignIn(p, l)
    \/ \E p \in People, k \in SignIns : Consent(p, k)
    \/ \E d \in Desks, p \in People, k \in SignIns : TakesFlow(d, p, k)
    \/ \E d \in Desks : Trades(d) \/ Connects(d) \/ Deletes(d) \/ Revokes(d)
    \/ \E d \in Desks, l \in Levels : Disconnect(d, l)
    \/ \E a \in Addresses : EntryMoves(a)
    \/ \E k \in SignIns : Expires(k) \/ Drops(k) \/ EndedThere(k)
    \/ \E c \in Calls :
         \/ Looks(c) \/ Resolves(c) \/ Locks(c) \/ Refreshes(c)
         \/ Keeps(c) \/ Breaks(c) \/ Unreached(c) \/ Sends(c)
    \/ Crash

Spec == Init /\ [][Next]_vars

-----------------------------------------------------------------------------
(* Properties. *)

(* A connection holds the tokens of the person who asked for it: nobody    *)
(* else's account ends up in an org's reach by following a link            *)
(* (claim_mcp_oauth).                                                      *)
ConnectedByItsStarter ==
    \A l \in Levels : connection[l] # None =>
        LET k == connection[l].k IN code[k] = flow[k].by /\ flow[k].level = l

(* A sign-in the provider still honours is not marked broken by calls that *)
(* renew it at once: none spends a refresh token another one has spent     *)
(* (resolve, under the lock).  But for an answer that was lost, for a      *)
(* refusal that arrives after the connection was made again, and for one   *)
(* that came with nothing to renew it with.                                *)
WorkingSignInStays ==
    \A l \in Levels : connection[l] # None =>
        LET k == connection[l].k IN
        connection[l].ok \/ ~provider[k].live \/ ~provider[k].renews \/ k \in spoilt \cup overtaken

(* A token is sent to the address it was given for, however the entry      *)
(* moves during the call (connection_usable).  But for a call that waited  *)
(* for the lock, and does not look at the address of what it finds then.   *)
SentWhereItIsFor ==
    \A c \in Calls : call[c].at = "send" /\ ~call[c].renewed =>
        flow[call[c].use.k].address = call[c].address

=============================================================================
