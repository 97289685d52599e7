---------------------------- MODULE DoorAccess ----------------------------
(***************************************************************************)
(* Who may open an agent (flotta/auth.py, the token and ticket routes of   *)
(* flotta/control/app.py and flotta/door/app.py).                          *)
(*                                                                         *)
(* The control plane signs credentials and knows the rows; the door        *)
(* checks them with its own copy of the key, asks whose box a hostname is, *)
(* wakes it and logs in to what listens at its endpoint.  Between any two  *)
(* of the door's requests people change roles, agents are destroyed and    *)
(* their address and their port taken by others, and time passes.  What a  *)
(* conversation may say is Conversations', how long it holds a box awake   *)
(* is Door's.  The two keep the same key.                                  *)
(*                                                                         *)
(* A claim is signed with what it is, so a ticket never reads as a token   *)
(* nor a token as a ticket; the signatures themselves are left out.        *)
(***************************************************************************)
EXTENDS Naturals, FiniteSets

CONSTANTS
    People,
    Roles,          \* roles people are given
    Addresses,      \* hostnames of agents
    Clients,
    ClientOf,       \* the client an address names (flotta/address.py)
    Ports,          \* where a box on the door's own machine may listen
    MaxBoxes,       \* bound: rows ever created
    MaxCredentials, \* bound: credentials out at once
    TicketTtl, TokenTtl,   \* ticks a credential lasts
    Sockets,        \* bound: requests and sockets of the door at once
    None

ASSUME TenancyAssumption == ClientOf \in [Addresses -> Clients]
ASSUME RolesAssumption == Roles \subseteq {"member", "client_viewer", "client_user"}
ASSUME TtlAssumption == TicketTtl \in Nat \ {0} /\ TokenTtl \in Nat \ {0}
ASSUME NoneAssumption == None \notin Addresses \cup Ports \cup Clients

Boxes == 1..MaxBoxes
Credentials == 1..MaxCredentials
Ages == 0..TicketTtl

(* ROLES and scopes_for_role, as far as the door tells them apart.         *)
Scopes(role) ==
    CASE role = "member" -> {"read", "write", "chat"}
      [] role = "client_user" -> {"read", "chat"}
      [] role = "client_viewer" -> {"read"}

VARIABLES
    member,    \* each person's role, and the client it is confined to
    row,       \* boxes: address while it is held, status, endpoint
    answers,   \* the boxes whose approvals their clients may answer
    up,        \* ports: which box's Hermes listens, if any
    cred,      \* the credentials people hold
    sock,      \* the door's requests
    since      \* history: ticks since what each ticket says was so

vars == <<member, row, answers, up, cred, sock, since>>

NoRow == [at |-> None, status |-> "none", port |-> None]
NoCred == [kind |-> "none"]
Closed == [at |-> "closed"]
Fresh == [chat |-> 0, write |-> 0, answers |-> 0]
Credential == {NoCred} \cup
    [kind : {"ticket", "token", "run"}, who : People \cup {None}, left : Nat,
     scopes : SUBSET {"read", "write", "chat"}, client : Clients \cup {None},
     box : Boxes \cup {None}, full : BOOLEAN, answers : BOOLEAN]

TypeOK ==
    /\ member \in [People -> [role : Roles \cup {None}, client : Clients \cup {None}]]
    /\ row \in [Boxes -> [at : Addresses \cup {None}, port : Ports \cup {None},
                          status : {"none", "running", "stopped", "paused", "torn_down"}]]
    /\ answers \subseteq Boxes /\ up \in [Ports -> Boxes \cup {None}]
    /\ cred \in [Credentials -> Credential]
    /\ \A s \in Sockets : sock[s].at \in
         {"closed", "resolve", "wake", "ready", "login", "connect", "open"}
    /\ since \in [Credentials -> [chat : Ages, write : Ages, answers : Ages]]

Init ==
    /\ member = [p \in People |-> [role |-> None, client |-> None]]
    /\ row = [b \in Boxes |-> NoRow] /\ answers = {} /\ up = [n \in Ports |-> None]
    /\ cred = [c \in Credentials |-> NoCred] /\ sock = [s \in Sockets |-> Closed]
    /\ since = [c \in Credentials |-> Fresh]

boxes == <<row, answers, up>>

-----------------------------------------------------------------------------
(* What holds, and when it last did. *)

(* admits_tenant, for the org the instance has: a confined credential      *)
(* reaches its own client's boxes.                                         *)
AdmitsTenant(client, a) == client = None \/ client = ClientOf[a]

Can(p, b, scope) ==
    /\ row[b].at # None /\ row[b].status # "torn_down"
    /\ member[p].role # None /\ scope \in Scopes(member[p].role)
    /\ AdmitsTenant(member[p].client, row[b].at)

Later(holds, was, ticks) ==
    IF holds THEN ticks ELSE IF was + ticks > TicketTtl THEN TicketTtl ELSE was + ticks
After(ticks) ==
    since' = [c \in Credentials |-> LET t == cred[c]  was == since[c] IN
        IF t.kind # "ticket" THEN Fresh
        ELSE [chat |-> Later(Can(t.who, t.box, "chat"), was.chat, ticks),
              write |-> IF t.full THEN Later(Can(t.who, t.box, "write"), was.write, ticks) ELSE 0,
              answers |-> IF t.answers THEN Later(t.box \in answers, was.answers, ticks) ELSE 0]]
Noted == After(0)

-----------------------------------------------------------------------------
(* The agency, its agents and time. *)

SetsMember(p, role, client) ==
    /\ role = "member" \/ client # None
    /\ member' = [member EXCEPT ![p] = [role |-> role, client |-> client]]
    /\ Noted /\ UNCHANGED <<boxes, cred, sock>>
Removes(p) ==
    /\ member[p].role # None
    /\ member' = [member EXCEPT ![p] = [role |-> None, client |-> None]]
    /\ Noted /\ UNCHANGED <<boxes, cred, sock>>

(* create_box: an address and a port are one live row's.                   *)
Creates(b, a, n) ==
    /\ row[b].status = "none" /\ \A o \in 1..b-1 : row[o].status # "none"
    /\ \A o \in Boxes : row[o].at # a
    /\ up[n] = None
    /\ row' = [row EXCEPT ![b] = [at |-> a, status |-> "running", port |-> n]]
    /\ up' = [up EXCEPT ![n] = b]
    /\ Noted /\ UNCHANGED <<member, answers, cred, sock>>
Sleeps(b) ==
    /\ row[b].status = "running"
    /\ row' = [row EXCEPT ![b].status = "stopped"]
    /\ up' = [up EXCEPT ![row[b].port] = None]
    /\ Noted /\ UNCHANGED <<member, answers, cred, sock>>
Pauses(b) ==
    /\ row[b].status = "stopped" /\ row' = [row EXCEPT ![b].status = "paused"]
    /\ Noted /\ UNCHANGED <<member, answers, up, cred, sock>>
TearsDown(b) ==
    /\ row[b].status \notin {"none", "torn_down"}
    /\ row' = [row EXCEPT ![b].status = "torn_down", ![b].at = None]
    /\ up' = [n \in Ports |-> IF up[n] = b THEN None ELSE up[n]]
    /\ Noted /\ UNCHANGED <<member, answers, cred, sock>>
SetsApprovals(b) ==
    /\ row[b].at # None
    /\ answers' = IF b \in answers THEN answers \ {b} ELSE answers \cup {b}
    /\ Noted /\ UNCHANGED <<member, row, up, cred, sock>>

(* Time passes under the door's requests too: a box may be longer waking   *)
(* than a ticket lasts.                                                    *)
Tick ==
    /\ cred' = [c \in Credentials |-> IF cred[c].kind = "none" THEN NoCred
                                      ELSE [cred[c] EXCEPT !.left = IF @ = 0 THEN 0 ELSE @ - 1]]
    /\ After(1) /\ UNCHANGED <<member, boxes, sock>>

-----------------------------------------------------------------------------
(* What the control plane signs. *)

Free(c) == cred[c].kind = "none"
Holds(c, claims, as) ==
    /\ cred' = [cred EXCEPT ![c] = claims] /\ since' = [since EXCEPT ![c] = as]
    /\ UNCHANGED <<member, boxes, sock>>

(* chat_ticket and mint_ticket, for a session read as its membership now.  *)
Ticket(c, p, b) ==
    /\ Free(c) /\ Can(p, b, "chat")
    /\ Holds(c, [kind |-> "ticket", who |-> p, left |-> TicketTtl,
                 scopes |-> {"chat"}, client |-> ClientOf[row[b].at], box |-> b,
                 full |-> Can(p, b, "write"), answers |-> b \in answers],
             [chat |-> Later(Can(p, b, "chat"), TicketTtl, 0), write |-> 0, answers |-> 0])

(* mint_org_token: by role, and good until it expires.                     *)
MintOrgToken(c, role, client) ==
    /\ Free(c)
    /\ role = "member" \/ client # None
    /\ Holds(c, [kind |-> "token", who |-> None, left |-> TokenTtl,
                 scopes |-> Scopes(role), client |-> client, box |-> None, full |-> TRUE, answers |-> TRUE], Fresh)

(* run_token: a delivery's, for its own agent.                             *)
RunToken(c, b) ==
    /\ Free(c) /\ row[b].at # None
    /\ Holds(c, [kind |-> "run", who |-> None, left |-> TicketTtl,
                 scopes |-> {"chat"}, client |-> ClientOf[row[b].at], box |-> b, full |-> TRUE, answers |-> TRUE], Fresh)
Dropped(c) ==
    /\ ~Free(c) /\ cred' = [cred EXCEPT ![c] = NoCred]
    /\ \A s \in Sockets : sock[s].at = "closed"
    /\ Noted /\ UNCHANGED <<member, boxes, sock>>

-----------------------------------------------------------------------------
(* The door. *)

(* verify and verify_ticket: nothing but its age ends a credential.        *)
MutVerifies(c) == cred[c].kind # "none"
Verifies(c) == cred[c].left > 0

(* is_client_person, on a token: a client's people come with a ticket.     *)
IsClientPerson(c) ==
    cred[c].kind # "ticket" /\ {"chat", "read"} \subseteq cred[c].scopes /\ "write" \notin cred[c].scopes

(* authorize, admit_ticket, and the tenant the hostname itself names.      *)
Arrives(s, c, a) ==
    /\ sock[s].at = "closed" /\ ~Free(c)
    /\ Verifies(c) /\ "chat" \in cred[c].scopes /\ ~IsClientPerson(c)
    /\ AdmitsTenant(cred[c].client, a)
    /\ sock' = [sock EXCEPT ![s] = [at |-> "resolve", cred |-> c, name |-> a, box |-> None, port |-> None]]
    /\ Noted /\ UNCHANGED <<member, boxes, cred>>

(* admits: a credential for one box addresses no other.                    *)
Admits(c, b) ==
    /\ cred[c].box \in {None, b}
    /\ row[b].at # None /\ AdmitsTenant(cred[c].client, row[b].at)

Goes(s, at) == sock' = [sock EXCEPT ![s].at = at]
Refused(s) == sock' = [sock EXCEPT ![s] = Closed]

(* box_address: which box has this name, without waking it.                *)
Resolve(s) ==
    /\ sock[s].at = "resolve"
    /\ \/ \E b \in Boxes :
            /\ row[b].at = sock[s].name
            /\ IF Admits(sock[s].cred, b)
               THEN sock' = [sock EXCEPT ![s].at = "wake", ![s].box = b] ELSE Refused(s)
       \/ (\A b \in Boxes : row[b].at # sock[s].name) /\ Refused(s)
    /\ Noted /\ UNCHANGED <<member, boxes, cred>>

(* Which box the wake is for: the one that was checked, by its id.         *)
MutWoken(s) == {b \in Boxes : row[b].at = sock[s].name}
Woken(s) == {sock[s].box}

(* wake_box_endpoint: it is started where it listens, unless it was        *)
(* destroyed or its budget paused it.  Where it says it is goes on.        *)
Wake(s) ==
    /\ sock[s].at = "wake"
    /\ \/ \E b \in Woken(s), n \in Ports :
            /\ row[b].status \in {"running", "stopped"}
            /\ IF row[b].status = "running" THEN n = row[b].port ELSE up[n] = None
            /\ row' = [row EXCEPT ![b].status = "running", ![b].port = n]
            /\ up' = IF row[b].status = "running" THEN up ELSE [up EXCEPT ![n] = b]
            /\ sock' = [sock EXCEPT ![s].at = "ready", ![s].port = n]
       \/ /\ \A b \in Woken(s) : row[b].status \notin {"running", "stopped"}
          /\ Refused(s) /\ UNCHANGED <<row, up>>
    /\ Noted /\ UNCHANGED <<member, answers, cred>>

(* wait_until_ready: something answers there.                              *)
Ready(s) ==
    /\ sock[s].at = "ready"
    /\ IF up[sock[s].port] # None THEN Goes(s, "login") ELSE Refused(s)
    /\ Noted /\ UNCHANGED <<member, boxes, cred>>

(* box_password: what listens there opens to its own box's password only.  *)
Opens(s) == up[sock[s].port] = sock[s].box

(* hermes_ticket, or the caller's own login rewritten on its way through.  *)
Login(s) ==
    /\ sock[s].at = "login"
    /\ IF Opens(s) THEN Goes(s, "connect") ELSE Refused(s)
    /\ Noted /\ UNCHANGED <<member, boxes, cred>>

(* The socket: Hermes takes the ticket it gave out itself.                 *)
Connect(s) ==
    /\ sock[s].at = "connect"
    /\ IF Opens(s) THEN Goes(s, "open") ELSE Refused(s)
    /\ Noted /\ UNCHANGED <<member, boxes, cred>>
HangsUp(s) ==
    /\ sock[s].at # "closed" /\ Refused(s)
    /\ Noted /\ UNCHANGED <<member, boxes, cred>>

Next ==
    \/ \E p \in People, r \in Roles, c \in Clients \cup {None} : SetsMember(p, r, c)
    \/ \E p \in People : Removes(p)
    \/ \E b \in Boxes, a \in Addresses, n \in Ports : Creates(b, a, n)
    \/ \E b \in Boxes : Sleeps(b) \/ Pauses(b) \/ TearsDown(b) \/ SetsApprovals(b)
    \/ Tick
    \/ \E c \in Credentials, p \in People, b \in Boxes : Ticket(c, p, b)
    \/ \E c \in Credentials, r \in Roles, l \in Clients \cup {None} : MintOrgToken(c, r, l)
    \/ \E c \in Credentials, b \in Boxes : RunToken(c, b)
    \/ \E c \in Credentials : Dropped(c)
    \/ \E s \in Sockets, c \in Credentials, a \in Addresses : Arrives(s, c, a)
    \/ \E s \in Sockets : Resolve(s) \/ Wake(s) \/ Ready(s) \/ Login(s) \/ Connect(s) \/ HangsUp(s)

Spec == Init /\ [][Next]_vars

-----------------------------------------------------------------------------
(* Properties *)

(* The door starts no machine but of an agent its caller may talk to: one  *)
(* that came back under a name starts nothing of the next agent's.         *)
WakesItsOwn ==
    [][\A s \in Sockets, b \in Boxes :
         sock[s].at = "wake" /\ sock'[s] # sock[s] /\ row[b].status = "stopped"
         /\ row'[b].status = "running" => Admits(sock[s].cred, b)]_vars

(* Whoever comes with a ticket could, no longer ago than a ticket lasts,   *)
(* do what the ticket says: chat with this agent, change it, and answer    *)
(* for it.  Nothing but its age ends a ticket (chat_ticket, verify_ticket).*)
TicketsSayNothingOld ==
    [][\A s \in Sockets : sock[s].at = "closed" /\ sock'[s].at = "resolve" =>
         LET t == cred[sock'[s].cred] IN
         t.kind = "ticket" =>
            LET was == since[sock'[s].cred] IN
            /\ was.chat < TicketTtl
            /\ t.full => was.write < TicketTtl
            /\ t.answers => was.answers < TicketTtl]_vars
=============================================================================
