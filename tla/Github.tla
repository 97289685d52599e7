------------------------------- MODULE Github -------------------------------
(***************************************************************************)
(* An agency's own GitHub (flotta/github_app.py, its routes in             *)
(* flotta/control/app.py, its rows in flotta/store.py): connecting an      *)
(* installation of the App, disconnecting it, granting an agent its        *)
(* repository, minting the credential git asks for, and whose name the     *)
(* agent's commits carry (flotta/provision.py).                            *)
(*                                                                         *)
(* One agent, of one client of one org, among other scopes; one repository *)
(* on each GitHub account.  Every statement of the store and every call to *)
(* GitHub or to the machine is a step.  People administer every org; a     *)
(* browser that comes back from GitHub carries its own person's session.   *)
(* How long a state or a token is good, and what a page lists, are left    *)
(* out: a link that has expired is one that is not followed.               *)
(***************************************************************************)
EXTENDS Naturals, FiniteSetsExt

CONSTANTS
    Orgs, Operator,    \* the orgs, and the operator's own
    Clients,           \* the clients each org has
    People, Staff,     \* who connects; those of them who are the operator's
    FleetOwner,        \* whom GitHub says the fleet token belongs to
    Accounts,          \* GitHub accounts
    MaxInstalls,       \* bound: installations GitHub makes
    MaxLinks,          \* bound: links started
    MaxClaims,         \* bound: claims that GitHub vouched for
    Desks, Threads,    \* requests and refreshes under way at once
    MaxTroubles,       \* bound: calls that fail or are not answered, kills
    None

Installs == 1..MaxInstalls
Scopes == [org : Orgs, client : Clients \cup {None}]
Links == [scope : Scopes, by : People, inst : Installs \cup {None}]
Authors == People \cup {FleetOwner, None}

VARIABLES
    owner,      \* who owns each GitHub account
    installed,  \* the App on GitHub: each installation's account, if it was made
    live,       \* the installations GitHub still honours
    links,      \* the states signed so far
    rows,       \* github_installations
    grants,     \* box_repos of the agent, by account: its source
    home,       \* the agent's org and client
    box,        \* "naming" while it is created, "settled"
    author,     \* FLOTTA_GIT_AUTHOR_* on the machine
    desk, thread, mint,
    started, claims, troubles,
    decided,    \* history: the refresh that decided last, until it has written
    excused,    \* history: a change no refresh will see, or one that failed, died
                \* or was written over by one that had decided before it
    asked,      \* history: who started the link each row was claimed by
    late,       \* history: a claim stored an installation gone since it was proved
    authorised  \* history: repositories the operator granted on the fleet token

github == <<owner, installed, live>>
store == <<rows, grants>>
machine == <<box, author>>
bounds == <<started, claims, troubles>>
history == <<decided, excused, asked, late, authorised>>
vars == <<github, links, store, home, machine, desk, thread, mint, bounds, history>>

Idle == [at |-> "idle"]
Row == [org : Orgs, client : Clients \cup {None}, person : People \cup {None}, at : Nat]

ConstantsAssumption ==
    /\ None \notin People \cup Accounts \cup Clients \cup Row \cup Installs
    /\ None \notin {"fleet_token", "github_app"}
    /\ FleetOwner \notin People \cup {None} /\ None \notin Threads
    /\ {MaxInstalls, MaxLinks, MaxClaims, MaxTroubles} \subseteq Nat /\ MaxInstalls > 0

TypeOK ==
    /\ owner \in [Accounts -> People]
    /\ installed \in [Installs -> Accounts \cup {None}] /\ live \subseteq Installs
    /\ links \subseteq Links
    /\ rows \in [Installs -> Row \cup {None}]
    /\ grants \in [Accounts -> {None, "fleet_token", "github_app"}]
    /\ home \in [org : Orgs, client : Clients]
    /\ box \in {"naming", "settled"} /\ author \in Authors
    /\ desk \in [Desks -> {Idle}
         \cup [at : {"claim"}, link : Links, person : People]
         \cup [at : {"uninstall", "forget"}, inst : Installs, scope : Scopes]
         \cup [at : {"check", "grant"}, repo : Accounts, inst : Installs \cup {None}]]
    /\ thread \in [Threads -> {Idle}
         \cup [at : {"read"}, scope : Scopes] \cup [at : {"apply"}, wanted : Authors]]
    /\ mint \in {Idle} \cup [at : {"choose", "spend", "fleet"}, repo : Accounts]
         \cup [at : {"token", "app"}, repo : Accounts, inst : Installs]
    /\ started \in 0..MaxLinks /\ claims \in 0..MaxClaims /\ troubles \in 0..MaxTroubles
    /\ decided \in Threads \cup {None} /\ excused \in BOOLEAN /\ late \in BOOLEAN
    /\ asked \in [Installs -> People \cup {None}] /\ authorised \subseteq Accounts

-----------------------------------------------------------------------------
(* What the store answers. *)

(* github_installations_for: the client's own and the org's, no other's.   *)
Reach(h) == {i \in Installs : rows[i] # None /\ rows[i].org = h.org
                                /\ rows[i].client \in {h.client, None}}
Own(h) == {i \in Reach(h) : rows[i].client = h.client}

(* github_installation_for: the first of them on the owner's account.      *)
First(S) == CHOOSE i \in S : \A j \in S : rows[i].at <= rows[j].at
OnAccount(a) == {i \in Reach(home) : installed[i] = a}
InstallationFor(a) ==
    IF OnAccount(a) = {} THEN None
    ELSE IF OnAccount(a) \cap Own(home) # {} THEN First(OnAccount(a) \cap Own(home))
    ELSE First(OnAccount(a))

(* Whom GitHub says the operator's own token belongs to.                   *)
TokenOwner == IF home.org = Operator THEN FleetOwner ELSE None

(* commit_author_for: whoever proved the nearest scope's account first;    *)
(* with nothing connected, the fleet token's owner, for the operator.      *)
Named(S) == {i \in S : rows[i].person # None}
AuthorFor ==
    LET nearest == IF Own(home) # {} THEN Own(home) ELSE Reach(home) IN
    IF Reach(home) = {} THEN TokenOwner
    ELSE IF Named(nearest) = {} THEN None
    ELSE rows[First(Named(nearest))].person

(* may_spend_fleet_token: a grant the operator made for it.                *)
MaySpend(a) == home.org = Operator /\ grants[a] = "fleet_token"

Init ==
    /\ owner \in [Accounts -> People]
    /\ home \in [org : Orgs, client : Clients]
    (* Perhaps an account connected before a connection named anybody.     *)
    /\ \E a \in Accounts, old \in {None} \cup [org : {home.org}, client : {home.client},
                                                person : {None}, at : {0}] :
         /\ rows = [i \in Installs |-> IF i = 1 THEN old ELSE None]
         /\ installed = [i \in Installs |-> IF i = 1 /\ old # None THEN a ELSE None]
         /\ live = IF old # None THEN {1} ELSE {}
    /\ links = {} /\ grants = [a \in Accounts |-> None]
    /\ box = "naming" /\ author = AuthorFor
    /\ desk = [d \in Desks |-> Idle] /\ thread = [t \in Threads |-> Idle] /\ mint = Idle
    /\ started = 0 /\ claims = 0 /\ troubles = 0
    /\ decided = None /\ excused = FALSE /\ late = FALSE /\ asked = [i \in Installs |-> None] /\ authorised = {}

Trouble == troubles < MaxTroubles /\ troubles' = troubles + 1 /\ UNCHANGED <<started, claims>>

-----------------------------------------------------------------------------
(* GitHub. *)

(* The App is installed on an account, which has one installation of it.   *)
Installing(a) ==
    /\ \A i \in live : installed[i] # a
    /\ \E i \in Installs :
         /\ installed[i] = None /\ \A j \in Installs : installed[j] = None => i <= j
         /\ installed' = [installed EXCEPT ![i] = a] /\ live' = live \cup {i}
    /\ UNCHANGED <<owner, links, store, home, machine, desk, thread, mint, bounds, history>>

(* Its owner removes or suspends it there.                                 *)
RemovedThere(i) ==
    /\ Trouble /\ i \in live /\ live' = live \ {i}
    /\ UNCHANGED <<owner, installed, links, store, home, machine, desk, thread, mint, history>>

-----------------------------------------------------------------------------
(* Connecting. *)

Starts(link) ==
    /\ started < MaxLinks /\ started' = started + 1
    /\ links' = links \cup {link}
    /\ UNCHANGED <<github, store, home, machine, desk, thread, mint, claims, troubles, history>>

(* connect_github, reconnect_github: where to send this person.            *)
Connect(p, scope) == Starts([scope |-> scope, by |-> p, inst |-> None])
Reconnect(p, i) ==
    /\ rows[i] # None
    /\ Starts([scope |-> [org |-> rows[i].org, client |-> rows[i].client], by |-> p, inst |-> i])

(* _started_by_caller: the person who started it, and nobody else.         *)
StartedBy(p, link) == link.by = p

(* authorize_github: the installation is whatever the browser came with.   *)
Authorize(p, link, i) ==
    /\ link \in links /\ StartedBy(p, link) /\ link.inst = None
    /\ installed[i] # None
    /\ links' = links \cup {[link EXCEPT !.inst = i]}
    /\ UNCHANGED <<github, store, home, machine, desk, thread, mint, bounds, history>>

(* claim_github asks GitHub who this person is: proven_account.            *)
ProvenAccount(p, i) == i \in live /\ owner[installed[i]] = p

Claim(d, p, link) ==
    /\ desk[d] = Idle
    /\ link \in links /\ StartedBy(p, link) /\ link.inst # None
    /\ ProvenAccount(p, link.inst)
    /\ claims < MaxClaims /\ claims' = claims + 1
    /\ desk' = [desk EXCEPT ![d] = [at |-> "claim", link |-> link, person |-> p]]
    /\ UNCHANGED <<github, links, store, home, machine, thread, mint, started, troubles, history>>

(* A change of a connection, and the refresh of authors it starts: of the  *)
(* boxes of the scope that changed.  It passes over an agent that is being *)
(* created, and one of another client that it took a connection from.      *)
PassesOver(gone, scope) ==
    \/ box = "naming"
    \/ scope.client \notin {None, home.client} /\ gone \cap Reach(home) # {}
Changes(gone, scope) == excused' = (excused \/ PassesOver(gone, scope)) /\ UNCHANGED decided
MutRefreshes(scope) ==
    IF \E t \in Threads : thread[t].at = "apply" THEN UNCHANGED thread
    ELSE \E t \in Threads : thread[t] = Idle
             /\ thread' = [thread EXCEPT ![t] = [at |-> "read", scope |-> scope]]
Refreshes(scope) ==
    \E t \in Threads : thread[t] = Idle
        /\ thread' = [thread EXCEPT ![t] = [at |-> "read", scope |-> scope]]

Latest == Max({0} \cup {rows[j].at : j \in {x \in Installs : rows[x] # None}})

(* store.connect_github: refused when another scope holds it; the latest   *)
(* proof wins, and the account's other rows in this org go.                *)
Claims(d) ==
    LET link == desk[d].link  i == link.inst  s == link.scope
        held == rows[i]
        replaced == {j \in Installs \ {i} : rows[j] # None /\ rows[j].org = s.org
                                              /\ installed[j] = installed[i]}
        row == [org |-> s.org, client |-> s.client, person |-> desk[d].person,
                at |-> IF held = None THEN Latest + 1 ELSE held.at] IN
    /\ desk[d].at = "claim"
    /\ desk' = [desk EXCEPT ![d] = Idle]
    /\ IF held # None /\ [org |-> held.org, client |-> held.client] # s
       THEN UNCHANGED <<rows, thread, decided, excused, late, asked>>
       ELSE /\ rows' = [j \in Installs |->
                 IF j = i THEN row ELSE IF j \in replaced THEN None ELSE rows[j]]
            /\ late' = (late \/ i \notin live) /\ asked' = [asked EXCEPT ![i] = link.by]
            /\ Changes(replaced, s) /\ Refreshes(s)
    /\ UNCHANGED <<github, links, grants, home, machine, mint, bounds, authorised>>

(* disconnect_github: GitHub first; if that fails the row stays.           *)
Disconnect(d, i) ==
    /\ desk[d] = Idle /\ rows[i] # None
    /\ desk' = [desk EXCEPT ![d] = [at |-> "uninstall", inst |-> i,
                                   scope |-> [org |-> rows[i].org, client |-> rows[i].client]]]
    /\ UNCHANGED <<github, links, store, home, machine, thread, mint, bounds, history>>

MutUninstalls(d) ==
    /\ desk[d].at = "uninstall"
    /\ \/ desk' = [desk EXCEPT ![d].at = "forget"] /\ UNCHANGED bounds
       \/ Trouble /\ desk' = [desk EXCEPT ![d].at = "forget"]
    /\ UNCHANGED <<github, links, store, home, machine, thread, mint, history>>
Uninstalls(d) ==
    /\ desk[d].at = "uninstall"
    /\ \/ /\ live' = live \ {desk[d].inst}
          /\ desk' = [desk EXCEPT ![d].at = "forget"] /\ UNCHANGED bounds
       \/ Trouble /\ desk' = [desk EXCEPT ![d] = Idle] /\ UNCHANGED live
    /\ UNCHANGED <<owner, installed, links, store, home, machine, thread, mint, history>>

(* store.disconnect_github, of that org's row if it is still there.        *)
Forgets(d) ==
    LET i == desk[d].inst  s == desk[d].scope IN
    /\ desk[d].at = "forget"
    /\ rows' = IF rows[i] # None /\ rows[i].org = s.org THEN [rows EXCEPT ![i] = None] ELSE rows
    /\ desk' = [desk EXCEPT ![d] = Idle]
    /\ Changes({i} \ {j \in Installs : rows'[j] # None}, s) /\ Refreshes(s)
    /\ UNCHANGED <<github, links, grants, home, machine, mint, bounds, asked, late, authorised>>

-----------------------------------------------------------------------------
(* Whose name is on the commits. *)

(* create_box decided the author when it began; the machine is up.         *)
Created ==
    /\ box = "naming" /\ box' = "settled"
    /\ UNCHANGED <<github, links, store, home, author, desk, thread, mint, bounds, history>>

Steps(t, at) == thread' = [thread EXCEPT ![t] = at]

(* refresh_authors_in: the scope's boxes that are not being created.       *)
Lists(s) == box = "settled" /\ s.org = home.org /\ s.client \in {None, home.client}

(* Or somebody asks for it: refresh_author_endpoint.                       *)
AsksRefresh(t) ==
    /\ thread[t] = Idle /\ box = "settled"
    /\ Steps(t, [at |-> "read", scope |-> home])
    /\ UNCHANGED <<github, links, store, home, machine, desk, mint, bounds, history>>

(* refresh_author decides; GitHub may not say whose the fleet token is.    *)
Reads(t) ==
    /\ thread[t].at = "read"
    /\ IF ~Lists(thread[t].scope) THEN Steps(t, Idle) /\ UNCHANGED <<bounds, decided, excused>>
       ELSE /\ decided' = t
            /\ \/ /\ Steps(t, [at |-> "apply", wanted |-> AuthorFor])
                  /\ excused' = FALSE /\ UNCHANGED bounds
               \/ /\ Trouble /\ Reach(home) = {} /\ home.org = Operator
                  /\ Steps(t, [at |-> "apply", wanted |-> None]) /\ excused' = TRUE
    /\ UNCHANGED <<github, links, store, home, machine, desk, mint, asked, late, authorised>>

(* It writes the machine's environment, if that says anything else; the    *)
(* refresh that decided after it may have written already.                 *)
Overrules(t) == decided = None /\ author # thread[t].wanted
Applies(t) ==
    /\ thread[t].at = "apply"
    /\ \/ /\ author' = thread[t].wanted
          /\ excused' = (excused \/ Overrules(t)) /\ UNCHANGED bounds
       \/ /\ Trouble /\ author # thread[t].wanted
          /\ excused' = (excused \/ decided = t) /\ UNCHANGED author
    /\ decided' = IF decided = t THEN None ELSE decided
    /\ Steps(t, Idle)
    /\ UNCHANGED <<github, links, store, home, box, desk, mint, asked, late, authorised>>

-----------------------------------------------------------------------------
(* Repositories. *)

(* grant_repo_endpoint finds whose GitHub the repository is on.            *)
Grant(d, p, a) ==
    LET i == InstallationFor(a) IN
    /\ desk[d] = Idle
    /\ i = None => home.org = Operator /\ p \in Staff
    /\ desk' = [desk EXCEPT ![d] = [at |-> "check", repo |-> a, inst |-> i]]
    /\ UNCHANGED <<github, links, store, home, machine, thread, mint, bounds, history>>

(* Refused on a definite no, allowed when GitHub cannot say.               *)
Covers(i) == i \in live
Checks(d) ==
    LET i == desk[d].inst IN
    /\ desk[d].at = "check"
    /\ \/ /\ i = None \/ Covers(i)
          /\ desk' = [desk EXCEPT ![d].at = "grant"] /\ UNCHANGED bounds
       \/ /\ i = None \/ ~Covers(i)
          /\ desk' = [desk EXCEPT ![d] = Idle] /\ UNCHANGED bounds
       \/ Trouble /\ desk' = [desk EXCEPT ![d].at = "grant"]
    /\ UNCHANGED <<github, links, store, home, machine, thread, mint, history>>

(* store.grant_repo looks again; a grant for the fleet token stays one.    *)
Grants(d) ==
    LET a == desk[d].repo  fleet == desk[d].inst = None IN
    /\ desk[d].at = "grant"
    /\ IF fleet \/ InstallationFor(a) # None
       THEN /\ grants' = [grants EXCEPT ![a] =
                 IF fleet \/ @ = "fleet_token" THEN "fleet_token" ELSE "github_app"]
            /\ authorised' = IF fleet THEN authorised \cup {a} ELSE authorised
       ELSE UNCHANGED <<grants, authorised>>
    /\ desk' = [desk EXCEPT ![d] = Idle]
    /\ UNCHANGED <<github, links, rows, home, machine, thread, mint, bounds, decided, excused, asked, late>>

Revoke(a) ==
    /\ grants[a] # None
    /\ grants' = [grants EXCEPT ![a] = None] /\ authorised' = authorised \ {a}
    /\ UNCHANGED <<github, links, rows, home, machine, desk, thread, mint, bounds, decided, excused, asked, late>>

(* git asks, through the box's helper.                                     *)
Mint(a) ==
    /\ mint.at \in {"idle", "fleet", "app"} /\ grants[a] # None
    /\ mint' = [at |-> "choose", repo |-> a]
    /\ UNCHANGED <<github, links, store, home, machine, desk, thread, bounds, history>>

Chooses ==
    LET i == InstallationFor(mint.repo) IN
    /\ mint.at = "choose"
    /\ mint' = IF i = None THEN [at |-> "spend", repo |-> mint.repo]
               ELSE [at |-> "token", repo |-> mint.repo, inst |-> i]
    /\ UNCHANGED <<github, links, store, home, machine, desk, thread, bounds, history>>

Spends ==
    /\ mint.at = "spend"
    /\ mint' = IF MaySpend(mint.repo) THEN [mint EXCEPT !.at = "fleet"] ELSE Idle
    /\ UNCHANGED <<github, links, store, home, machine, desk, thread, bounds, history>>

(* token_for: GitHub gives one for an installation it still has.           *)
TokenFor(i) == i \in live

Tokens ==
    /\ mint.at = "token"
    /\ \/ mint' = (IF TokenFor(mint.inst) THEN [mint EXCEPT !.at = "app"] ELSE Idle) /\ UNCHANGED bounds
       \/ Trouble /\ mint' = Idle
    /\ UNCHANGED <<github, links, store, home, machine, desk, thread, history>>

(* The control plane is killed, with its requests and its threads.         *)
Crash ==
    /\ Trouble
    /\ desk' = [d \in Desks |-> Idle] /\ thread' = [t \in Threads |-> Idle] /\ mint' = Idle
    /\ decided' = None /\ excused' = (excused \/ \E t \in Threads : thread[t] # Idle)
    /\ UNCHANGED <<github, links, store, home, machine, asked, late, authorised>>

-----------------------------------------------------------------------------
Next ==
    \/ \E a \in Accounts : Installing(a) \/ Revoke(a) \/ Mint(a)
    \/ \E i \in Installs : RemovedThere(i)
    \/ \E p \in People, s \in Scopes : Connect(p, s)
    \/ \E p \in People, i \in Installs : Reconnect(p, i)
    \/ \E p \in People, l \in links, i \in Installs : Authorize(p, l, i)
    \/ \E d \in Desks, p \in People, l \in links : Claim(d, p, l)
    \/ \E d \in Desks, p \in People, a \in Accounts : Grant(d, p, a)
    \/ \E d \in Desks, i \in Installs : Disconnect(d, i)
    \/ \E d \in Desks : Claims(d) \/ Uninstalls(d) \/ Forgets(d) \/ Checks(d) \/ Grants(d)
    \/ \E t \in Threads : AsksRefresh(t) \/ Reads(t) \/ Applies(t)
    \/ Created \/ Chooses \/ Spends \/ Tokens \/ Crash

Spec == Init /\ [][Next]_vars

-----------------------------------------------------------------------------
(* Properties. *)

(* An account is connected where its owner asked for it: neither a link    *)
(* somebody was sent nor a number somebody typed gives an org another's    *)
(* repositories (_started_by_caller, proven_account).                      *)
ConnectedByItsOwner ==
    \A i \in Installs : rows[i] # None /\ asked[i] # None => asked[i] = owner[installed[i]]

(* When nothing is under way the agent commits as a person who proved the  *)
(* nearest scope that is connected, never a wider one's, and as nobody     *)
(* whose connection is gone, however changes and refreshes overlap         *)
(* (_refresh_authors after every change).  But for a change no refresh     *)
(* passes on (PassesOver), a refresh that fails or dies, and one that      *)
(* writes when a later one has written, until the next refresh.            *)
NamedByItsScope ==
    \/ excused \/ box = "naming" \/ \E t \in Threads : thread[t] # Idle
    \/ author = FleetOwner /\ Reach(home) = {} /\ home.org = Operator
    \/ author = None /\ (Reach(home) # {} \/ home.org # Operator)
         /\ Named(Own(home)) = {} /\ (Own(home) # {} \/ Named(Reach(home)) = {})
    \/ \E i \in Reach(home) : rows[i].person = author
         /\ (rows[i].client = None => Own(home) = {})

(* The operator's token is handed out for what the operator granted on it: *)
(* a grant on a connected account never falls back to it                   *)
(* (may_spend_fleet_token, grant_repo).                                    *)
FleetTokenIsGranted ==
    [][mint.at = "spend" /\ mint'.at = "fleet" => mint.repo \in authorised]_vars

(* GitHub's token for an installation is not given to an agent of one      *)
(* tenant when another has come to hold it meanwhile: it is gone on GitHub *)
(* before it is forgotten here (disconnect_github).  But for a claim that  *)
(* came after what it had proved was gone.                                 *)
TokenOfItsTenant ==
    [][mint.at = "token" /\ mint'.at = "app" /\ ~late /\ rows[mint.inst] # None
         => mint.inst \in Reach(home)]_vars
=============================================================================
