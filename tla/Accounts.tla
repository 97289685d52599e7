------------------------------ MODULE Accounts ------------------------------
(***************************************************************************)
(* People: accounts, memberships of orgs, emailed links and sessions, in   *)
(* flotta/store.py, and the endpoints of flotta/control/app.py that change *)
(* them.                                                                   *)
(*                                                                         *)
(* A store call is one guarded transaction, and an endpoint is several.    *)
(* Whoever opens a link is looked at, the link is spent, the membership is *)
(* written and the session is made, each in its own step; an owner's       *)
(* request is admitted first and acts later, and an invite withdraws the   *)
(* older ones only when its mail has gone.  Others act in between.         *)
(*                                                                         *)
(* Links are numbered as they are made.  Sessions of one person in one org *)
(* are told apart only by whether they are the operator's read-only view;  *)
(* rate limits, names, clients of an org and the roles other than owner    *)
(* are left out: "member" is any role that cannot administer.              *)
(***************************************************************************)
EXTENDS Naturals, FiniteSets

CONSTANTS
    People, Orgs, Home,   \* Home: DEFAULT_ORG, whose people run the fleet
    Founders,             \* who owns each org at first; an org of nobody is not yet made
    Offered,              \* the roles invites offer
    Clicks, Desks,        \* requests that redeem a link, and administrators'
    None,
    MaxLinks,             \* bound: links made
    MaxSessions,          \* bound: sessions but for views
    MaxRequests,          \* bound: administrators' requests
    MaxTroubles           \* bound: links that expire, mails that fail, people disabled

ASSUME RolesAssumption == Offered \subseteq {"owner", "member"}
ASSUME OrgsAssumption ==
    /\ Home \in Orgs /\ None \notin Orgs \cup People
    /\ Founders \in [Orgs -> SUBSET People] /\ Founders[Home] # {}
ASSUME BoundsAssumption == 
    /\ MaxLinks \in Nat /\ MaxSessions \in Nat
    /\ MaxRequests \in Nat /\ MaxTroubles \in Nat

Links == 1..MaxLinks
Roles == {"owner", "member"}
ASSUME NoneAssumption == None \notin Roles
Idle == [at |-> "idle"]

Grants == [purpose : {"sign_in"}, to : People]
            \cup [purpose : {"sign_up"}, to : People, org : Orgs]
            \cup [purpose : {"invite"}, to : People, org : Orgs, role : Offered]

VARIABLES
    org,       \* orgs.status, or "none"
    account,   \* users: "none", "on", or "off" when disabled
    role,      \* memberships
    link,      \* login_links, or None when deleted or not yet made
    made,      \* how many were made
    sessions,  \* sessions, as [who, org, view]
    click,     \* what each redeeming request has done
    desk,      \* what each administrator's request may do, or is doing
    asked, troubles,
    barred     \* history: invites there were when their person was turned away

tables == <<org, account, role>>
mail == <<link, made>>
requests == <<click, desk>>
bounds == <<asked, troubles>>
vars == <<tables, mail, sessions, requests, bounds, barred>>

TypeOK ==
    /\ org \in [Orgs -> {"none", "pending", "active", "declined"}]
    /\ account \in [People -> {"none", "on", "off"}]
    /\ role \in [Orgs -> [People -> Roles \cup {None}]]
    /\ link \in [Links -> [grant : Grants, state : {"fresh", "expired", "used"}] \cup {None}]
    /\ made \in 0..MaxLinks
    /\ sessions \subseteq [who : People, org : Orgs, view : BOOLEAN]
    /\ click \in [Clicks -> {Idle}
         \cup [at : {"looked", "spent", "granted"}, link : Links, grant : Grants, org : Orgs]]
    /\ desk \in [Desks -> {Idle}
         \cup [at : {"admitted"}, org : Orgs, operator : BOOLEAN]
         \cup [at : {"sending"}, org : Orgs, to : People, link : Links]]
    /\ asked \in 0..MaxRequests /\ troubles \in 0..MaxTroubles
    /\ barred \subseteq Links

(* A fleet whose first people have signed in.                              *)
Init ==
    /\ org = [o \in Orgs |-> IF Founders[o] = {} THEN "none" ELSE "active"]
    /\ role = [o \in Orgs |-> [p \in People |-> IF p \in Founders[o] THEN "owner" ELSE None]]
    /\ account = [p \in People |-> IF \E o \in Orgs : p \in Founders[o] THEN "on" ELSE "none"]
    /\ link = [l \in Links |-> None]
    /\ made = 0
    /\ sessions = {[who |-> x[2], org |-> x[1], view |-> FALSE] :
                      x \in {y \in Orgs \X People : y[2] \in Founders[y[1]]}}
    /\ click = [t \in Clicks |-> Idle]
    /\ desk = [t \in Desks |-> Idle]
    /\ asked = 0 /\ troubles = 0
    /\ barred = {}

-----------------------------------------------------------------------------
(* What the store reads.                                                   *)

MembershipsFor(p) == {o \in Orgs : role[o][p] # None}
Owners(o) == {p \in People : role[o][p] = "owner"}
IsOperator(p) == role[Home][p] # None

InvitesTo(o, p) ==
    {l \in Links : link[l] # None /\ link[l].grant.purpose = "invite"
                   /\ link[l].grant.org = o /\ link[l].grant.to = p}
Unopened(o, p) == {l \in InvitesTo(o, p) : link[l].state # "used"}

(* open_invite: the newest never opened, of somebody not in the org.       *)
OpenInvites(o, p) == IF role[o][p] = None THEN Unopened(o, p) ELSE {}
Newest(s) == CHOOSE l \in s : \A other \in s : other <= l

(* _live_link_row                                                          *)
Live(l) == link[l] # None /\ link[l].state = "fresh"

Without(gone) == [l \in Links |-> IF l \in gone THEN None ELSE link[l]]

(* create_login_link, once its org and role are found fit.                 *)
Mint(grant) ==
    /\ made < MaxLinks
    /\ made' = made + 1
    /\ link' = [link EXCEPT ![made + 1] = [grant |-> grant, state |-> "fresh"]]

(* create_session: only a member, and only an account that is on.          *)
MayHaveSession(p, o) == account[p] = "on" /\ role[o][p] # None
Session(p, o) == [who |-> p, org |-> o, view |-> FALSE]
Trouble == troubles < MaxTroubles /\ troubles' = troubles + 1
Bounded == Cardinality({s \in sessions' : ~s.view}) <= MaxSessions

-----------------------------------------------------------------------------
(* Asking for a link.                                                      *)

SignInLink(p) == Mint([purpose |-> "sign_in", to |-> p])

(* request_link answers 202, and _send_link mails those who can use one.   *)
RequestLink(p) ==
    /\ account[p] = "on"
    /\ MembershipsFor(p) # {}
    /\ SignInLink(p)
    /\ UNCHANGED <<tables, sessions, requests, bounds, barred>>

(* sign_up answers 202 for a free org id, and _send_sign_up looks again;   *)
(* whoever has an org gets a sign-in link.                                 *)
SignUp(p, o) ==
    /\ account[p] # "off"
    /\ org[o] = "none"
    /\ IF MembershipsFor(p) # {} THEN SignInLink(p)
       ELSE Mint([purpose |-> "sign_up", to |-> p, org |-> o])
    /\ UNCHANGED <<tables, sessions, requests, bounds, barred>>

Expires(l) ==
    /\ Trouble
    /\ Live(l)
    /\ link' = [link EXCEPT ![l].state = "expired"]
    /\ UNCHANGED <<tables, made, sessions, requests, asked, barred>>

-----------------------------------------------------------------------------
(* redeem_link: nothing is spent before a look finds it would work.        *)

(* The orgs a look at the link would sign in to.                           *)
WouldJoin(grant) == IF org[grant.org] = "declined" THEN {} ELSE {grant.org}
WouldCreate(grant) == IF org[grant.org] # "none" THEN {} ELSE {grant.org}
WouldOpen(grant) ==
    CASE grant.purpose = "sign_in" ->
           IF account[grant.to] = "on" THEN MembershipsFor(grant.to) ELSE {}
      [] account[grant.to] = "off" -> {}
      [] grant.purpose = "invite" -> WouldJoin(grant)
      [] OTHER -> WouldCreate(grant)

Looks(t, l) ==
    /\ click[t] = Idle
    /\ Live(l)
    /\ \E o \in WouldOpen(link[l].grant) :
         click' = [click EXCEPT ![t] =
                     [at |-> "looked", link |-> l, grant |-> link[l].grant, org |-> o]]
    /\ UNCHANGED <<tables, mail, sessions, desk, bounds, barred>>

Refused(t) == click' = [click EXCEPT ![t] = Idle]
Goes(t, stage) == click' = [click EXCEPT ![t].at = stage]

(* redeem_login_link: one of two clicks finds it unused.                   *)
Redeems(t) ==
    /\ click[t].at = "looked"
    /\ LET l == click[t].link IN
       IF Live(l)
       THEN /\ link' = [link EXCEPT ![l].state = "used"]
            /\ Goes(t, IF click[t].grant.purpose = "sign_in" THEN "granted" ELSE "spent")
       ELSE Refused(t) /\ UNCHANGED link
    /\ UNCHANGED <<tables, made, sessions, desk, bounds, barred>>

(* accept_invite: the row must still be there.  A membership is kept, and  *)
(* the org's other invites to the person are not open any more.            *)
AcceptInvite(t) ==
    LET p == click[t].grant.to  o == click[t].org  l == click[t].link IN
    /\ click[t].at = "spent" /\ click[t].grant.purpose = "invite"
    /\ IF link[l] # None /\ account[p] # "off"
       THEN /\ account' = [account EXCEPT ![p] = "on"]
            /\ role' = IF role[o][p] # None THEN role
                       ELSE [role EXCEPT ![o][p] = click[t].grant.role]
            /\ link' = Without(Unopened(o, p))
            /\ Goes(t, "granted")
       ELSE Refused(t) /\ UNCHANGED <<account, role, link>>
    /\ UNCHANGED <<org, made, sessions, desk, bounds, barred>>

(* FleetStore.sign_up: a pending org with its first owner, all or nothing. *)
CreateAgency(t) ==
    LET p == click[t].grant.to  o == click[t].org IN
    /\ click[t].at = "spent" /\ click[t].grant.purpose = "sign_up"
    /\ IF account[p] # "off" /\ org[o] = "none"
       THEN /\ org' = [org EXCEPT ![o] = "pending"]
            /\ account' = [account EXCEPT ![p] = "on"]
            /\ role' = [role EXCEPT ![o][p] = "owner"]
            /\ Goes(t, "granted")
       ELSE Refused(t) /\ UNCHANGED tables
    /\ UNCHANGED <<mail, sessions, desk, bounds, barred>>

MutSignedIn(p, o) == IF account[p] = "on" THEN sessions \cup {Session(p, o)} ELSE sessions
SignedIn(p, o) == IF MayHaveSession(p, o) THEN sessions \cup {Session(p, o)} ELSE sessions

SignsIn(t) ==
    LET p == click[t].grant.to  o == click[t].org IN
    /\ click[t].at = "granted"
    /\ sessions' = SignedIn(p, o) /\ Bounded
    /\ Refused(t)
    /\ UNCHANGED <<tables, mail, desk, bounds, barred>>

-----------------------------------------------------------------------------
(* One's own sessions.                                                     *)

(* switch_org: a session in another of one's orgs, and this one ends.      *)
SwitchOrg(s, o) ==
    /\ s \in sessions /\ ~s.view
    /\ o # s.org /\ MayHaveSession(s.who, o)
    /\ sessions' = (sessions \ {s}) \cup {Session(s.who, o)}
    /\ UNCHANGED <<tables, mail, requests, bounds, barred>>

(* sign_out, or revoke_session of one of one's own.                        *)
SignOut(s) ==
    /\ s \in sessions
    /\ sessions' = sessions \ {s}
    /\ UNCHANGED <<tables, mail, requests, bounds, barred>>

(* view_as: the operator's session gets a read-only one in an agency.      *)
ViewAs(s, o) ==
    /\ s \in sessions /\ ~s.view /\ s.org = Home
    /\ o # Home /\ org[o] # "none"
    /\ account[s.who] = "on" /\ IsOperator(s.who)
    /\ sessions' = sessions \cup {[who |-> s.who, org |-> o, view |-> TRUE]}
    /\ Bounded
    /\ UNCHANGED <<tables, mail, requests, bounds, barred>>

-----------------------------------------------------------------------------
(* An administrator's request: admitted, and later carried out.            *)

(* _session_token for a request that changes something, with org:admin.    *)
Administers(s) ==
    ~s.view /\ account[s.who] = "on" /\ role[s.org][s.who] = "owner"

(* _admin_of: the org's own owner, or the operator.                        *)
Admit(t, s, o) ==
    /\ asked < MaxRequests /\ asked' = asked + 1
    /\ desk[t] = Idle
    /\ s \in sessions /\ Administers(s)
    /\ s.org \in {o, Home}
    /\ desk' = [desk EXCEPT ![t] =
                  [at |-> "admitted", org |-> o, operator |-> s.org = Home]]
    /\ UNCHANGED <<tables, mail, sessions, click, troubles, barred>>

Admitted(t) == desk[t].at = "admitted"
ByOperator(t) == Admitted(t) /\ desk[t].operator
Done(t) == desk' = [desk EXCEPT ![t] = Idle]

TurnedAway(o, p) == barred' = barred \cup InvitesTo(o, p)

(* remove_membership: but never an org's last owner.  Sessions there end,  *)
(* and the person's invites go, opened or not.                             *)
MayRemove(o, p) == role[o][p] # None /\ Owners(o) # {p}

RemoveMember(t, p) ==
    LET o == desk[t].org IN
    /\ Admitted(t)
    /\ MayRemove(o, p)
    /\ role' = [role EXCEPT ![o][p] = None]
    /\ sessions' = {s \in sessions : s.who # p \/ s.org # o}
    /\ link' = Without(InvitesTo(o, p))
    /\ TurnedAway(o, p)
    /\ Done(t)
    /\ UNCHANGED <<org, account, made, click, bounds>>

(* revoke_invite: withdraw_invites takes back the opened ones too.         *)
MutWithdrawn(o, p) == Unopened(o, p)
Withdrawn(o, p) == InvitesTo(o, p)

RevokeInvite(t, p) ==
    LET o == desk[t].org IN
    /\ Admitted(t)
    /\ link' = Without(Withdrawn(o, p))
    /\ IF role[o][p] = None THEN TurnedAway(o, p) ELSE UNCHANGED barred
    /\ Done(t)
    /\ UNCHANGED <<org, account, role, made, sessions, click, bounds>>

InviteLink(t, p, r) ==
    /\ Mint([purpose |-> "invite", to |-> p, org |-> desk[t].org, role |-> r])
    /\ desk' = [desk EXCEPT ![t] =
                  [at |-> "sending", org |-> desk[t].org, to |-> p, link |-> made + 1]]

(* invite: somebody not in the org, by one that was not declined.          *)
Invite(t, p, r) ==
    /\ Admitted(t)
    /\ org[desk[t].org] \in {"pending", "active"}
    /\ role[desk[t].org][p] = None
    /\ InviteLink(t, p, r)
    /\ UNCHANGED <<tables, sessions, click, bounds, barred>>

(* resend_invite: reissue_invite copies the newest open one, expired too.  *)
ResendInvite(t, p) ==
    LET open == OpenInvites(desk[t].org, p) IN
    /\ Admitted(t)
    /\ org[desk[t].org] \in {"pending", "active"}
    /\ open # {}
    /\ InviteLink(t, p, link[Newest(open)].grant.role)
    /\ UNCHANGED <<tables, sessions, click, bounds, barred>>

(* _deliver_invite: the mail has gone, so drop_other_invites; or it has    *)
(* not, and the new link is dropped.                                       *)
Others(t) == Unopened(desk[t].org, desk[t].to) \ {desk[t].link}

Delivers(t) ==
    /\ desk[t].at = "sending"
    /\ link' = Without(Others(t))
    /\ Done(t)
    /\ UNCHANGED <<tables, made, sessions, click, bounds, barred>>

DeliveryFails(t) ==
    /\ Trouble
    /\ desk[t].at = "sending"
    /\ link' = Without({desk[t].link})
    /\ Done(t)
    /\ UNCHANGED <<tables, made, sessions, click, asked, barred>>

-----------------------------------------------------------------------------
(* The operator.                                                           *)

CreateOrg(t) ==
    /\ ByOperator(t)
    /\ \E o \in Orgs : org[o] = "none" /\ org' = [org EXCEPT ![o] = "active"]
    /\ Done(t)
    /\ UNCHANGED <<account, role, mail, sessions, click, bounds, barred>>

(* approve_org, decline_org: decide_org answers once.                      *)
DecideOrg(t) ==
    LET o == desk[t].org IN
    /\ ByOperator(t)
    /\ org[o] = "pending"
    /\ \E answer \in {"active", "declined"} : org' = [org EXCEPT ![o] = answer]
    /\ Done(t)
    /\ UNCHANGED <<account, role, mail, sessions, click, bounds, barred>>

(* add_user: add_person writes the account and the membership together.    *)
AddUser(t, p, r) ==
    LET o == desk[t].org IN
    /\ ByOperator(t)
    /\ org[o] # "none" /\ role[o][p] = None
    /\ account' = [account EXCEPT ![p] = IF @ = "none" THEN "on" ELSE @]
    /\ role' = [role EXCEPT ![o][p] = r]
    /\ Done(t)
    /\ UNCHANGED <<org, mail, sessions, click, bounds, barred>>

(* disable_user: the command line's, with every session of the account.    *)
DisableUser(p) ==
    /\ Trouble
    /\ account[p] = "on"
    /\ account' = [account EXCEPT ![p] = "off"]
    /\ sessions' = {s \in sessions : s.who # p}
    /\ UNCHANGED <<org, role, mail, requests, asked, barred>>

LinkStep ==
    \/ \E p \in People : RequestLink(p) \/ \E o \in Orgs : SignUp(p, o)
    \/ \E l \in Links : Expires(l)

ClickStep(t) ==
    \/ \E l \in Links : Looks(t, l)
    \/ Redeems(t) \/ AcceptInvite(t) \/ CreateAgency(t) \/ SignsIn(t)

SessionStep(s) ==
    \/ SignOut(s)
    \/ \E o \in Orgs : SwitchOrg(s, o) \/ ViewAs(s, o)

DeskStep(t) ==
    \/ \E s \in sessions, o \in Orgs : Admit(t, s, o)
    \/ \E p \in People :
         \/ RemoveMember(t, p) \/ RevokeInvite(t, p) \/ ResendInvite(t, p)
         \/ \E r \in Offered : Invite(t, p, r)
         \/ \E r \in Roles : AddUser(t, p, r)
    \/ Delivers(t) \/ DeliveryFails(t)
    \/ CreateOrg(t) \/ DecideOrg(t)

Next ==
    \/ LinkStep
    \/ \E t \in Clicks : ClickStep(t)
    \/ \E s \in sessions : SessionStep(s)
    \/ \E t \in Desks : DeskStep(t)
    \/ \E p \in People : DisableUser(p)

Spec == Init /\ [][Next]_vars

-----------------------------------------------------------------------------
(* What must hold.                                                         *)

(* A session is its account's and its org's: whoever was disabled or       *)
(* removed has none, however far a sign-in had come (create_session).      *)
SessionsOfMembers ==
    \A s \in sessions :
        account[s.who] = "on" /\ (s.view \/ role[s.org][s.who] # None)

(* Nobody comes back through a link that was made before they were removed *)
(* or their invite revoked, opened or not (accept_invite).                 *)
RemovedStaysOut ==
    [][\A t \in Clicks : \A o \in Orgs, p \in People :
         AcceptInvite(t) /\ role[o][p] = None /\ role'[o][p] # None =>
            click[t].link \notin barred]_vars

=============================================================================
