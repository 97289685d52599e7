--------------------------- MODULE AccountsProofs ---------------------------
(***************************************************************************)
(* Theorems about Accounts for any people, orgs, links and requests.       *)
(*                                                                         *)
(* A link that was withdrawn is a row deleted for good: links are numbered *)
(* as they are made, and none is made under a number there has been.  So   *)
(* what barred a person stays gone, however far a click on it had come.    *)
(*                                                                         *)
(* And about Github, as MCPeople has it (Hub), for any orgs, clients,      *)
(* people, accounts, installations, requests and refreshes: connections    *)
(* are made by their owners and named by their scope, and credentials stay *)
(* with whom they were granted to.                                         *)
(***************************************************************************)
EXTENDS MCPeople, TLAPS, WellFoundedInduction, FiniteSetTheorems

(* Links come one after the other, and those that were turned away are of  *)
(* the past.                                                               *)
MadeInOrder == \A l \in Links : link[l] # None => l <= made
BarredAreGone == \A l \in barred : link[l] = None /\ l <= made

Inv ==
    /\ TypeOK
    /\ SessionsOfMembers
    /\ MadeInOrder
    /\ BarredAreGone

Link == [grant : Grants, state : {"fresh", "expired", "used"}]
-----------------------------------------------------------------------------
(* Newest: of some links there is a newest one.                            *)
LEMMA NewestIsOne ==
  ASSUME NEW s \in SUBSET Links, s # {}
  PROVE  Newest(s) \in s
<1> DEFINE Lower == OpToRel(<, Nat)
           Ages == {MaxLinks - l : l \in s}
<1> USE BoundsAssumption DEF Links
<1>1. PICK x \in Ages : \A y \in Ages : ~(<<y, x>> \in Lower)
  <2>1. Ages \subseteq Nat /\ Ages # {}
    OBVIOUS
  <2>2. IsWellFoundedOn(Lower, Nat)
    BY NatLessThanWellFounded
  <2> HIDE DEF Lower, Ages
  <2>3. QED
    BY <2>1, <2>2, WFMin
<1>2. PICK l \in s : x = MaxLinks - l
  BY <1>1
<1>3. \A other \in s : other <= l
  <2>1. ASSUME NEW other \in s PROVE ~(MaxLinks - other < MaxLinks - l)
    <3>1. MaxLinks - other \in Ages
      OBVIOUS
    <3>2. <<MaxLinks - other, x>> \notin Lower
      BY <1>1, <3>1
    <3>3. QED
      BY <1>2, <3>2 DEF OpToRel
  <2>2. QED
    BY <2>1
<1>4. QED
  BY <1>2, <1>3 DEF Newest

(* Without: what is deleted leaves the rest as it was.                     *)
LEMMA WithoutKeeps ==
  ASSUME TypeOK, NEW gone, link' = Without(gone)
  PROVE  /\ link' \in [Links -> Link \cup {None}]
         /\ \A l \in Links : link'[l] = IF l \in gone THEN None ELSE link[l]
  BY DEF Without, TypeOK, Link

(* Mint: a new link, after all there are.                                  *)
LEMMA MintAdds ==
  ASSUME TypeOK, NEW grant \in Grants, Mint(grant)
  PROVE  /\ link' \in [Links -> Link \cup {None}]
         /\ made' \in 0..MaxLinks /\ made' = made + 1
         /\ \A l \in Links : l # made + 1 => link'[l] = link[l]
<1>1. [grant |-> grant, state |-> "fresh"] \in Link
  BY DEF Link
<1>2. QED
  BY <1>1, BoundsAssumption DEF Mint, TypeOK, Link, Links

(* InvitesTo: the person's invites are links of the org's.                 *)
LEMMA InvitesAreLinks ==
  \A o \in Orgs, p \in People : InvitesTo(o, p) \subseteq Links /\ Unopened(o, p) \subseteq InvitesTo(o, p)
  BY DEF InvitesTo, Unopened

Click == {Idle} \cup [at : {"looked", "spent", "granted"}, link : Links, grant : Grants, org : Orgs]
Desk == {Idle} \cup [at : {"admitted"}, org : Orgs, operator : BOOLEAN]
               \cup [at : {"sending"}, org : Orgs, to : People, link : Links]

LEMMA GrantTypes ==
  ASSUME NEW grant \in Grants
  PROVE  /\ grant.to \in People
         /\ grant.purpose \in {"sign_in", "sign_up", "invite"}
         /\ grant.purpose # "sign_in" => grant.org \in Orgs
         /\ grant.purpose = "invite" => grant.role \in Roles
  BY RolesAssumption DEF Grants, Roles

(* A redeeming request under way, and what it may become.                  *)
LEMMA ClickSteps ==
  ASSUME TypeOK, NEW t \in Clicks, click[t].at # "idle"
  PROVE  /\ click[t].link \in Links /\ click[t].grant \in Grants /\ click[t].org \in Orgs
         /\ \A stage \in {"spent", "granted"} :
                Goes(t, stage) => click' \in [Clicks -> Click]
         /\ Refused(t) => click' \in [Clicks -> Click]
<1>1. click[t] \in [at : {"looked", "spent", "granted"}, link : Links, grant : Grants, org : Orgs]
  BY DEF TypeOK, Idle
<1>2. \A stage \in {"spent", "granted"} : [click[t] EXCEPT !.at = stage] \in Click
  BY <1>1 DEF Click
<1>3. click \in [Clicks -> Click] /\ Idle \in Click
  BY DEF TypeOK, Click
<1>4. QED
  BY <1>1, <1>2, <1>3 DEF Goes, Refused

(* An administrator's request that is admitted, or whose mail is going.    *)
LEMMA DeskSteps ==
  ASSUME TypeOK, NEW t \in Desks
  PROVE  /\ desk[t].at \in {"admitted", "sending"} => desk[t].org \in Orgs
         /\ desk[t].at = "sending" => desk[t].to \in People /\ desk[t].link \in Links
         /\ Done(t) => desk' \in [Desks -> Desk]
<1>1. desk \in [Desks -> Desk] /\ Idle \in Desk
  BY DEF TypeOK, Desk
<1>2. desk[t] \in Desk
  BY <1>1
<1>3. QED
  BY <1>1, <1>2 DEF Done, Desk, Idle
-----------------------------------------------------------------------------
LEMMA InvInit == Init => Inv
<1> SUFFICES ASSUME Init PROVE Inv
  OBVIOUS
<1> USE BoundsAssumption, OrgsAssumption, NoneAssumption DEF Init, Roles
<1>1. ASSUME NEW s \in sessions
      PROVE  /\ s \in [who : People, org : Orgs, view : BOOLEAN]
             /\ s.who \in Founders[s.org] /\ ~s.view
  <2>1. PICK x \in {y \in Orgs \X People : y[2] \in Founders[y[1]]} :
           s = [who |-> x[2], org |-> x[1], view |-> FALSE]
    BY <1>1
  <2>2. x[1] \in Orgs /\ x[2] \in People /\ x[2] \in Founders[x[1]]
    OBVIOUS
  <2>3. QED
    BY <2>1, <2>2
<1>2. role \in [Orgs -> [People -> Roles \cup {None}]]
  OBVIOUS
<1>3. TypeOK
  BY <1>1, <1>2 DEF TypeOK
<1>4. SessionsOfMembers
  BY <1>1 DEF SessionsOfMembers
<1>5. MadeInOrder /\ BarredAreGone
  BY DEF MadeInOrder, BarredAreGone
<1>6. QED
  BY <1>3, <1>4, <1>5 DEF Inv

Sessions == [who : People, org : Orgs, view : BOOLEAN]

LEMMA SessionTypes == \A p \in People, o \in Orgs : Session(p, o) \in Sessions
  BY DEF Session, Sessions

(* reissue_invite offers what the newest open invite offers.               *)
LEMMA ResentRole ==
  ASSUME TypeOK, NEW t \in Desks, NEW p \in People, ResendInvite(t, p)
  PROVE  link[Newest(OpenInvites(desk[t].org, p))].grant.role \in Offered
<1> DEFINE open == OpenInvites(desk[t].org, p)
           l == Newest(open)
<1>1. desk[t].org \in Orgs
  BY DeskSteps DEF ResendInvite, Admitted
<1>2. open \subseteq InvitesTo(desk[t].org, p) /\ open \in SUBSET Links
  BY <1>1, InvitesAreLinks DEF OpenInvites
<1>3. l \in open
  BY <1>2, NewestIsOne DEF ResendInvite
<1>4. link[l] \in Link /\ link[l].grant \in Grants /\ link[l].grant.purpose = "invite"
  BY <1>2, <1>3 DEF InvitesTo, TypeOK, Link
<1>5. QED
  BY <1>4 DEF Grants

LEMMA TypeNext == TypeOK /\ [Next]_vars => TypeOK'
<1> SUFFICES ASSUME TypeOK, [Next]_vars PROVE TypeOK'
  OBVIOUS
<1> USE BoundsAssumption DEF TypeOK, tables, mail, requests, bounds
<1> USE DEF Link, Click, Desk
<1>1. ASSUME NEW p \in People, RequestLink(p) \/ \E o \in Orgs : SignUp(p, o) PROVE TypeOK'
  <2>1. PICK grant \in Grants : Mint(grant)
    BY <1>1 DEF RequestLink, SignUp, SignInLink, Grants
  <2>2. link' \in [Links -> Link \cup {None}] /\ made' \in 0..MaxLinks
    BY <2>1, MintAdds
  <2>3. QED
    BY <1>1, <2>2 DEF RequestLink, SignUp
<1>2. ASSUME NEW l \in Links, Expires(l) PROVE TypeOK'
  <2>1. [link[l] EXCEPT !.state = "expired"] \in Link
    BY <1>2 DEF Expires, Live
  <2>2. link' \in [Links -> Link \cup {None}]
    BY <1>2, <2>1 DEF Expires
  <2>3. QED
    BY <1>2, <2>2 DEF Expires, Trouble
<1>3. ASSUME NEW t \in Clicks, NEW l \in Links, Looks(t, l) PROVE TypeOK'
  <2>1. link[l].grant \in Grants
    BY <1>3 DEF Looks, Live
  <2>2. WouldOpen(link[l].grant) \subseteq Orgs
    BY <2>1, GrantTypes DEF WouldOpen, WouldJoin, WouldCreate, MembershipsFor
  <2>3. click' \in [Clicks -> Click]
    BY <1>3, <2>1, <2>2 DEF Looks
  <2>4. QED
    BY <1>3, <2>3 DEF Looks
<1>4. ASSUME NEW t \in Clicks, Redeems(t) PROVE TypeOK'
  <2>1. click[t].link \in Links /\ click' \in [Clicks -> Click]
    BY <1>4, ClickSteps DEF Redeems
  <2>2. Live(click[t].link) => [link[click[t].link] EXCEPT !.state = "used"] \in Link
    BY <2>1 DEF Live
  <2>3. link' \in [Links -> Link \cup {None}]
    <3>1. CASE Live(click[t].link)
      <4>1. link' = [link EXCEPT ![click[t].link] = [link[click[t].link] EXCEPT !.state = "used"]]
        BY <1>4, <3>1 DEF Redeems
      <4>2. QED
        BY <2>1, <2>2, <3>1, <4>1
    <3>2. CASE ~Live(click[t].link)
      BY <1>4, <3>2 DEF Redeems
    <3>3. QED
      BY <3>1, <3>2
  <2>4. QED
    BY <1>4, <2>1, <2>3 DEF Redeems
<1>5. ASSUME NEW t \in Clicks, AcceptInvite(t) PROVE TypeOK'
  <2>1. /\ click[t].link \in Links /\ click[t].org \in Orgs /\ click[t].grant.to \in People
        /\ click[t].grant.role \in Roles /\ click' \in [Clicks -> Click]
    BY <1>5, ClickSteps, GrantTypes DEF AcceptInvite
  <2>2. link' \in [Links -> Link \cup {None}]
    BY <1>5, WithoutKeeps DEF AcceptInvite
  <2>3. role' \in [Orgs -> [People -> Roles \cup {None}]]
    <3>1. CASE role' = role
      BY <3>1
    <3>2. CASE role' = [role EXCEPT ![click[t].org][click[t].grant.to] = click[t].grant.role]
      BY <2>1, <3>2
    <3>3. QED
      BY <1>5, <3>1, <3>2 DEF AcceptInvite
  <2>4. account' \in [People -> {"none", "on", "off"}]
    BY <1>5, <2>1 DEF AcceptInvite
  <2>5. QED
    BY <1>5, <2>1, <2>2, <2>3, <2>4 DEF AcceptInvite
<1>6. ASSUME NEW t \in Clicks, CreateAgency(t) PROVE TypeOK'
  <2>1. /\ click[t].org \in Orgs /\ click[t].grant.to \in People
        /\ click' \in [Clicks -> Click]
    BY <1>6, ClickSteps, GrantTypes DEF CreateAgency
  <2>2. role' \in [Orgs -> [People -> Roles \cup {None}]]
    BY <1>6, <2>1 DEF CreateAgency, Roles
  <2>3. QED
    BY <1>6, <2>1, <2>2 DEF CreateAgency
<1>7. ASSUME NEW t \in Clicks, SignsIn(t) PROVE TypeOK'
  <2>1. /\ click[t].org \in Orgs /\ click[t].grant.to \in People
        /\ click' \in [Clicks -> Click]
    BY <1>7, ClickSteps, GrantTypes DEF SignsIn
  <2>2. sessions' \subseteq Sessions
    BY <1>7, <2>1, SessionTypes DEF SignsIn, SignedIn, Sessions
  <2>3. QED
    BY <1>7, <2>1, <2>2 DEF SignsIn, Sessions
<1>8. ASSUME NEW s \in sessions, SessionStep(s) PROVE TypeOK'
  <2>1. s.who \in People /\ \A o \in Orgs : Session(s.who, o) \in Sessions
    BY SessionTypes DEF Sessions
  <2>2. \A o \in Orgs : [who |-> s.who, org |-> o, view |-> TRUE] \in Sessions
    BY <2>1 DEF Sessions
  <2>3. sessions' \subseteq Sessions
    <3>1. sessions \subseteq Sessions
      BY DEF Sessions
    <3>2. CASE SignOut(s)
      BY <3>1, <3>2 DEF SignOut
    <3>3. ASSUME NEW o \in Orgs, SwitchOrg(s, o) PROVE sessions' \subseteq Sessions
      BY <2>1, <3>1, <3>3 DEF SwitchOrg
    <3>4. ASSUME NEW o \in Orgs, ViewAs(s, o) PROVE sessions' \subseteq Sessions
      BY <2>2, <3>1, <3>4 DEF ViewAs
    <3>5. QED
      BY <1>8, <3>2, <3>3, <3>4 DEF SessionStep
  <2>4. QED
    BY <1>8, <2>3 DEF SessionStep, SignOut, SwitchOrg, ViewAs, Sessions
<1>9. ASSUME NEW t \in Desks, NEW s \in sessions, NEW o \in Orgs, Admit(t, s, o) PROVE TypeOK'
  BY <1>9 DEF Admit
<1>10. ASSUME NEW t \in Desks, NEW p \in People, RemoveMember(t, p) PROVE TypeOK'
  <2>1. desk[t].org \in Orgs /\ desk' \in [Desks -> Desk]
    BY <1>10, DeskSteps DEF RemoveMember, Admitted
  <2>2. link' \in [Links -> Link \cup {None}]
    BY <1>10, WithoutKeeps DEF RemoveMember
  <2>3. barred' \subseteq Links
    BY <1>10, <2>1, InvitesAreLinks DEF RemoveMember, TurnedAway
  <2>4. role' \in [Orgs -> [People -> Roles \cup {None}]]
    BY <1>10, <2>1 DEF RemoveMember
  <2>5. QED
    BY <1>10, <2>1, <2>2, <2>3, <2>4 DEF RemoveMember
<1>11. ASSUME NEW t \in Desks, NEW p \in People, RevokeInvite(t, p) PROVE TypeOK'
  <2>1. desk[t].org \in Orgs /\ desk' \in [Desks -> Desk]
    BY <1>11, DeskSteps DEF RevokeInvite, Admitted
  <2>2. link' \in [Links -> Link \cup {None}]
    BY <1>11, WithoutKeeps DEF RevokeInvite
  <2>3. barred' \subseteq Links
    BY <1>11, <2>1, InvitesAreLinks DEF RevokeInvite, TurnedAway
  <2>4. QED
    BY <1>11, <2>1, <2>2, <2>3 DEF RevokeInvite
<1>12. ASSUME NEW t \in Desks, NEW p \in People, NEW r \in Offered,
              Admitted(t), InviteLink(t, p, r)
       PROVE  /\ link' \in [Links -> Link \cup {None}] /\ made' \in 0..MaxLinks
              /\ desk' \in [Desks -> Desk]
  <2>1. desk[t].org \in Orgs
    BY <1>12, DeskSteps DEF Admitted
  <2>2. [purpose |-> "invite", to |-> p, org |-> desk[t].org, role |-> r] \in Grants
    BY <2>1 DEF Grants
  <2>3. link' \in [Links -> Link \cup {None}] /\ made' \in 0..MaxLinks
    BY <1>12, <2>2, MintAdds DEF InviteLink
  <2>4. made + 1 \in Links
    BY <1>12 DEF InviteLink, Mint, Links
  <2>5. QED
    BY <1>12, <2>1, <2>3, <2>4 DEF InviteLink
<1>13. ASSUME NEW t \in Desks, NEW p \in People, NEW r \in Offered, Invite(t, p, r)
       PROVE  TypeOK'
  BY <1>12, <1>13 DEF Invite
<1>14. ASSUME NEW t \in Desks, NEW p \in People, ResendInvite(t, p) PROVE TypeOK'
  BY <1>12, <1>14, ResentRole DEF ResendInvite
<1>15. ASSUME NEW t \in Desks, Delivers(t) \/ DeliveryFails(t) PROVE TypeOK'
  <2>1. desk' \in [Desks -> Desk]
    BY <1>15, DeskSteps DEF Delivers, DeliveryFails
  <2>2. link' \in [Links -> Link \cup {None}]
    BY <1>15, WithoutKeeps DEF Delivers, DeliveryFails
  <2>3. QED
    BY <1>15, <2>1, <2>2 DEF Delivers, DeliveryFails, Trouble
<1>16. ASSUME NEW t \in Desks, CreateOrg(t) \/ DecideOrg(t) PROVE TypeOK'
  <2>1. desk' \in [Desks -> Desk]
    BY <1>16, DeskSteps DEF CreateOrg, DecideOrg
  <2>2. QED
    BY <1>16, <2>1 DEF CreateOrg, DecideOrg
<1>17. ASSUME NEW t \in Desks, NEW p \in People, NEW r \in Roles, AddUser(t, p, r)
       PROVE  TypeOK'
  <2>1. desk[t].org \in Orgs /\ desk' \in [Desks -> Desk]
    BY <1>17, DeskSteps DEF AddUser, ByOperator, Admitted
  <2>2. role' \in [Orgs -> [People -> Roles \cup {None}]]
    BY <1>17, <2>1 DEF AddUser
  <2>3. account' \in [People -> {"none", "on", "off"}]
    BY <1>17 DEF AddUser
  <2>4. QED
    BY <1>17, <2>1, <2>2, <2>3 DEF AddUser
<1>18. ASSUME NEW p \in People, DisableUser(p) PROVE TypeOK'
  BY <1>18 DEF DisableUser, Trouble
<1>19. CASE UNCHANGED vars
  BY <1>19 DEF vars
<1>20. CASE Next
  <2>1. ASSUME NEW t \in Desks, DeskStep(t) PROVE TypeOK'
    BY <1>9, <1>10, <1>11, <1>13, <1>14, <1>15, <1>16, <1>17, <2>1, Zenon DEF DeskStep
  <2>2. ASSUME NEW t \in Clicks, ClickStep(t) PROVE TypeOK'
    BY <1>3, <1>4, <1>5, <1>6, <1>7, <2>2, Zenon DEF ClickStep
  <2>3. CASE LinkStep
    BY <1>1, <1>2, <2>3, Zenon DEF LinkStep
  <2>4. QED
    BY <1>8, <1>18, <1>20, <2>1, <2>2, <2>3, Zenon DEF Next
<1>21. QED
  BY <1>19, <1>20
-----------------------------------------------------------------------------
(* A session is its account's and its org's, step by step.                 *)
LEMMA SessionsNext ==
  ASSUME TypeOK, SessionsOfMembers, Next
  PROVE  SessionsOfMembers'
<1> USE NoneAssumption DEF Roles, tables, mail, requests, bounds
<1> DEFINE Fit(s) == account[s.who] = "on" /\ (s.view \/ role[s.org][s.who] # None)
<1>0. \A s \in sessions : Fit(s)
  BY DEF SessionsOfMembers
<1>1. ASSUME account' = account, role' = role, NEW new, Fit(new),
             sessions' \subseteq sessions \cup {new}
      PROVE  SessionsOfMembers'
  BY <1>0, <1>1 DEF SessionsOfMembers
<1>10. ASSUME account' = account, role' = role, sessions' \subseteq sessions
      PROVE  SessionsOfMembers'
  BY <1>0, <1>10 DEF SessionsOfMembers
<1>2. ASSUME NEW t \in Clicks, ClickStep(t) PROVE SessionsOfMembers'
  <2>1. CASE Redeems(t) \/ \E l \in Links : Looks(t, l)
    BY <1>10, <2>1 DEF Redeems, Looks
  <2>2. CASE AcceptInvite(t)
    <3>1. click[t].org \in Orgs /\ click[t].grant.to \in People /\ click[t].grant.role \in Roles
      BY <2>2, ClickSteps, GrantTypes DEF AcceptInvite
    <3>2. \A p \in People : account[p] = "on" => account'[p] = "on"
      BY <2>2, <3>1 DEF AcceptInvite, TypeOK
    <3>3. \A o \in Orgs, p \in People : role[o][p] # None => role'[o][p] # None
      BY <2>2, <3>1 DEF AcceptInvite, TypeOK
    <3>4. sessions' = sessions
      BY <2>2 DEF AcceptInvite
    <3>5. QED
      BY <3>2, <3>3, <3>4 DEF SessionsOfMembers, TypeOK
  <2>3. CASE CreateAgency(t)
    <3>1. click[t].org \in Orgs /\ click[t].grant.to \in People
      BY <2>3, ClickSteps, GrantTypes DEF CreateAgency
    <3>2. \A p \in People : account[p] = "on" => account'[p] = "on"
      BY <2>3, <3>1 DEF CreateAgency, TypeOK
    <3>3. \A o \in Orgs, p \in People : role[o][p] # None => role'[o][p] # None
      BY <2>3, <3>1 DEF CreateAgency, TypeOK
    <3>4. sessions' = sessions
      BY <2>3 DEF CreateAgency
    <3>5. QED
      BY <3>2, <3>3, <3>4 DEF SessionsOfMembers, TypeOK
  <2>4. CASE SignsIn(t)
    <3> DEFINE p == click[t].grant.to
               o == click[t].org
    <3>1. CASE MayHaveSession(p, o)
      <4>1. Fit(Session(p, o))
        BY <3>1 DEF Session, MayHaveSession
      <4>2. account' = account /\ role' = role /\ sessions' \subseteq sessions \cup {Session(p, o)}
        BY <2>4, <3>1 DEF SignsIn, SignedIn
      <4> HIDE DEF Fit
      <4>3. QED
        BY <1>1, <4>1, <4>2
    <3>2. CASE ~MayHaveSession(p, o)
      BY <1>10, <2>4, <3>2 DEF SignsIn, SignedIn
    <3>3. QED
      BY <3>1, <3>2
  <2>5. QED
    BY <1>2, <2>1, <2>2, <2>3, <2>4 DEF ClickStep
<1>3. ASSUME NEW t \in Desks, DeskStep(t) PROVE SessionsOfMembers'
  <2>1. ASSUME NEW p \in People, RemoveMember(t, p) PROVE SessionsOfMembers'
    <3>1. desk[t].org \in Orgs
      BY <2>1, DeskSteps DEF RemoveMember, Admitted
    <3>2. \A s \in sessions' : /\ s \in sessions /\ role'[s.org][s.who] = role[s.org][s.who]
      BY <2>1, <3>1 DEF RemoveMember, TypeOK
    <3>3. account' = account
      BY <2>1 DEF RemoveMember
    <3>4. QED
      BY <3>2, <3>3 DEF SessionsOfMembers
  <2>2. ASSUME NEW p \in People, NEW r \in Roles, AddUser(t, p, r) PROVE SessionsOfMembers'
    <3>1. desk[t].org \in Orgs
      BY <2>2, DeskSteps DEF AddUser, ByOperator, Admitted
    <3>2. \A q \in People : account[q] = "on" => account'[q] = "on"
      BY <2>2 DEF AddUser, TypeOK
    <3>3. \A o \in Orgs, q \in People : role[o][q] # None => role'[o][q] # None
      BY <2>2, <3>1 DEF AddUser, TypeOK
    <3>4. sessions' = sessions
      BY <2>2 DEF AddUser
    <3>5. QED
      BY <3>2, <3>3, <3>4 DEF SessionsOfMembers, TypeOK
  <2>3. ASSUME UNCHANGED <<account, role, sessions>> PROVE SessionsOfMembers'
    BY <1>10, <2>3
  <2>4. QED
    BY <1>3, <2>1, <2>2, <2>3 DEF DeskStep, Admit, RevokeInvite, Invite, ResendInvite,
       Delivers, DeliveryFails, CreateOrg, DecideOrg
<1>4. ASSUME NEW s \in sessions, SessionStep(s) PROVE SessionsOfMembers'
  <2>1. account' = account /\ role' = role
    BY <1>4 DEF SessionStep, SignOut, SwitchOrg, ViewAs
  <2>2. CASE SignOut(s)
    BY <1>10, <2>1, <2>2 DEF SignOut
  <2>3. ASSUME NEW o \in Orgs, SwitchOrg(s, o) PROVE SessionsOfMembers'
    <3>1. Fit(Session(s.who, o)) /\ sessions' \subseteq sessions \cup {Session(s.who, o)}
      BY <2>3 DEF SwitchOrg, Session, MayHaveSession
    <3> HIDE DEF Fit
    <3>2. QED
      BY <1>1, <2>1, <3>1
  <2>4. ASSUME NEW o \in Orgs, ViewAs(s, o) PROVE SessionsOfMembers'
    <3> DEFINE seen == [who |-> s.who, org |-> o, view |-> TRUE]
    <3>1. Fit(seen) /\ sessions' \subseteq sessions \cup {seen}
      BY <2>4 DEF ViewAs
    <3> HIDE DEF Fit
    <3>2. QED
      BY <1>1, <2>1, <3>1
  <2>5. QED
    BY <1>4, <2>2, <2>3, <2>4 DEF SessionStep
<1>5. ASSUME NEW p \in People, DisableUser(p) PROVE SessionsOfMembers'
  BY <1>5 DEF DisableUser, SessionsOfMembers, TypeOK
<1>6. ASSUME LinkStep PROVE SessionsOfMembers'
  BY <1>10, <1>6 DEF LinkStep, RequestLink, SignUp, Expires
<1>7. QED
  BY <1>2, <1>3, <1>4, <1>5, <1>6 DEF Next

(* Links that are gone stay gone, step by step.                            *)
LEMMA LinksNext ==
  ASSUME TypeOK, TypeOK', MadeInOrder, BarredAreGone, Next
  PROVE  MadeInOrder' /\ BarredAreGone'
<1> USE DEF tables, mail, requests, bounds
<1>1. ASSUME made' = made, \A l \in Links : link[l] = None => link'[l] = None,
             \A l \in barred' : l \in barred \/ (link[l] # None /\ link'[l] = None)
      PROVE  MadeInOrder' /\ BarredAreGone'
  BY <1>1 DEF MadeInOrder, BarredAreGone, TypeOK
<1>2. ASSUME NEW grant \in Grants, Mint(grant), barred' = barred
      PROVE  MadeInOrder' /\ BarredAreGone'
  <2>1. made' = made + 1 /\ \A l \in Links : l # made + 1 => link'[l] = link[l]
    BY <1>2, MintAdds
  <2>2. QED
    BY <1>2, <2>1 DEF MadeInOrder, BarredAreGone, TypeOK, Links
<1>3. ASSUME NEW t \in Clicks, ClickStep(t) PROVE MadeInOrder' /\ BarredAreGone'
  <2>1. CASE Redeems(t)
    <3>1. \A l \in Links : link[l] = None => link'[l] = None
      BY <2>1 DEF Redeems, Live, TypeOK
    <3>2. QED
      BY <1>1, <2>1, <3>1 DEF Redeems
  <2>2. CASE AcceptInvite(t)
    <3>1. \A l \in Links : link[l] = None => link'[l] = None
      BY <2>2, WithoutKeeps DEF AcceptInvite
    <3>2. QED
      BY <1>1, <2>2, <3>1 DEF AcceptInvite
  <2>3. CASE ~Redeems(t) /\ ~AcceptInvite(t)
    BY <1>1, <1>3, <2>3 DEF ClickStep, Looks, CreateAgency, SignsIn
  <2>4. QED
    BY <2>1, <2>2, <2>3
<1>4. ASSUME NEW t \in Desks, NEW p \in People, RemoveMember(t, p) \/ RevokeInvite(t, p)
      PROVE  MadeInOrder' /\ BarredAreGone'
  <2>1. desk[t].org \in Orgs
    BY <1>4, DeskSteps DEF RemoveMember, RevokeInvite, Admitted
  <2>2. \A l \in Links : link'[l] = IF l \in InvitesTo(desk[t].org, p) THEN None ELSE link[l]
    BY <1>4, WithoutKeeps DEF RemoveMember, RevokeInvite, Withdrawn
  <2>3. \A l \in barred' : l \in barred \/ l \in InvitesTo(desk[t].org, p)
    BY <1>4 DEF RemoveMember, RevokeInvite, TurnedAway
  <2>4. \A l \in barred' : l \in barred \/ (link[l] # None /\ link'[l] = None)
    BY <2>2, <2>3 DEF InvitesTo
  <2>5. QED
    BY <1>1, <1>4, <2>2, <2>4 DEF RemoveMember, RevokeInvite
<1>5. ASSUME NEW t \in Desks, NEW p \in People, NEW r, r \in Offered, Admitted(t),
             InviteLink(t, p, r), barred' = barred
      PROVE  MadeInOrder' /\ BarredAreGone'
  <2>1. [purpose |-> "invite", to |-> p, org |-> desk[t].org, role |-> r] \in Grants
    BY <1>5, DeskSteps DEF Admitted, Grants
  <2>2. QED
    BY <1>2, <1>5, <2>1 DEF InviteLink
<1>6. ASSUME NEW t \in Desks, NEW p \in People, ResendInvite(t, p)
      PROVE  MadeInOrder' /\ BarredAreGone'
  BY <1>5, <1>6, ResentRole DEF ResendInvite
<1>7. ASSUME NEW t \in Desks, Delivers(t) \/ DeliveryFails(t)
      PROVE  MadeInOrder' /\ BarredAreGone'
  BY <1>1, <1>7, WithoutKeeps DEF Delivers, DeliveryFails
<1>8. ASSUME NEW t \in Desks, DeskStep(t) PROVE MadeInOrder' /\ BarredAreGone'
  <2>1. ASSUME NEW p \in People, NEW r \in Offered, Invite(t, p, r)
        PROVE  MadeInOrder' /\ BarredAreGone'
    BY <1>5, <2>1 DEF Invite
  <2>2. ASSUME UNCHANGED <<link, made, barred>> PROVE MadeInOrder' /\ BarredAreGone'
    BY <1>1, <2>2
  <2>3. QED
    BY <1>4, <1>6, <1>7, <1>8, <2>1, <2>2 DEF DeskStep, Admit, AddUser, CreateOrg, DecideOrg
<1>9. CASE LinkStep
  <2>1. ASSUME NEW p \in People, RequestLink(p) \/ \E o \in Orgs : SignUp(p, o)
        PROVE  MadeInOrder' /\ BarredAreGone'
    <3>1. PICK grant \in Grants : Mint(grant)
      BY <2>1 DEF RequestLink, SignUp, SignInLink, Grants
    <3>2. QED
      BY <1>2, <2>1, <3>1 DEF RequestLink, SignUp
  <2>2. ASSUME NEW l \in Links, Expires(l) PROVE MadeInOrder' /\ BarredAreGone'
    <3>1. \A k \in Links : link[k] = None => link'[k] = None
      BY <2>2 DEF Expires, Live, TypeOK
    <3>2. QED
      BY <1>1, <2>2, <3>1 DEF Expires
  <2>3. QED
    BY <1>9, <2>1, <2>2 DEF LinkStep
<1>10. ASSUME NEW s \in sessions, SessionStep(s) PROVE MadeInOrder' /\ BarredAreGone'
  BY <1>1, <1>10 DEF SessionStep, SignOut, SwitchOrg, ViewAs
<1>11. ASSUME NEW p \in People, DisableUser(p) PROVE MadeInOrder' /\ BarredAreGone'
  BY <1>1, <1>11 DEF DisableUser
<1>12. QED
  BY <1>3, <1>8, <1>9, <1>10, <1>11 DEF Next

LEMMA InvNext == Inv /\ [Next]_vars => Inv'
<1>1. CASE UNCHANGED vars
  BY <1>1, TypeNext DEF vars, tables, mail, Inv, SessionsOfMembers, MadeInOrder, BarredAreGone
<1>2. CASE Next
  BY <1>2, TypeNext, SessionsNext, LinksNext DEF Inv
<1>3. QED
  BY <1>1, <1>2

THEOREM Inductive == Spec => []Inv
  BY InvInit, InvNext, PTL DEF Spec

(* The type invariant.                                                     *)
THEOREM TypeCorrect == Spec => []TypeOK
<1>1. Inv => TypeOK
  BY DEF Inv
<1>2. QED
  BY <1>1, Inductive, PTL

(* A session is its account's and its org's: whoever was disabled or       *)
(* removed has none, however far a sign-in had come (create_session).      *)
THEOREM OnlyMembersSignedIn == Spec => []SessionsOfMembers
<1>1. Inv => SessionsOfMembers
  BY DEF Inv
<1>2. QED
  BY <1>1, Inductive, PTL
-----------------------------------------------------------------------------
(* Nobody comes back through a link that was made before they were removed *)
(* or their invite revoked, opened or not (accept_invite).                 *)
THEOREM TheRemovedStayOut == Spec => RemovedStaysOut
<1> DEFINE Out == \A t \in Clicks : \A o \in Orgs, p \in People :
         AcceptInvite(t) /\ role[o][p] = None /\ role'[o][p] # None =>
            click[t].link \notin barred
<1>1. Inv /\ [Next]_vars => [Out]_vars
  <2> SUFFICES ASSUME Inv, NEW t \in Clicks, AcceptInvite(t), role' # role
               PROVE  click[t].link \notin barred
    OBVIOUS
  <2>1. link[click[t].link] # None
    BY DEF AcceptInvite
  <2>2. QED
    BY <2>1 DEF Inv, BarredAreGone
<1>2. Spec => [][Out]_vars
  BY <1>1, Inductive, PTL DEF Spec
<1>3. QED
  BY <1>2 DEF RemovedStaysOut

-----------------------------------------------------------------------------
(* GitHub connections. *)

(* What a request or a refresh of GitHub's connections may be at.          *)
ClaimDesk == [at : {"claim"}, link : Hub!Links, person : Persons]
GoneDesk == [at : {"uninstall", "forget"}, inst : Hub!Installs, scope : Hub!Scopes]
RepoDesk == [at : {"check", "grant"}, repo : Handles, inst : Hub!Installs \cup {None}]
ReadThread == [at : {"read"}, scope : Hub!Scopes]
ApplyThread == [at : {"apply"}, wanted : Hub!Authors]

(* Sets of naturals have a least element, and finite ones a greatest:      *)
(* else there would be a least number of them that have none.              *)
LEMMA LeastOf ==
  ASSUME NEW s \in SUBSET Nat, s # {}
  PROVE  \E x \in s : \A y \in s : x <= y
<1> DEFINE Lower == OpToRel(<, Nat)
<1>1. IsWellFoundedOn(Lower, Nat)
  BY NatLessThanWellFounded
<1>2. PICK x \in s : \A y \in s : ~(<<y, x>> \in Lower)
  <2> HIDE DEF Lower
  <2>1. QED
    BY <1>1, WFMin
<1>3. \A y \in s : ~(y < x)
  BY <1>2 DEF OpToRel
<1>4. QED
  BY <1>3

LEMMA MaxIsGreatest ==
  ASSUME NEW s \in SUBSET Nat, IsFiniteSet(s), s # {}
  PROVE  Hub!Max(s) \in s /\ \A x \in s : x <= Hub!Max(s)
<1> DEFINE Greatest(t) == \E x \in t : \A y \in t : x >= y
           Odd == {t \in SUBSET s : t # {} /\ ~Greatest(t)}
           Sizes == {Cardinality(t) : t \in Odd}
<1>1. \A t \in SUBSET s : IsFiniteSet(t) /\ Cardinality(t) \in Nat
  BY FS_Subset, FS_CardinalityType
<1>2. Odd = {}
  <2> SUFFICES ASSUME Odd # {} PROVE FALSE
    OBVIOUS
  <2>1. Sizes \in SUBSET Nat /\ Sizes # {}
    BY <1>1
  <2>2. PICK n \in Sizes : \A m \in Sizes : n <= m
    <3> HIDE DEF Sizes
    <3>1. QED
      BY <2>1, LeastOf
  <2>3. PICK t \in Odd : n = Cardinality(t)
    BY <2>2
  <2>4. PICK x \in t : TRUE
    BY <2>3
  <2> DEFINE rest == t \ {x}
  <2>5. Cardinality(rest) = Cardinality(t) - 1 /\ Cardinality(t) \in Nat
    BY <1>1, <2>3, <2>4, FS_RemoveElement
  <2>6. CASE rest = {}
    <3>1. \A y \in t : y = x
      BY <2>6
    <3>2. QED
      BY <2>3, <2>4, <3>1
  <2>7. CASE rest # {} /\ Greatest(rest)
    <3>1. PICK y \in rest : \A z \in rest : y >= z
      BY <2>7
    <3>2. x \in Nat /\ y \in Nat /\ \A z \in t : z \in Nat
      BY <2>3, <2>4, <3>1
    <3>3. CASE x >= y
      BY <2>3, <2>4, <3>1, <3>2, <3>3
    <3>4. CASE ~(x >= y)
      BY <2>3, <2>4, <3>1, <3>2, <3>4
    <3>5. QED
      BY <3>3, <3>4
  <2>8. CASE rest # {} /\ ~Greatest(rest)
    <3>1. rest \in Odd
      BY <2>3, <2>8
    <3>2. Cardinality(rest) \in Sizes
      BY <3>1
    <3>3. n <= Cardinality(rest)
      <4> HIDE DEF Sizes, rest
      <4>1. QED
        BY <2>2, <3>2
    <3>4. QED
      <4> HIDE DEF rest
      <4>1. QED
        BY <2>3, <2>5, <3>3
  <2>9. QED
    BY <2>6, <2>7, <2>8
<1>3. Greatest(s)
  BY <1>2
<1>4. QED
  BY <1>3 DEF Hub!Max

(* First: of some connections one came first, and which one it is hangs    *)
(* on their rows alone.                                                    *)
LEMMA FirstIsFirst ==
  ASSUME NEW s \in SUBSET Hub!Installs, s # {}, \A i \in s : rows[i].at \in Nat
  PROVE  Hub!First(s) \in s
<1> DEFINE ages == {rows[i].at : i \in s}
<1>1. ages \in SUBSET Nat /\ ages # {}
  OBVIOUS
<1>2. PICK x \in ages : \A y \in ages : x <= y
  <2> HIDE DEF ages
  <2>1. QED
    BY <1>1, LeastOf
<1>3. \E i \in s : \A j \in s : rows[i].at <= rows[j].at
  BY <1>2
<1>4. QED
  BY <1>3 DEF Hub!First

LEMMA FirstStays ==
  ASSUME NEW s \in SUBSET Hub!Installs, \A i \in s : rows'[i] = rows[i]
  PROVE  Hub!First(s) = CHOOSE i \in s : \A j \in s : rows'[i].at <= rows'[j].at
<1>1. \A i, j \in s : (rows'[i].at <= rows'[j].at) <=> (rows[i].at <= rows[j].at)
  OBVIOUS
<1>2. QED
  BY <1>1 DEF Hub!First

(* What the store answers.                                                 *)
LEMMA RowsAre ==
  ASSUME Hub!TypeOK, NEW i \in Hub!Installs, rows[i] # None
  PROVE  rows[i] \in Hub!Row
BY DEF Hub!TypeOK

LEMMA ReachIs ==
  ASSUME Hub!TypeOK
  PROVE  /\ Hub!Reach(tenant) \in SUBSET Hub!Installs
         /\ Hub!Own(tenant) \in SUBSET Hub!Reach(tenant)
         /\ \A i \in Hub!Reach(tenant) : rows[i] \in Hub!Row
BY RowsAre DEF Hub!Reach, Hub!Own

(* Latest: the ranks of finitely many rows have a greatest.                *)
LEMMA LatestIsRank ==
  ASSUME Hub!TypeOK
  PROVE  Hub!Latest \in Nat
<1> DEFINE held == {i \in Hub!Installs : rows[i] # None}
           ranks == {rows[j].at : j \in held}
<1>1. \A i \in held : rows[i].at \in Nat
  BY RowsAre DEF Hub!Row
<1>2. IsFiniteSet(Hub!Installs)
  BY HubAssumption, FS_Interval DEF Hub!ConstantsAssumption, Hub!Installs
<1>3. IsFiniteSet(held)
  BY <1>2, FS_Subset
<1>4. IsFiniteSet(ranks)
  <2> DEFINE rank == [j \in held |-> rows[j].at]
  <2>1. rank \in Surjection(held, ranks)
    BY DEF Surjection
  <2>2. QED
    <3> HIDE DEF held, ranks, rank
    <3>1. QED
      BY <1>3, <2>1, FS_Surjection
<1>5. IsFiniteSet({0} \cup ranks)
  <2>1. IsFiniteSet({0})
    BY FS_Singleton
  <2> HIDE DEF ranks
  <2>2. QED
    BY <1>4, <2>1, FS_Union
<1>6. {0} \cup ranks \in SUBSET Nat /\ {0} \cup ranks # {}
  BY <1>1
<1>7. Hub!Max({0} \cup ranks) \in Nat
  <2> HIDE DEF ranks
  <2>1. QED
    BY <1>5, <1>6, MaxIsGreatest
<1>8. QED
  BY <1>7 DEF Hub!Latest

(* InstallationFor: an agent is given an installation it reaches, or       *)
(* none.                                                                   *)
LEMMA InstallationIsReached ==
  ASSUME Hub!TypeOK, NEW a \in Handles
  PROVE  Hub!InstallationFor(a) # None =>
           Hub!InstallationFor(a) \in Hub!Reach(tenant)
               /\ Hub!InstallationFor(a) \in Hub!Installs
<1>1. \A i \in Hub!Reach(tenant) : rows[i].at \in Nat
  BY ReachIs DEF Hub!Row
<1>2. Hub!OnAccount(a) # {} => Hub!First(Hub!OnAccount(a)) \in Hub!OnAccount(a)
  BY <1>1, ReachIs, FirstIsFirst DEF Hub!OnAccount
<1>3. Hub!OnAccount(a) \cap Hub!Own(tenant) # {}
          => Hub!First(Hub!OnAccount(a) \cap Hub!Own(tenant)) \in Hub!OnAccount(a)
  BY <1>1, ReachIs, FirstIsFirst DEF Hub!OnAccount
<1>4. QED
  BY <1>2, <1>3, ReachIs DEF Hub!InstallationFor, Hub!OnAccount

(* AuthorFor: somebody, and where an account is proved, who proved one.    *)
LEMMA AuthorIsSomebody ==
  ASSUME Hub!TypeOK
  PROVE  /\ Hub!AuthorFor \in Hub!Authors
         /\ LET nearest == IF Hub!Own(tenant) # {} THEN Hub!Own(tenant) ELSE Hub!Reach(tenant) IN
            Hub!Named(nearest) # {}
                => Hub!First(Hub!Named(nearest)) \in Hub!Named(nearest)
<1> DEFINE nearest == IF Hub!Own(tenant) # {} THEN Hub!Own(tenant) ELSE Hub!Reach(tenant)
<1>1. Hub!Named(nearest) \in SUBSET Hub!Installs
          /\ \A i \in Hub!Named(nearest) : rows[i] \in Hub!Row
  BY ReachIs DEF Hub!Named
<1>2. Hub!Named(nearest) # {} => Hub!First(Hub!Named(nearest)) \in Hub!Named(nearest)
  <2>1. \A i \in Hub!Named(nearest) : rows[i].at \in Nat
    BY <1>1 DEF Hub!Row
  <2> HIDE DEF nearest
  <2>2. QED
    BY <1>1, <2>1, FirstIsFirst
<1>3. Hub!TokenOwner \in Hub!Authors
  BY DEF Hub!TokenOwner, Hub!Authors
<1>4. QED
  <2> HIDE DEF nearest
  <2>1. Hub!Named(nearest) # {}
            => rows[Hub!First(Hub!Named(nearest))].person \in Hub!Authors
    BY <1>1, <1>2 DEF Hub!Row, Hub!Authors
  <2>2. Hub!AuthorFor \in Hub!Authors
    BY <1>3, <2>1 DEF Hub!AuthorFor, nearest, Hub!Authors
  <2>3. QED
    BY <1>2, <2>2 DEF nearest

(* The kinds of requests and of refreshes.                                 *)
LEMMA DesksAre ==
  ASSUME Hub!TypeOK, NEW d \in Hands
  PROVE  /\ hand[d] = Hub!Idle \/ hand[d] \in ClaimDesk \/ hand[d] \in GoneDesk
                \/ hand[d] \in RepoDesk
         /\ hand[d].at = "claim" => hand[d] \in ClaimDesk
         /\ hand[d].at \in {"uninstall", "forget"} => hand[d] \in GoneDesk
         /\ hand[d].at \in {"check", "grant"} => hand[d] \in RepoDesk
BY DEF Hub!TypeOK, ClaimDesk, GoneDesk, RepoDesk, Hub!Idle

LEMMA ThreadsAre ==
  ASSUME Hub!TypeOK, NEW t \in Threads
  PROVE  /\ thread[t] = Hub!Idle \/ thread[t] \in ReadThread \/ thread[t] \in ApplyThread
         /\ thread[t].at = "read" => thread[t] \in ReadThread
         /\ thread[t].at = "apply" => thread[t] \in ApplyThread
BY DEF Hub!TypeOK, ReadThread, ApplyThread, Hub!Idle

(* A request, a refresh or a bound moves within its type.                  *)
LEMMA DeskTyped ==
  ASSUME Hub!TypeOK, NEW d \in Hands, NEW to,
         to = Hub!Idle \/ to \in ClaimDesk \/ to \in GoneDesk \/ to \in RepoDesk,
         hand' = [hand EXCEPT ![d] = to]
  PROVE  hand' \in [Hands -> {Hub!Idle}
         \cup [at : {"claim"}, link : Hub!Links, person : Persons]
         \cup [at : {"uninstall", "forget"}, inst : Hub!Installs, scope : Hub!Scopes]
         \cup [at : {"check", "grant"}, repo : Handles, inst : Hub!Installs \cup {None}]]
BY DEF Hub!TypeOK, ClaimDesk, GoneDesk, RepoDesk

LEMMA ThreadTyped ==
  ASSUME Hub!TypeOK, NEW t \in Threads, NEW to, to = Hub!Idle \/ to \in ReadThread
             \/ to \in ApplyThread,
         thread' = [thread EXCEPT ![t] = to]
  PROVE  thread' \in [Threads -> {Hub!Idle}
         \cup [at : {"read"}, scope : Hub!Scopes] \cup [at : {"apply"}, wanted :
             Hub!Authors]]
BY DEF Hub!TypeOK, ReadThread, ApplyThread

LEMMA BoundsTyped ==
  ASSUME Hub!TypeOK, UNCHANGED Hub!bounds \/ Hub!Trouble
  PROVE  started' \in 0..MaxLinks /\ claims' \in 0..MaxClaims
             /\ failures' \in 0..MaxFailures
BY HubAssumption DEF Hub!TypeOK, Hub!bounds, Hub!Trouble, Hub!ConstantsAssumption

(* The types of the connections.                                           *)
LEMMA HubTypeInit == Hub!Init => Hub!TypeOK
<1> SUFFICES ASSUME Hub!Init PROVE Hub!TypeOK
  OBVIOUS
<1> USE HubAssumption DEF Hub!Init, Hub!ConstantsAssumption
<1>1. owner \in [Handles -> Persons] /\ live \subseteq Hub!Installs
          /\ links \subseteq Hub!Links
         /\ installed \in [Hub!Installs -> Handles \cup {None}]
  BY DEF Hub!Installs
<1>2. rows \in [Hub!Installs -> Hub!Row \cup {None}]
  <2>1. PICK old \in {None} \cup [org : {tenant.org}, client : {tenant.client}, person :
                 {None}, at : {0}] :
            rows = [i \in Hub!Installs |-> IF i = 1 THEN old ELSE None]
    OBVIOUS
  <2>2. old \in Hub!Row \cup {None}
    BY DEF Hub!Row
  <2>3. QED
    BY <2>1, <2>2
<1>3. author \in Hub!Authors
  <2>1. \A i \in Hub!Reach(tenant) : i \in Hub!Installs /\ rows[i] \in Hub!Row
            /\ rows[i].person = None
    BY <1>2 DEF Hub!Reach
  <2>2. Hub!Named(Hub!Reach(tenant)) = {} /\ Hub!Named(Hub!Own(tenant)) = {}
    BY <2>1 DEF Hub!Named, Hub!Own
  <2>3. Hub!AuthorFor \in {None, Hub!TokenOwner}
    BY <2>2 DEF Hub!AuthorFor
  <2>4. QED
    BY <2>3 DEF Hub!TokenOwner, Hub!Authors
<1>4. /\ hand = [d \in Hands |-> Hub!Idle] /\ thread = [t \in Threads |-> Hub!Idle]
             /\ mint = Hub!Idle
      /\ tenant \in [org : Tenants, client : Clients] /\ box = "naming"
  OBVIOUS
<1>5. /\ started \in 0..MaxLinks /\ claims \in 0..MaxClaims /\ failures \in 0..MaxFailures
      /\ decided = None /\ excused = FALSE /\ late = FALSE /\ authorised = {}
  OBVIOUS
<1>6. /\ starter \in [Hub!Installs -> Persons \cup {None}]
      /\ grants \in [Handles -> {None, "fleet_token", "github_app"}]
  OBVIOUS
<1>7. /\ hand \in [Hands -> {Hub!Idle}] /\ thread \in [Threads -> {Hub!Idle}]
             /\ mint \in {Hub!Idle}
      /\ tenant \in [org : Tenants, client : Clients] /\ box \in {"naming", "settled"}
  BY <1>4
<1>8. QED
  <2> HIDE HubAssumption DEF Hub!Init, Hub!ConstantsAssumption
  <2>1. QED
    BY <1>1, <1>2, <1>3, <1>4, <1>5, <1>6, <1>7 DEF Hub!TypeOK

LEMMA HubTypeNext == Hub!TypeOK /\ [Hub!Next]_(Hub!vars) => Hub!TypeOK'
<1> SUFFICES ASSUME Hub!TypeOK, [Hub!Next]_(Hub!vars) PROVE Hub!TypeOK'
  OBVIOUS
<1> USE DEF Hub!github, Hub!store, Hub!machine, Hub!history
<1>1. ASSUME NEW a \in Handles, Hub!Installing(a) PROVE Hub!TypeOK'
  BY <1>1, BoundsTyped DEF Hub!Installing, Hub!TypeOK, Hub!bounds
<1>2. ASSUME NEW a \in Handles, Hub!Revoke(a) PROVE Hub!TypeOK'
  BY <1>2, BoundsTyped DEF Hub!Revoke, Hub!TypeOK
<1>3. ASSUME NEW a \in Handles, Hub!Mint(a) PROVE Hub!TypeOK'
  BY <1>3, BoundsTyped DEF Hub!Mint, Hub!TypeOK
<1>4. ASSUME NEW i \in Hub!Installs, Hub!RemovedThere(i) PROVE Hub!TypeOK'
  BY <1>4, BoundsTyped DEF Hub!RemovedThere, Hub!TypeOK
<1>5. ASSUME NEW l \in Hub!Links, Hub!Starts(l) PROVE Hub!TypeOK'
  BY <1>5, HubAssumption DEF Hub!Starts, Hub!TypeOK, Hub!ConstantsAssumption
<1>6. ASSUME NEW p \in Persons, NEW s \in Hub!Scopes, Hub!Connect(p, s) PROVE Hub!TypeOK'
  <2>1. [scope |-> s, by |-> p, inst |-> None] \in Hub!Links
    BY DEF Hub!Links
  <2>2. QED
    BY <1>5, <1>6, <2>1 DEF Hub!Connect
<1>7. ASSUME NEW p \in Persons, NEW i \in Hub!Installs, Hub!Reconnect(p, i)
      PROVE Hub!TypeOK'
  <2>1. rows[i] \in Hub!Row
    BY <1>7, RowsAre DEF Hub!Reconnect
  <2>2. [scope |-> [org |-> rows[i].org, client |-> rows[i].client], by |-> p,
            inst |-> i] \in Hub!Links
    BY <2>1 DEF Hub!Links, Hub!Scopes, Hub!Row
  <2>3. QED
    BY <1>5, <1>7, <2>2 DEF Hub!Reconnect
<1>8. ASSUME NEW p \in Persons, NEW l \in links, NEW i \in Hub!Installs,
                 Hub!Authorize(p, l, i)
      PROVE Hub!TypeOK'
  <2>1. l \in Hub!Links
    BY DEF Hub!TypeOK
  <2>2. [l EXCEPT !.inst = i] \in Hub!Links
    BY <2>1 DEF Hub!Links
  <2>3. QED
    BY <1>8, <2>2, BoundsTyped DEF Hub!Authorize, Hub!TypeOK
<1>9. ASSUME NEW d \in Hands, NEW p \in Persons, NEW l \in links, Hub!Claim(d, p, l)
      PROVE Hub!TypeOK'
  <2>1. [at |-> "claim", link |-> l, person |-> p] \in ClaimDesk
    BY DEF Hub!TypeOK, ClaimDesk
  <2>2. claims' \in 0..MaxClaims
    BY <1>9, HubAssumption DEF Hub!Claim, Hub!TypeOK, Hub!ConstantsAssumption
  <2>3. QED
    BY <1>9, <2>1, <2>2, DeskTyped DEF Hub!Claim, Hub!TypeOK
<1>10. ASSUME NEW d \in Hands, NEW p \in Persons, NEW a \in Handles, Hub!Grant(d, p, a)
       PROVE Hub!TypeOK'
  <2>1. Hub!InstallationFor(a) \in Hub!Installs \cup {None}
    BY InstallationIsReached
  <2>2. [at |-> "check", repo |-> a, inst |-> Hub!InstallationFor(a)] \in RepoDesk
    BY <2>1 DEF RepoDesk
  <2>3. QED
    BY <1>10, <2>2, BoundsTyped, DeskTyped DEF Hub!Grant, Hub!TypeOK
<1>11. ASSUME NEW d \in Hands, NEW i \in Hub!Installs, Hub!Disconnect(d, i)
       PROVE Hub!TypeOK'
  <2>1. rows[i] \in Hub!Row
    BY <1>11, RowsAre DEF Hub!Disconnect
  <2>2. [at |-> "uninstall", inst |-> i,
            scope |-> [org |-> rows[i].org, client |-> rows[i].client]] \in GoneDesk
    BY <2>1 DEF GoneDesk, Hub!Scopes, Hub!Row
  <2>3. QED
    BY <1>11, <2>2, BoundsTyped, DeskTyped DEF Hub!Disconnect, Hub!TypeOK
<1>12. ASSUME NEW d \in Hands, Hub!Claims(d) PROVE Hub!TypeOK'
  <2>1. hand[d] \in ClaimDesk
    BY <1>12, DesksAre DEF Hub!Claims
  <2> DEFINE l == hand[d].link
             i == l.inst
             s == l.scope
             row == [org |-> s.org, client |-> s.client, person |-> hand[d].person,
                     at |-> IF rows[i] = None THEN Hub!Latest + 1 ELSE rows[i].at]
             same == rows[i] # None
                 => [org |-> rows[i].org, client |-> rows[i].client] = s
  <2>2. l \in Hub!Links /\ s \in Hub!Scopes /\ i \in Hub!Installs \cup {None}
            /\ l.by \in Persons /\ hand[d].person \in Persons
    BY <2>1 DEF ClaimDesk, Hub!Links
  <2>3. hand' = [hand EXCEPT ![d] = Hub!Idle]
    BY <1>12 DEF Hub!Claims
  <2>4. i \in Hub!Installs => row \in Hub!Row
    BY <2>2, LatestIsRank, RowsAre DEF Hub!Row, Hub!Scopes
  <2>5. rows' \in [Hub!Installs -> Hub!Row \cup {None}]
            /\ starter' \in [Hub!Installs -> Persons \cup {None}]
           /\ excused' \in BOOLEAN /\ late' \in BOOLEAN /\ UNCHANGED decided
    <3>1. CASE ~same
      BY <1>12, <3>1 DEF Hub!Claims, Hub!TypeOK
    <3>2. CASE same
      <4>1. PICK gone : rows' = [j \in Hub!Installs |->
                  IF j = i THEN row ELSE IF j \in gone THEN None ELSE rows[j]]
        BY <1>12, <3>2 DEF Hub!Claims
      <4>2. rows' \in [Hub!Installs -> Hub!Row \cup {None}]
        BY <2>4, <4>1 DEF Hub!TypeOK
      <4>3. starter' = [starter EXCEPT ![i] = l.by] /\ late' = (late \/ i \notin live)
        BY <1>12, <3>2 DEF Hub!Claims
      <4>4. excused' \in BOOLEAN /\ UNCHANGED decided
        BY <1>12, <3>2 DEF Hub!Claims, Hub!Changes
      <4>5. QED
        BY <2>2, <4>2, <4>3, <4>4 DEF Hub!TypeOK
    <3>3. QED
      BY <3>1, <3>2
  <2>6. thread' = thread \/ Hub!Refreshes(s)
    BY <1>12 DEF Hub!Claims
  <2>7. ASSUME Hub!Refreshes(s)
        PROVE  thread' \in [Threads -> {Hub!Idle} \cup [at : {"read"}, scope :
                   Hub!Scopes] \cup [at : {"apply"}, wanted : Hub!Authors]]
    <3>1. PICK t \in Threads :
                   thread' = [thread EXCEPT ![t] = [at |-> "read", scope |-> s]]
      BY <2>7 DEF Hub!Refreshes
    <3>2. [at |-> "read", scope |-> s] \in ReadThread
      BY <2>2 DEF ReadThread
    <3>3. QED
      BY <3>1, <3>2, ThreadTyped
  <2>8. UNCHANGED <<Hub!github, links, grants, tenant, Hub!machine, mint, Hub!bounds,
                      authorised>>
    BY <1>12 DEF Hub!Claims
  <2>9. QED
    BY <2>3, <2>5, <2>6, <2>7, <2>8, DeskTyped, BoundsTyped DEF Hub!TypeOK
<1>13. ASSUME NEW d \in Hands, Hub!Uninstalls(d) PROVE Hub!TypeOK'
  <2>1. hand[d] \in GoneDesk
    BY <1>13, DesksAre DEF Hub!Uninstalls
  <2>2. [hand[d] EXCEPT !.at = "forget"] \in GoneDesk
    BY <2>1 DEF GoneDesk
  <2>3. hand' = [hand EXCEPT ![d] = [hand[d] EXCEPT !.at = "forget"]]
            \/ hand' = [hand EXCEPT ![d] = Hub!Idle]
    BY <1>13 DEF Hub!Uninstalls, Hub!TypeOK
  <2>4. live' \subseteq Hub!Installs
    BY <1>13 DEF Hub!Uninstalls, Hub!TypeOK
  <2>5. UNCHANGED Hub!bounds \/ Hub!Trouble
    BY <1>13 DEF Hub!Uninstalls
  <2>6. QED
    BY <1>13, <2>2, <2>3, <2>4, <2>5, DeskTyped, BoundsTyped DEF Hub!Uninstalls,
       Hub!TypeOK
<1>14. ASSUME NEW d \in Hands, Hub!Forgets(d) PROVE Hub!TypeOK'
  <2>1. hand[d] \in GoneDesk
    BY <1>14, DesksAre DEF Hub!Forgets
  <2> DEFINE s == hand[d].scope
  <2>2. s \in Hub!Scopes
    BY <2>1 DEF GoneDesk
  <2>3. PICK t \in Threads : thread' = [thread EXCEPT ![t] = [at |-> "read", scope |-> s]]
    BY <1>14 DEF Hub!Forgets, Hub!Refreshes
  <2>4. [at |-> "read", scope |-> s] \in ReadThread
    BY <2>2 DEF ReadThread
  <2>5. rows' \in [Hub!Installs -> Hub!Row \cup {None}]
    BY <1>14 DEF Hub!Forgets, Hub!TypeOK
  <2>6. excused' \in BOOLEAN /\ UNCHANGED decided
    BY <1>14 DEF Hub!Forgets, Hub!Changes
  <2>7. QED
    BY <1>14, <2>3, <2>4, <2>5, <2>6, ThreadTyped, DeskTyped, BoundsTyped DEF
       Hub!Forgets, Hub!TypeOK
<1>15. ASSUME NEW d \in Hands, Hub!Checks(d) PROVE Hub!TypeOK'
  <2>1. hand[d] \in RepoDesk
    BY <1>15, DesksAre DEF Hub!Checks
  <2>2. [hand[d] EXCEPT !.at = "grant"] \in RepoDesk
    BY <2>1 DEF RepoDesk
  <2>3. hand' = [hand EXCEPT ![d] = [hand[d] EXCEPT !.at = "grant"]]
            \/ hand' = [hand EXCEPT ![d] = Hub!Idle]
    BY <1>15 DEF Hub!Checks, Hub!TypeOK
  <2>4. UNCHANGED Hub!bounds \/ Hub!Trouble
    BY <1>15 DEF Hub!Checks
  <2>5. QED
    BY <1>15, <2>2, <2>3, <2>4, DeskTyped, BoundsTyped DEF Hub!Checks, Hub!TypeOK
<1>16. ASSUME NEW d \in Hands, Hub!Grants(d) PROVE Hub!TypeOK'
  <2>1. hand[d] \in RepoDesk
    BY <1>16, DesksAre DEF Hub!Grants
  <2>2. hand[d].repo \in Handles
    BY <2>1 DEF RepoDesk
  <2>3. grants' \in [Handles -> {None, "fleet_token", "github_app"}]
            /\ authorised' \subseteq Handles
    BY <1>16, <2>2 DEF Hub!Grants, Hub!TypeOK
  <2>4. QED
    BY <1>16, <2>3, DeskTyped, BoundsTyped DEF Hub!Grants, Hub!TypeOK
<1>17. ASSUME NEW t \in Threads, Hub!AsksRefresh(t) PROVE Hub!TypeOK'
  <2>1. [at |-> "read", scope |-> tenant] \in ReadThread
    BY DEF ReadThread, Hub!TypeOK, Hub!Scopes
  <2>2. QED
    BY <1>17, <2>1, ThreadTyped, BoundsTyped DEF Hub!AsksRefresh, Hub!Steps, Hub!TypeOK
<1>18. ASSUME NEW t \in Threads, Hub!Reads(t) PROVE Hub!TypeOK'
  <2>1. [at |-> "apply", wanted |-> Hub!AuthorFor] \in ApplyThread
    BY AuthorIsSomebody DEF ApplyThread
  <2>2. [at |-> "apply", wanted |-> None] \in ApplyThread
    BY DEF ApplyThread, Hub!Authors
  <2>3. \E to : thread' = [thread EXCEPT ![t] = to]
            /\ (to = Hub!Idle \/ to \in ApplyThread)
    BY <1>18, <2>1, <2>2 DEF Hub!Reads, Hub!Steps
  <2>4. excused' \in BOOLEAN /\ decided' \in Threads \cup {None}
    BY <1>18 DEF Hub!Reads, Hub!TypeOK
  <2>5. UNCHANGED Hub!bounds \/ Hub!Trouble
    BY <1>18 DEF Hub!Reads
  <2>6. QED
    BY <1>18, <2>3, <2>4, <2>5, ThreadTyped, BoundsTyped DEF Hub!Reads, Hub!TypeOK
<1>19. ASSUME NEW t \in Threads, Hub!Applies(t) PROVE Hub!TypeOK'
  <2>1. thread[t].wanted \in Hub!Authors
    BY <1>19, ThreadsAre DEF Hub!Applies, ApplyThread
  <2>2. author' \in Hub!Authors /\ excused' \in BOOLEAN /\ decided' \in Threads \cup {None}
    BY <1>19, <2>1 DEF Hub!Applies, Hub!TypeOK
  <2>3. UNCHANGED Hub!bounds \/ Hub!Trouble
    BY <1>19 DEF Hub!Applies
  <2>4. QED
    BY <1>19, <2>2, <2>3, ThreadTyped, BoundsTyped DEF Hub!Applies, Hub!Steps,
       Hub!TypeOK
<1>20. ASSUME Hub!Created PROVE Hub!TypeOK'
  BY <1>20, BoundsTyped DEF Hub!Created, Hub!TypeOK
<1>21. ASSUME Hub!Chooses PROVE Hub!TypeOK'
  <2>1. mint.repo \in Handles
    BY <1>21 DEF Hub!Chooses, Hub!TypeOK, Hub!Idle
  <2>2. Hub!InstallationFor(mint.repo) # None
            => Hub!InstallationFor(mint.repo) \in Hub!Installs
    BY <2>1, InstallationIsReached
  <2>3. QED
    BY <1>21, <2>1, <2>2, BoundsTyped DEF Hub!Chooses, Hub!TypeOK
<1>22. ASSUME Hub!Spends PROVE Hub!TypeOK'
  <2>1. mint.repo \in Handles
            /\ mint \in [at : {"choose", "spend", "fleet"}, repo : Handles]
    BY <1>22 DEF Hub!Spends, Hub!TypeOK, Hub!Idle
  <2>2. mint' = Hub!Idle \/ mint' \in [at : {"choose", "spend", "fleet"}, repo : Handles]
    BY <1>22, <2>1 DEF Hub!Spends
  <2>3. QED
    BY <1>22, <2>2, BoundsTyped DEF Hub!Spends, Hub!TypeOK
<1>23. ASSUME Hub!Tokens PROVE Hub!TypeOK'
  <2>1. mint \in [at : {"token", "app"}, repo : Handles, inst : Hub!Installs]
    BY <1>23 DEF Hub!Tokens, Hub!TypeOK, Hub!Idle
  <2>2. mint' = Hub!Idle
            \/ mint' \in [at : {"token", "app"}, repo : Handles, inst : Hub!Installs]
    BY <1>23, <2>1 DEF Hub!Tokens
  <2>3. UNCHANGED Hub!bounds \/ Hub!Trouble
    BY <1>23 DEF Hub!Tokens
  <2>4. QED
    BY <1>23, <2>2, <2>3, BoundsTyped DEF Hub!Tokens, Hub!TypeOK
<1>24. ASSUME Hub!Crash PROVE Hub!TypeOK'
  BY <1>24, BoundsTyped DEF Hub!Crash, Hub!TypeOK
<1>25. ASSUME UNCHANGED Hub!vars PROVE Hub!TypeOK'
  BY <1>25, BoundsTyped DEF Hub!vars, Hub!TypeOK
<1>26. QED
  BY <1>1, <1>2, <1>3, <1>4, <1>6, <1>7, <1>8, <1>9, <1>10, <1>11, <1>12, <1>13, <1>14,
     <1>15, <1>16, <1>17, <1>18, <1>19, <1>20, <1>21, <1>22, <1>23, <1>24, <1>25 DEF
     Hub!Next

(* GitHub has one installation of the App for an account, and it was made  *)
(* before anybody here speaks of it.                                       *)
OneEach ==
    /\ \A i \in live : installed[i] # None
    /\ \A i, j \in live : installed[i] = installed[j] => i = j
Recorded == \A i \in Hub!Installs : rows[i] # None => installed[i] # None
(* A claim GitHub vouched for is of the account of who started its link.   *)
ProvedByItsOwner ==
    \A d \in Hands : hand[d].at = "claim" =>
        LET state == hand[d].link IN
        /\ state.inst \in Hub!Installs /\ installed[state.inst] # None
        /\ state.by = owner[installed[state.inst]]
(* What is being forgotten here is gone there.                             *)
LetGo ==
    \A d \in Hands : hand[d].at \in {"uninstall", "forget"} =>
        /\ installed[hand[d].inst] # None
        /\ hand[d].at = "forget" => hand[d].inst \notin live
Connected == OneEach /\ Recorded /\ ProvedByItsOwner /\ LetGo /\ Hub!ConnectedByItsOwner

(* A step of one request that touches no connection.                       *)
LEMMA DeskMoves ==
  ASSUME Hub!TypeOK, Connected, NEW d \in Hands, NEW to, hand' = [hand EXCEPT ![d] = to],
         UNCHANGED <<owner, installed, live, rows, starter>>,
         to.at = "claim" =>
             /\ to.link.inst \in Hub!Installs /\ installed[to.link.inst] # None
             /\ to.link.by = owner[installed[to.link.inst]],
         to.at \in {"uninstall", "forget"} =>
             installed[to.inst] # None /\ (to.at = "forget" => to.inst \notin live)
  PROVE  Connected'
<1> hand'[d] = to /\ \A x \in Hands : x # d => hand'[x] = hand[x]
  BY DEF Hub!TypeOK
<1>1. OneEach' /\ Recorded' /\ Hub!ConnectedByItsOwner'
  BY DEF Connected, OneEach, Recorded, Hub!ConnectedByItsOwner
<1>2. ProvedByItsOwner'
  BY DEF Connected, ProvedByItsOwner
<1>3. LetGo'
  BY DEF Connected, LetGo
<1>4. QED
  BY <1>1, <1>2, <1>3 DEF Connected

(* The connections are their owners', at first and after every step.       *)
LEMMA ConnectedInit == Hub!Init => Connected
<1> SUFFICES ASSUME Hub!Init PROVE Connected
  OBVIOUS
<1> USE HubAssumption DEF Hub!ConstantsAssumption
<1>1. \A i \in Hub!Installs : (rows[i] # None <=> installed[i] # None)
          /\ (i \in live => i = 1 /\ installed[i] # None)
  BY DEF Hub!Init
<1>2. \A d \in Hands : hand[d] = Hub!Idle
  BY DEF Hub!Init
<1>3. live \subseteq Hub!Installs /\ \A i \in Hub!Installs : starter[i] = None
  BY HubTypeInit DEF Hub!Init, Hub!TypeOK
<1>4. QED
  BY <1>1, <1>2, <1>3 DEF Connected, OneEach, Recorded, ProvedByItsOwner, LetGo,
     Hub!ConnectedByItsOwner, Hub!Idle

LEMMA ConnectedNext == Hub!TypeOK /\ Connected /\ [Hub!Next]_(Hub!vars) => Connected'
<1> SUFFICES ASSUME Hub!TypeOK, Connected, [Hub!Next]_(Hub!vars) PROVE Connected'
  OBVIOUS
<1> USE DEF Hub!github, Hub!store, Hub!machine, Hub!history
<1>1. ASSUME NEW a \in Handles, Hub!Installing(a) PROVE Connected'
  <2>1. PICK i \in Hub!Installs : installed[i] = None
                 /\ installed' = [installed EXCEPT ![i] = a]
                              /\ live' = live \cup {i}
    BY <1>1 DEF Hub!Installing
  <2>2. installed'[i] = a /\ a # None /\ \A j \in Hub!Installs : j # i
            => installed'[j] = installed[j]
    BY <2>1, HubAssumption DEF Hub!TypeOK, Hub!ConstantsAssumption
  <2>3. UNCHANGED <<owner, rows, hand, starter>> /\ \A j \in live : installed[j] # a
    BY <1>1 DEF Hub!Installing
  <2>4. OneEach' /\ Recorded'
    BY <2>1, <2>2, <2>3 DEF Connected, OneEach, Recorded, Hub!TypeOK
  <2>5. \A j \in Hub!Installs : installed[j] # None => j # i
    BY <2>1
  <2>6. ProvedByItsOwner'
    BY <2>2, <2>3, <2>5 DEF Connected, ProvedByItsOwner
  <2>7. LetGo'
    <3>1. \A d \in Hands : hand[d].at \in {"uninstall", "forget"}
              => hand[d].inst \in Hub!Installs
      BY DesksAre DEF GoneDesk
    <3>2. QED
      BY <2>1, <2>2, <2>3, <2>5, <3>1 DEF Connected, LetGo
  <2>8. Hub!ConnectedByItsOwner'
    BY <2>2, <2>3, <2>5 DEF Connected, Hub!ConnectedByItsOwner, Recorded
  <2>9. QED
    BY <2>4, <2>6, <2>7, <2>8 DEF Connected
<1>2. ASSUME NEW i \in Hub!Installs, Hub!RemovedThere(i) PROVE Connected'
  BY <1>2 DEF Hub!RemovedThere, Connected, OneEach, Recorded, ProvedByItsOwner, LetGo,
     Hub!ConnectedByItsOwner
<1>3. ASSUME NEW d \in Hands, NEW p \in Persons, NEW l \in links, Hub!Claim(d, p, l)
      PROVE Connected'
  <2> DEFINE to == [at |-> "claim", link |-> l, person |-> p]
  <2>1. l \in Hub!Links /\ l.inst \in live /\ live \subseteq Hub!Installs
            /\ l.by = owner[installed[l.inst]]
    BY <1>3 DEF Hub!Claim, Hub!StartedBy, Hub!ProvenAccount, Hub!TypeOK
  <2>2. installed[l.inst] # None
    BY <2>1 DEF Connected, OneEach
  <2>3. hand' = [hand EXCEPT ![d] = to]
            /\ UNCHANGED <<owner, installed, live, rows, starter>>
    BY <1>3 DEF Hub!Claim
  <2>4. QED
    BY <2>1, <2>2, <2>3, DeskMoves
<1>4. ASSUME NEW d \in Hands, NEW p \in Persons, NEW a \in Handles, Hub!Grant(d, p, a)
      PROVE Connected'
  BY <1>4, DeskMoves DEF Hub!Grant
<1>5. ASSUME NEW d \in Hands, NEW i \in Hub!Installs, Hub!Disconnect(d, i)
      PROVE Connected'
  <2>1. installed[i] # None
    BY <1>5 DEF Hub!Disconnect, Connected, Recorded
  <2>2. QED
    BY <1>5, <2>1, DeskMoves DEF Hub!Disconnect
<1>6. ASSUME NEW d \in Hands, Hub!Claims(d) PROVE Connected'
  <2> DEFINE l == hand[d].link
             i == l.inst
             s == l.scope
             row == [org |-> s.org, client |-> s.client, person |-> hand[d].person,
                     at |-> IF rows[i] = None THEN Hub!Latest + 1 ELSE rows[i].at]
             same == rows[i] # None
                 => [org |-> rows[i].org, client |-> rows[i].client] = s
  <2>1. i \in Hub!Installs /\ installed[i] # None /\ l.by = owner[installed[i]]
    BY <1>6 DEF Hub!Claims, Connected, ProvedByItsOwner
  <2>2. hand' = [hand EXCEPT ![d] = Hub!Idle] /\ UNCHANGED <<owner, installed, live>>
    BY <1>6 DEF Hub!Claims
  <2>3. CASE ~same
    BY <1>6, <2>2, <2>3, DeskMoves DEF Hub!Claims, Hub!Idle
  <2>4. CASE same
    <3>1. starter' = [starter EXCEPT ![i] = l.by]
      BY <1>6, <2>4 DEF Hub!Claims
    <3>2. PICK gone : rows' = [j \in Hub!Installs |->
                IF j = i THEN row ELSE IF j \in gone THEN None ELSE rows[j]]
      BY <1>6, <2>4 DEF Hub!Claims
    <3>3. \A j \in Hub!Installs : rows'[j] # None => j = i \/ rows[j] # None
      BY <3>2
    <3>4. Recorded'
      BY <2>1, <2>2, <3>3 DEF Connected, Recorded
    <3>5. Hub!ConnectedByItsOwner'
      BY <2>1, <2>2, <3>1, <3>3 DEF Connected, Hub!ConnectedByItsOwner, Hub!TypeOK
    <3>6. hand'[d] = Hub!Idle /\ \A x \in Hands : x # d => hand'[x] = hand[x]
      BY <2>2 DEF Hub!TypeOK
    <3>7. OneEach' /\ ProvedByItsOwner' /\ LetGo'
      BY <2>2, <3>6 DEF Connected, OneEach, ProvedByItsOwner, LetGo, Hub!Idle
    <3>8. QED
      BY <3>4, <3>5, <3>7 DEF Connected
  <2>5. QED
    BY <2>3, <2>4
<1>7. ASSUME NEW d \in Hands, Hub!Uninstalls(d) PROVE Connected'
  <2>1. hand[d] \in GoneDesk /\ installed[hand[d].inst] # None
    BY <1>7, DesksAre DEF Hub!Uninstalls, Connected, LetGo
  <2>2. CASE live' = live \ {hand[d].inst} /\ hand' = [hand EXCEPT ![d].at = "forget"]
    <3>1. UNCHANGED <<owner, installed, rows, starter>>
      BY <1>7 DEF Hub!Uninstalls
    <3>2. hand'[d].at = "forget" /\ hand'[d].inst = hand[d].inst /\ \A x \in Hands : x # d
              => hand'[x] = hand[x]
      BY <2>1, <2>2 DEF Hub!TypeOK, GoneDesk
    <3>3. OneEach' /\ Recorded' /\ Hub!ConnectedByItsOwner'
      BY <2>2, <3>1 DEF Connected, OneEach, Recorded, Hub!ConnectedByItsOwner
    <3>4. ProvedByItsOwner'
      BY <3>1, <3>2 DEF Connected, ProvedByItsOwner
    <3>5. LetGo'
      BY <2>1, <2>2, <3>1, <3>2 DEF Connected, LetGo
    <3>6. QED
      BY <3>3, <3>4, <3>5 DEF Connected
  <2>3. CASE live' = live /\ hand' = [hand EXCEPT ![d] = Hub!Idle]
    BY <1>7, <2>3, DeskMoves DEF Hub!Uninstalls, Hub!Idle
  <2>4. QED
    BY <1>7, <2>2, <2>3 DEF Hub!Uninstalls
<1>8. ASSUME NEW d \in Hands, Hub!Forgets(d) PROVE Connected'
  <2>1. hand' = [hand EXCEPT ![d] = Hub!Idle]
            /\ UNCHANGED <<owner, installed, live, starter>>
    BY <1>8 DEF Hub!Forgets
  <2>2. \A j \in Hub!Installs : rows'[j] # None => rows[j] # None
    BY <1>8 DEF Hub!Forgets, Hub!TypeOK
  <2>3. hand'[d] = Hub!Idle /\ \A x \in Hands : x # d => hand'[x] = hand[x]
    BY <2>1 DEF Hub!TypeOK
  <2>4. OneEach' /\ ProvedByItsOwner' /\ LetGo'
    BY <2>1, <2>3 DEF Connected, OneEach, ProvedByItsOwner, LetGo, Hub!Idle
  <2>5. Recorded' /\ Hub!ConnectedByItsOwner'
    BY <2>1, <2>2 DEF Connected, Recorded, Hub!ConnectedByItsOwner
  <2>6. QED
    BY <2>4, <2>5 DEF Connected
<1>9. ASSUME NEW d \in Hands, Hub!Checks(d) PROVE Connected'
  <2>1. hand[d] \in RepoDesk
    BY <1>9, DesksAre DEF Hub!Checks
  <2>2. [hand[d] EXCEPT !.at = "grant"].at = "grant"
    BY <2>1 DEF RepoDesk
  <2>3. hand' = [hand EXCEPT ![d] = [hand[d] EXCEPT !.at = "grant"]]
            \/ hand' = [hand EXCEPT ![d] = Hub!Idle]
    BY <1>9 DEF Hub!Checks, Hub!TypeOK
  <2>4. QED
    BY <1>9, <2>2, <2>3, DeskMoves DEF Hub!Checks, Hub!Idle
<1>10. ASSUME NEW d \in Hands, Hub!Grants(d) PROVE Connected'
  BY <1>10, DeskMoves DEF Hub!Grants, Hub!Idle
<1>11. ASSUME Hub!Crash PROVE Connected'
  BY <1>11 DEF Hub!Crash, Connected, OneEach, Recorded, ProvedByItsOwner, LetGo,
     Hub!ConnectedByItsOwner, Hub!Idle
<1>12. ASSUME UNCHANGED <<owner, installed, live, rows, starter, hand>> PROVE Connected'
  BY <1>12 DEF Connected, OneEach, Recorded, ProvedByItsOwner, LetGo,
     Hub!ConnectedByItsOwner
<1>13. ASSUME \/ \E a \in Handles : Hub!Revoke(a) \/ Hub!Mint(a)
              \/ \E p \in Persons, s \in Hub!Scopes : Hub!Connect(p, s)
              \/ \E p \in Persons, i \in Hub!Installs : Hub!Reconnect(p, i)
              \/ \E p \in Persons, l \in links, i \in Hub!Installs :
                     Hub!Authorize(p, l, i)
              \/ \E t \in Threads : Hub!AsksRefresh(t) \/ Hub!Reads(t) \/ Hub!Applies(t)
              \/ Hub!Created \/ Hub!Chooses \/ Hub!Spends \/ Hub!Tokens
                     \/ UNCHANGED Hub!vars
       PROVE  UNCHANGED <<owner, installed, live, rows, starter, hand>>
  BY <1>13 DEF Hub!Revoke, Hub!Mint, Hub!Connect, Hub!Reconnect, Hub!Starts,
     Hub!Authorize, Hub!AsksRefresh, Hub!Reads, Hub!Applies, Hub!Created, Hub!Chooses,
     Hub!Spends, Hub!Tokens, Hub!vars
<1>14. QED
  BY <1>1, <1>2, <1>3, <1>4, <1>5, <1>6, <1>7, <1>8, <1>9, <1>10, <1>11, <1>12, <1>13
     DEF Hub!Next

(* Of the credentials: a grant on the fleet token is one the operator      *)
(* made, and the installation git's helper waits for is of the agent's     *)
(* tenant while GitHub has it, unless a claim came late.                   *)
OperatorGranted == \A a \in Handles : grants[a] = "fleet_token" => a \in authorised
MintsForItsTenant ==
    mint.at = "token" =>
        /\ installed[mint.inst] # None
        /\ ~late /\ mint.inst \in live => mint.inst \in Hub!Reach(tenant)
Minted == OperatorGranted /\ MintsForItsTenant

(* Every step keeps what is said of the credentials: a row goes only when  *)
(* its installation is gone, or for a newer one of the account.            *)
LEMMA MintedNext == Hub!TypeOK /\ Connected /\ Minted /\ [Hub!Next]_(Hub!vars) => Minted'
<1> SUFFICES ASSUME Hub!TypeOK, Connected, Minted, [Hub!Next]_(Hub!vars) PROVE Minted'
  OBVIOUS
<1> USE DEF Hub!github, Hub!store, Hub!machine, Hub!history
<1>1. OperatorGranted'
  <2>1. ASSUME NEW a \in Handles, Hub!Revoke(a) PROVE OperatorGranted'
    BY <2>1, HubAssumption DEF Hub!Revoke, Minted, OperatorGranted, Hub!TypeOK,
       Hub!ConstantsAssumption
  <2>2. ASSUME NEW d \in Hands, Hub!Grants(d) PROVE OperatorGranted'
    <3>1. hand[d].repo \in Handles
      BY <2>2, DesksAre DEF Hub!Grants, RepoDesk
    <3>2. QED
      BY <2>2, <3>1 DEF Hub!Grants, Minted, OperatorGranted, Hub!TypeOK
  <2>3. ASSUME UNCHANGED <<grants, authorised>> PROVE OperatorGranted'
    BY <2>3 DEF Minted, OperatorGranted
  <2>4. ASSUME \/ \E a \in Handles : Hub!Installing(a) \/ Hub!Mint(a)
               \/ \E i \in Hub!Installs : Hub!RemovedThere(i)
               \/ \E p \in Persons, s \in Hub!Scopes : Hub!Connect(p, s)
               \/ \E p \in Persons, i \in Hub!Installs : Hub!Reconnect(p, i)
               \/ \E p \in Persons, l \in links, i \in Hub!Installs :
                      Hub!Authorize(p, l, i)
               \/ \E d \in Hands, p \in Persons, l \in links : Hub!Claim(d, p, l)
               \/ \E d \in Hands, p \in Persons, a \in Handles : Hub!Grant(d, p, a)
               \/ \E d \in Hands, i \in Hub!Installs : Hub!Disconnect(d, i)
               \/ \E d \in Hands : Hub!Claims(d) \/ Hub!Uninstalls(d) \/ Hub!Forgets(d)
                      \/ Hub!Checks(d)
               \/ \E t \in Threads : Hub!AsksRefresh(t) \/ Hub!Reads(t) \/ Hub!Applies(t)
               \/ Hub!Created \/ Hub!Chooses \/ Hub!Spends \/ Hub!Tokens \/ Hub!Crash
                      \/ UNCHANGED Hub!vars
        PROVE  UNCHANGED <<grants, authorised>>
    BY <2>4 DEF Hub!Installing, Hub!Mint, Hub!RemovedThere, Hub!Connect, Hub!Reconnect,
       Hub!Starts, Hub!Authorize, Hub!Claim, Hub!Grant, Hub!Disconnect, Hub!Claims,
       Hub!Uninstalls, Hub!Forgets, Hub!Checks, Hub!AsksRefresh, Hub!Reads, Hub!Applies,
       Hub!Created, Hub!Chooses, Hub!Spends, Hub!Tokens, Hub!Crash, Hub!vars
  <2>5. QED
    BY <2>1, <2>2, <2>3, <2>4 DEF Hub!Next
<1>2. MintsForItsTenant'
  <2>1. mint.at = "token" => mint.inst \in Hub!Installs
    BY DEF Hub!TypeOK, Hub!Idle
  <2>2. ASSUME NEW a \in Handles, Hub!Installing(a) PROVE MintsForItsTenant'
    <3>1. PICK i \in Hub!Installs : installed[i] = None
                   /\ installed' = [installed EXCEPT ![i] = a]
                                /\ live' = live \cup {i}
      BY <2>2 DEF Hub!Installing
    <3>2. UNCHANGED <<rows, tenant, mint, late>>
      BY <2>2 DEF Hub!Installing
    <3>3. Hub!Reach(tenant)' = Hub!Reach(tenant)
      BY <3>2 DEF Hub!Reach
    <3>4. QED
      BY <2>1, <3>1, <3>2, <3>3 DEF Minted, MintsForItsTenant, Hub!TypeOK
  <2>3. ASSUME NEW i \in Hub!Installs, Hub!RemovedThere(i) PROVE MintsForItsTenant'
    BY <2>3 DEF Hub!RemovedThere, Minted, MintsForItsTenant, Hub!Reach
  <2>4. ASSUME NEW d \in Hands, Hub!Uninstalls(d) PROVE MintsForItsTenant'
    BY <2>4 DEF Hub!Uninstalls, Minted, MintsForItsTenant, Hub!Reach
  <2>5. ASSUME NEW d \in Hands, Hub!Claims(d) PROVE MintsForItsTenant'
    <3> DEFINE l == hand[d].link
               i == l.inst
               s == l.scope
               row == [org |-> s.org, client |-> s.client, person |-> hand[d].person,
                       at |-> IF rows[i] = None THEN Hub!Latest + 1 ELSE rows[i].at]
               same == rows[i] # None
                   => [org |-> rows[i].org, client |-> rows[i].client] = s
               replaced == {j \in Hub!Installs \ {i} : rows[j] # None
                   /\ rows[j].org = s.org
                                                     /\ installed[j] = installed[i]}
    <3>1. UNCHANGED <<installed, live, tenant, mint>>
      BY <2>5 DEF Hub!Claims
    <3>2. CASE ~same
      BY <2>5, <3>1, <3>2 DEF Hub!Claims, Minted, MintsForItsTenant, Hub!Reach
    <3>3. CASE same
      <4> SUFFICES ASSUME mint.at = "token", ~late', mint.inst \in live
                   PROVE  mint.inst \in Hub!Reach(tenant)'
        BY <3>1 DEF Minted, MintsForItsTenant
      <4>1. ~late /\ i \in live
        BY <2>5, <3>3 DEF Hub!Claims
      <4>2. mint.inst \in Hub!Reach(tenant) /\ mint.inst \in Hub!Installs
        BY <2>1, <4>1 DEF Minted, MintsForItsTenant
      <4>3. mint.inst \notin replaced
        BY <4>1 DEF Connected, OneEach
      <4>4. rows' = [j \in Hub!Installs |->
                  IF j = i THEN row ELSE IF j \in replaced THEN None ELSE rows[j]]
        BY <2>5, <3>3 DEF Hub!Claims
      <4>5. CASE mint.inst = i
        <5>1. rows[i] # None /\ rows[i].org = s.org /\ rows[i].client = s.client
          BY <3>3, <4>2, <4>5 DEF Hub!Reach
        <5>2. rows'[i] = row /\ row # None
          <6>1. i \in Hub!Installs /\ hand[d] \in ClaimDesk
            BY <2>5, <4>2, <4>5, DesksAre DEF Hub!Claims
          <6>2. l \in Hub!Links /\ hand[d].person \in Persons
            BY <6>1 DEF ClaimDesk
          <6>3. s \in Hub!Scopes
            BY <6>2 DEF Hub!Links
          <6>4. row \in Hub!Row
            BY <6>1, <6>2, <6>3, <5>1, RowsAre DEF Hub!Row, Hub!Scopes
          <6>5. QED
            BY <6>1, <6>4, <4>4, HubAssumption DEF Hub!ConstantsAssumption
        <5>3. row.org = rows[i].org /\ row.client = rows[i].client
          BY <5>1
        <5>4. QED
          BY <3>1, <4>2, <4>5, <5>2, <5>3 DEF Hub!Reach
      <4>6. CASE mint.inst # i
        <5>1. rows'[mint.inst] = rows[mint.inst]
          BY <4>2, <4>3, <4>4, <4>6
        <5>2. QED
          BY <3>1, <4>2, <5>1 DEF Hub!Reach
      <4>7. QED
        BY <4>5, <4>6
    <3>4. QED
      BY <3>2, <3>3
  <2>6. ASSUME NEW d \in Hands, Hub!Forgets(d) PROVE MintsForItsTenant'
    <3>1. hand[d].inst \notin live
      BY <2>6 DEF Hub!Forgets, Connected, LetGo
    <3>2. \A j \in Hub!Installs : j # hand[d].inst => rows'[j] = rows[j]
      BY <2>6 DEF Hub!Forgets, Hub!TypeOK
    <3>3. UNCHANGED <<installed, live, tenant, mint, late>>
      BY <2>6 DEF Hub!Forgets
    <3>4. QED
      BY <2>1, <3>1, <3>2, <3>3 DEF Minted, MintsForItsTenant, Hub!Reach
  <2>7. ASSUME Hub!Chooses PROVE MintsForItsTenant'
    <3>1. mint.repo \in Handles
      BY <2>7 DEF Hub!Chooses, Hub!TypeOK, Hub!Idle
    <3>2. Hub!InstallationFor(mint.repo) # None =>
             Hub!InstallationFor(mint.repo) \in Hub!Reach(tenant)
                 /\ Hub!InstallationFor(mint.repo) \in Hub!Installs
      BY <3>1, InstallationIsReached
    <3>3. \A i \in Hub!Reach(tenant) : i \in Hub!Installs /\ installed[i] # None
      BY DEF Hub!Reach, Connected, Recorded
    <3>4. Hub!Reach(tenant)' = Hub!Reach(tenant) /\ UNCHANGED <<installed, live>>
      BY <2>7 DEF Hub!Chooses, Hub!Reach
    <3>5. QED
      BY <2>7, <3>2, <3>3, <3>4 DEF Hub!Chooses, MintsForItsTenant
  <2>8. ASSUME NEW a \in Handles, Hub!Mint(a) PROVE MintsForItsTenant'
    BY <2>8 DEF Hub!Mint, MintsForItsTenant
  <2>9. ASSUME Hub!Spends PROVE MintsForItsTenant'
    BY <2>9 DEF Hub!Spends, MintsForItsTenant, Hub!TypeOK, Hub!Idle
  <2>10. ASSUME Hub!Tokens PROVE MintsForItsTenant'
    <3>1. mint' = Hub!Idle \/ mint'.at = "app"
      <4>1. mint \in [at : {"token", "app"}, repo : Handles, inst : Hub!Installs]
        BY <2>10 DEF Hub!Tokens, Hub!TypeOK, Hub!Idle
      <4>2. [mint EXCEPT !.at = "app"].at = "app"
        BY <4>1
      <4>3. QED
        BY <2>10, <4>2 DEF Hub!Tokens
    <3>2. QED
      BY <3>1 DEF MintsForItsTenant, Hub!Idle
  <2>11. ASSUME Hub!Crash PROVE MintsForItsTenant'
    BY <2>11 DEF Hub!Crash, MintsForItsTenant, Hub!Idle
  <2>12. ASSUME UNCHANGED <<installed, live, rows, tenant, mint, late>>
         PROVE MintsForItsTenant'
    BY <2>12 DEF Minted, MintsForItsTenant, Hub!Reach
  <2>13. ASSUME \/ \E a \in Handles : Hub!Revoke(a)
                \/ \E p \in Persons, s \in Hub!Scopes : Hub!Connect(p, s)
                \/ \E p \in Persons, i \in Hub!Installs : Hub!Reconnect(p, i)
                \/ \E p \in Persons, l \in links, i \in Hub!Installs :
                       Hub!Authorize(p, l, i)
                \/ \E d \in Hands, p \in Persons, l \in links : Hub!Claim(d, p, l)
                \/ \E d \in Hands, p \in Persons, a \in Handles : Hub!Grant(d, p, a)
                \/ \E d \in Hands, i \in Hub!Installs : Hub!Disconnect(d, i)
                \/ \E d \in Hands : Hub!Checks(d) \/ Hub!Grants(d)
                \/ \E t \in Threads : Hub!AsksRefresh(t) \/ Hub!Reads(t) \/ Hub!Applies(t)
                \/ Hub!Created \/ UNCHANGED Hub!vars
         PROVE  UNCHANGED <<installed, live, rows, tenant, mint, late>>
    BY <2>13 DEF Hub!Revoke, Hub!Connect, Hub!Reconnect, Hub!Starts, Hub!Authorize,
       Hub!Claim, Hub!Grant, Hub!Disconnect, Hub!Checks, Hub!Grants, Hub!AsksRefresh,
       Hub!Reads, Hub!Applies, Hub!Created, Hub!vars
  <2>14. QED
    BY <2>2, <2>3, <2>4, <2>5, <2>6, <2>7, <2>8, <2>9, <2>10, <2>11, <2>12, <2>13 DEF
       Hub!Next
<1>3. QED
  BY <1>1, <1>2 DEF Minted

LEMMA MintedInit == Hub!Init => Minted
BY HubAssumption DEF Hub!Init, Minted, OperatorGranted, MintsForItsTenant, Hub!Idle,
    Hub!ConstantsAssumption

(* What a credential that is handed out says.                              *)
LEMMA MintedMeans ==
  ASSUME Hub!TypeOK, Minted, Hub!Next
  PROVE  /\ mint.at = "spend" /\ mint'.at = "fleet" => mint.repo \in authorised
         /\ mint.at = "token" /\ mint'.at = "app" /\ ~late /\ rows[mint.inst] # None
              => mint.inst \in Hub!Reach(tenant)
<1> USE DEF Hub!github, Hub!store, Hub!machine, Hub!history
<1>1. mint' = mint \/ mint'.at \in {"choose", "idle"} \/ Hub!Chooses \/ Hub!Spends
          \/ Hub!Tokens
  <2>1. ASSUME NEW a \in Handles, Hub!Mint(a) PROVE mint'.at = "choose"
    BY <2>1 DEF Hub!Mint
  <2>2. ASSUME Hub!Crash PROVE mint'.at = "idle"
    BY <2>2 DEF Hub!Crash, Hub!Idle
  <2>3. ASSUME \/ \E a \in Handles : Hub!Installing(a) \/ Hub!Revoke(a)
               \/ \E i \in Hub!Installs : Hub!RemovedThere(i)
               \/ \E p \in Persons, s \in Hub!Scopes : Hub!Connect(p, s)
               \/ \E p \in Persons, i \in Hub!Installs : Hub!Reconnect(p, i)
               \/ \E p \in Persons, l \in links, i \in Hub!Installs :
                      Hub!Authorize(p, l, i)
               \/ \E d \in Hands, p \in Persons, l \in links : Hub!Claim(d, p, l)
               \/ \E d \in Hands, p \in Persons, a \in Handles : Hub!Grant(d, p, a)
               \/ \E d \in Hands, i \in Hub!Installs : Hub!Disconnect(d, i)
               \/ \E d \in Hands : Hub!Claims(d) \/ Hub!Uninstalls(d) \/ Hub!Forgets(d)
                      \/ Hub!Checks(d) \/ Hub!Grants(d)
               \/ \E t \in Threads : Hub!AsksRefresh(t) \/ Hub!Reads(t) \/ Hub!Applies(t)
               \/ Hub!Created
        PROVE  mint' = mint
    BY <2>3 DEF Hub!Installing, Hub!Revoke, Hub!RemovedThere, Hub!Connect,
       Hub!Reconnect, Hub!Starts, Hub!Authorize, Hub!Claim, Hub!Grant, Hub!Disconnect,
       Hub!Claims, Hub!Uninstalls, Hub!Forgets, Hub!Checks, Hub!Grants, Hub!AsksRefresh,
       Hub!Reads, Hub!Applies, Hub!Created
  <2>4. QED
    BY <2>1, <2>2, <2>3 DEF Hub!Next
<1>2. ASSUME Hub!Chooses PROVE mint.at = "choose"
  BY <1>2 DEF Hub!Chooses
<1>3. ASSUME Hub!Spends, mint'.at = "fleet" PROVE mint.repo \in authorised
  <2>1. mint.repo \in Handles
    BY <1>3 DEF Hub!Spends, Hub!TypeOK, Hub!Idle
  <2>2. Hub!MaySpend(mint.repo)
    BY <1>3 DEF Hub!Spends, Hub!Idle
  <2>3. QED
    BY <2>1, <2>2 DEF Hub!MaySpend, Minted, OperatorGranted
<1>4. ASSUME Hub!Tokens, mint'.at = "app", ~late PROVE mint.inst \in Hub!Reach(tenant)
  <2>1. mint.at = "token" /\ mint.inst \in live
    BY <1>4 DEF Hub!Tokens, Hub!TokenFor, Hub!Idle
  <2>2. QED
    BY <1>4, <2>1 DEF Minted, MintsForItsTenant
<1>5. (Hub!Spends => mint.at = "spend") /\ (Hub!Tokens => mint.at = "token")
  BY DEF Hub!Spends, Hub!Tokens
<1>6. QED
  BY <1>1, <1>2, <1>3, <1>4, <1>5

(* Of the author, while nothing is excused and no refresh is to read the   *)
(* rows: the one that decided last writes what they say now, and when it   *)
(* has, the machine has it, whatever the others are to write before.       *)
Listing == {t \in Threads : thread[t].at = "read" /\ Hub!Lists(thread[t].scope)}
AuthorFollows ==
    /\ box = "naming" => decided = None
    /\ decided # None => thread[decided].at = "apply"
    /\ ~excused /\ Listing = {} =>
         Hub!AuthorFor = IF decided = None THEN author ELSE thread[decided].wanted

(* The author hangs on the rows the agent reaches, and on no others.       *)
LEMMA SameAuthor ==
  ASSUME Hub!TypeOK, UNCHANGED tenant, Hub!Reach(tenant)' = Hub!Reach(tenant),
         \A i \in Hub!Reach(tenant) : rows'[i] = rows[i]
  PROVE  Hub!AuthorFor' = Hub!AuthorFor
<1> DEFINE nearest == IF Hub!Own(tenant) # {} THEN Hub!Own(tenant) ELSE Hub!Reach(tenant)
           named == Hub!Named(nearest)
<1>1. Hub!Reach(tenant) \in SUBSET Hub!Installs
  BY ReachIs
<1>2. Hub!Own(tenant)' = Hub!Own(tenant) /\ Hub!Own(tenant) \subseteq Hub!Reach(tenant)
  BY DEF Hub!Own
<1>3. nearest' = nearest /\ nearest \subseteq Hub!Reach(tenant)
  BY <1>2
<1>4. named' = named /\ named \subseteq Hub!Reach(tenant)
  <2> HIDE DEF nearest
  <2>1. QED
    BY <1>3 DEF Hub!Named
<1>5. Hub!First(named)' = Hub!First(named)
  <2> HIDE DEF named
  <2>1. \A i \in named : rows'[i] = rows[i]
    BY <1>4
  <2>2. Hub!First(named) = CHOOSE i \in named : \A j \in named :
            rows'[i].at <= rows'[j].at
    BY <1>1, <1>4, <2>1, FirstStays
  <2>3. Hub!First(named)' = CHOOSE i \in named : \A j \in named :
            rows'[i].at <= rows'[j].at
    BY <1>4 DEF Hub!First
  <2>4. QED
    BY <2>2, <2>3
<1>6. named # {} => Hub!First(named) \in named
  BY AuthorIsSomebody
<1>7. Hub!AuthorFor = IF Hub!Reach(tenant) = {} THEN Hub!TokenOwner
                  ELSE IF named = {} THEN None ELSE rows[Hub!First(named)].person
  BY DEF Hub!AuthorFor
<1>8. Hub!AuthorFor' = IF Hub!Reach(tenant)' = {} THEN Hub!TokenOwner'
                   ELSE IF named' = {} THEN None ELSE rows'[Hub!First(named)'].person
  BY DEF Hub!AuthorFor
<1>9. Hub!TokenOwner' = Hub!TokenOwner
  BY DEF Hub!TokenOwner
<1>10. QED
  <2> HIDE DEF named
  <2>1. named # {} => rows'[Hub!First(named)] = rows[Hub!First(named)]
    BY <1>4, <1>6
  <2>2. QED
    BY <1>4, <1>5, <1>7, <1>8, <1>9, <2>1

(* A change of a connection that no refresh is to pass on leaves the rows  *)
(* the agent reaches; another one starts a refresh that will read it.      *)
LEMMA ChangeIsFollowed ==
  ASSUME Hub!TypeOK, AuthorFollows, NEW gone, NEW s \in Hub!Scopes, Hub!Changes(gone, s),
             Hub!Refreshes(s),
         UNCHANGED <<tenant, box, author>>,
         s.org # tenant.org
             => Hub!Reach(tenant)' = Hub!Reach(tenant)
                 /\ \A i \in Hub!Reach(tenant) : rows'[i] = rows[i],
         s.client \notin {None, tenant.client} /\ gone \cap Hub!Reach(tenant) = {} =>
             Hub!Reach(tenant)' = Hub!Reach(tenant)
                 /\ \A i \in Hub!Reach(tenant) : rows'[i] = rows[i]
  PROVE  AuthorFollows'
<1>1. PICK t \in Threads : thread[t] = Hub!Idle
               /\ thread' = [thread EXCEPT ![t] = [at |-> "read", scope |-> s]]
  BY DEF Hub!Refreshes
<1>2. thread'[t] = [at |-> "read", scope |-> s] /\ \A u \in Threads : u # t
          => thread'[u] = thread[u]
  BY <1>1 DEF Hub!TypeOK
<1>3. decided' = decided /\ decided \in Threads \cup {None}
  BY DEF Hub!Changes, Hub!TypeOK
<1>4. decided # None => decided # t /\ thread'[decided] = thread[decided]
  BY <1>1, <1>2, <1>3 DEF AuthorFollows, Hub!Idle
<1>5. ASSUME ~excused', Listing' = {}
      PROVE  Hub!AuthorFor' = IF decided = None THEN author ELSE thread[decided].wanted
  <2>1. ~excused /\ box = "settled" /\ ~Hub!PassesOver(gone, s)
    BY <1>5 DEF Hub!Changes, Hub!PassesOver, Hub!TypeOK
  <2>2. ~Hub!Lists(s)
    BY <1>2, <1>5 DEF Listing, Hub!Lists
  <2>3. s.org # tenant.org \/ s.client \notin {None, tenant.client}
    BY <2>1, <2>2 DEF Hub!Lists
  <2>4. Hub!AuthorFor' = Hub!AuthorFor
    BY <2>1, <2>3, SameAuthor DEF Hub!PassesOver
  <2>5. Listing = {}
    <3>1. \A u \in Listing : u # t
      BY <1>1 DEF Listing, Hub!Idle
    <3>2. \A u \in Listing : u \in Listing'
      BY <1>2, <3>1 DEF Listing, Hub!Lists
    <3>3. QED
      BY <1>5, <3>2
  <2>6. QED
    BY <2>1, <2>4, <2>5 DEF AuthorFollows
<1>6. QED
  BY <1>3, <1>4, <1>5 DEF AuthorFollows

(* Every step keeps it.                                                    *)
LEMMA AuthorNext == Hub!TypeOK /\ AuthorFollows /\ [Hub!Next]_(Hub!vars) => AuthorFollows'
<1> SUFFICES ASSUME Hub!TypeOK, AuthorFollows, [Hub!Next]_(Hub!vars) PROVE AuthorFollows'
  OBVIOUS
<1> USE DEF Hub!github, Hub!store, Hub!machine, Hub!history
<1>1. ASSUME UNCHANGED <<rows, tenant>> PROVE Hub!AuthorFor' = Hub!AuthorFor
  BY <1>1, SameAuthor DEF Hub!Reach
<1>2. ASSUME UNCHANGED <<rows, tenant, box, author, thread, decided, excused>> PROVE AuthorFollows'
  BY <1>1, <1>2 DEF AuthorFollows, Listing, Hub!Lists
<1>3. ASSUME NEW d \in Hands, Hub!Claims(d) PROVE AuthorFollows'
  <2> DEFINE l == hand[d].link
             i == l.inst
             s == l.scope
             row == [org |-> s.org, client |-> s.client, person |-> hand[d].person,
                     at |-> IF rows[i] = None THEN Hub!Latest + 1 ELSE rows[i].at]
             same == rows[i] # None
                 => [org |-> rows[i].org, client |-> rows[i].client] = s
             replaced == {j \in Hub!Installs \ {i} : rows[j] # None /\ rows[j].org = s.org
                                                   /\ installed[j] = installed[i]}
  <2>1. UNCHANGED <<tenant, box, author>>
    BY <1>3 DEF Hub!Claims
  <2>2. CASE ~same
    BY <1>2, <1>3, <2>1, <2>2 DEF Hub!Claims
  <2>3. CASE same
    <3>1. s \in Hub!Scopes
      BY <1>3, DesksAre DEF Hub!Claims, ClaimDesk, Hub!Links
    <3>2. Hub!Changes(replaced, s) /\ Hub!Refreshes(s)
      BY <1>3, <2>3 DEF Hub!Claims
    <3>3. rows' = [j \in Hub!Installs |->
                     IF j = i THEN row ELSE IF j \in replaced THEN None ELSE rows[j]]
      BY <1>3, <2>3 DEF Hub!Claims
    <3>4. row.org = s.org /\ row.client = s.client
      OBVIOUS
    <3>5. rows[i] # None => rows[i].org = s.org /\ rows[i].client = s.client
      BY <2>3
    <3>6. \A j \in Hub!Installs :
            /\ j = i => rows'[j] = row
            /\ j # i /\ j \in replaced => rows'[j] = None /\ rows[j].org = s.org
            /\ j # i /\ j \notin replaced => rows'[j] = rows[j]
      BY <3>3
    <3> HIDE DEF row, replaced
    <3>7. ASSUME s.org # tenant.org
          PROVE  Hub!Reach(tenant)' = Hub!Reach(tenant)
                     /\ \A j \in Hub!Reach(tenant) : rows'[j] = rows[j]
      BY <2>1, <3>4, <3>5, <3>6, <3>7 DEF Hub!Reach
    <3>8. ASSUME s.client \notin {None, tenant.client},
                     replaced \cap Hub!Reach(tenant) = {}
          PROVE  Hub!Reach(tenant)' = Hub!Reach(tenant)
                     /\ \A j \in Hub!Reach(tenant) : rows'[j] = rows[j]
      <4>1. \A j \in Hub!Reach(tenant) : j \in Hub!Installs /\ j # i /\ j \notin replaced
        BY <3>5, <3>8 DEF Hub!Reach
      <4>2. \A j \in Hub!Reach(tenant) : rows'[j] = rows[j]
        BY <3>6, <4>1
      <4>3. \A j \in Hub!Installs : rows'[j] = rows[j] \/ rows'[j] = None
                \/ rows'[j] = row
        BY <3>6
      <4>4. QED
        BY <2>1, <3>4, <3>8, <4>2, <4>3 DEF Hub!Reach
    <3>9. QED
      BY <2>1, <3>1, <3>2, <3>7, <3>8, ChangeIsFollowed
  <2>4. QED
    BY <2>2, <2>3
<1>4. ASSUME NEW d \in Hands, Hub!Forgets(d) PROVE AuthorFollows'
  <2> DEFINE i == hand[d].inst
             s == hand[d].scope
             gone == {i} \ {j \in Hub!Installs : rows'[j] # None}
  <2>1. UNCHANGED <<tenant, box, author>> /\ Hub!Changes(gone, s) /\ Hub!Refreshes(s)
    BY <1>4 DEF Hub!Forgets
  <2>2. hand[d] \in GoneDesk
    BY <1>4, DesksAre DEF Hub!Forgets
  <2>3. s \in Hub!Scopes /\ i \in Hub!Installs
    BY <2>2 DEF GoneDesk
  <2>4. \/ rows' = rows
        \/ rows[i].org = s.org /\ rows' = [rows EXCEPT ![i] = None]
    BY <1>4 DEF Hub!Forgets
  <2>5. \A j \in Hub!Installs :
            \/ rows'[j] = rows[j]
            \/ j = i /\ rows[i].org = s.org /\ rows'[i] = None
    BY <2>3, <2>4 DEF Hub!TypeOK
  <2>6. rows'[i] = None => i \in gone
    BY <2>3
  <2> HIDE DEF gone
  <2>7. ASSUME s.org # tenant.org
        PROVE  Hub!Reach(tenant)' = Hub!Reach(tenant)
                   /\ \A j \in Hub!Reach(tenant) : rows'[j] = rows[j]
    BY <2>1, <2>5, <2>7 DEF Hub!Reach
  <2>8. ASSUME gone \cap Hub!Reach(tenant) = {}
        PROVE  Hub!Reach(tenant)' = Hub!Reach(tenant)
                   /\ \A j \in Hub!Reach(tenant) : rows'[j] = rows[j]
    <3>1. \A j \in Hub!Reach(tenant) : rows'[j] = rows[j]
      BY <2>5, <2>6, <2>8 DEF Hub!Reach
    <3>2. QED
      BY <2>1, <2>5, <3>1 DEF Hub!Reach
  <2>9. QED
    BY <2>1, <2>3, <2>7, <2>8, ChangeIsFollowed
<1>5. ASSUME Hub!Created PROVE AuthorFollows'
  <2>1. UNCHANGED <<rows, tenant, author, thread, decided, excused>> /\ box = "naming"
                      /\ box' = "settled"
    BY <1>5 DEF Hub!Created
  <2>2. Listing = {} /\ decided = None
    BY <2>1 DEF Listing, Hub!Lists, AuthorFollows
  <2>3. Hub!AuthorFor' = Hub!AuthorFor
    BY <1>1, <2>1
  <2>4. QED
    BY <2>1, <2>2, <2>3 DEF AuthorFollows
<1>6. ASSUME NEW t \in Threads, Hub!AsksRefresh(t) PROVE AuthorFollows'
  <2>1. UNCHANGED <<rows, tenant, box, author, decided, excused>> /\ box = "settled"
                      /\ thread[t] = Hub!Idle
           /\ thread' = [thread EXCEPT ![t] = [at |-> "read", scope |-> tenant]]
    BY <1>6 DEF Hub!AsksRefresh, Hub!Steps
  <2>2. thread'[t] = [at |-> "read", scope |-> tenant] /\ \A u \in Threads : u # t
            => thread'[u] = thread[u]
    BY <2>1 DEF Hub!TypeOK
  <2>3. t \in Listing'
    BY <2>1, <2>2 DEF Listing, Hub!Lists, Hub!TypeOK
  <2>4. decided # None => decided \in Threads /\ decided # t
    BY <2>1 DEF AuthorFollows, Hub!TypeOK, Hub!Idle
  <2>5. QED
    BY <2>1, <2>2, <2>3, <2>4 DEF AuthorFollows
<1>7. ASSUME NEW t \in Threads, Hub!Reads(t) PROVE AuthorFollows'
  <2>1. UNCHANGED <<rows, tenant, box, author>> /\ thread[t].at = "read"
    BY <1>7 DEF Hub!Reads
  <2>2. Hub!AuthorFor' = Hub!AuthorFor
    BY <1>1, <2>1
  <2>3. CASE ~Hub!Lists(thread[t].scope)
    <3>1. thread' = [thread EXCEPT ![t] = Hub!Idle] /\ UNCHANGED <<decided, excused>>
      BY <1>7, <2>3 DEF Hub!Reads, Hub!Steps
    <3>2. thread'[t] = Hub!Idle /\ \A u \in Threads : u # t => thread'[u] = thread[u]
      BY <3>1 DEF Hub!TypeOK
    <3>3. Listing' = Listing
      BY <2>1, <2>3, <3>2 DEF Listing, Hub!Lists, Hub!Idle
    <3>4. decided # None => thread'[decided] = thread[decided]
      BY <2>1, <3>2 DEF AuthorFollows, Hub!TypeOK
    <3>5. QED
      BY <2>1, <2>2, <3>1, <3>3, <3>4 DEF AuthorFollows
  <2>4. CASE Hub!Lists(thread[t].scope)
    <3>1. box' = "settled" /\ decided' = t /\ t # None
      BY <1>7, <2>1, <2>4, HubAssumption DEF Hub!Reads, Hub!Lists, Hub!ConstantsAssumption
    <3>2. ASSUME NEW name, thread' = [thread EXCEPT ![t] = [at |-> "apply", wanted |-> name]]
          PROVE  thread'[t].at = "apply" /\ thread'[t].wanted = name
      BY <3>2 DEF Hub!TypeOK
    <3>3. CASE /\ thread' = [thread EXCEPT ![t] = [at |-> "apply",
                      wanted |-> Hub!AuthorFor]]
               /\ excused' = FALSE
      BY <2>2, <3>1, <3>2, <3>3 DEF AuthorFollows
    <3>4. CASE /\ thread' = [thread EXCEPT ![t] = [at |-> "apply", wanted |-> None]]
               /\ excused' = TRUE
      BY <3>1, <3>2, <3>4 DEF AuthorFollows
    <3>5. QED
      BY <1>7, <2>4, <3>3, <3>4 DEF Hub!Reads, Hub!Steps
  <2>5. QED
    BY <2>3, <2>4
<1>8. ASSUME NEW t \in Threads, Hub!Applies(t) PROVE AuthorFollows'
  <2>1. UNCHANGED <<rows, tenant, box>> /\ thread[t].at = "apply"
                      /\ thread' = [thread EXCEPT ![t] = Hub!Idle]
    BY <1>8 DEF Hub!Applies, Hub!Steps
  <2>2. Hub!AuthorFor' = Hub!AuthorFor
    BY <1>1, <2>1
  <2>3. thread'[t] = Hub!Idle /\ \A u \in Threads : u # t => thread'[u] = thread[u]
    BY <2>1 DEF Hub!TypeOK
  <2>4. Listing' = Listing
    BY <2>1, <2>3 DEF Listing, Hub!Lists, Hub!Idle
  <2>5. t # None /\ decided' = IF decided = t THEN None ELSE decided
    BY <1>8, HubAssumption DEF Hub!Applies, Hub!ConstantsAssumption
  <2>6. decided' # None => decided' = decided /\ thread'[decided] = thread[decided]
    BY <2>3, <2>5 DEF Hub!TypeOK
  <2>7. ASSUME ~excused', Listing = {}, decided' = None PROVE author' = Hub!AuthorFor
    <3>1. ~excused
      BY <1>8, <2>7 DEF Hub!Applies, Hub!TypeOK
    <3>2. CASE decided = t
      <4>1. author' = thread[t].wanted
        BY <1>8, <2>7, <3>2 DEF Hub!Applies
      <4>2. QED
        BY <2>5, <2>7, <3>1, <3>2, <4>1 DEF AuthorFollows
    <3>3. CASE decided = None
      <4>1. author' = author
        BY <1>8, <2>7, <3>3 DEF Hub!Applies, Hub!Overrules
      <4>2. QED
        BY <2>7, <3>1, <3>3, <4>1 DEF AuthorFollows
    <3>4. QED
      BY <2>5, <2>7, <3>2, <3>3
  <2>8. ASSUME ~excused', Listing = {}, decided' # None
        PROVE  thread'[decided'].wanted = Hub!AuthorFor
    <3>1. ~excused
      BY <1>8, <2>8 DEF Hub!Applies, Hub!TypeOK
    <3>2. QED
      BY <2>6, <2>8, <3>1 DEF AuthorFollows
  <2>9. QED
    BY <2>1, <2>2, <2>4, <2>5, <2>6, <2>7, <2>8 DEF AuthorFollows
<1>9. ASSUME Hub!Crash PROVE AuthorFollows'
  <2>1. UNCHANGED <<rows, tenant, box, author>> /\ thread' = [t \in Threads |-> Hub!Idle]
           /\ decided' = None
           /\ excused' = (excused \/ \E t \in Threads : thread[t] # Hub!Idle)
    BY <1>9 DEF Hub!Crash
  <2>2. Hub!AuthorFor' = Hub!AuthorFor
    BY <1>1, <2>1
  <2>3. ASSUME ~excused' PROVE ~excused /\ decided = None /\ Listing = {}
    <3>1. ~excused /\ \A t \in Threads : thread[t] = Hub!Idle
      BY <2>1, <2>3
    <3>2. QED
      BY <3>1 DEF AuthorFollows, Hub!TypeOK, Listing, Hub!Idle
  <2>4. QED
    BY <2>1, <2>2, <2>3 DEF AuthorFollows
<1>10. ASSUME \/ \E a \in Handles : Hub!Installing(a) \/ Hub!Revoke(a) \/ Hub!Mint(a)
              \/ \E i \in Hub!Installs : Hub!RemovedThere(i)
              \/ \E p \in Persons, s \in Hub!Scopes : Hub!Connect(p, s)
              \/ \E p \in Persons, i \in Hub!Installs : Hub!Reconnect(p, i)
              \/ \E p \in Persons, l \in links, i \in Hub!Installs :
                     Hub!Authorize(p, l, i)
              \/ \E d \in Hands, p \in Persons, l \in links : Hub!Claim(d, p, l)
              \/ \E d \in Hands, p \in Persons, a \in Handles : Hub!Grant(d, p, a)
              \/ \E d \in Hands, i \in Hub!Installs : Hub!Disconnect(d, i)
              \/ \E d \in Hands : Hub!Uninstalls(d) \/ Hub!Checks(d) \/ Hub!Grants(d)
              \/ Hub!Chooses \/ Hub!Spends \/ Hub!Tokens \/ UNCHANGED Hub!vars
       PROVE  UNCHANGED <<rows, tenant, box, author, thread, decided, excused>>
  BY <1>10 DEF Hub!Installing, Hub!Revoke, Hub!Mint, Hub!RemovedThere, Hub!Connect,
     Hub!Reconnect, Hub!Starts, Hub!Authorize, Hub!Claim, Hub!Grant, Hub!Disconnect,
     Hub!Uninstalls, Hub!Checks, Hub!Grants, Hub!Chooses, Hub!Spends, Hub!Tokens,
     Hub!vars
<1>11. QED
  BY <1>2, <1>3, <1>4, <1>5, <1>6, <1>7, <1>8, <1>9, <1>10 DEF Hub!Next

LEMMA AuthorInit == Hub!Init => AuthorFollows
BY DEF Hub!Init, AuthorFollows

(* With nothing under way the author is as the property says.              *)
LEMMA AuthorMeans == Hub!TypeOK /\ AuthorFollows => Hub!NamedByItsScope
<1> SUFFICES ASSUME Hub!TypeOK, AuthorFollows, ~excused, \A t \in Threads :
                        thread[t] = Hub!Idle
             PROVE  Hub!NamedByItsScope
  BY DEF Hub!NamedByItsScope
<1> DEFINE nearest == IF Hub!Own(tenant) # {} THEN Hub!Own(tenant) ELSE Hub!Reach(tenant)
           named == Hub!Named(nearest)
<1>1. author = Hub!AuthorFor
  BY DEF AuthorFollows, Hub!TypeOK, Listing, Hub!Idle
<1>2. Hub!Own(tenant) \subseteq Hub!Reach(tenant) /\ nearest \subseteq Hub!Reach(tenant)
  BY DEF Hub!Own
<1>3. CASE Hub!Reach(tenant) = {}
  <2>1. author = Hub!TokenOwner
    BY <1>1, <1>3 DEF Hub!AuthorFor
  <2>2. Hub!Named(Hub!Own(tenant)) = {} /\ Hub!Named(Hub!Reach(tenant)) = {}
    BY <1>2, <1>3 DEF Hub!Named
  <2>3. QED
    BY <1>3, <2>1, <2>2 DEF Hub!TokenOwner, Hub!NamedByItsScope
<1>4. CASE Hub!Reach(tenant) # {} /\ named = {}
  <2>1. author = None
    BY <1>1, <1>4 DEF Hub!AuthorFor
  <2>2. Hub!Named(Hub!Own(tenant)) = {}
            /\ (Hub!Own(tenant) # {} \/ Hub!Named(Hub!Reach(tenant)) = {})
    BY <1>4 DEF Hub!Named
  <2>3. QED
    BY <1>4, <2>1, <2>2 DEF Hub!NamedByItsScope
<1>5. CASE Hub!Reach(tenant) # {} /\ named # {}
  <2>1. author = rows[Hub!First(named)].person
    BY <1>1, <1>5 DEF Hub!AuthorFor
  <2>2. Hub!First(named) \in named
    BY <1>5, AuthorIsSomebody
  <2>3. Hub!First(named) \in Hub!Reach(tenant) /\ Hub!First(named) \in nearest
    BY <1>2, <2>2 DEF Hub!Named
  <2>4. Hub!Own(tenant) # {}
            => rows[Hub!First(named)].client = tenant.client /\ tenant.client # None
    BY <2>3, HubAssumption DEF Hub!Own, Hub!TypeOK, Hub!ConstantsAssumption
  <2>5. QED
    BY <2>1, <2>3, <2>4 DEF Hub!NamedByItsScope
<1>6. QED
  BY <1>3, <1>4, <1>5

(* The inductive invariant of the connections.                             *)
Sound == Hub!TypeOK /\ Connected /\ Minted /\ AuthorFollows

THEOREM HubIsSound == Hub!Spec => []Sound
<1>1. Hub!Init => Sound
  BY HubTypeInit, ConnectedInit, MintedInit, AuthorInit DEF Sound
<1>2. Sound /\ [Hub!Next]_(Hub!vars) => Sound'
  BY HubTypeNext, ConnectedNext, MintedNext, AuthorNext DEF Sound
<1>3. QED
  BY <1>1, <1>2, PTL DEF Hub!Spec

(* A behaviour of MCPeople is one of Github.                               *)
LEMMA PeopleAreOfHub == MCSpec => Hub!Spec
<1>1. MCInit => Hub!Init
  BY DEF MCInit
<1>2. [MCNext]_<<part, vars, hub>> => [Hub!Next]_(Hub!vars)
  BY DEF MCNext, hub, Hub!vars, Hub!github, Hub!store, Hub!machine, Hub!bounds, Hub!history
<1>3. QED
  BY <1>1, <1>2, PTL DEF MCSpec, Hub!Spec

(* An account is connected where its owner asked for it, and with nothing  *)
(* under way the agent commits as who proved the nearest scope that is     *)
(* connected, however changes and refreshes overlap: but for a change no   *)
(* refresh passes on, a refresh that fails or dies, and one that writes    *)
(* when a later one has (_started_by_caller, proven_account,               *)
(* _refresh_authors).                                                      *)
THEOREM ConnectionsStayTheirs == MCSpec => []ConnectionsAreTheirs
<1>1. Sound => ConnectionsAreTheirs
  BY AuthorMeans DEF Sound, Connected, ConnectionsAreTheirs
<1>2. QED
  BY <1>1, HubIsSound, PeopleAreOfHub, PTL

(* The operator's token is handed out for what the operator granted on it, *)
(* and an installation's to no agent of one tenant once another holds it   *)
(* (may_spend_fleet_token, disconnect_github).                             *)
THEOREM TokensStayTheirs == MCSpec => TokensAreTheirs
<1>1. Sound /\ [Hub!Next]_(Hub!vars) =>
        [mint.at = "spend" /\ mint'.at = "fleet" => mint.repo \in authorised]_(Hub!vars)
  BY MintedMeans DEF Sound
<1>2. Sound /\ [Hub!Next]_(Hub!vars) =>
        [mint.at = "token" /\ mint'.at = "app" /\ ~late /\ rows[mint.inst] # None
           => mint.inst \in Hub!Reach(tenant)]_(Hub!vars)
  BY MintedMeans DEF Sound
<1>3. Hub!Spec => Hub!FleetTokenIsGranted /\ Hub!TokenOfItsTenant
  BY <1>1, <1>2, HubIsSound, PTL DEF Hub!Spec, Hub!FleetTokenIsGranted, Hub!TokenOfItsTenant
<1>4. QED
  BY <1>3, PeopleAreOfHub, PTL DEF TokensAreTheirs
=============================================================================
