-------------------------- MODULE DoorAccessProofs --------------------------
(***************************************************************************)
(* Theorems about the front door for any people, agents, clients, ports,   *)
(* ages, sessions, questions and any number of requests and sockets: which *)
(* box a credential opens (DoorAccess), and what an open socket lets       *)
(* through (Conversations, as MCFrontDoor has it).                         *)
(*                                                                         *)
(* A socket that is past the check keeps a credential that admits the name *)
(* it asked for, and a box that bore that name when it was checked: a row  *)
(* loses its name only with its life.  A ticket and what it says age       *)
(* together, so a ticket with time left says nothing older than a ticket.  *)
(*                                                                         *)
(* A client's gate lets through what is of a session on the list, and a    *)
(* session is on the list only if a client's page made it; whatever waits  *)
(* on its way was let through by that, and neither is ever taken back.     *)
(***************************************************************************)
EXTENDS MCFrontDoor, Sequences, TLAPS

Going == [at : {"resolve", "wake", "ready", "login", "connect", "open"},
          cred : Credentials, name : Addresses, box : Boxes \cup {None},
          port : Ports \cup {None}]

Typed == TypeOK /\ sock \in [Sockets -> {Closed} \cup Going]

(* What the socket came with is still held, and reaches the name's tenant. *)
Held(s) ==
    sock[s].at # "closed" =>
        /\ ~Free(sock[s].cred)
        /\ AdmitsTenant(cred[sock[s].cred].client, sock[s].name)

(* The box a socket was let through to: still under its name, or destroyed.*)
Checked(s) ==
    sock[s].at \notin {"closed", "resolve"} =>
        /\ sock[s].box \in Boxes
        /\ cred[sock[s].cred].box \in {None, sock[s].box}
        /\ row[sock[s].box].at = sock[s].name \/ row[sock[s].box].status = "torn_down"

(* What a ticket says is not older than the ticket.                        *)
TicketAges ==
    \A c \in Credentials : cred[c].kind = "ticket" =>
        /\ since[c].chat + cred[c].left <= TicketTtl
        /\ since[c].write + cred[c].left <= TicketTtl
        /\ since[c].answers + cred[c].left <= TicketTtl

(* A row not yet made has no name.                                         *)
Unmade == \A b \in Boxes : row[b].status = "none" => row[b].at = None

Inv == Typed /\ (\A s \in Sockets : Held(s) /\ Checked(s)) /\ TicketAges /\ Unmade
-----------------------------------------------------------------------------
(* Ages *)

(* The ticks a step passes, none or one, age what the tickets say by as    *)
(* much at most.                                                           *)
LEMMA AfterBounds ==
  ASSUME TypeOK, NEW ticks \in {0, 1}, After(ticks)
  PROVE  /\ since' \in [Credentials -> [chat : Ages, write : Ages, answers : Ages]]
         /\ \A c \in Credentials :
              /\ since'[c].chat <= since[c].chat + ticks
              /\ since'[c].write <= since[c].write + ticks
              /\ since'[c].answers <= since[c].answers + ticks
<1> DEFINE Bounded(age, was) == age \in Ages /\ age <= was + ticks
<1>1. ASSUME NEW holds, NEW was \in Ages PROVE Bounded(Later(holds, was, ticks), was)
  BY <1>1, TtlAssumption DEF Later, Ages
<1>2. ASSUME NEW was \in Ages PROVE Bounded(0, was)
  BY <1>2, TtlAssumption DEF Ages
<1> HIDE DEF Bounded
<1>3. ASSUME NEW c \in Credentials
      PROVE  /\ since'[c] \in [chat : Ages, write : Ages, answers : Ages]
             /\ Bounded(since'[c].chat, since[c].chat)
             /\ Bounded(since'[c].write, since[c].write)
             /\ Bounded(since'[c].answers, since[c].answers)
  <2> DEFINE t == cred[c]
             was == since[c]
             aged == [chat |-> Later(Can(t.who, t.box, "chat"), was.chat, ticks),
                write |-> IF t.full THEN Later(Can(t.who, t.box, "write"), was.write, ticks) ELSE 0,
                answers |-> IF t.answers THEN Later(t.box \in answers, was.answers, ticks) ELSE 0]
  <2>1. was.chat \in Ages /\ was.write \in Ages /\ was.answers \in Ages
    BY DEF TypeOK
  <2>2. since'[c] = IF t.kind # "ticket" THEN Fresh ELSE aged
    BY DEF After
  <2>3. CASE since'[c] = Fresh
    BY <1>2, <2>1, <2>3 DEF Fresh, Bounded
  <2>4. CASE since'[c] = aged
    <3>1. /\ Bounded(aged.chat, was.chat)
          /\ Bounded(aged.write, was.write)
          /\ Bounded(aged.answers, was.answers)
      BY <1>1, <1>2, <2>1
    <3>2. aged \in [chat : Ages, write : Ages, answers : Ages]
      BY <3>1 DEF Bounded
    <3>3. QED
      BY <2>4, <3>1, <3>2
  <2>5. QED
    BY <2>2, <2>3, <2>4
<1>4. DOMAIN since' = Credentials /\ since' = [c \in Credentials |-> since'[c]]
  BY DEF After
<1>5. QED
  BY <1>3, <1>4 DEF Bounded

(* A step that signs nothing and takes no time leaves the tickets' ages.   *)
LEMMA NotedKeepsAges ==
  ASSUME TypeOK, TicketAges, Noted, UNCHANGED cred
  PROVE  /\ since' \in [Credentials -> [chat : Ages, write : Ages, answers : Ages]]
         /\ TicketAges'
<1>1. /\ since' \in [Credentials -> [chat : Ages, write : Ages, answers : Ages]]
      /\ \A c \in Credentials :
              /\ since'[c].chat <= since[c].chat + 0
              /\ since'[c].write <= since[c].write + 0
              /\ since'[c].answers <= since[c].answers + 0
  BY AfterBounds DEF Noted
<1>2. ASSUME NEW c \in Credentials, cred[c].kind = "ticket"
      PROVE  /\ cred[c].left \in Nat
             /\ since[c].chat \in Ages /\ since[c].write \in Ages /\ since[c].answers \in Ages
  BY <1>2 DEF TypeOK, Credential, NoCred
<1>3. QED
  BY <1>1, <1>2, TtlAssumption DEF TicketAges, Ages
-----------------------------------------------------------------------------
LEMMA InvInit == Init => Inv
  BY TtlAssumption, RolesAssumption
  DEF Init, Inv, Unmade, Typed, TypeOK, Held, Checked, TicketAges, NoRow, NoCred, Closed, Fresh,
      Credential, Ages, Free

(* Steps of the agency and its people: the door's requests and what is     *)
(* signed stand, and a row that had a name keeps it or is destroyed.       *)
LEMMA AgencySteps ==
  ASSUME Inv, TypeOK', Noted, UNCHANGED <<cred, sock>>,
         \A b \in Boxes : row[b].at # None =>
            row'[b].at = row[b].at \/ row'[b].status = "torn_down",
         \A b \in Boxes : row[b].status = "torn_down" => row'[b].status = "torn_down",
         \A b \in Boxes : row'[b].status = "none" => row'[b] = row[b]
  PROVE  Inv'
<1>1. TicketAges'
  BY NotedKeepsAges DEF Inv, Typed
<1>2. Typed'
  BY DEF Inv, Typed
<1>3. ASSUME NEW s \in Sockets PROVE Held(s)' /\ Checked(s)'
  <2>1. sock[s].at # "closed" => sock[s].name # None
    BY NoneAssumption DEF Inv, Typed, Closed, Going
  <2>2. Held(s) /\ Checked(s)
    BY DEF Inv
  <2>3. QED
    BY <2>1, <2>2 DEF Held, Checked, Free, AdmitsTenant
<1>4. QED
  BY <1>1, <1>2, <1>3 DEF Inv, Unmade

(* A step of one of the door's requests: the others stand, and no agent    *)
(* changes but by waking.                                                  *)
LEMMA DoorSteps ==
  ASSUME Inv, TypeOK', Noted, UNCHANGED cred, NEW s \in Sockets,
         \A o \in Sockets \ {s} : sock'[o] = sock[o],
         sock' \in [Sockets -> {Closed} \cup Going],
         Held(s)', Checked(s)',
         \A b \in Boxes : row'[b].at = row[b].at,
         \A b \in Boxes : row[b].status = "torn_down" => row'[b].status = "torn_down",
         \A b \in Boxes : row'[b].status = "none" => row'[b] = row[b]
  PROVE  Inv'
<1>1. TicketAges'
  BY NotedKeepsAges DEF Inv, Typed
<1>2. ASSUME NEW o \in Sockets \ {s} PROVE Held(o)' /\ Checked(o)'
  <2>1. Held(o) /\ Checked(o)
    BY DEF Inv
  <2>2. QED
    BY <2>1 DEF Held, Checked, Free, AdmitsTenant
<1>3. QED
  BY <1>1, <1>2 DEF Inv, Typed, Unmade

Row == [at : Addresses \cup {None}, port : Ports \cup {None},
        status : {"none", "running", "stopped", "paused", "torn_down"}]

(* What a step leaves of an agent's row, by the fields it changes.         *)
LEMMA RowsKeep ==
  ASSUME row \in [Boxes -> Row], NEW b \in Boxes, NEW st \in {"running", "stopped", "paused"},
         NEW n \in Ports \cup {None},
         \/ row' = [row EXCEPT ![b].status = st]
         \/ row' = [row EXCEPT ![b].status = st, ![b].port = n]
  PROVE  /\ row' \in [Boxes -> Row]
         /\ row'[b].status = st /\ row'[b].at = row[b].at
         /\ \A o \in Boxes \ {b} : row'[o] = row[o]
<1>1. row[b] \in Row
  OBVIOUS
<1>2. /\ [row[b] EXCEPT !.status = st] \in Row
      /\ [row[b] EXCEPT !.status = st].at = row[b].at
      /\ [row[b] EXCEPT !.status = st].status = st
      /\ [[row[b] EXCEPT !.status = st] EXCEPT !.port = n] \in Row
      /\ [[row[b] EXCEPT !.status = st] EXCEPT !.port = n].at = row[b].at
      /\ [[row[b] EXCEPT !.status = st] EXCEPT !.port = n].status = st
  BY <1>1 DEF Row
<1>3. CASE row' = [row EXCEPT ![b].status = st]
  BY <1>2, <1>3
<1>4. CASE row' = [row EXCEPT ![b].status = st, ![b].port = n]
  <2>1. row' = [row EXCEPT ![b] = [[row[b] EXCEPT !.status = st] EXCEPT !.port = n]]
    BY <1>4
  <2>2. QED
    BY <1>2, <2>1
<1>5. QED
  BY <1>3, <1>4

LEMMA RowsFall ==
  ASSUME row \in [Boxes -> Row], NEW b \in Boxes,
         row' = [row EXCEPT ![b].status = "torn_down", ![b].at = None]
  PROVE  /\ row' \in [Boxes -> Row]
         /\ row'[b].status = "torn_down"
         /\ \A o \in Boxes \ {b} : row'[o] = row[o]
<1>1. row[b] \in Row
  OBVIOUS
<1>2. /\ [[row[b] EXCEPT !.status = "torn_down"] EXCEPT !.at = None] \in Row
      /\ [[row[b] EXCEPT !.status = "torn_down"] EXCEPT !.at = None].status = "torn_down"
  BY <1>1 DEF Row
<1>3. row' = [row EXCEPT ![b] = [[row[b] EXCEPT !.status = "torn_down"] EXCEPT !.at = None]]
  OBVIOUS
<1>4. QED
  BY <1>2, <1>3

LEMMA TypedNext == Typed /\ [Next]_vars => Typed'
<1> SUFFICES ASSUME Typed, [Next]_vars PROVE Typed'
  OBVIOUS
<1> USE TtlAssumption, TenancyAssumption, RolesAssumption, NoneAssumption
<1> DEFINE Aged == since' \in [Credentials -> [chat : Ages, write : Ages, answers : Ages]]
<1>1. Noted => Aged
  BY AfterBounds DEF Noted, Typed
<1>2. ASSUME NEW r \in Roles PROVE Scopes(r) \in SUBSET {"read", "write", "chat"}
  BY <1>2 DEF Scopes
<1>3. ASSUME NEW p \in People, NEW r \in Roles, NEW c \in Clients \cup {None}, SetsMember(p, r, c)
      PROVE  Typed'
  BY <1>1, <1>3 DEF SetsMember, Typed, TypeOK, boxes
<1>4. ASSUME NEW p \in People, Removes(p) PROVE Typed'
  BY <1>1, <1>4 DEF Removes, Typed, TypeOK, boxes
<1>5. ASSUME NEW b \in Boxes, NEW a \in Addresses, NEW n \in Ports, Creates(b, a, n)
      PROVE  Typed'
  BY <1>1, <1>5 DEF Creates, Typed, TypeOK
<1>6. ASSUME NEW b \in Boxes, Sleeps(b) \/ Pauses(b) \/ TearsDown(b) \/ SetsApprovals(b)
      PROVE  Typed'
  <2>1. CASE Sleeps(b) \/ Pauses(b)
    <3>1. row' \in [Boxes -> Row]
      BY <2>1, RowsKeep DEF Sleeps, Pauses, Typed, TypeOK, Row
    <3>2. up' \in [Ports -> Boxes \cup {None}]
      BY <2>1 DEF Sleeps, Pauses, Typed, TypeOK
    <3>3. QED
      BY <1>1, <2>1, <3>1, <3>2 DEF Sleeps, Pauses, Typed, TypeOK, Row
  <2>2. CASE TearsDown(b)
    <3>1. row' \in [Boxes -> Row]
      BY <2>2, RowsFall DEF TearsDown, Typed, TypeOK, Row
    <3>2. QED
      BY <1>1, <2>2, <3>1 DEF TearsDown, Typed, TypeOK, Row
  <2>3. CASE SetsApprovals(b)
    BY <1>1, <2>3 DEF SetsApprovals, Typed, TypeOK
  <2>4. QED
    BY <1>6, <2>1, <2>2, <2>3
<1>7. CASE Tick
  <2>1. Aged
    BY <1>7, AfterBounds DEF Tick, Typed
  <2>2. ASSUME NEW c \in Credentials PROVE cred'[c] \in Credential
    <3>1. cred[c] \in Credential
      BY DEF Typed, TypeOK
    <3>2. QED
      BY <1>7, <3>1 DEF Tick, Credential, NoCred
  <2>3. QED
    BY <1>7, <2>1, <2>2 DEF Tick, Typed, TypeOK, boxes
<1>8. ASSUME NEW c \in Credentials, NEW claims \in Credential,
             NEW as \in [chat : Ages, write : Ages, answers : Ages], Holds(c, claims, as)
      PROVE  Typed'
  BY <1>8 DEF Holds, Typed, TypeOK, boxes
<1>9. ASSUME NEW c \in Credentials, NEW p \in People, NEW b \in Boxes, Ticket(c, p, b)
      PROVE  Typed'
  <2>1. row[b].at \in Addresses /\ Can(p, b, "chat")
    BY <1>9 DEF Ticket, Can, Typed, TypeOK
  <2>2. [kind |-> "ticket", who |-> p, left |-> TicketTtl,
                 scopes |-> {"chat"}, client |-> ClientOf[row[b].at], box |-> b,
                 full |-> Can(p, b, "write"), answers |-> b \in answers] \in Credential
    <3>1. Can(p, b, "write") \in BOOLEAN
      BY DEF Can
    <3>2. QED
      BY <2>1, <3>1 DEF Credential
  <2>3. [chat |-> Later(Can(p, b, "chat"), TicketTtl, 0), write |-> 0, answers |-> 0]
           \in [chat : Ages, write : Ages, answers : Ages]
    BY <2>1 DEF Later, Ages
  <2>4. QED
    BY <1>8, <1>9, <2>2, <2>3 DEF Ticket
<1>10. Fresh \in [chat : Ages, write : Ages, answers : Ages]
  BY DEF Fresh, Ages
<1>11. ASSUME NEW c \in Credentials, NEW r \in Roles, NEW l \in Clients \cup {None},
              MintOrgToken(c, r, l)
       PROVE  Typed'
  <2>1. [kind |-> "token", who |-> None, left |-> TokenTtl,
                 scopes |-> Scopes(r), client |-> l, box |-> None, full |-> TRUE,
                 answers |-> TRUE] \in Credential
    BY <1>2 DEF Credential
  <2>2. QED
    BY <1>8, <1>10, <1>11, <2>1 DEF MintOrgToken
<1>12. ASSUME NEW c \in Credentials, NEW b \in Boxes, RunToken(c, b) PROVE Typed'
  <2>1. row[b].at \in Addresses
    BY <1>12 DEF RunToken, Typed, TypeOK
  <2>2. [kind |-> "run", who |-> None, left |-> TicketTtl,
                 scopes |-> {"chat"}, client |-> ClientOf[row[b].at], box |-> b,
                 full |-> TRUE, answers |-> TRUE] \in Credential
    BY <2>1 DEF Credential
  <2>3. QED
    BY <1>8, <1>10, <1>12, <2>2 DEF RunToken
<1>13. ASSUME NEW c \in Credentials, Dropped(c) PROVE Typed'
  BY <1>1, <1>13 DEF Dropped, Typed, TypeOK, boxes, Credential
<1> DEFINE Doors == sock' \in [Sockets -> {Closed} \cup Going]
<1>14. ASSUME NEW s \in Sockets, sock[s].at # "closed"
       PROVE  sock[s] \in Going
  BY <1>14 DEF Typed, Closed
<1>15. ASSUME NEW s \in Sockets, Refused(s) PROVE Doors
  BY <1>15 DEF Refused, Typed
<1>16. ASSUME NEW s \in Sockets, NEW at \in {"login", "connect", "open"},
              sock[s].at # "closed", Goes(s, at)
       PROVE  Doors
  BY <1>14, <1>16 DEF Goes, Typed, Going
<1>17. ASSUME NEW s \in Sockets, NEW c \in Credentials, NEW a \in Addresses, Arrives(s, c, a)
       PROVE  Typed'
  BY <1>1, <1>17 DEF Arrives, Typed, TypeOK, boxes, Going, Closed
<1>18. ASSUME NEW s \in Sockets, Resolve(s) PROVE Typed'
  <2>1. Doors
    BY <1>14, <1>15, <1>18 DEF Resolve, Typed, Going
  <2>2. QED
    BY <1>1, <1>18, <2>1 DEF Resolve, Typed, TypeOK, boxes, Going, Closed
<1>19. ASSUME NEW s \in Sockets, Wake(s) PROVE Typed'
  <2>1. CASE Refused(s) /\ UNCHANGED <<row, up>>
    BY <1>1, <1>15, <1>19, <2>1 DEF Wake, Typed, TypeOK, Going, Closed
  <2>2. ASSUME NEW b \in Woken(s), NEW n \in Ports,
          row' = [row EXCEPT ![b].status = "running", ![b].port = n],
          up' = IF row[b].status = "running" THEN up ELSE [up EXCEPT ![n] = b],
          sock' = [sock EXCEPT ![s].at = "ready", ![s].port = n],
          row[b].status \in {"running", "stopped"}
        PROVE  Typed'
    <3>1. Doors
      <4>1. sock[s] \in Going
        BY <1>14, <1>19 DEF Wake
      <4>2. [[sock[s] EXCEPT !.at = "ready"] EXCEPT !.port = n] \in Going
        BY <4>1 DEF Going
      <4>3. sock' = [sock EXCEPT ![s] = [[sock[s] EXCEPT !.at = "ready"] EXCEPT !.port = n]]
        BY <2>2
      <4>4. QED
        BY <4>2, <4>3 DEF Typed
    <3>2. row' \in [Boxes -> Row]
      <4>1. b \in Boxes \/ row' = row
        <5>1. b \notin Boxes => row' = row
          BY <2>2 DEF Typed, TypeOK
        <5>2. QED
          BY <5>1
      <4>2. QED
        BY <2>2, <4>1, RowsKeep DEF Typed, TypeOK, Row
    <3>3. up' \in [Ports -> Boxes \cup {None}]
      <4>1. b \in Boxes \cup {None}
        BY <1>14, <1>19, <2>2 DEF Wake, Woken, Going
      <4>2. QED
        BY <2>2, <4>1 DEF Typed, TypeOK
    <3>4. QED
      BY <1>1, <1>19, <3>1, <3>2, <3>3 DEF Wake, Typed, TypeOK, Going, Closed, Row
  <2>3. QED
    BY <1>19, <2>1, <2>2 DEF Wake
<1>20. ASSUME NEW s \in Sockets, Ready(s) \/ Login(s) \/ Connect(s) \/ HangsUp(s)
       PROVE  Typed'
  <2>1. Doors
    BY <1>15, <1>16, <1>20 DEF Ready, Login, Connect, HangsUp
  <2>2. QED
    BY <1>1, <1>20, <2>1 DEF Ready, Login, Connect, HangsUp, Typed, TypeOK, boxes, Going, Closed
<1>21. CASE UNCHANGED vars
  BY <1>21 DEF vars, Typed, TypeOK
<1>22. QED
  BY <1>3, <1>4, <1>5, <1>6, <1>7, <1>9, <1>11, <1>12, <1>13, <1>17, <1>18, <1>19, <1>20,
     <1>21 DEF Next

LEMMA InvNext == Inv /\ [Next]_vars => Inv'
<1> SUFFICES ASSUME Inv, [Next]_vars PROVE Inv'
  OBVIOUS
<1> USE NoneAssumption, TtlAssumption
<1>1. Typed /\ Typed' /\ TypeOK /\ TypeOK' /\ sock' \in [Sockets -> {Closed} \cup Going]
  BY TypedNext DEF Inv, Typed
<1>2. \A s \in Sockets : Held(s) /\ Checked(s)
  BY DEF Inv
<1>3. ASSUME NEW s \in Sockets, sock[s].at # "closed"
      PROVE  sock[s] \in Going
  BY <1>1, <1>3 DEF Typed, Closed
<1>4. ASSUME NEW p \in People,
             Removes(p) \/ \E r \in Roles, c \in Clients \cup {None} : SetsMember(p, r, c)
      PROVE  Inv'
  BY <1>1, <1>4, AgencySteps DEF SetsMember, Removes, boxes
<1>5. ASSUME NEW b \in Boxes, NEW a \in Addresses, NEW n \in Ports, Creates(b, a, n)
      PROVE  Inv'
  <2>1. \A o \in Boxes : row[o].status # "torn_down" \/ o # b
    BY <1>5 DEF Creates
  <2>2. row[b].at = None /\ \A o \in Boxes : row'[o].status = "none" => row'[o] = row[o]
    BY <1>1, <1>5 DEF Creates, Inv, Unmade, TypeOK
  <2>3. QED
    BY <1>1, <1>5, <2>1, <2>2, AgencySteps DEF Creates, Typed, TypeOK
<1>6. ASSUME NEW b \in Boxes, Sleeps(b) \/ Pauses(b) \/ TearsDown(b) \/ SetsApprovals(b)
      PROVE  Inv'
  <2>1. /\ \A o \in Boxes : row[o].at # None =>
              row'[o].at = row[o].at \/ row'[o].status = "torn_down"
        /\ \A o \in Boxes : row[o].status = "torn_down" => row'[o].status = "torn_down"
        /\ \A o \in Boxes : row'[o].status = "none" => row'[o] = row[o]
    <3>1. row \in [Boxes -> Row]
      BY <1>1 DEF TypeOK, Row
    <3>2. CASE Sleeps(b) \/ Pauses(b)
      BY <3>1, <3>2, RowsKeep DEF Sleeps, Pauses
    <3>3. CASE TearsDown(b)
      BY <3>1, <3>3, RowsFall DEF TearsDown
    <3>4. CASE SetsApprovals(b)
      BY <3>4 DEF SetsApprovals
    <3>5. QED
      BY <1>6, <3>2, <3>3, <3>4
  <2>2. Noted /\ UNCHANGED <<cred, sock>>
    BY <1>6 DEF Sleeps, Pauses, TearsDown, SetsApprovals
  <2>3. QED
    BY <1>1, <2>1, <2>2, AgencySteps
<1>7. CASE Tick
  <2>1. ASSUME NEW c \in Credentials, cred'[c].kind = "ticket"
        PROVE  /\ since'[c].chat + cred'[c].left <= TicketTtl
               /\ since'[c].write + cred'[c].left <= TicketTtl
               /\ since'[c].answers + cred'[c].left <= TicketTtl
    <3>1. /\ cred[c].kind = "ticket" /\ cred[c].left \in Nat
          /\ cred'[c].left = IF cred[c].left = 0 THEN 0 ELSE cred[c].left - 1
      <4>1. cred[c] \in Credential
        BY <1>1 DEF TypeOK
      <4>2. QED
        BY <1>7, <2>1, <4>1 DEF Tick, Credential, NoCred
    <3>2. /\ since[c].chat \in Ages /\ since[c].write \in Ages /\ since[c].answers \in Ages
          /\ since'[c].chat \in Ages /\ since'[c].write \in Ages /\ since'[c].answers \in Ages
      BY <1>1 DEF TypeOK
    <3>3. /\ since'[c].chat <= since[c].chat + 1
          /\ since'[c].write <= since[c].write + 1
          /\ since'[c].answers <= since[c].answers + 1
      BY <1>1, <1>7, AfterBounds DEF Tick
    <3>4. /\ since[c].chat + cred[c].left <= TicketTtl
          /\ since[c].write + cred[c].left <= TicketTtl
          /\ since[c].answers + cred[c].left <= TicketTtl
      BY <3>1 DEF Inv, TicketAges
    <3>5. QED
      BY <3>1, <3>2, <3>3, <3>4 DEF Ages
  <2>2. ASSUME NEW s \in Sockets PROVE Held(s)' /\ Checked(s)'
    <3>1. CASE sock[s].at = "closed"
      BY <1>7, <3>1 DEF Tick, Held, Checked
    <3>2. CASE sock[s].at # "closed"
      <4> DEFINE c == sock[s].cred
      <4>1. c \in Credentials /\ cred[c].kind # "none"
        BY <1>2, <1>3, <3>2 DEF Going, Held, Free
      <4>2. cred[c] \in Credential
        BY <1>1, <4>1 DEF TypeOK
      <4>3. /\ cred'[c].kind = cred[c].kind /\ cred'[c].client = cred[c].client
            /\ cred'[c].box = cred[c].box
        BY <1>7, <4>1, <4>2 DEF Tick, Credential, NoCred
      <4>4. QED
        BY <1>2, <1>7, <4>1, <4>3 DEF Tick, Held, Checked, Free, AdmitsTenant, boxes
    <3>3. QED
      BY <3>1, <3>2
  <2>3. QED
    BY <1>1, <1>7, <2>1, <2>2 DEF Inv, TicketAges, Unmade, Tick, boxes
<1>8. ASSUME NEW c \in Credentials, NEW claims, NEW as, Free(c), Holds(c, claims, as),
             claims.kind = "ticket" =>
                as.chat = 0 /\ as.write = 0 /\ as.answers = 0 /\ claims.left = TicketTtl
      PROVE  Inv'
  <2>1. \A o \in Credentials \ {c} : cred'[o] = cred[o] /\ since'[o] = since[o]
    BY <1>8 DEF Holds
  <2>2. cred'[c] = claims /\ since'[c] = as
    <3>1. DOMAIN cred = Credentials /\ DOMAIN since = Credentials
      BY <1>1 DEF TypeOK
    <3>2. cred' = [cred EXCEPT ![c] = claims] /\ since' = [since EXCEPT ![c] = as]
      BY <1>8 DEF Holds
    <3>3. QED
      BY <3>1, <3>2
  <2>3. TicketAges'
    <3> SUFFICES ASSUME NEW o \in Credentials, cred'[o].kind = "ticket"
                 PROVE  /\ since'[o].chat + cred'[o].left <= TicketTtl
                        /\ since'[o].write + cred'[o].left <= TicketTtl
                        /\ since'[o].answers + cred'[o].left <= TicketTtl
      BY DEF TicketAges
    <3>1. CASE o = c
      <4>1. cred'[o] = claims /\ since'[o] = as /\ claims.kind = "ticket"
        BY <2>2, <3>1
      <4>2. as.chat = 0 /\ as.write = 0 /\ as.answers = 0 /\ claims.left = TicketTtl
        BY <1>8, <4>1
      <4>3. QED
        BY <4>1, <4>2
    <3>2. CASE o # c
      BY <2>1, <3>2 DEF Inv, TicketAges
    <3>3. QED
      BY <3>1, <3>2
  <2>4. ASSUME NEW s \in Sockets PROVE Held(s)' /\ Checked(s)'
    <3>1. sock[s].at # "closed" => sock[s].cred \in Credentials \ {c}
      BY <1>2, <1>3, <1>8 DEF Held, Going
    <3>2. QED
      BY <1>2, <1>8, <2>1, <3>1 DEF Holds, Held, Checked, Free, AdmitsTenant, boxes
  <2>5. QED
    BY <1>1, <1>8, <2>3, <2>4 DEF Inv, Unmade, Holds, boxes
<1>9. ASSUME NEW c \in Credentials, NEW p \in People, NEW b \in Boxes, Ticket(c, p, b)
      PROVE  Inv'
  <2>1. Can(p, b, "chat")
    BY <1>9 DEF Ticket
  <2>2. Later(Can(p, b, "chat"), TicketTtl, 0) = 0
    BY <2>1 DEF Later
  <2>3. QED
    BY <1>8, <1>9, <2>2 DEF Ticket
<1>10. ASSUME NEW c \in Credentials, NEW r \in Roles, NEW l \in Clients \cup {None},
              MintOrgToken(c, r, l)
       PROVE  Inv'
  BY <1>8, <1>10 DEF MintOrgToken
<1>11. ASSUME NEW c \in Credentials, NEW b \in Boxes, RunToken(c, b) PROVE Inv'
  BY <1>8, <1>11 DEF RunToken
<1>12. ASSUME NEW c \in Credentials, Dropped(c) PROVE Inv'
  <2>1. \A o \in Credentials : cred'[o] = IF o = c THEN NoCred ELSE cred[o]
    BY <1>1, <1>12 DEF Dropped, TypeOK
  <2>2. ASSUME NEW o \in Credentials, cred'[o].kind = "ticket"
        PROVE  /\ since'[o].chat + cred'[o].left <= TicketTtl
               /\ since'[o].write + cred'[o].left <= TicketTtl
               /\ since'[o].answers + cred'[o].left <= TicketTtl
    <3>1. cred'[o] = cred[o] /\ cred[o].kind = "ticket"
      BY <2>1, <2>2 DEF NoCred
    <3>2. cred[o].left \in Nat
      BY <1>1, <3>1 DEF TypeOK, Credential, NoCred
    <3>3. /\ since[o].chat \in Ages /\ since[o].write \in Ages /\ since[o].answers \in Ages
          /\ since'[o].chat \in Ages /\ since'[o].write \in Ages /\ since'[o].answers \in Ages
      BY <1>1 DEF TypeOK
    <3>4. /\ since'[o].chat <= since[o].chat + 0
          /\ since'[o].write <= since[o].write + 0
          /\ since'[o].answers <= since[o].answers + 0
      BY <1>1, <1>12, AfterBounds DEF Dropped, Noted
    <3>5. QED
      BY <3>1, <3>2, <3>3, <3>4 DEF Inv, TicketAges, Ages
  <2>3. \A s \in Sockets : Held(s)' /\ Checked(s)'
    BY <1>12 DEF Dropped, Held, Checked
  <2>4. QED
    BY <1>1, <1>12, <2>2, <2>3 DEF Inv, TicketAges, Unmade, Dropped, boxes
<1>13. ASSUME NEW s \in Sockets, NEW c \in Credentials, NEW a \in Addresses, Arrives(s, c, a)
       PROVE  Inv'
  <2>1. sock'[s] = [at |-> "resolve", cred |-> c, name |-> a, box |-> None, port |-> None]
    BY <1>1, <1>13 DEF Arrives, Typed
  <2>2. Held(s)' /\ Checked(s)'
    BY <1>13, <2>1 DEF Arrives, Held, Checked, Free, AdmitsTenant
  <2>3. \A o \in Sockets \ {s} : sock'[o] = sock[o]
    BY <1>13 DEF Arrives
  <2>4. QED
    BY <1>1, <1>13, <2>2, <2>3, DoorSteps DEF Arrives, boxes
<1>14. ASSUME NEW s \in Sockets, sock' = [sock EXCEPT ![s] = Closed]
       PROVE  /\ Held(s)' /\ Checked(s)'
              /\ \A o \in Sockets \ {s} : sock'[o] = sock[o]
  BY <1>1, <1>14 DEF Typed, Held, Checked, Closed
<1>15. ASSUME NEW s \in Sockets, NEW at \in {"login", "connect", "open"},
              sock[s].at \notin {"closed", "resolve"}, Goes(s, at), UNCHANGED <<cred, row>>
       PROVE  /\ Held(s)' /\ Checked(s)'
              /\ \A o \in Sockets \ {s} : sock'[o] = sock[o]
  <2>1. /\ sock'[s].cred = sock[s].cred /\ sock'[s].name = sock[s].name
        /\ sock'[s].box = sock[s].box
    BY <1>1, <1>3, <1>15 DEF Goes, Typed, Going
  <2>2. QED
    BY <1>2, <1>15, <2>1 DEF Goes, Held, Checked, Free, AdmitsTenant
<1>16. ASSUME NEW s \in Sockets, Resolve(s) PROVE Inv'
  <2>1. CASE Refused(s)
    BY <1>1, <1>14, <1>16, <2>1, DoorSteps DEF Resolve, Refused, boxes
  <2>2. ASSUME NEW b \in Boxes, row[b].at = sock[s].name, Admits(sock[s].cred, b),
               sock' = [sock EXCEPT ![s].at = "wake", ![s].box = b]
        PROVE  Inv'
    <3>1. /\ sock'[s].cred = sock[s].cred /\ sock'[s].name = sock[s].name
          /\ sock'[s].box = b
      <4>1. sock[s] \in Going
        BY <1>3, <1>16 DEF Resolve
      <4>2. sock'[s] = [[sock[s] EXCEPT !.at = "wake"] EXCEPT !.box = b]
        BY <1>1, <2>2 DEF Typed
      <4>3. QED
        BY <4>1, <4>2 DEF Going
    <3>2. Held(s)' /\ Checked(s)'
      BY <1>2, <1>16, <2>2, <3>1 DEF Resolve, Held, Checked, Free, AdmitsTenant, Admits, boxes
    <3>3. \A o \in Sockets \ {s} : sock'[o] = sock[o]
      BY <1>1, <2>2 DEF Typed
    <3>4. QED
      BY <1>1, <1>16, <3>2, <3>3, DoorSteps DEF Resolve, boxes
  <2>3. QED
    BY <1>16, <2>1, <2>2 DEF Resolve
<1>17. ASSUME NEW s \in Sockets, Wake(s) PROVE Inv'
  <2>1. CASE Refused(s) /\ UNCHANGED <<row, up>>
    BY <1>1, <1>14, <1>17, <2>1, DoorSteps DEF Wake, Refused
  <2>2. ASSUME NEW b \in Woken(s), NEW n \in Ports,
          row[b].status \in {"running", "stopped"},
          row' = [row EXCEPT ![b].status = "running", ![b].port = n],
          sock' = [sock EXCEPT ![s].at = "ready", ![s].port = n]
        PROVE  Inv'
    <3>1. /\ sock'[s].cred = sock[s].cred /\ sock'[s].name = sock[s].name
          /\ sock'[s].box = sock[s].box
      <4>1. sock[s] \in Going
        BY <1>3, <1>17 DEF Wake
      <4>2. sock'[s] = [[sock[s] EXCEPT !.at = "ready"] EXCEPT !.port = n]
        BY <1>1, <2>2 DEF Typed
      <4>3. QED
        BY <4>1, <4>2 DEF Going
    <3>2. /\ \A o \in Boxes : row'[o].at = row[o].at
          /\ \A o \in Boxes : row[o].status = "torn_down" => row'[o].status = "torn_down"
          /\ \A o \in Boxes : row'[o].status = "none" => row'[o] = row[o]
      BY <1>1, <2>2 DEF TypeOK
    <3>3. Held(s)' /\ Checked(s)'
      BY <1>2, <1>17, <3>1, <3>2 DEF Wake, Held, Checked, Free, AdmitsTenant
    <3>4. \A o \in Sockets \ {s} : sock'[o] = sock[o]
      BY <1>1, <2>2 DEF Typed
    <3>5. QED
      BY <1>1, <1>17, <3>2, <3>3, <3>4, DoorSteps DEF Wake
  <2>3. QED
    BY <1>17, <2>1, <2>2 DEF Wake
<1>18. ASSUME NEW s \in Sockets, Ready(s) \/ Login(s) \/ Connect(s) \/ HangsUp(s)
       PROVE  Inv'
  <2>1. CASE Refused(s)
    BY <1>1, <1>14, <1>18, <2>1, DoorSteps
       DEF Ready, Login, Connect, HangsUp, Refused, boxes
  <2>2. ASSUME NEW at \in {"login", "connect", "open"}, Goes(s, at),
               sock[s].at \notin {"closed", "resolve"}
        PROVE  Inv'
    <3>1. Noted /\ UNCHANGED <<cred, row>>
      BY <1>18 DEF Ready, Login, Connect, HangsUp, boxes
    <3>2. QED
      BY <1>1, <1>15, <2>2, <3>1, DoorSteps
  <2>3. QED
    BY <1>18, <2>1, <2>2 DEF Ready, Login, Connect, HangsUp
<1>19. CASE UNCHANGED vars
  BY <1>19 DEF vars, Inv, Unmade, Typed, TypeOK, TicketAges, Held, Checked, Free, AdmitsTenant
<1>20. CASE Next
  BY <1>4, <1>5, <1>6, <1>7, <1>9, <1>10, <1>11, <1>12, <1>13, <1>16, <1>17, <1>18, <1>20,
     Zenon DEF Next
<1>21. QED
  BY <1>19, <1>20

THEOREM InvHolds == Spec => []Inv
  BY InvInit, InvNext, PTL DEF Spec

(* The type invariant.                                                     *)
THEOREM TypeCorrect == Spec => []TypeOK
<1>1. Inv => TypeOK
  BY DEF Inv, Typed
<1>2. QED
  BY <1>1, InvHolds, PTL
-----------------------------------------------------------------------------
(* A socket moves by a step of its own.                                    *)
LEMMA Moves ==
  ASSUME Typed, Next, NEW s \in Sockets, sock'[s] # sock[s]
  PROVE  \/ \E c \in Credentials, a \in Addresses : Arrives(s, c, a)
         \/ Resolve(s) \/ Wake(s) \/ Ready(s) \/ Login(s) \/ Connect(s) \/ HangsUp(s)
<1>1. ASSUME NEW o \in Sockets,
             \/ \E c \in Credentials, a \in Addresses : Arrives(o, c, a)
             \/ Resolve(o) \/ Wake(o) \/ Ready(o) \/ Login(o) \/ Connect(o) \/ HangsUp(o)
      PROVE  o = s
  <2>1. ASSUME o # s PROVE sock'[s] = sock[s]
    BY <1>1, <2>1 DEF Arrives, Resolve, Wake, Ready, Login, Connect, HangsUp, Goes, Refused, Typed
  <2>2. QED
    BY <2>1
<1>2. QED
  BY <1>1 DEF Next, SetsMember, Removes, Creates, Sleeps, Pauses, TearsDown, SetsApprovals,
     Tick, Ticket, MintOrgToken, RunToken, Holds, Dropped

(* The door starts no machine but of an agent its caller may talk to: one  *)
(* that came back under a name starts nothing of the next agent's.         *)
THEOREM WakesOnlyItsOwn == Spec => WakesItsOwn
<1> DEFINE Right == \A s \in Sockets, b \in Boxes :
         sock[s].at = "wake" /\ sock'[s] # sock[s] /\ row[b].status = "stopped"
         /\ row'[b].status = "running" => Admits(sock[s].cred, b)
<1>1. Inv /\ [Next]_vars => [Right]_vars
  <2> SUFFICES ASSUME Inv, Next, NEW s \in Sockets, NEW b \in Boxes,
                      sock[s].at = "wake", sock'[s] # sock[s], row[b].status = "stopped",
                      row'[b].status = "running"
               PROVE  Admits(sock[s].cred, b)
    OBVIOUS
  <2>1. Typed /\ Held(s) /\ Checked(s) /\ row \in [Boxes -> Row]
    BY DEF Inv, Typed, TypeOK, Row
  <2>2. sock[s] \in Going
    BY <2>1 DEF Typed, Closed
  <2>3. row' # row
    OBVIOUS
  <2>4. Wake(s)
    <3>1. ASSUME Ready(s) \/ Login(s) \/ Connect(s) PROVE FALSE
      BY <3>1 DEF Ready, Login, Connect
    <3>2. ASSUME NEW c \in Credentials, NEW a \in Addresses, Arrives(s, c, a) PROVE FALSE
      BY <3>2 DEF Arrives
    <3>3. ASSUME Resolve(s) \/ HangsUp(s) PROVE FALSE
      BY <2>3, <3>3 DEF Resolve, HangsUp, boxes
    <3>4. QED
      BY <2>1, <3>1, <3>2, <3>3, Moves
  <2>5. b = sock[s].box
    <3>1. ASSUME NEW w \in Woken(s), NEW n \in Ports,
                 row' = [row EXCEPT ![w].status = "running", ![w].port = n]
          PROVE  b = w
      <4>1. w \in Boxes
        BY <2>1, <3>1 DEF Woken, Checked
      <4>2. \A o \in Boxes \ {w} : row'[o] = row[o]
        BY <2>1, <3>1, <4>1, RowsKeep
      <4>3. QED
        BY <4>2
    <3>2. QED
      BY <2>3, <2>4, <3>1 DEF Wake, Woken
  <2>6. row[b].at = sock[s].name /\ sock[s].name # None
    BY <2>1, <2>2, <2>5, NoneAssumption DEF Checked, Going
  <2>7. QED
    BY <2>1, <2>5, <2>6 DEF Held, Checked, Admits
<1>2. Spec => [][Right]_vars
  BY <1>1, InvHolds, PTL DEF Spec
<1>3. QED
  BY <1>2 DEF WakesItsOwn

(* Whoever comes with a ticket could, no longer ago than a ticket lasts,   *)
(* do what the ticket says: chat with this agent, change it, and answer    *)
(* for it.  Nothing but its age ends a ticket (chat_ticket, verify_ticket).*)
THEOREM TicketsAreRecent == Spec => TicketsSayNothingOld
<1> DEFINE Right == \A s \in Sockets : sock[s].at = "closed" /\ sock'[s].at = "resolve" =>
         LET t == cred[sock'[s].cred] IN
         t.kind = "ticket" =>
            LET was == since[sock'[s].cred] IN
            /\ was.chat < TicketTtl
            /\ t.full => was.write < TicketTtl
            /\ t.answers => was.answers < TicketTtl
<1>1. Inv /\ [Next]_vars => [Right]_vars
  <2> SUFFICES ASSUME Inv, Next, NEW s \in Sockets, sock[s].at = "closed",
                      sock'[s].at = "resolve", cred[sock'[s].cred].kind = "ticket"
               PROVE  /\ since[sock'[s].cred].chat < TicketTtl
                      /\ since[sock'[s].cred].write < TicketTtl
                      /\ since[sock'[s].cred].answers < TicketTtl
    OBVIOUS
  <2>1. Typed /\ sock'[s] # sock[s]
    BY DEF Inv
  <2>2. PICK c \in Credentials, a \in Addresses : Arrives(s, c, a)
    <3>1. ASSUME Resolve(s) \/ Wake(s) \/ Ready(s) \/ Login(s) \/ Connect(s) \/ HangsUp(s)
          PROVE  FALSE
      BY <3>1 DEF Resolve, Wake, Ready, Login, Connect, HangsUp
    <3>2. QED
      BY <2>1, <3>1, Moves
  <2>3. sock'[s].cred = c /\ cred[c].left > 0
    BY <2>1, <2>2 DEF Arrives, Verifies, Typed
  <2>4. cred[c].left \in Nat
    BY <2>1, <2>3 DEF Typed, TypeOK, Credential, NoCred
  <2>5. since[c].chat \in Ages /\ since[c].write \in Ages /\ since[c].answers \in Ages
    BY <2>1 DEF Typed, TypeOK
  <2>6. QED
    BY <2>3, <2>4, <2>5, TtlAssumption DEF Inv, TicketAges, Ages
<1>2. Spec => [][Right]_vars
  BY <1>1, InvHolds, PTL DEF Spec
<1>3. QED
  BY <1>2 DEF TicketsSayNothingOld
-----------------------------------------------------------------------------
(* Conversations *)

(* What the page may ask and the box may say, and a gate with both on the  *)
(* way.                                                                    *)
Doings == {"latest", "create", "resume", "submit", "respond", "answer", "list"}
Sayings == {"created", "resumed", "latest", "sessions", "ask", "cancel"}
Choices == {"none", "once", "always"}
Asked == [do : Doings, x : Nat, q : Nat, c : Choices]
Heard == [is : Sayings, x : Nat, q : SUBSET Nat]
Gate == [ticket : {"none", "agency", "client", "approver"},
         attached : SUBSET Nat, live : SUBSET Nat, open : SUBSET Nat, heard : SUBSET Nat,
         wait : {Talk!Idle} \cup Asked, keep : Nat, without : SUBSET Nat,
         asking : BOOLEAN, toBox : Seq(Asked), fromBox : Seq(Heard)]

(* The sessions a client made, and the questions raised in those.          *)
Mine == {n \in DOMAIN made : made[n] = "client"}
Ours == {q \in Talk!Asks : ask[q].in \in Mine}

(* The gate of a client.                                                   *)
OfClient(g) == g.ticket \in {"client", "approver"}
(* What may be on its way to the box: a client speaks in a listed          *)
(* session, and answers what was raised in a session of its own.           *)
MayGo(t, f, own, ours) ==
    IF t \in {"client", "approver"}
    THEN /\ f.do \in {"create", "submit", "resume", "respond", "answer"}
         /\ f.x \in own \cup {0}
         /\ f.do = "resume" => f.x \in own
         /\ f.do \in {"respond", "answer"} =>
              t = "approver" /\ f.c \in Talk!ClientChoices /\ f.q \in ours
    ELSE f.do \in {"latest", "create", "list"}
(* What may be on its way to the page.                                     *)
MayCome(t, f, own, mine, ours) ==
    /\ f.is = "created" => f.x \in mine
    /\ t \in {"client", "approver"} =>
         /\ f.is = "resumed" => f.x \in own
         /\ f.is \in {"ask", "resumed"} => f.q \subseteq ours
(* A gate keeps a client to the sessions listed (own), made by one         *)
(* (mine), and to the questions raised in those (ours).                    *)
Keeps(g, own, mine, ours) ==
    /\ g \in Gate
    /\ g.keep \in mine \cup {0}
    /\ OfClient(g) => /\ g.attached \subseteq mine /\ g.live \subseteq own
                    /\ g.open \subseteq ours /\ g.heard \subseteq ours
    /\ g.ticket = "client" => g.open = {} /\ g.heard = {}
    /\ ~OfClient(g) /\ g.wait # Talk!Idle => g.wait.do = "latest"
    /\ \A f \in Talk!ToSet(g.toBox) : MayGo(g.ticket, f, own, ours)
    /\ \A f \in Talk!ToSet(g.fromBox) : MayCome(g.ticket, f, own, mine, ours)

(* Types, which a list on its way and the frames of a page rely on.        *)
TalkTyped ==
    /\ made \in Seq({"agency", "client"}) /\ listed \in Seq(Nat)
    /\ ask \in [Talk!Asks -> [in : Nat, state : {"none", "waiting", "done"},
                      by : {"none", "agency", "client", "approver"}, choice : Choices]]
    /\ DOMAIN gate = Gates /\ gate = [s \in Gates |-> gate[s]]
(* A question a client settled is of a session of its own.                 *)
SettledWell ==
    \A q \in Talk!Asks : ask[q].by # "none" =>
        ask[q].by = "approver" /\ ask[q].choice \in Talk!ClientChoices /\ ask[q].in \in Mine
(* The inductive invariant of the conversations.                           *)
Apart ==
    /\ TalkTyped /\ SettledWell
    /\ Talk!ToSet(listed) \subseteq Mine
    /\ \A s \in Gates : Keeps(gate[s], Talk!ToSet(listed), Mine, Ours)

(* Sequences: what is in one with an element more, less, or before it.     *)
LEMMA Appended ==
  ASSUME NEW S, NEW q \in Seq(S), NEW e \in S
  PROVE  /\ Append(q, e) \in Seq(S) /\ Talk!ToSet(Append(q, e)) = Talk!ToSet(q) \cup {e}
         /\ DOMAIN Append(q, e) = DOMAIN q \cup {Len(q) + 1}
  BY DEF Talk!ToSet

LEMMA Shortened ==
  ASSUME NEW S, NEW q \in Seq(S), q # <<>>
  PROVE  /\ Tail(q) \in Seq(S) /\ Talk!ToSet(Tail(q)) \subseteq Talk!ToSet(q)
         /\ Head(q) \in Talk!ToSet(q) /\ Head(q) \in S
  BY DEF Talk!ToSet

(* A gate keeps what it keeps as sessions are made and listed.             *)
LEMMA Grown ==
  ASSUME NEW g, NEW own, NEW mine, NEW ours, Keeps(g, own, mine, ours),
         NEW own2, NEW mine2, NEW ours2,
         own \subseteq own2, mine \subseteq mine2, ours \subseteq ours2
  PROVE  Keeps(g, own2, mine2, ours2)
  BY DEF Keeps, MayGo, MayCome

(* A frame that may go, or come, is queued; one is taken off a queue.      *)
LEMMA SentKeeps ==
  ASSUME NEW g, NEW own, NEW mine, NEW ours, Keeps(g, own, mine, ours),
         NEW f \in Asked, MayGo(g.ticket, f, own, ours)
  PROVE  /\ Keeps(Talk!Sent(g, f), own, mine, ours)
         /\ Talk!Sent(g, f) = [g EXCEPT !.toBox = Append(g.toBox, f)]
<1>1. /\ Append(g.toBox, f) \in Seq(Asked)
      /\ Talk!ToSet(Append(g.toBox, f)) = Talk!ToSet(g.toBox) \cup {f}
  BY Appended DEF Keeps, Gate
<1>2. QED
  BY <1>1 DEF Keeps, Gate, Talk!Sent, OfClient

LEMMA SaysKeeps ==
  ASSUME NEW g, NEW own, NEW mine, NEW ours, Keeps(g, own, mine, ours),
         NEW is \in Sayings, NEW x \in Nat, NEW q \in SUBSET Nat,
         MayCome(g.ticket, [is |-> is, x |-> x, q |-> q], own, mine, ours)
  PROVE  /\ Keeps(Talk!Says(g, is, x, q), own, mine, ours)
         /\ Talk!Says(g, is, x, q) \in Gate
<1> DEFINE e == [is |-> is, x |-> x, q |-> q]
<1>1. /\ Append(g.fromBox, e) \in Seq(Heard)
      /\ Talk!ToSet(Append(g.fromBox, e)) = Talk!ToSet(g.fromBox) \cup {e}
  <2>1. e \in Heard
    BY DEF Heard
  <2>2. g.fromBox \in Seq(Heard)
    BY DEF Keeps, Gate
  <2>3. QED
    BY <2>1, <2>2, Appended
<1>2. QED
  BY <1>1 DEF Keeps, Gate, Talk!Says, OfClient

LEMMA RestKeeps ==
  ASSUME NEW g, NEW own, NEW mine, NEW ours, Keeps(g, own, mine, ours), g.fromBox # <<>>
  PROVE  /\ Keeps([g EXCEPT !.fromBox = Tail(@)], own, mine, ours)
         /\ Head(g.fromBox) \in Heard /\ MayCome(g.ticket, Head(g.fromBox), own, mine, ours)
<1>1. /\ Tail(g.fromBox) \in Seq(Heard)
      /\ Talk!ToSet(Tail(g.fromBox)) \subseteq Talk!ToSet(g.fromBox)
      /\ Head(g.fromBox) \in Talk!ToSet(g.fromBox) /\ Head(g.fromBox) \in Heard
  BY Shortened DEF Keeps, Gate
<1>2. QED
  BY <1>1 DEF Keeps, Gate, OfClient

LEMMA TakenKeeps ==
  ASSUME NEW g, NEW own, NEW mine, NEW ours, Keeps(g, own, mine, ours), g.toBox # <<>>
  PROVE  /\ Keeps([g EXCEPT !.toBox = Tail(@)], own, mine, ours)
         /\ Head(g.toBox) \in Asked /\ MayGo(g.ticket, Head(g.toBox), own, ours)
<1>1. /\ Tail(g.toBox) \in Seq(Asked)
      /\ Talk!ToSet(Tail(g.toBox)) \subseteq Talk!ToSet(g.toBox)
      /\ Head(g.toBox) \in Talk!ToSet(g.toBox) /\ Head(g.toBox) \in Asked
  BY Shortened DEF Keeps, Gate
<1>2. QED
  BY <1>1 DEF Keeps, Gate, OfClient

(* A socket just opened, or hung up, keeps everything.                     *)
LEMMA FreshKeeps ==
  ASSUME NEW t \in {"none", "agency", "client", "approver"}, NEW own, NEW mine, NEW ours
  PROVE  Keeps(Talk!Fresh(t), own, mine, ours)
<1>1. <<>> \in Seq(Asked) /\ <<>> \in Seq(Heard) /\ Talk!ToSet(<<>>) = {}
  BY DEF Talk!ToSet
<1>2. Talk!Fresh(t) \in Gate
  BY <1>1 DEF Talk!Fresh, Gate, Talk!Idle
<1>3. QED
  BY <1>1, <1>2 DEF Keeps, Talk!Fresh, OfClient

(* What the invariant says of one gate.                                    *)
LEMMA GatesKeep ==
  ASSUME Apart, NEW s \in Gates
  PROVE  /\ Keeps(gate[s], Talk!ToSet(listed), Mine, Ours)
         /\ gate[s] \in Gate /\ (Talk!Confined(s) <=> OfClient(gate[s]))
  BY DEF Apart, Keeps, Talk!Confined, OfClient

(* A step of one gate, and of nothing else, keeps the invariant if that    *)
(* gate does.                                                              *)
LEMMA OneMoves ==
  ASSUME Apart, UNCHANGED <<made, ask, listed>>, NEW s \in Gates, NEW g,
         gate' = [gate EXCEPT ![s] = g], Keeps(g, Talk!ToSet(listed), Mine, Ours)
  PROVE  Apart'
<1>1. Mine' = Mine /\ Ours' = Ours /\ Talk!ToSet(listed') = Talk!ToSet(listed)
  BY DEF Mine, Ours, Talk!Asks
<1>2. TalkTyped'
  BY DEF Apart, TalkTyped
<1>3. SettledWell' /\ (Talk!ToSet(listed) \subseteq Mine)'
  BY <1>1 DEF Apart, SettledWell
<1>4. \A t \in Gates : Keeps(gate'[t], Talk!ToSet(listed'), Mine', Ours')
  BY <1>1 DEF Apart, TalkTyped
<1>5. QED
  BY <1>2, <1>3, <1>4 DEF Apart

(* The list with a session put on it.                                      *)
LEMMA Prefixed ==
  ASSUME NEW q \in Seq(Nat), NEW k \in Nat
  PROVE  <<k>> \o q \in Seq(Nat) /\ Talk!ToSet(<<k>> \o q) = {k} \cup Talk!ToSet(q)
<1> DEFINE l == <<k>> \o q
<1>1. /\ l \in Seq(Nat) /\ Len(l) = Len(q) + 1 /\ l[1] = k
      /\ \A i \in 1..Len(q) : l[i + 1] = q[i]
  OBVIOUS
<1>2. DOMAIN q = 1..Len(q) /\ DOMAIN l = 1..(Len(q) + 1) /\ Len(q) \in Nat
  BY <1>1
<1> HIDE DEF l
<1>3. ASSUME NEW i \in DOMAIN l PROVE l[i] \in {k} \cup Talk!ToSet(q)
  <2>1. i = 1 \/ (i - 1 \in DOMAIN q /\ l[(i - 1) + 1] = q[i - 1] /\ (i - 1) + 1 = i)
    BY <1>1, <1>2
  <2>2. QED
    BY <1>1, <2>1 DEF Talk!ToSet
<1>4. k \in Talk!ToSet(l)
  BY <1>1, <1>2 DEF Talk!ToSet
<1>5. ASSUME NEW i \in DOMAIN q PROVE q[i] \in Talk!ToSet(l)
  <2>1. i + 1 \in DOMAIN l /\ l[i + 1] = q[i]
    BY <1>1, <1>2
  <2>2. QED
    BY <2>1 DEF Talk!ToSet
<1>6. Talk!ToSet(l) = {k} \cup Talk!ToSet(q)
  BY <1>3, <1>4, <1>5 DEF Talk!ToSet
<1>7. QED
  BY <1>1, <1>6 DEF l

LEMMA Recording ==
  ASSUME Apart, NEW s \in Gates, gate[s].keep # 0
  PROVE  /\ gate[s].keep \in Mine
         /\ Talk!Recorded(gate[s].keep) \in Seq(Nat)
         /\ Talk!ToSet(Talk!Recorded(gate[s].keep)) = Talk!ToSet(listed) \cup {gate[s].keep}
<1>1. gate[s].keep \in Nat /\ gate[s].keep \in Mine \cup {0}
  BY GatesKeep DEF Keeps, Gate
<1>2. listed \in Seq(Nat)
  BY DEF Apart, TalkTyped
<1>3. QED
  BY <1>1, <1>2, Prefixed DEF Talk!Recorded

(* A session is listed, or its record is lost, as one gate moves.          *)
LEMMA ListGrows ==
  ASSUME Apart, UNCHANGED <<made, ask>>, NEW s \in Gates, NEW g,
         listed' = listed \/ (gate[s].keep # 0 /\ listed' = Talk!Recorded(gate[s].keep)),
         gate' = [gate EXCEPT ![s] = g], Keeps(g, Talk!ToSet(listed'), Mine, Ours)
  PROVE  Apart'
<1>1. Mine' = Mine /\ Ours' = Ours
  BY DEF Mine, Ours, Talk!Asks
<1>2. /\ listed' \in Seq(Nat) /\ Talk!ToSet(listed) \subseteq Talk!ToSet(listed')
      /\ Talk!ToSet(listed') \subseteq Mine
  BY Recording DEF Apart, TalkTyped
<1>3. TalkTyped'
  BY <1>2 DEF Apart, TalkTyped
<1>4. SettledWell' /\ (Talk!ToSet(listed) \subseteq Mine)'
  BY <1>1, <1>2 DEF Apart, SettledWell
<1>5. \A t \in Gates : Keeps(gate[t], Talk!ToSet(listed'), Mine, Ours)
  BY <1>2, Grown DEF Apart
<1>6. \A t \in Gates : Keeps(gate'[t], Talk!ToSet(listed'), Mine', Ours')
  BY <1>1, <1>5 DEF Apart, TalkTyped
<1>7. QED
  BY <1>3, <1>4, <1>6 DEF Apart

(* The frames a page may send are requests.                                *)
LEMMA FramesAre ==
  ASSUME TalkTyped, NEW f \in Talk!Frames
  PROVE  /\ f \in Asked
         /\ f.do \in {"latest", "create", "answer"} => f.x = 0
<1>1. PICK do \in Doings, x \in Nat, q \in Nat, c \in Choices :
        f = Talk!Frame(do, x, q, c) /\ (do \in {"latest", "create", "answer"} => x = 0)
  <2>1. Talk!Asks \subseteq Nat /\ DOMAIN made \subseteq Nat /\ 0 \in Nat
    BY TalkAssumption DEF Talk!Asks, Talk!BoundsAssumption, TalkTyped
  <2>2. CASE f \in {Talk!Frame(do, 0, 0, "none") : do \in {"latest", "create"}}
    BY <2>1, <2>2 DEF Doings, Choices
  <2>3. CASE f \in {Talk!Frame(do, x, 0, "none") :
                      do \in {"resume", "submit"}, x \in DOMAIN made}
    BY <2>1, <2>3 DEF Doings, Choices
  <2>4. CASE f \in {Talk!Frame("respond", x, q, c) :
                      x \in DOMAIN made, q \in {r \in Talk!Asks : ask[r] # Talk!NoAsk},
                      c \in {"once", "always"}}
    BY <2>1, <2>4 DEF Doings, Choices
  <2>5. CASE f \in {Talk!Frame("answer", 0, q, c) :
                      q \in {r \in Talk!Asks : ask[r] # Talk!NoAsk}, c \in {"once", "always"}}
    BY <2>1, <2>5 DEF Doings, Choices
  <2>6. QED
    BY <2>2, <2>3, <2>4, <2>5 DEF Talk!Frames
<1>2. QED
  BY <1>1 DEF Talk!Frame, Asked

(* What pages say: only what MayGo allows passes.                          *)
LEMMA PagesKeep ==
  ASSUME Apart, NEW s \in Gates, NEW f \in Talk!Frames,
         Talk!AgencySays(s, f) \/ Talk!ClientSays(s, f)
  PROVE  Apart'
<1> USE DEF Talk!hermes
<1>1. /\ Keeps(gate[s], Talk!ToSet(listed), Mine, Ours) /\ gate[s] \in Gate
      /\ (Talk!Confined(s) <=> OfClient(gate[s]))
      /\ f \in Asked /\ (f.do \in {"latest", "create", "answer"} => f.x = 0)
  BY GatesKeep, FramesAre DEF Apart
<1>2. CASE Talk!AgencySays(s, f) /\ f.do = "latest"
  <2>1. PICK g : g = [gate[s] EXCEPT !.wait = f, !.asking = TRUE]
    OBVIOUS
  <2>2. Keeps(g, Talk!ToSet(listed), Mine, Ours)
    BY <1>1, <1>2, <2>1 DEF Talk!AgencySays, Keeps, Gate, OfClient
  <2>3. gate' = [gate EXCEPT ![s] = g]
    BY <1>2, <2>1 DEF Talk!AgencySays
  <2>4. QED
    BY <1>2, <2>2, <2>3, OneMoves DEF Talk!AgencySays
<1>3. ASSUME MayGo(gate[s].ticket, f, Talk!ToSet(listed), Ours)
      PROVE  Keeps(Talk!Sent(gate[s], f), Talk!ToSet(listed), Mine, Ours)
  BY <1>1, <1>3, SentKeeps
<1>4. CASE Talk!AgencySays(s, f) /\ f.do # "latest"
  <2>1. MayGo(gate[s].ticket, f, Talk!ToSet(listed), Ours)
    BY <1>1, <1>4 DEF Talk!AgencySays, MayGo
  <2>2. gate' = [gate EXCEPT ![s] = Talk!Sent(gate[s], f)]
    BY <1>4 DEF Talk!AgencySays
  <2>3. QED
    BY <1>3, <1>4, <2>1, <2>2, OneMoves DEF Talk!AgencySays
<1>5. ASSUME Talk!ClientSays(s, f) PROVE Apart'
  <2>1. OfClient(gate[s]) /\ UNCHANGED <<made, ask, listed>>
    BY <1>1, <1>5 DEF Talk!ClientSays
  <2>2. CASE f.do \in {"latest", "resume"} /\ gate' = [gate EXCEPT ![s].wait = f]
    <3>1. Keeps([gate[s] EXCEPT !.wait = f], Talk!ToSet(listed), Mine, Ours)
      BY <1>1, <2>1 DEF Keeps, Gate, OfClient
    <3>2. QED
      BY <2>1, <2>2, <3>1, OneMoves
  <2>3. CASE f.do = "create" /\ gate' = [gate EXCEPT ![s] = Talk!Sent(gate[s], f)]
    <3>1. MayGo(gate[s].ticket, f, Talk!ToSet(listed), Ours)
      BY <1>1, <2>1, <2>3 DEF MayGo, OfClient
    <3>2. QED
      BY <1>3, <2>1, <2>3, <3>1, OneMoves
  <2>4. CASE /\ f.do = "submit" /\ f.x \in gate[s].live
             /\ gate' = [gate EXCEPT ![s] = Talk!Sent(gate[s], f)]
    <3>1. MayGo(gate[s].ticket, f, Talk!ToSet(listed), Ours)
      BY <1>1, <2>1, <2>4 DEF MayGo, Keeps, OfClient
    <3>2. QED
      BY <1>3, <2>1, <2>4, <3>1, OneMoves
  <2>5. ASSUME NEW g, Keeps(g, Talk!ToSet(listed), Mine, Ours), NEW q, NEW gone
        PROVE  /\ Keeps(Talk!Settled(g, q), Talk!ToSet(listed), Mine, Ours)
               /\ Keeps([Talk!Settled(g, q) EXCEPT !.open = @ \ gone],
                        Talk!ToSet(listed), Mine, Ours)
    BY <2>5 DEF Keeps, Gate, OfClient, Talk!Settled
  <2>6. CASE /\ f.do = "respond" /\ Talk!MayRespond(s, f)
             /\ gate' = [gate EXCEPT ![s] = Talk!Settled(Talk!Sent(gate[s], f), f.q)]
    <3>1. MayGo(gate[s].ticket, f, Talk!ToSet(listed), Ours)
      BY <1>1, <2>1, <2>6 DEF MayGo, Talk!MayRespond, Talk!Answers, Keeps, OfClient
    <3>2. QED
      BY <1>3, <2>1, <2>5, <2>6, <3>1, OneMoves
  <2>7. CASE f.do = "answer" /\ Talk!MayAnswer(s, f)
             /\ \E gone \in {{}, {f.q}} :
                  gate' = [gate EXCEPT ![s] =
                      [Talk!Settled(Talk!Sent(gate[s], f), f.q) EXCEPT !.open = @ \ gone]]
    <3>1. MayGo(gate[s].ticket, f, Talk!ToSet(listed), Ours)
      BY <1>1, <2>1, <2>7 DEF MayGo, Talk!MayAnswer, Keeps, OfClient
    <3>2. PICK gone : gate' = [gate EXCEPT ![s] =
                          [Talk!Settled(Talk!Sent(gate[s], f), f.q) EXCEPT !.open = @ \ gone]]
      BY <2>7
    <3>3. QED
      BY <1>3, <2>1, <2>5, <3>1, <3>2, OneMoves
  <2>8. \/ f.do \in {"latest", "resume"} /\ gate' = [gate EXCEPT ![s].wait = f]
        \/ f.do = "create" /\ gate' = [gate EXCEPT ![s] = Talk!Sent(gate[s], f)]
        \/ f.do = "submit" /\ f.x \in gate[s].live
           /\ gate' = [gate EXCEPT ![s] = Talk!Sent(gate[s], f)]
        \/ f.do = "respond" /\ Talk!MayRespond(s, f)
           /\ gate' = [gate EXCEPT ![s] = Talk!Settled(Talk!Sent(gate[s], f), f.q)]
        \/ f.do = "answer" /\ Talk!MayAnswer(s, f)
           /\ \E gone \in {{}, {f.q}} :
                gate' = [gate EXCEPT ![s] =
                    [Talk!Settled(Talk!Sent(gate[s], f), f.q) EXCEPT !.open = @ \ gone]]
    BY <1>5, Zenon DEF Talk!ClientSays
  <2>9. QED
    BY <2>2, <2>3, <2>6, <2>7, <2>8, <2>4, Zenon
<1>6. QED
  BY <1>2, <1>4, <1>5

(* A list that was waited for comes: a session still on it may be          *)
(* resumed.                                                                *)
LEMMA PlaneKeeps ==
  ASSUME Apart, NEW s \in Gates, Talk!PlaneAnswers(s) \/ Talk!PlaneFails(s)
  PROVE  Apart'
<1> USE DEF Talk!hermes
<1> DEFINE f == gate[s].wait
           g == [gate[s] EXCEPT !.wait = Talk!Idle]
<1>1. /\ Keeps(gate[s], Talk!ToSet(listed), Mine, Ours)
      /\ (Talk!Confined(s) <=> OfClient(gate[s]))
  BY GatesKeep
<1>2. Keeps(g, Talk!ToSet(listed), Mine, Ours) /\ g.ticket = gate[s].ticket
  BY <1>1 DEF Keeps, Gate, OfClient
<1>3. CASE Talk!PlaneFails(s)
  <2>1. PICK h : h = [gate[s] EXCEPT !.wait = Talk!Idle, !.asking = FALSE]
    OBVIOUS
  <2>2. Keeps(h, Talk!ToSet(listed), Mine, Ours)
    BY <1>1, <2>1 DEF Keeps, Gate, OfClient
  <2>3. gate' = [gate EXCEPT ![s] = h]
    BY <1>3, <2>1 DEF Talk!PlaneFails
  <2>4. QED
    BY <1>3, <2>2, <2>3, OneMoves DEF Talk!PlaneFails
<1>4. CASE Talk!PlaneAnswers(s)
  <2>1. f # Talk!Idle /\ UNCHANGED <<made, ask, listed>> /\ f \in Asked
    BY <1>1, <1>4 DEF Talk!PlaneAnswers, Keeps, Gate
  <2>2. CASE /\ Talk!Confined(s) /\ f.do = "resume" /\ Talk!MayResume(f.x)
             /\ gate' = [gate EXCEPT ![s] = Talk!Sent(g, f)]
    <3>1. MayGo(g.ticket, f, Talk!ToSet(listed), Ours)
      BY <1>1, <1>2, <2>2 DEF MayGo, Talk!MayResume, OfClient
    <3>2. Keeps(Talk!Sent(g, f), Talk!ToSet(listed), Mine, Ours)
      BY <1>2, <2>1, <3>1, SentKeeps
    <3>3. QED
      BY <2>1, <2>2, <3>2, OneMoves
  <2>3. CASE gate' = [gate EXCEPT ![s] = g]
    BY <1>2, <2>1, <2>3, OneMoves
  <2>4. CASE ~Talk!Confined(s) /\ gate' = [gate EXCEPT ![s] = Talk!Sent(g, f)]
    <3>1. MayGo(g.ticket, f, Talk!ToSet(listed), Ours)
      BY <1>1, <1>2, <2>1, <2>4 DEF MayGo, Keeps, OfClient
    <3>2. Keeps(Talk!Sent(g, f), Talk!ToSet(listed), Mine, Ours)
      BY <1>2, <2>1, <3>1, SentKeeps
    <3>3. QED
      BY <2>1, <2>4, <3>2, OneMoves
  <2>5. CASE ~Talk!Confined(s) /\ gate' = [gate EXCEPT ![s] =
                Talk!Sent([g EXCEPT !.without = Talk!ToSet(listed)],
                          Talk!Frame("list", 0, 0, "none"))]
    <3>1. PICK h : h = [g EXCEPT !.without = Talk!ToSet(listed)]
      OBVIOUS
    <3>2. Talk!ToSet(listed) \subseteq Nat
      BY DEF Talk!ToSet, Apart, TalkTyped
    <3>3. Keeps(h, Talk!ToSet(listed), Mine, Ours) /\ h.ticket = gate[s].ticket
      BY <1>2, <3>1, <3>2 DEF Keeps, Gate, OfClient
    <3>4. Talk!Frame("list", 0, 0, "none") \in Asked
          /\ MayGo(h.ticket, Talk!Frame("list", 0, 0, "none"), Talk!ToSet(listed), Ours)
      <4>1. /\ Talk!Frame("list", 0, 0, "none") \in Asked
            /\ Talk!Frame("list", 0, 0, "none").do = "list"
        BY DEF Talk!Frame, Asked, Doings, Choices
      <4>2. h.ticket \notin {"client", "approver"}
        BY <1>1, <2>5, <3>3 DEF OfClient
      <4>3. QED
        BY <4>1, <4>2 DEF MayGo
    <3>5. Keeps(Talk!Sent(h, Talk!Frame("list", 0, 0, "none")),
                Talk!ToSet(listed), Mine, Ours)
      BY <3>3, <3>4, SentKeeps
    <3>6. QED
      BY <2>1, <2>5, <3>1, <3>5, OneMoves
  <2>6. QED
    BY <1>4, <2>2, <2>3, <2>4, <2>5 DEF Talk!PlaneAnswers
<1>5. QED
  BY <1>3, <1>4

(* Sockets come and go, and the sessions they made are listed, or not.     *)
LEMMA SocketsKeep ==
  ASSUME Apart, NEW s \in Gates,
         \/ \E t \in TicketsOf[s] : Talk!Opens(s, t)
         \/ Talk!HangsUp(s) \/ Talk!Records(s) \/ Talk!RecordFails(s)
  PROVE  Apart'
<1> USE DEF Talk!hermes
<1>1. Keeps(gate[s], Talk!ToSet(listed), Mine, Ours)
  BY GatesKeep
<1>2. ASSUME NEW t \in TicketsOf[s], Talk!Opens(s, t) PROVE Apart'
  <2>1. t \in {"none", "agency", "client", "approver"}
    BY <1>2, TalkAssumption DEF Talk!KindsAssumption
  <2>2. QED
    BY <1>2, <2>1, FreshKeeps, OneMoves DEF Talk!Opens
<1>3. CASE Talk!HangsUp(s)
  <2>1. listed' = listed \/ (gate[s].keep # 0 /\ listed' = Talk!Recorded(gate[s].keep))
    <3>1. CASE gate[s].keep = 0
      BY <1>3, <3>1 DEF Talk!HangsUp
    <3>2. CASE gate[s].keep # 0
      BY <1>3, <3>2 DEF Talk!HangsUp
    <3>3. QED
      BY <3>1, <3>2
  <2>2. Keeps(Talk!Fresh("none"), Talk!ToSet(listed'), Mine, Ours)
    BY FreshKeeps
  <2>3. QED
    BY <1>3, <2>1, <2>2, ListGrows DEF Talk!HangsUp
<1>4. CASE Talk!Records(s)
  <2>1. PICK g : g = [gate[s] EXCEPT !.keep = 0, !.live = @ \cup {gate[s].keep}]
    OBVIOUS
  <2>2. Talk!ToSet(listed') = Talk!ToSet(listed) \cup {gate[s].keep} /\ gate[s].keep \in Nat
    BY <1>1, <1>4, Recording DEF Talk!Records, Keeps, Gate
  <2>3. Keeps(gate[s], Talk!ToSet(listed'), Mine, Ours)
    BY <1>1, <2>2, Grown
  <2>4. Keeps(g, Talk!ToSet(listed'), Mine, Ours)
    BY <2>1, <2>2, <2>3 DEF Keeps, Gate, OfClient
  <2>5. gate' = [gate EXCEPT ![s] = g]
    BY <1>4, <2>1 DEF Talk!Records
  <2>6. QED
    BY <1>4, <2>4, <2>5, ListGrows DEF Talk!Records
<1>5. CASE Talk!RecordFails(s)
  <2>1. PICK g : g = [gate[s] EXCEPT !.keep = 0]
    OBVIOUS
  <2>2. Talk!ToSet(listed) \subseteq Talk!ToSet(listed')
    BY <1>5, Recording DEF Talk!RecordFails
  <2>3. Keeps(gate[s], Talk!ToSet(listed'), Mine, Ours)
    BY <1>1, <2>2, Grown
  <2>4. Keeps(g, Talk!ToSet(listed'), Mine, Ours)
    BY <2>1, <2>3 DEF Keeps, Gate, OfClient
  <2>5. gate' = [gate EXCEPT ![s] = g]
    BY <1>5, <2>1 DEF Talk!RecordFails
  <2>6. /\ UNCHANGED <<made, ask>>
        /\ \/ listed' = listed
           \/ gate[s].keep # 0 /\ listed' = Talk!Recorded(gate[s].keep)
    BY <1>5 DEF Talk!RecordFails
  <2>7. QED
    BY <2>4, <2>5, <2>6, ListGrows
<1>6. QED
  BY <1>2, <1>3, <1>4, <1>5

(* What the box says: nothing that comes is of a session that is not the   *)
(* client's own.                                                           *)
LEMMA HearsKeep ==
  ASSUME Apart, NEW s \in Gates,
         \/ Talk!HearsAsk(s) \/ Talk!HearsCancel(s) \/ Talk!HearsResumed(s)
         \/ Talk!HearsLatest(s) \/ Talk!HearsCreated(s)
  PROVE  Apart'
<1> USE DEF Talk!hermes
<1> DEFINE f == Head(gate[s].fromBox)
<1>1. PICK g : g = [gate[s] EXCEPT !.fromBox = Tail(@)]
  OBVIOUS
<1>2. /\ Keeps(gate[s], Talk!ToSet(listed), Mine, Ours) /\ gate[s].fromBox # <<>>
      /\ UNCHANGED <<made, ask, listed>>
  BY GatesKeep DEF Talk!HearsAsk, Talk!HearsCancel, Talk!HearsResumed, Talk!HearsLatest,
     Talk!HearsCreated, Talk!Next1
<1>3. /\ Keeps(g, Talk!ToSet(listed), Mine, Ours) /\ g.ticket = gate[s].ticket
      /\ f \in Heard /\ MayCome(g.ticket, f, Talk!ToSet(listed), Mine, Ours)
  <2>1. g.ticket = gate[s].ticket
    BY <1>1, <1>2 DEF Keeps, Gate
  <2>2. QED
    BY <1>1, <1>2, <2>1, RestKeeps
<1>4. ASSUME f.is \in {"ask", "resumed"}
      PROVE  Keeps(Talk!HearAsks(g, Talk!Kept(s, f.q)), Talk!ToSet(listed), Mine, Ours)
  <2>1. OfClient(g) => f.q \subseteq Ours
    BY <1>3, <1>4 DEF MayCome, OfClient
  <2>2. /\ Talk!Kept(s, f.q) \subseteq f.q /\ f.q \subseteq Nat
        /\ g.ticket = "client" => Talk!Kept(s, f.q) = {}
    BY <1>3 DEF Talk!Kept, Talk!Answers, Heard
  <2>3. PICK qs : qs = Talk!Kept(s, f.q)
    OBVIOUS
  <2>4. /\ qs \subseteq Nat
        /\ (OfClient(g) => qs \subseteq Ours) /\ (g.ticket = "client" => qs = {})
    BY <2>1, <2>2, <2>3
  <2>5. Keeps([g EXCEPT !.open = @ \cup qs, !.heard = @ \cup qs],
              Talk!ToSet(listed), Mine, Ours)
    BY <1>3, <2>4 DEF Keeps, Gate, OfClient
  <2>6. QED
    BY <2>3, <2>5 DEF Talk!HearAsks
<1>5. CASE Talk!HearsAsk(s)
  <2>1. f.is = "ask" /\ gate' = [gate EXCEPT ![s] = Talk!HearAsks(g, Talk!Kept(s, f.q))]
    BY <1>1, <1>5 DEF Talk!HearsAsk, Talk!First, Talk!Rest
  <2>2. QED
    BY <1>2, <1>4, <2>1, OneMoves
<1>6. CASE Talk!HearsCancel(s)
  <2>1. \A q : Keeps(Talk!Settled(g, q), Talk!ToSet(listed), Mine, Ours)
    BY <1>3 DEF Keeps, Gate, OfClient, Talk!Settled
  <2>2. \E q : \/ gate' = [gate EXCEPT ![s] = Talk!Settled(g, q)]
               \/ gate' = [gate EXCEPT ![s] = g]
    BY <1>1, <1>6 DEF Talk!HearsCancel, Talk!First, Talk!Rest
  <2>3. QED
    BY <1>2, <1>3, <2>1, <2>2, OneMoves
<1>7. CASE Talk!HearsResumed(s)
  <2>1. PICK h : h = Talk!HearAsks(g, Talk!Kept(s, f.q))
    OBVIOUS
  <2>2. PICK k : k = [h EXCEPT !.live = @ \cup {f.x}]
    OBVIOUS
  <2>3. f.is = "resumed" /\ gate' = [gate EXCEPT ![s] = k]
    BY <1>1, <1>7, <2>1, <2>2 DEF Talk!HearsResumed, Talk!First, Talk!Rest
  <2>4. Keeps(h, Talk!ToSet(listed), Mine, Ours) /\ h.ticket = g.ticket
    BY <1>3, <1>4, <2>1, <2>3 DEF Talk!HearAsks, Keeps, Gate
  <2>5. f.x \in Nat /\ (OfClient(h) => f.x \in Talk!ToSet(listed))
    BY <1>3, <2>3, <2>4 DEF Heard, MayCome, OfClient
  <2>6. Keeps(k, Talk!ToSet(listed), Mine, Ours)
    BY <2>2, <2>4, <2>5 DEF Keeps, Gate, OfClient
  <2>7. QED
    BY <1>2, <2>3, <2>6, OneMoves
<1>8. CASE Talk!HearsLatest(s)
  <2>1. PICK h : h = [g EXCEPT !.asking = FALSE, !.without = {}]
    OBVIOUS
  <2>2. Keeps(h, Talk!ToSet(listed), Mine, Ours)
    BY <1>3, <2>1 DEF Keeps, Gate, OfClient
  <2>3. gate' = [gate EXCEPT ![s] = h]
    BY <1>1, <1>8, <2>1 DEF Talk!HearsLatest, Talk!Rest
  <2>4. QED
    BY <1>2, <2>2, <2>3, OneMoves
<1>9. CASE Talk!HearsCreated(s)
  <2>1. PICK h : h = [g EXCEPT !.keep = f.x]
    OBVIOUS
  <2>2. f.x \in Nat /\ f.x \in Mine
    BY <1>3, <1>9 DEF Talk!HearsCreated, Talk!First, Heard, MayCome
  <2>3. Keeps(h, Talk!ToSet(listed), Mine, Ours)
    BY <1>3, <2>1, <2>2 DEF Keeps, Gate, OfClient
  <2>4. gate' = [gate EXCEPT ![s] = h]
    BY <1>1, <1>9, <2>1 DEF Talk!HearsCreated, Talk!First, Talk!Rest
  <2>5. QED
    BY <1>2, <2>3, <2>4, OneMoves
<1>10. QED
  BY <1>5, <1>6, <1>7, <1>8, <1>9

(* The box takes a request: a session made for a client is one of the      *)
(* client's from then on, before anything lists it.                        *)
LEMMA TakesKeep ==
  ASSUME Apart, NEW s \in Gates, Talk!Takes(s)
  PROVE  Apart'
<1> DEFINE f == Head(gate[s].toBox)
<1>1. PICK g : g = [gate[s] EXCEPT !.toBox = Tail(@)]
  OBVIOUS
<1>2. /\ Keeps(gate[s], Talk!ToSet(listed), Mine, Ours) /\ gate[s].toBox # <<>>
      /\ (Talk!Confined(s) <=> OfClient(gate[s])) /\ UNCHANGED <<ask, listed>>
  BY GatesKeep DEF Talk!Takes
<1>3. /\ Keeps(g, Talk!ToSet(listed), Mine, Ours) /\ g.ticket = gate[s].ticket
      /\ f \in Asked /\ MayGo(g.ticket, f, Talk!ToSet(listed), Ours)
  <2>1. g.ticket = gate[s].ticket
    BY <1>1, <1>2 DEF Keeps, Gate
  <2>2. QED
    BY <1>1, <1>2, <2>1, TakenKeeps
<1>4. made \in Seq({"agency", "client"}) /\ Len(made) \in Nat
      /\ Talk!ToSet(listed) \subseteq Mine /\ SettledWell /\ TalkTyped
  BY DEF Apart, TalkTyped
<1>5. CASE /\ f.do = "create" /\ made' = Append(made, Talk!Whose(s))
           /\ gate' = [gate EXCEPT ![s] =
               IF Talk!Confined(s)
               THEN Talk!Says([g EXCEPT !.attached = @ \cup {Len(made) + 1}],
                               "created", Len(made) + 1, {})
               ELSE g]
  <2> DEFINE n == Len(made) + 1
  <2>1. /\ made' \in Seq({"agency", "client"}) /\ DOMAIN made' = DOMAIN made \cup {n}
        /\ \A m \in DOMAIN made : made'[m] = made[m]
        /\ made'[n] = Talk!Whose(s) /\ n \in Nat
    <3>1. Talk!Whose(s) \in {"agency", "client"}
      BY DEF Talk!Whose
    <3>2. QED
      BY <1>4, <1>5, <3>1
  <2>2. Mine \subseteq Mine' /\ (Talk!Confined(s) => n \in Mine')
    BY <2>1 DEF Mine, Talk!Whose
  <2>3. Ours \subseteq Ours'
    BY <1>2, <2>2 DEF Ours, Talk!Asks
  <2>4. TalkTyped'
    BY <1>2, <1>4, <1>5, <2>1 DEF TalkTyped
  <2>5. SettledWell' /\ (Talk!ToSet(listed) \subseteq Mine)'
    BY <1>2, <1>4, <2>2 DEF SettledWell, Talk!Asks
  <2>6. \A t \in Gates : Keeps(gate[t], Talk!ToSet(listed), Mine', Ours')
    BY <2>2, <2>3, Grown DEF Apart
  <2>7. Keeps(g, Talk!ToSet(listed), Mine', Ours')
    BY <1>3, <2>2, <2>3, Grown
  <2>8. CASE Talk!Confined(s)
    <3>1. PICK h : h = [g EXCEPT !.attached = @ \cup {n}]
      OBVIOUS
    <3>2. Keeps(h, Talk!ToSet(listed), Mine', Ours')
      BY <2>1, <2>2, <2>7, <2>8, <3>1 DEF Keeps, Gate, OfClient
    <3>3. "created" \in Sayings /\ {} \in SUBSET Nat
          /\ MayCome(h.ticket, [is |-> "created", x |-> n, q |-> {}],
                     Talk!ToSet(listed), Mine', Ours')
      BY <2>2, <2>8 DEF Sayings, MayCome
    <3>4. Keeps(Talk!Says(h, "created", n, {}), Talk!ToSet(listed), Mine', Ours')
      BY <2>1, <3>2, <3>3, SaysKeeps
    <3>5. \A t \in Gates :
            gate'[t] = IF t = s THEN Talk!Says(h, "created", n, {}) ELSE gate[t]
      BY <1>4, <1>5, <2>8, <3>1 DEF TalkTyped
    <3>6. \A t \in Gates : Keeps(gate'[t], Talk!ToSet(listed'), Mine', Ours')
      BY <1>2, <2>6, <3>4, <3>5
    <3>7. QED
      BY <2>4, <2>5, <3>6 DEF Apart
  <2>9. CASE ~Talk!Confined(s)
    <3>1. \A t \in Gates : gate'[t] = IF t = s THEN g ELSE gate[t]
      BY <1>4, <1>5, <2>9 DEF TalkTyped
    <3>2. \A t \in Gates : Keeps(gate'[t], Talk!ToSet(listed'), Mine', Ours')
      BY <1>2, <2>6, <2>7, <3>1
    <3>3. QED
      BY <2>4, <2>5, <3>2 DEF Apart
  <2>10. QED
    BY <2>8, <2>9
<1>6. CASE /\ f.do = "resume" /\ UNCHANGED made
           /\ gate' = [gate EXCEPT ![s] =
               Talk!Says([g EXCEPT !.attached = @ \cup {f.x}],
                          "resumed", f.x, Talk!Waiting(f.x))]
  <2>1. PICK h : h = [g EXCEPT !.attached = @ \cup {f.x}]
    OBVIOUS
  <2>2. f.x \in Nat /\ (OfClient(g) => f.x \in Talk!ToSet(listed) /\ f.x \in Mine)
    <3>1. f.x \in Nat
      BY <1>3 DEF Asked
    <3>2. OfClient(g) => f.x \in Talk!ToSet(listed)
      BY <1>3, <1>6 DEF MayGo, OfClient
    <3>3. QED
      BY <1>4, <3>1, <3>2
  <2>3. Keeps(h, Talk!ToSet(listed), Mine, Ours) /\ h.ticket = g.ticket
    BY <1>3, <2>1, <2>2 DEF Keeps, Gate, OfClient
  <2>4. Talk!Waiting(f.x) \subseteq Nat /\ (OfClient(g) => Talk!Waiting(f.x) \subseteq Ours)
    BY <2>2 DEF Talk!Waiting, Ours, Talk!Asks
  <2>5. "resumed" \in Sayings
        /\ MayCome(h.ticket, [is |-> "resumed", x |-> f.x, q |-> Talk!Waiting(f.x)],
                   Talk!ToSet(listed), Mine, Ours)
    BY <2>2, <2>3, <2>4 DEF Sayings, MayCome, OfClient
  <2>6. Keeps(Talk!Says(h, "resumed", f.x, Talk!Waiting(f.x)),
              Talk!ToSet(listed), Mine, Ours)
    BY <2>2, <2>3, <2>4, <2>5, SaysKeeps
  <2>7. QED
    BY <1>2, <1>6, <2>1, <2>6, OneMoves
<1>7. ASSUME NEW is \in {"latest", "sessions"}
      PROVE  Keeps(Talk!Says(g, is, Len(made), {}), Talk!ToSet(listed), Mine, Ours)
  <2>1. is \in Sayings /\ {} \in SUBSET Nat
        /\ MayCome(g.ticket, [is |-> is, x |-> Len(made), q |-> {}],
                   Talk!ToSet(listed), Mine, Ours)
    BY DEF Sayings, MayCome
  <2>2. QED
    BY <1>3, <1>4, <2>1, SaysKeeps
<1>8. CASE UNCHANGED made /\ \E is \in {"latest", "sessions"} :
             gate' = [gate EXCEPT ![s] = Talk!Says(g, is, Len(made), {})]
  BY <1>2, <1>7, <1>8, OneMoves
<1>9. CASE UNCHANGED made /\ gate' = [gate EXCEPT ![s] = g]
  BY <1>2, <1>3, <1>9, OneMoves
<1>10. QED
  BY <1>1, <1>5, <1>6, <1>8, <1>9 DEF Talk!Takes

(* Gates told that a question is over keep what they kept.                 *)
LEMMA ToldKeep ==
  ASSUME NEW own, NEW mine, NEW ours, NEW all, NEW q \in Nat,
         \A t \in Gates : Keeps(gate[t], own, mine, ours)
  PROVE  \A t \in Gates : Keeps(Talk!Told(all, q)[t], own, mine, ours)
<1>1. ASSUME NEW t \in Gates
      PROVE  Keeps(Talk!Says(gate[t], "cancel", 0, {q}), own, mine, ours)
  <2>1. "cancel" \in Sayings /\ {q} \in SUBSET Nat /\ 0 \in Nat
        /\ MayCome(gate[t].ticket, [is |-> "cancel", x |-> 0, q |-> {q}], own, mine, ours)
    BY DEF Sayings, MayCome
  <2>2. QED
    BY <2>1, SaysKeeps
<1>2. QED
  BY <1>1 DEF Talk!Told

(* The box settles a question: it was raised in a session of a client's    *)
(* if a client answers it, and that does not change.                       *)
LEMMA SettlesKeep ==
  ASSUME Apart, NEW s \in Gates, Talk!Settles(s)
  PROVE  Apart'
<1> DEFINE f == Head(gate[s].toBox)
           done == ask[f.q].state = "waiting"
                   /\ (f.do = "answer" \/ f.x \in stale \/ ask[f.q].in = f.x)
           to == IF done THEN Talk!Hearers(f.q) ELSE {}
<1>1. /\ gate[s].toBox # <<>> /\ f.do \in {"respond", "answer"}
      /\ UNCHANGED <<made, listed>>
      /\ gate' = [Talk!Told(to, f.q) EXCEPT ![s].toBox = Tail(@)]
      /\ ask' = IF done THEN [ask EXCEPT ![f.q].state = "done", ![f.q].by = gate[s].ticket,
                                         ![f.q].choice = f.c]
                ELSE ask
  BY DEF Talk!Settles
<1>2. Keeps(gate[s], Talk!ToSet(listed), Mine, Ours)
  BY GatesKeep
<1>3. f \in Asked /\ MayGo(gate[s].ticket, f, Talk!ToSet(listed), Ours)
  BY <1>1, <1>2, TakenKeeps
<1>4. gate[s].ticket = "approver" /\ f.c \in Talk!ClientChoices /\ f.q \in Ours
  BY <1>1, <1>3 DEF MayGo
<1>5. f.q \in Talk!Asks /\ ask[f.q].in \in Mine /\ f.q \in Nat /\ f.c \in Choices
  BY <1>3, <1>4 DEF Ours, Asked
<1>6. TalkTyped /\ SettledWell /\ Talk!ToSet(listed) \subseteq Mine
      /\ \A t \in Gates : Keeps(gate[t], Talk!ToSet(listed), Mine, Ours)
      /\ ask \in [Talk!Asks -> [in : Nat, state : {"none", "waiting", "done"},
                           by : {"none", "agency", "client", "approver"}, choice : Choices]]
  BY DEF Apart, TalkTyped
<1> HIDE DEF to, done, f
<1>7. /\ \A q \in Talk!Asks : ask'[q].in = ask[q].in
      /\ \A q \in Talk!Asks :
           \/ ask'[q].by = ask[q].by /\ ask'[q].choice = ask[q].choice
           \/ q = f.q /\ ask'[q].by = "approver" /\ ask'[q].choice = f.c
      /\ ask' \in [Talk!Asks -> [in : Nat, state : {"none", "waiting", "done"},
                            by : {"none", "agency", "client", "approver"}, choice : Choices]]
  <2>1. CASE ~done
    BY <1>1, <1>6, <2>1
  <2>2. CASE done
    BY <1>1, <1>4, <1>5, <1>6, <2>2
  <2>3. QED
    BY <2>1, <2>2
<1>8. Mine' = Mine /\ Ours' = Ours
  <2>1. UNCHANGED made /\ \A o \in Talk!Asks : ask'[o].in = ask[o].in
    BY <1>1, <1>7
  <2>2. Mine' = Mine
    BY <2>1 DEF Mine
  <2>3. QED
    BY <2>1, <2>2 DEF Ours, Talk!Asks
<1>9. SettledWell' /\ (Talk!ToSet(listed) \subseteq Mine)'
  BY <1>1, <1>4, <1>5, <1>6, <1>7, <1>8 DEF SettledWell, Talk!Asks
<1>10. TalkTyped'
  BY <1>1, <1>6, <1>7 DEF TalkTyped, Talk!Told, Talk!Asks
<1>11. \A t \in Gates : Keeps(Talk!Told(to, f.q)[t], Talk!ToSet(listed), Mine, Ours)
                          /\ Talk!Told(to, f.q)[t].toBox = gate[t].toBox
  <2>1. \A t \in Gates : Keeps(Talk!Told(to, f.q)[t], Talk!ToSet(listed), Mine, Ours)
    BY <1>5, <1>6, ToldKeep
  <2>2. \A t \in Gates : Talk!Told(to, f.q)[t].toBox = gate[t].toBox
    BY <1>6 DEF Talk!Told, Talk!Says, Keeps, Gate
  <2>3. QED
    BY <2>1, <2>2
<1>12. \A t \in Gates : Keeps(gate'[t], Talk!ToSet(listed'), Mine', Ours')
  <2>1. PICK h : h = Talk!Told(to, f.q)[s]
    OBVIOUS
  <2>2. Keeps([h EXCEPT !.toBox = Tail(@)], Talk!ToSet(listed), Mine, Ours)
    BY <1>1, <1>11, <2>1, TakenKeeps
  <2>3. \A t \in Gates :
          gate'[t] = IF t = s THEN [h EXCEPT !.toBox = Tail(@)] ELSE Talk!Told(to, f.q)[t]
    BY <1>1, <2>1 DEF Talk!Told
  <2>4. QED
    BY <1>1, <1>8, <1>11, <2>2, <2>3
<1>13. QED
  BY <1>9, <1>10, <1>12 DEF Apart

(* The agent asks: whoever hears is attached to the session, so a client   *)
(* that hears it made the session.                                         *)
LEMMA AgentAsksKeeps ==
  ASSUME Apart, NEW q \in Talk!Asks, NEW n \in Talk!Sessions, Talk!AgentAsks(q, n)
  PROVE  Apart'
<1> DEFINE to == {s \in Gates : n \in gate[s].attached}
<1>1. /\ ask[q] = Talk!NoAsk /\ UNCHANGED <<made, listed>>
      /\ ask' = [ask EXCEPT ![q] = [Talk!NoAsk EXCEPT !.in = n, !.state = "waiting"]]
      /\ gate' = [s \in Gates |->
                    IF s \in to THEN Talk!Says(gate[s], "ask", n, {q}) ELSE gate[s]]
  BY DEF Talk!AgentAsks
<1>2. TalkTyped /\ SettledWell /\ Talk!ToSet(listed) \subseteq Mine
      /\ \A t \in Gates : Keeps(gate[t], Talk!ToSet(listed), Mine, Ours)
  BY DEF Apart
<1>3. q \in Nat /\ n \in Nat
  BY TalkAssumption DEF Talk!Asks, Talk!Sessions, Talk!BoundsAssumption
<1>4. /\ \A o \in Talk!Asks : o # q => ask'[o] = ask[o]
      /\ ask'[q].in = n /\ ask'[q].by = "none"
      /\ ask' \in [Talk!Asks -> [in : Nat, state : {"none", "waiting", "done"},
                            by : {"none", "agency", "client", "approver"}, choice : Choices]]
  <2>1. PICK e : e = Talk!NoAsk
    OBVIOUS
  <2>2. PICK g : g = [e EXCEPT !.in = n, !.state = "waiting"]
    OBVIOUS
  <2>3. g \in [in : Nat, state : {"none", "waiting", "done"},
               by : {"none", "agency", "client", "approver"}, choice : Choices]
        /\ g.in = n /\ g.by = "none"
    BY <1>3, <2>1, <2>2 DEF Talk!NoAsk, Choices
  <2>4. ask' = [ask EXCEPT ![q] = g]
    BY <1>1, <2>1, <2>2
  <2>5. QED
    BY <1>2, <2>3, <2>4 DEF TalkTyped
<1>5. Mine' = Mine /\ 0 \notin Mine
  BY <1>1, <1>2 DEF Mine, TalkTyped
<1>6. Ours \subseteq Ours' /\ (n \in Mine => q \in Ours')
  BY <1>1, <1>4, <1>5 DEF Ours, Talk!NoAsk, Talk!Asks
<1>7. SettledWell' /\ (Talk!ToSet(listed) \subseteq Mine)'
  BY <1>1, <1>2, <1>4, <1>5 DEF SettledWell, Talk!Asks
<1>8. TalkTyped'
  BY <1>1, <1>2, <1>4 DEF TalkTyped, Talk!Asks
<1>9. ASSUME NEW t \in Gates PROVE Keeps(gate'[t], Talk!ToSet(listed'), Mine', Ours')
  <2>1. Keeps(gate[t], Talk!ToSet(listed), Mine, Ours')
    BY <1>2, <1>6, Grown
  <2>2. CASE t \in to
    <3>1. "ask" \in Sayings /\ {q} \in SUBSET Nat
          /\ MayCome(gate[t].ticket, [is |-> "ask", x |-> n, q |-> {q}],
                     Talk!ToSet(listed), Mine, Ours')
      BY <1>3, <1>6, <2>1, <2>2 DEF Sayings, MayCome, Keeps, OfClient
    <3>2. Keeps(Talk!Says(gate[t], "ask", n, {q}), Talk!ToSet(listed), Mine, Ours')
      BY <1>3, <2>1, <3>1, SaysKeeps
    <3>3. QED
      BY <1>1, <1>5, <2>2, <3>2
  <2>3. CASE t \notin to
    BY <1>1, <1>5, <2>1, <2>3
  <2>4. QED
    BY <2>2, <2>3
<1>10. QED
  BY <1>7, <1>8, <1>9 DEF Apart

(* A question that times out was settled by nobody.                        *)
LEMMA TimeOutKeeps ==
  ASSUME Apart, NEW q \in Talk!Asks, Talk!AskTimesOut(q)
  PROVE  Apart'
<1>1. /\ UNCHANGED <<made, listed>> /\ ask' = [ask EXCEPT ![q].state = "done"]
      /\ gate' = Talk!Told(Talk!Hearers(q), q)
  BY DEF Talk!AskTimesOut
<1>2. TalkTyped /\ SettledWell /\ Talk!ToSet(listed) \subseteq Mine
      /\ \A t \in Gates : Keeps(gate[t], Talk!ToSet(listed), Mine, Ours)
  BY DEF Apart
<1>3. /\ \A o \in Talk!Asks : ask'[o].in = ask[o].in /\ ask'[o].by = ask[o].by
                         /\ ask'[o].choice = ask[o].choice
      /\ ask' \in [Talk!Asks -> [in : Nat, state : {"none", "waiting", "done"},
                            by : {"none", "agency", "client", "approver"}, choice : Choices]]
  BY <1>1, <1>2 DEF TalkTyped
<1>4. Mine' = Mine /\ Ours' = Ours
  BY <1>1, <1>3 DEF Mine, Ours, Talk!Asks
<1>5. SettledWell' /\ (Talk!ToSet(listed) \subseteq Mine)'
  BY <1>1, <1>2, <1>3, <1>4 DEF SettledWell, Talk!Asks
<1>6. TalkTyped'
  BY <1>1, <1>2, <1>3 DEF TalkTyped, Talk!Told, Talk!Asks
<1>7. q \in Nat
  BY TalkAssumption DEF Talk!Asks, Talk!BoundsAssumption
<1>8. \A t \in Gates : Keeps(gate'[t], Talk!ToSet(listed'), Mine', Ours')
  BY <1>1, <1>2, <1>4, <1>7, ToldKeep
<1>9. QED
  BY <1>5, <1>6, <1>8 DEF Apart

(* A session the box forgets has nobody attached.                          *)
LEMMA ForgetsKeeps ==
  ASSUME Apart, NEW n \in Talk!Sessions, Talk!Forgets(n)
  PROVE  Apart'
<1>1. /\ UNCHANGED <<made, ask, listed>>
      /\ gate' = [s \in Gates |-> [gate[s] EXCEPT !.attached = @ \ {n}]]
  BY DEF Talk!Forgets
<1>2. TalkTyped /\ SettledWell /\ Talk!ToSet(listed) \subseteq Mine
      /\ \A t \in Gates : Keeps(gate[t], Talk!ToSet(listed), Mine, Ours)
  BY DEF Apart
<1>3. Mine' = Mine /\ Ours' = Ours
  BY <1>1 DEF Mine, Ours, Talk!Asks
<1>4. TalkTyped' /\ SettledWell' /\ (Talk!ToSet(listed) \subseteq Mine)'
  BY <1>1, <1>2, <1>3 DEF TalkTyped, SettledWell, Talk!Asks
<1>5. ASSUME NEW g, Keeps(g, Talk!ToSet(listed), Mine, Ours)
      PROVE  Keeps([g EXCEPT !.attached = @ \ {n}], Talk!ToSet(listed), Mine, Ours)
  BY <1>5 DEF Keeps, Gate, OfClient
<1>6. \A t \in Gates : Keeps(gate'[t], Talk!ToSet(listed'), Mine', Ours')
  BY <1>1, <1>2, <1>3, <1>5
<1>7. QED
  BY <1>4, <1>6 DEF Apart

(* Nothing is said at first, and every step keeps the invariant.           *)
LEMMA ApartInit == Talk!Init => Apart
<1> SUFFICES ASSUME Talk!Init PROVE Apart
  OBVIOUS
<1>1. made = <<>> /\ listed = <<>> /\ ask = [q \in Talk!Asks |-> Talk!NoAsk]
      /\ gate = [s \in Gates |-> Talk!Fresh("none")]
  BY DEF Talk!Init
<1>2. Talk!NoAsk \in [in : Nat, state : {"none", "waiting", "done"},
                 by : {"none", "agency", "client", "approver"}, choice : Choices]
  BY DEF Talk!NoAsk, Choices
<1>3. Talk!ToSet(listed) = {}
  BY <1>1 DEF Talk!ToSet
<1>4. TalkTyped
  BY <1>1, <1>2 DEF TalkTyped
<1>5. SettledWell
  BY <1>1 DEF SettledWell, Talk!NoAsk
<1>6. \A s \in Gates : Keeps(gate[s], Talk!ToSet(listed), Mine, Ours)
  BY <1>1, FreshKeeps
<1>7. QED
  BY <1>3, <1>4, <1>5, <1>6 DEF Apart

LEMMA ApartNext == Apart /\ [Talk!Next]_(Talk!vars) => Apart'
<1> SUFFICES ASSUME Apart, [Talk!Next]_(Talk!vars) PROVE Apart'
  OBVIOUS
<1>1. CASE UNCHANGED Talk!vars
  <2>1. UNCHANGED <<made, ask, listed, gate>>
    BY <1>1 DEF Talk!vars
  <2>2. Mine' = Mine /\ Ours' = Ours
    BY <2>1 DEF Mine, Ours, Talk!Asks
  <2>3. QED
    BY <2>1, <2>2 DEF Apart, TalkTyped, SettledWell, Talk!Asks
<1>2. ASSUME NEW s \in Gates, \E t \in TicketsOf[s] : Talk!Opens(s, t) PROVE Apart'
  BY <1>2, SocketsKeep
<1>3. ASSUME NEW s \in Gates, NEW f \in Talk!Frames,
             Talk!AgencySays(s, f) \/ Talk!ClientSays(s, f)
      PROVE  Apart'
  BY <1>3, PagesKeep
<1>4. ASSUME NEW s \in Gates,
             \/ Talk!HangsUp(s) \/ Talk!PlaneAnswers(s) \/ Talk!PlaneFails(s)
             \/ Talk!Takes(s) \/ Talk!Settles(s)
             \/ Talk!HearsAsk(s) \/ Talk!HearsCancel(s) \/ Talk!HearsResumed(s)
             \/ Talk!HearsLatest(s) \/ Talk!HearsCreated(s)
             \/ Talk!Records(s) \/ Talk!RecordFails(s)
      PROVE  Apart'
  <2>1. CASE Talk!HangsUp(s) \/ Talk!Records(s) \/ Talk!RecordFails(s)
    BY <2>1, SocketsKeep
  <2>2. CASE Talk!PlaneAnswers(s) \/ Talk!PlaneFails(s)
    BY <2>2, PlaneKeeps
  <2>3. CASE Talk!Takes(s)
    BY <2>3, TakesKeep
  <2>4. CASE Talk!Settles(s)
    BY <2>4, SettlesKeep
  <2>5. CASE \/ Talk!HearsAsk(s) \/ Talk!HearsCancel(s) \/ Talk!HearsResumed(s)
             \/ Talk!HearsLatest(s) \/ Talk!HearsCreated(s)
    BY <2>5, HearsKeep
  <2>6. QED
    BY <1>4, <2>1, <2>2, <2>3, <2>4, <2>5
<1>5. ASSUME NEW q \in Talk!Asks, NEW n \in Talk!Sessions, Talk!AgentAsks(q, n) PROVE Apart'
  BY <1>5, AgentAsksKeeps
<1>6. ASSUME NEW q \in Talk!Asks, Talk!AskTimesOut(q) PROVE Apart'
  BY <1>6, TimeOutKeeps
<1>7. ASSUME NEW n \in Talk!Sessions, Talk!Forgets(n) PROVE Apart'
  BY <1>7, ForgetsKeeps
<1>8. QED
  BY <1>1, <1>2, <1>3, <1>4, <1>5, <1>6, <1>7 DEF Talk!Next

(* The invariant says what the property says.                              *)
LEMMA ApartMeans == Apart => Talk!ClientsKeepToTheirs /\ Talk!ApprovalsStayTheAgencys
<1> SUFFICES ASSUME Apart PROVE Talk!ClientsKeepToTheirs /\ Talk!ApprovalsStayTheAgencys
  OBVIOUS
<1>1. \A n \in Talk!ToSet(listed) : made[n] = "client"
  BY DEF Apart, Mine
<1>2. ASSUME NEW s \in Gates, Talk!Confined(s)
      PROVE  /\ gate[s].live \subseteq Talk!ToSet(listed)
             /\ \A f \in Talk!ToSet(gate[s].toBox) : f.x # 0 => f.x \in Talk!ToSet(listed)
  <2>1. /\ Keeps(gate[s], Talk!ToSet(listed), Mine, Ours)
        /\ gate[s].ticket \in {"client", "approver"}
    BY <1>2, GatesKeep DEF Talk!Confined
  <2>2. gate[s].live \subseteq Talk!ToSet(listed)
    BY <2>1 DEF Keeps, OfClient
  <2>3. ASSUME NEW f \in Talk!ToSet(gate[s].toBox) PROVE f.x \in Talk!ToSet(listed) \cup {0}
    BY <2>1 DEF Keeps, MayGo
  <2>4. QED
    BY <2>2, <2>3
<1>3. \A s \in Gates : gate[s].ticket = "client" => gate[s].open = {}
  BY DEF Apart, Keeps
<1>4. \A q \in Talk!Asks : ask[q].by # "none" =>
         /\ ask[q].by = "approver" /\ ask[q].choice \in Talk!ClientChoices
         /\ made[ask[q].in] = "client"
  BY DEF Apart, SettledWell, Mine
<1>5. QED
  BY <1>1, <1>2, <1>3, <1>4 DEF Talk!ClientsKeepToTheirs, Talk!ApprovalsStayTheAgencys

(* A client's socket reaches the sessions its own pages made and no        *)
(* others, and an approval raised elsewhere is the agency's to answer, in  *)
(* any order of frames, lists, records that are lost, sockets that go and  *)
(* sessions that are forgotten (door/conversation.py: _confined,           *)
(* _may_resume, _created, _without_approvals).                             *)
THEOREM ClientsAreApart == MCSpec => []ClientsStayApart
<1>1. MCInit => Apart
  BY ApartInit DEF MCInit
<1>2. Apart /\ [MCNext]_<<part, vars, talk>> => Apart'
  <2> SUFFICES ASSUME Apart, [MCNext]_<<part, vars, talk>> PROVE Apart'
    OBVIOUS
  <2>1. Talk!Next \/ UNCHANGED talk
    BY DEF MCNext
  <2>2. [Talk!Next]_(Talk!vars)
    BY <2>1 DEF talk, Talk!vars
  <2>3. QED
    BY <2>2, ApartNext
<1>3. Apart => ClientsStayApart
  BY ApartMeans DEF ClientsStayApart
<1>4. QED
  BY <1>1, <1>2, <1>3, PTL DEF MCSpec
=============================================================================
