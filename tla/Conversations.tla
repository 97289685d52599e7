--------------------------- MODULE Conversations ---------------------------
(***************************************************************************)
(* Whose conversation is whose (flotta/door/conversation.py).              *)
(*                                                                         *)
(* An agent talks to its agency's people and to its client's.  Each has a  *)
(* socket through the door, which relays the two directions of a socket in *)
(* two coroutines and waits for the control plane in either: it keeps the  *)
(* list of the sessions that are the client's.  A client's socket is       *)
(* confined to those, and to the approvals it was asked there, when it may *)
(* answer any.                                                             *)
(*                                                                         *)
(* A page numbers its requests, so an answer is known by what it answers.  *)
(* A live id stands for its session, an approval's srq id for its          *)
(* request_id, and what the agent asks but an approval is left out.        *)
(* Hermes is external: it is modelled for what a gate must withstand.      *)
(***************************************************************************)
EXTENDS Naturals, Sequences, SequencesExt, FiniteSets

CONSTANTS
    Sockets,
    TicketsOf,      \* the kinds of tickets a socket is opened with: agency, client, approver
    MaxSessions,    \* bound: sessions ever made
    MaxAsks,        \* bound: questions the agent ever asks
    MaxFrames       \* bound: frames on their way in one direction

KindsAssumption == TicketsOf \in [Sockets -> SUBSET {"agency", "client", "approver"}]
BoundsAssumption == MaxSessions \in Nat /\ MaxAsks \in Nat /\ MaxFrames \in Nat

Sessions == 1..MaxSessions
Asks == 1..MaxAsks

VARIABLES
    made,     \* Hermes's sessions, oldest first: whose page made each
    stale,    \* those whose live id Hermes has forgotten
    ask,      \* what the agent asked
    listed,   \* the control plane's list, newest first
    sock      \* each socket's gate and what is on its way

vars == <<made, stale, ask, listed, sock>>

NoAsk == [in |-> 0, state |-> "none", by |-> "none", choice |-> "none"]
Idle == [do |-> "none"]
Fresh(t) ==
    [ticket |-> t, attached |-> {}, live |-> {}, open |-> {}, heard |-> {},
     wait |-> Idle, keep |-> 0, without |-> {}, asking |-> FALSE, toBox |-> <<>>, fromBox |-> <<>>]
Frame(do, x, q, c) == [do |-> do, x |-> x, q |-> q, c |-> c]

TypeOK ==
    /\ Len(made) <= MaxSessions /\ \A n \in DOMAIN made : made[n] \in {"agency", "client"}
    /\ stale \subseteq DOMAIN made /\ ToSet(listed) \subseteq DOMAIN made
    /\ \A q \in Asks : ask[q].state \in {"none", "waiting", "done"}
    /\ \A s \in Sockets :
         /\ sock[s].live \cup sock[s].attached \cup sock[s].without \subseteq DOMAIN made
         /\ sock[s].open \cup sock[s].heard \subseteq Asks
         /\ Len(sock[s].toBox) <= MaxFrames /\ Len(sock[s].fromBox) <= MaxFrames
Init ==
    /\ made = <<>> /\ stale = {} /\ ask = [q \in Asks |-> NoAsk] /\ listed = <<>>
    /\ sock = [s \in Sockets |-> Fresh("none")]

Confined(s) == sock[s].ticket \in {"client", "approver"}
Answers(s) == sock[s].ticket = "approver"
Whose(s) == IF Confined(s) THEN "client" ELSE "agency"
hermes == <<made, stale, ask>>

-----------------------------------------------------------------------------
(* From the page. *)

Opens(s, t) ==
    /\ sock[s].ticket = "none" /\ sock' = [sock EXCEPT ![s] = Fresh(t)]
    /\ UNCHANGED <<hermes, listed>>

Recorded(n) == IF n \in ToSet(listed) THEN listed ELSE <<n>> \o listed

(* The gate goes with its socket; a record on its way may still land.      *)
HangsUp(s) ==
    /\ sock[s].ticket # "none" /\ sock' = [sock EXCEPT ![s] = Fresh("none")]
    /\ listed' \in {listed} \cup (IF sock[s].keep = 0 THEN {} ELSE {Recorded(sock[s].keep)})
    /\ UNCHANGED hermes

Speaks(s) == sock[s].ticket # "none" /\ sock[s].wait = Idle /\ Len(sock[s].toBox) < MaxFrames
Sent(g, f) == [g EXCEPT !.toBox = Append(@, f)]

(* from_client, of the agency: forwarded unread but for its latest, which  *)
(* its page asks for once at a time (bound).  What it does with the rest   *)
(* of the agent changes nothing here.                                      *)
AgencySays(s, f) ==
    /\ Speaks(s) /\ sock[s].ticket = "agency" /\ f.do \in {"latest", "create"}
    /\ IF f.do = "latest"
       THEN /\ ~sock[s].asking
            /\ sock' = [sock EXCEPT ![s].wait = f, ![s].asking = TRUE]
       ELSE sock' = [sock EXCEPT ![s] = Sent(@, f)]
    /\ UNCHANGED <<hermes, listed>>

(* What a client's person may choose.                                      *)
ClientChoices == {"once", "session", "deny"}
Settled(g, q) == [g EXCEPT !.heard = @ \ {q}]

(* approval.respond, of an approval asked here in the session it names.    *)
MayRespond(s, f) ==
    /\ Answers(s) /\ f.c \in ClientChoices /\ f.x \in sock[s].live
    /\ f.q \in sock[s].heard /\ ask[f.q].in = f.x

(* A response frame or request.answer, to what the box asked this socket.  *)
MayAnswer(s, f) ==
    f.q \in sock[s].open /\ f.c \in ClientChoices

(* _confined: what is not a conversation's, or not this socket's, goes no  *)
(* further.  The latest and a resume wait for the list.                    *)
ClientSays(s, f) ==
    /\ Speaks(s) /\ Confined(s)
    /\ \/ f.do \in {"latest", "resume"} /\ sock' = [sock EXCEPT ![s].wait = f]
       \/ f.do = "create" /\ sock' = [sock EXCEPT ![s] = Sent(@, f)]
       \/ f.do = "submit" /\ f.x \in sock[s].live /\ sock' = [sock EXCEPT ![s] = Sent(@, f)]
       \/ f.do = "respond" /\ MayRespond(s, f)
          /\ sock' = [sock EXCEPT ![s] = Settled(Sent(@, f), f.q)]
       \/ f.do = "answer" /\ MayAnswer(s, f)
          /\ \E gone \in {{}, {f.q}} :
               sock' = [sock EXCEPT ![s] = [Settled(Sent(sock[s], f), f.q) EXCEPT !.open = @ \ gone]]
    /\ UNCHANGED <<hermes, listed>>

(* _may_resume: only what is on the list.                                  *)
MutMayResume(x) == TRUE
MayResume(x) == x \in ToSet(listed)

(* The list arrives: _client_latest, _may_resume, _agency_latest.  It only *)
(* grows, so when it was read does not matter, only that what it is used   *)
(* for comes later.                                                        *)
PlaneAnswers(s) ==
    LET f == sock[s].wait  g == [sock[s] EXCEPT !.wait = Idle] IN
    /\ f # Idle
    /\ sock' = [sock EXCEPT ![s] =
         IF Confined(s) THEN (IF f.do = "resume" /\ MayResume(f.x) THEN Sent(g, f) ELSE g)
         ELSE IF listed = <<>> THEN Sent(g, f)
         ELSE Sent([g EXCEPT !.without = ToSet(listed)], Frame("list", 0, 0, "none"))]
    /\ UNCHANGED <<hermes, listed>>

(* The control plane is not reached: the page is told so.                  *)
PlaneFails(s) ==
    /\ sock[s].wait # Idle /\ sock' = [sock EXCEPT ![s].wait = Idle, ![s].asking = FALSE]
    /\ UNCHANGED <<hermes, listed>>

-----------------------------------------------------------------------------
(* Hermes. *)

Says(g, is, x, q) == [g EXCEPT !.fromBox = Append(@, [is |-> is, x |-> x, q |-> q])]
Room(s) == Len(sock[s].fromBox) < MaxFrames
Waiting(x) == {q \in Asks : ask[q].in = x /\ ask[q].state = "waiting"}
Hearers(q) == {s \in Sockets : ask[q].in \in sock[s].attached}

(* What the socket asked is done and answered.                             *)
Takes(s) ==
    LET f == Head(sock[s].toBox)  g == [sock[s] EXCEPT !.toBox = Tail(@)] IN
    /\ sock[s].toBox # <<>> /\ Room(s)
    /\ \/ /\ f.do = "create" /\ Len(made) < MaxSessions
          /\ made' = Append(made, Whose(s)) /\ UNCHANGED stale
          /\ sock' = [sock EXCEPT ![s] =
               IF Confined(s) THEN Says([g EXCEPT !.attached = @ \cup {Len(made) + 1}], "created", Len(made) + 1, {})
               ELSE g]
       \/ /\ f.do = "resume"
          /\ sock' = [sock EXCEPT ![s] =
               Says([g EXCEPT !.attached = @ \cup {f.x}], "resumed", f.x, Waiting(f.x))]
          /\ stale' = stale \ {f.x} /\ UNCHANGED made
       \/ f.do = "latest" /\ sock' = [sock EXCEPT ![s] = Says(g, "latest", Len(made), {})]
          /\ UNCHANGED <<made, stale>>
       \/ f.do = "list" /\ sock' = [sock EXCEPT ![s] = Says(g, "sessions", Len(made), {})]
          /\ UNCHANGED <<made, stale>>
       \/ f.do = "submit" /\ sock' = [sock EXCEPT ![s] = g] /\ UNCHANGED <<made, stale>>
    /\ UNCHANGED <<ask, listed>>

(* An answer is taken from whoever is connected; for an id it has          *)
(* forgotten Hermes looks in every session.                                *)
Told(to, q) == [s \in Sockets |-> IF s \in to THEN Says(sock[s], "cancel", 0, {q}) ELSE sock[s]]
Settles(s) ==
    LET f == Head(sock[s].toBox)
        done == ask[f.q].state = "waiting"
                /\ (f.do = "answer" \/ f.x \in stale \/ ask[f.q].in = f.x)
        to == IF done THEN Hearers(f.q) ELSE {} IN
    /\ sock[s].toBox # <<>> /\ f.do \in {"respond", "answer"} /\ \A h \in to : Room(h)
    /\ sock' = [Told(to, f.q) EXCEPT ![s].toBox = Tail(@)]
    /\ ask' = IF done THEN [ask EXCEPT ![f.q].state = "done", ![f.q].by = sock[s].ticket, ![f.q].choice = f.c]
              ELSE ask
    /\ UNCHANGED <<made, stale, listed>>

AgentAsks(q, n) ==
    LET to == {s \in Sockets : n \in sock[s].attached} IN
    /\ ask[q] = NoAsk /\ n <= Len(made) /\ n \notin stale /\ \A h \in to : Room(h)
    /\ \A o \in 1..q-1 : ask[o] # NoAsk
    /\ ask' = [ask EXCEPT ![q] = [NoAsk EXCEPT !.in = n, !.state = "waiting"]]
    /\ sock' = [s \in Sockets |-> IF s \in to THEN Says(sock[s], "ask", n, {q}) ELSE sock[s]]
    /\ UNCHANGED <<made, stale, listed>>
AskTimesOut(q) ==
    /\ ask[q].state = "waiting" /\ \A h \in Hearers(q) : Room(h)
    /\ ask' = [ask EXCEPT ![q].state = "done"] /\ sock' = Told(Hearers(q), q)
    /\ UNCHANGED <<made, stale, listed>>
Forgets(n) ==
    /\ n \in DOMAIN made /\ stale' = stale \cup {n}
    /\ sock' = [s \in Sockets |-> [sock[s] EXCEPT !.attached = @ \ {n}]]
    /\ UNCHANGED <<made, ask, listed>>

-----------------------------------------------------------------------------
(* From the box. *)

Next1(s) == sock[s].fromBox # <<>> /\ sock[s].keep = 0
First(s) == Head(sock[s].fromBox)
Rest(s) == [sock[s] EXCEPT !.fromBox = Tail(@)]

(* _without_approvals and _snapshot_without_approvals: what of the asks in *)
(* a frame a client's page is shown, and what it may then answer.          *)
Kept(s, qs) == IF Answers(s) THEN qs ELSE {}
HearAsks(g, qs) == [g EXCEPT !.open = @ \cup qs, !.heard = @ \cup qs]

HearsAsk(s) ==
    /\ Next1(s) /\ First(s).is = "ask"
    /\ sock' = [sock EXCEPT ![s] = HearAsks(Rest(s), Kept(s, First(s).q))]
    /\ UNCHANGED <<hermes, listed>>
HearsCancel(s) ==
    /\ Next1(s) /\ First(s).is = "cancel"
    /\ sock' = [sock EXCEPT ![s] =
         IF Answers(s) THEN Settled(Rest(s), CHOOSE q \in First(s).q : TRUE) ELSE Rest(s)]
    /\ UNCHANGED <<hermes, listed>>
HearsResumed(s) ==
    /\ Next1(s) /\ First(s).is = "resumed"
    /\ sock' = [sock EXCEPT ![s] =
         [HearAsks(Rest(s), Kept(s, First(s).q)) EXCEPT !.live = @ \cup {First(s).x}]]
    /\ UNCHANGED <<hermes, listed>>

(* _answer_latest, latest_of_the_agency: the newest that is not on the     *)
(* list that was read.                                                     *)
LatestOfTheAgency(n, without) ==
    LET own == {m \in 1..n : m \notin without} IN
    IF own = {} THEN 0 ELSE CHOOSE m \in own : \A o \in own : o <= m
Handed(s) ==
    IF First(s).is = "latest" THEN First(s).x ELSE LatestOfTheAgency(First(s).x, sock[s].without)
HearsLatest(s) ==
    /\ Next1(s) /\ First(s).is \in {"latest", "sessions"}
    /\ sock' = [sock EXCEPT ![s] = [Rest(s) EXCEPT !.asking = FALSE, !.without = {}]]
    /\ UNCHANGED <<hermes, listed>>

(* _created: a client's new session is put on the list before its page     *)
(* hears of it; the direction waits meanwhile.                             *)
HearsCreated(s) ==
    /\ Next1(s) /\ First(s).is = "created"
    /\ sock' = [sock EXCEPT ![s] = [Rest(s) EXCEPT !.keep = First(s).x]]
    /\ UNCHANGED <<hermes, listed>>
Records(s) ==
    /\ sock[s].keep # 0 /\ listed' = Recorded(sock[s].keep)
    /\ sock' = [sock EXCEPT ![s].keep = 0, ![s].live = @ \cup {sock[s].keep}]
    /\ UNCHANGED hermes
(* The call fails, before or after the row: the page is told no session.   *)
RecordFails(s) ==
    /\ sock[s].keep # 0 /\ listed' \in {listed, Recorded(sock[s].keep)}
    /\ sock' = [sock EXCEPT ![s].keep = 0]
    /\ UNCHANGED hermes

-----------------------------------------------------------------------------
Frames ==
    {Frame(do, 0, 0, "none") : do \in {"latest", "create"}}
    \cup {Frame(do, x, 0, "none") : do \in {"resume", "submit"}, x \in DOMAIN made}
    \cup {Frame("respond", x, q, c) : x \in DOMAIN made, q \in {r \in Asks : ask[r] # NoAsk}, c \in {"once", "always"}}
    \cup {Frame("answer", 0, q, c) : q \in {r \in Asks : ask[r] # NoAsk}, c \in {"once", "always"}}

Next ==
    \/ \E s \in Sockets : \E t \in TicketsOf[s] : Opens(s, t)
    \/ \E s \in Sockets, f \in Frames : AgencySays(s, f) \/ ClientSays(s, f)
    \/ \E s \in Sockets :
         \/ HangsUp(s) \/ PlaneAnswers(s) \/ PlaneFails(s) \/ Takes(s) \/ Settles(s)
         \/ HearsAsk(s) \/ HearsCancel(s) \/ HearsResumed(s) \/ HearsLatest(s) \/ HearsCreated(s)
         \/ Records(s) \/ RecordFails(s)
    \/ \E q \in Asks, n \in Sessions : AgentAsks(q, n)
    \/ \E q \in Asks : AskTimesOut(q)
    \/ \E n \in Sessions : Forgets(n)

Spec == Init /\ [][Next]_vars

-----------------------------------------------------------------------------
(* Properties *)

(* A client reaches its own sessions and no others: what it has live, or   *)
(* speaks in, is on the list, whatever calls failed, and each there was    *)
(* made by one of its own pages (_created, _may_resume).                   *)
ClientsKeepToTheirs ==
    /\ \A n \in ToSet(listed) : made[n] = "client"
    /\ \A s \in Sockets : Confined(s) =>
         /\ sock[s].live \subseteq ToSet(listed)
         /\ \A f \in ToSet(sock[s].toBox) : f.x # 0 => f.x \in ToSet(listed)

(* An approval is settled by a client only when it may answer, in a        *)
(* session its own pages made and not for good; no other client's socket   *)
(* has one open (_confined, _kept_result, _without_approvals).             *)
ApprovalsStayTheAgencys ==
    /\ \A s \in Sockets : sock[s].ticket = "client" => sock[s].open = {}
    /\ \A q \in Asks : ask[q].by # "none" =>
         ask[q].by = "approver" /\ ask[q].choice \in ClientChoices /\ made[ask[q].in] = "client"

=============================================================================
