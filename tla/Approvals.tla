----------------------------- MODULE Approvals -----------------------------
(***************************************************************************)
(* The approvals of one run: Talk and through_door of flotta/runner.py,    *)
(* the run_approvals rows of flotta/store.py, and the endpoint a person    *)
(* answers at (flotta/control/app.py).                                     *)
(*                                                                         *)
(* The event loop hears the agent's questions into `_heard` and runs the   *)
(* relay, which hands the store work to a worker thread.  When the turn    *)
(* ends the relay is cancelled, but a thread it left behind runs on,       *)
(* beside the thread that closes the conversation: both work on the same   *)
(* `_heard`, `_open` and rows.  Every store call is a transaction of its   *)
(* own, and an answer may arrive between any two.                          *)
(*                                                                         *)
(* External: the agent (it asks, may repeat a question it has no answer    *)
(* to, and takes the first reply) and the reaper of provision.py, which    *)
(* ends the run of a dead control plane.                                   *)
(*                                                                         *)
(* A definition MutX is X with one plausible bug.  No specification uses   *)
(* it: each shows that some property notices that bug.                     *)
(***************************************************************************)
EXTENDS Naturals, Sequences

CONSTANTS
    Questions,   \* the agent's requests for approval, by request id
    NoQuestion,  \* no question in hand
    MaxRepeats,  \* bound: times the agent repeats an open question
    MaxFaults    \* bound: failed store calls, lost sockets and kills

BoundsAssumption == MaxRepeats \in Nat /\ MaxFaults \in Nat
NoQuestionAssumption == NoQuestion \notin Questions

Threads == {"relay", "closer"}
RowStatus == {"none", "waiting", "answered", "expired"}
Replies == {"choice", "deny"}

VARIABLES
    row,        \* run_approvals.status of each question
    delivered,  \* rows with a delivered_at
    held,       \* rows whose held_at is inside APPROVAL_HELD_S
    run,        \* the run's row: "running", or "over"
    picked,     \* questions an answer request found waiting
    heard,      \* Talk._heard
    open,       \* Talk._open
    sent,       \* Talk._sent
    told,       \* what the box heard of each question, in order
    asked,      \* questions the box has asked
    talk,       \* how far the conversation is
    relay,      \* the relay task
    outbox,     \* answers _sync returned to the relay, not yet sent
    step,       \* what each thread does next
    hand,       \* the frame or approval each thread holds; the relay's own
                \* while its send has not come back
    repeats, faults

rows == <<row, delivered, held>>
people == <<run, picked>>
memory == <<heard, open, sent>>
box == <<told, asked>>
tasks == <<talk, relay, outbox>>
threads == <<step, hand>>
bounds == <<repeats, faults>>
vars == <<rows, people, memory, box, tasks, threads, bounds>>

TypeOK ==
    /\ row \in [Questions -> RowStatus]
    /\ delivered \subseteq Questions
    /\ held \subseteq Questions
    /\ run \in {"running", "over"}
    /\ picked \subseteq Questions
    /\ heard \subseteq Questions
    /\ open \subseteq Questions
    /\ sent \subseteq Questions
    /\ told \in [Questions -> Seq(Replies)]
    /\ asked \subseteq Questions
    /\ talk \in {"on", "withdrawing", "syncing", "marking", "closed", "unclosed", "crashed"}
    /\ relay \in {"asleep", "waiting", "sending", "writing", "cancelled", "dead"}
    /\ outbox \subseteq Questions
    /\ step \in [Threads -> {"idle", "look", "pop", "ask", "hold", "collect", "mark"}]
    /\ hand \in [Threads -> Questions \cup {NoQuestion}]
    /\ repeats \in 0..MaxRepeats
    /\ faults \in 0..MaxFaults

Init ==
    /\ row = [q \in Questions |-> "none"]
    /\ delivered = {} /\ held = {}
    /\ run = "running" /\ picked = {}
    /\ heard = {} /\ open = {} /\ sent = {}
    /\ told = [q \in Questions |-> <<>>] /\ asked = {}
    /\ talk = "on" /\ relay = "asleep" /\ outbox = {}
    /\ step = [t \in Threads |-> "idle"]
    /\ hand = [t \in Threads |-> NoQuestion]
    /\ repeats = 0 /\ faults = 0

Fault == faults < MaxFaults /\ faults' = faults + 1

Tell(q, reply) == [told EXCEPT ![q] = Append(@, reply)]

-----------------------------------------------------------------------------
(* Talk.hear: a question of the box, or one it repeats for want of an      *)
(* answer, joins `_heard`.                                                 *)
Hear(q) ==
    /\ talk = "on"
    /\ told[q] = <<>>
    /\ IF q \in asked
       THEN repeats < MaxRepeats /\ repeats' = repeats + 1
       ELSE UNCHANGED repeats
    /\ asked' = asked \cup {q}
    /\ heard' = heard \cup {q}
    /\ UNCHANGED <<rows, people, open, sent, told, tasks, threads, faults>>

(* Talk.relay after its pause: _sync in a worker thread.                   *)
RelayWakes ==
    /\ relay = "asleep"
    /\ relay' = "waiting"
    /\ step' = [step EXCEPT !["relay"] = "look"]
    /\ UNCHANGED <<rows, people, memory, box, talk, outbox, hand, bounds>>

-----------------------------------------------------------------------------
(* Talk._sync, in the relay's thread or the closer's.                      *)

(* `while self._heard:`                                                    *)
Looks(t) ==
    /\ step[t] = "look"
    /\ step' = [step EXCEPT ![t] = IF heard # {} THEN "pop" ELSE "hold"]
    /\ UNCHANGED <<rows, people, memory, box, tasks, hand, bounds>>

(* `self._heard.pop(0)`                                                    *)
Left(q) == heard \ {q}

Pops(t, q) ==
    /\ step[t] = "pop"
    /\ q \in heard
    /\ heard' = Left(q)
    /\ hand' = [hand EXCEPT ![t] = q]
    /\ step' = [step EXCEPT ![t] = "ask"]
    /\ UNCHANGED <<rows, people, open, sent, box, tasks, bounds>>

(* ask_approval keeps the row a question already has; `_open.setdefault`   *)
(* puts the question among those that wait for an answer.                  *)
Opens(t) == open \cup {hand[t]}

Records(t) ==
    /\ step[t] = "ask"
    /\ row[hand[t]] = "none" =>
        /\ row' = [row EXCEPT ![hand[t]] = "waiting"]
        /\ held' = held \cup {hand[t]}
    /\ row[hand[t]] # "none" => UNCHANGED <<row, held>>
    /\ open' = Opens(t)
    /\ hand' = [hand EXCEPT ![t] = NoQuestion]
    /\ step' = [step EXCEPT ![t] = "look"]
    /\ UNCHANGED <<delivered, people, heard, sent, box, tasks, bounds>>

(* hold_approvals, every HOLD_EVERY_S while a question is open.            *)
HoldsOn(t) ==
    /\ step[t] = "hold"
    /\ step' = [step EXCEPT ![t] = "collect"]
    /\ \/ open # {} /\ held' = held \cup {q \in Questions : row[q] = "waiting"}
       \/ UNCHANGED held
    /\ UNCHANGED <<row, delivered, people, memory, box, tasks, hand, bounds>>

(* run_approvals: what was answered leaves `_open` and is returned, to the *)
(* relay if it still waits for its thread; `close` ignores it.             *)
MutDue == {q \in open : row[q] = "answered" /\ q \in held}
Due == {q \in open : row[q] = "answered"}

Collects(t) ==
    /\ step[t] = "collect"
    /\ open' = open \ Due
    /\ step' = [step EXCEPT ![t] = "idle"]
    /\ IF t = "closer"
       THEN talk' = "marking" /\ UNCHANGED <<relay, outbox>>
       ELSE IF relay = "waiting"
       THEN relay' = "sending" /\ outbox' = Due /\ UNCHANGED talk
       ELSE UNCHANGED tasks
    /\ UNCHANGED <<rows, people, heard, sent, box, hand, bounds>>

(* Talk._delivered, in the relay's thread.                                 *)
MarksSent ==
    /\ step["relay"] = "mark"
    /\ delivered' = delivered \cup {hand["relay"]}
    /\ hand' = [hand EXCEPT !["relay"] = NoQuestion]
    /\ step' = [step EXCEPT !["relay"] = "idle"]
    /\ relay' = IF relay = "waiting" THEN "sending" ELSE relay
    /\ UNCHANGED <<row, held, people, memory, box, talk, outbox, bounds>>

(* The thread's work raises, into the relay if it still waits for it, or   *)
(* out of `close`, which _finish logs.                                     *)
ThreadRaises(t) ==
    /\ step' = [step EXCEPT ![t] = "idle"]
    /\ hand' = [hand EXCEPT ![t] = NoQuestion]
    /\ IF t = "closer"
       THEN talk' = "unclosed" /\ UNCHANGED relay
       ELSE relay' = (IF relay = "waiting" THEN "dead" ELSE relay) /\ UNCHANGED talk
    /\ UNCHANGED <<rows, people, memory, box, outbox, repeats>>

StoreFails(t) ==
    /\ step[t] \in {"ask", "hold", "collect", "mark"}
    /\ Fault
    /\ ThreadRaises(t)

(* The other thread popped the frame this one saw.                         *)
PopsNothing(t) ==
    /\ step[t] = "pop"
    /\ heard = {}
    /\ UNCHANGED faults
    /\ ThreadRaises(t)

-----------------------------------------------------------------------------
(* Talk.relay: an answer is written to the socket.  `await send` may wait  *)
(* there for the peer to take it: the box has the answer, `_sent` not yet. *)
Sends(q) ==
    /\ relay = "sending"
    /\ q \in outbox
    /\ outbox' = outbox \ {q}
    /\ told' = Tell(q, "choice")
    /\ relay' = "writing"
    /\ hand' = [hand EXCEPT !["relay"] = q]
    /\ UNCHANGED <<rows, people, memory, asked, talk, step, bounds>>

(* The send came back: noted in `_sent`, and marked by a worker thread.    *)
Notes ==
    /\ relay = "writing"
    /\ sent' = sent \cup {hand["relay"]}
    /\ relay' = "waiting"
    /\ step' = [step EXCEPT !["relay"] = "mark"]
    /\ UNCHANGED <<rows, people, heard, open, box, talk, outbox, hand, bounds>>

RelaySleeps ==
    /\ relay = "sending"
    /\ outbox = {}
    /\ relay' = "asleep"
    /\ UNCHANGED <<rows, people, memory, box, talk, outbox, threads, bounds>>

(* The socket is gone, before the answer went or while it is written: the  *)
(* relay's task ends with the exception.                                   *)
SendFails ==
    /\ \/ relay = "sending" /\ outbox # {}
       \/ relay = "writing"
    /\ Fault
    /\ relay' = "dead"
    /\ outbox' = {}
    /\ UNCHANGED <<rows, people, memory, box, talk, threads, repeats>>

-----------------------------------------------------------------------------
(* through_door's `finally`, when the turn replied, failed, ran out of     *)
(* time or was stopped: the relay is cancelled, what it had not sent is    *)
(* dropped, what it was writing is not noted, and the open questions are   *)
(* denied.  A relay that died raises from `await relaying` instead, and    *)
(* nothing is denied.                                                      *)
TurnEnds ==
    /\ talk = "on"
    /\ outbox' = {}
    /\ IF relay = "dead"
       THEN /\ talk' = "syncing"
            /\ step' = [step EXCEPT !["closer"] = "look"]
            /\ UNCHANGED relay
       ELSE /\ talk' = "withdrawing"
            /\ relay' = "cancelled"
            /\ UNCHANGED step
    /\ UNCHANGED <<rows, people, memory, box, hand, bounds>>

(* Talk.withdraw, then Talk.close in _finish's thread.  A send that fails  *)
(* is suppressed.                                                          *)
Withdraws ==
    /\ talk = "withdrawing"
    /\ talk' = "syncing"
    /\ step' = [step EXCEPT !["closer"] = "look"]
    /\ \/ /\ told' = [q \in Questions |->
                        IF q \in open THEN Append(told[q], "deny") ELSE told[q]]
          /\ UNCHANGED faults
       \/ /\ Fault
          /\ UNCHANGED told
    /\ UNCHANGED <<rows, people, memory, asked, relay, outbox, hand, repeats>>

(* Talk.close after its _sync: mark what the box heard, expire the rest.   *)
Closing == sent

CloseMarks(q) ==
    /\ talk = "marking"
    /\ q \in Closing \ delivered
    /\ delivered' = delivered \cup {q}
    /\ UNCHANGED <<row, held, people, memory, box, tasks, threads, bounds>>

(* expire_approvals                                                        *)
MutUnheard(q) == row[q] = "waiting"
Unheard(q) ==
    \/ row[q] = "waiting"
    \/ row[q] = "answered" /\ q \notin delivered

CloseExpires ==
    /\ talk = "marking"
    /\ Closing \subseteq delivered
    /\ row' = [q \in Questions |-> IF Unheard(q) THEN "expired" ELSE row[q]]
    /\ talk' = "closed"
    /\ UNCHANGED <<delivered, held, people, memory, box, relay, outbox, threads, bounds>>

CloseFails ==
    /\ talk = "marking"
    /\ Fault
    /\ talk' = "unclosed"
    /\ UNCHANGED <<rows, people, memory, box, relay, outbox, threads, repeats>>

(* RunLoop._finish writes the verdict, or the reaper does.                 *)
RunEnds ==
    /\ talk \in {"closed", "unclosed", "crashed"}
    /\ run = "running"
    /\ run' = "over"
    /\ UNCHANGED <<rows, picked, memory, box, tasks, threads, bounds>>

(* The control plane is killed.  Its memory is gone: nothing reads it.     *)
Crash ==
    /\ run = "running"
    /\ talk # "crashed"
    /\ Fault
    /\ talk' = "crashed"
    /\ relay' = "dead"
    /\ outbox' = {}
    /\ step' = [t \in Threads |-> "idle"]
    /\ hand' = [t \in Threads |-> NoQuestion]
    /\ UNCHANGED <<rows, people, memory, box, repeats>>

-----------------------------------------------------------------------------
(* answer_run_approval looks at the run and its approvals ...              *)
AnswerLooks(q) ==
    /\ run = "running"
    /\ row[q] = "waiting"
    /\ picked' = picked \cup {q}
    /\ UNCHANGED <<rows, run, memory, box, tasks, threads, bounds>>

(* ... and answer_approval decides: once, while it waits, and only if a    *)
(* delivery said of late that it listens.                                  *)
Answers(q) ==
    /\ q \in picked
    /\ picked' = picked \ {q}
    /\ row' = IF row[q] = "waiting" /\ q \in held
              THEN [row EXCEPT ![q] = "answered"] ELSE row
    /\ UNCHANGED <<delivered, held, run, memory, box, tasks, threads, bounds>>

(* APPROVAL_HELD_S pass since the last hold.                               *)
HoldLapses(q) ==
    /\ q \in held
    /\ held' = held \ {q}
    /\ UNCHANGED <<row, delivered, people, memory, box, tasks, threads, bounds>>

ThreadStep(t) ==
    \/ Looks(t) \/ Records(t) \/ HoldsOn(t) \/ Collects(t) \/ PopsNothing(t)
    \/ \E q \in Questions : Pops(t, q)

RelayStep == RelayWakes \/ RelaySleeps \/ Notes \/ \E q \in Questions : Sends(q)

CloseStep == Withdraws \/ CloseExpires \/ \E q \in Questions : CloseMarks(q)

Next ==
    \/ RelayStep \/ CloseStep \/ MarksSent
    \/ \E t \in Threads : ThreadStep(t) \/ StoreFails(t)
    \/ \E q \in Questions : Hear(q) \/ AnswerLooks(q) \/ Answers(q) \/ HoldLapses(q)
    \/ TurnEnds \/ RunEnds \/ SendFails \/ CloseFails \/ Crash

Spec == Init /\ [][Next]_vars

-----------------------------------------------------------------------------
(* Properties *)

(* A person's choice was written to the box, and the relay was stopped, or *)
(* its socket failed, before the send came back.                           *)
CutOff(q) == "choice" \in {told[q][i] : i \in DOMAIN told[q]} /\ q \notin sent

(* "The row says what the box was actually told" (expire_approvals): at    *)
(* the moment the conversation closes, the questions whose row says        *)
(* answered are those whose first reply to the box was the person's.  Of   *)
(* an answer cut off in its send nobody can tell, and its row expires.     *)
RowsSayWhatTheBoxHeard ==
    [][talk # "closed" /\ talk' = "closed" =>
        \A q \in Questions :
            IF CutOff(q) THEN row'[q] = "expired"
            ELSE row'[q] = "answered" <=> told[q] # <<>> /\ Head(told[q]) = "choice"]_vars

(* The box hears "only its choice": whatever fails, a choice the box was   *)
(* sent is the answer on the row, before, while and after the conversation *)
(* closes, but for one that was cut off.                                   *)
OnlyTheirChoice ==
    \A q \in Questions :
        "choice" \in {told[q][i] : i \in DOMAIN told[q]} =>
            row[q] = "answered" \/ (CutOff(q) /\ row[q] = "expired")

-----------------------------------------------------------------------------
(* Fairness: the event loop and the worker threads run on.  Nothing makes  *)
(* the agent ask, a person answer, the turn end or anything fail.          *)
Fairness ==
    /\ WF_vars(RelayStep) /\ WF_vars(CloseStep) /\ WF_vars(MarksSent)
    /\ \A t \in Threads : WF_vars(ThreadStep(t))

FairSpec == Spec /\ Fairness

(* An answer that was accepted reaches the box, while there is a           *)
(* conversation to carry it.                                               *)
AcceptedAnswersAreSent ==
    \A q \in Questions :
        row[q] = "answered" /\ talk = "on" /\ relay # "dead"
            ~> told[q] # <<>> \/ talk # "on" \/ relay = "dead"

(* An accepted answer is not lost in silence, whoever was cancelled and    *)
(* whatever died: in the end the box was sent it, or its row says expired. *)
(* A turn ends (asyncio.wait_for).  Left are a control plane that was      *)
(* killed and a close that failed, after which nobody looks at the rows.   *)
AcceptedAnswersSettle ==
    WF_vars(TurnEnds) =>
        \A q \in Questions :
            row[q] = "answered" /\ talk # "closed"
                ~> \/ "choice" \in {told[q][i] : i \in DOMAIN told[q]}
                   \/ row[q] = "expired"
                   \/ talk \in {"unclosed", "crashed"}

=============================================================================
