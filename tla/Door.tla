-------------------------------- MODULE Door --------------------------------
(***************************************************************************)
(* Conversations through the front door (flotta/door/app.py) beside the    *)
(* idle sweep of the control plane (flotta/provision.py), for one box.     *)
(*                                                                         *)
(* A conversation is a socket whose traffic the fleet does not see.  Its   *)
(* heartbeat decides now and then whether the box is still needed, and if  *)
(* so wakes it, which notes on its timeline that it was addressed; the     *)
(* sweep puts to sleep a box on whose timeline nothing happened for long   *)
(* enough.  Time passes in ticks; a request takes less than one, a sweep   *)
(* that has found the box idle may take any number to reach it.            *)
(*                                                                         *)
(* stop_box and wake_box are one step each: BoxLifecycle takes them apart. *)
(* Who may open a conversation and what it may say are left out.           *)
(***************************************************************************)
EXTENDS Naturals

CONSTANTS
    Conversations,
    Beat, Gap, Answer,   \* HEARTBEAT_S, TOUCH_GAP_S, BUSY_TIMEOUT_S
    Floor, IdleAfter,    \* ACTIVITY_FLOOR_S, DEFAULT_IDLE_AFTER_S
    MaxWords,            \* bound: things people do: speak, open, put to sleep
    MaxTroubles          \* bound: touches, answers and lookups that fail

Cycle == Gap + Beat + Answer

(* "The interval is well under the idle threshold so a single missed beat  *)
(* is survivable."                                                         *)
TicksAssumption ==
    /\ {Beat, Gap, Answer} \subseteq Nat \ {0} /\ Floor \in Nat
    /\ IdleAfter \in Nat /\ Floor + 2 * Cycle < IdleAfter
BoundsAssumption == MaxWords \in Nat /\ MaxTroubles \in Nat

VARIABLES
    box,       \* the machine and its row: "up" or "asleep"
    quiet,     \* ticks since the last event of the box's timeline
    sweep,     \* whether a sweep has found the box idle and is on its way
    conv,      \* the heartbeat of each conversation
    turn,      \* ticks the turn of a conversation has been at work, 0 for none
    words, troubles

vars == <<box, quiet, sweep, conv, turn, words, troubles>>

Closed == [at |-> "closed", timer |-> 0, spoke |-> FALSE, why |-> "none", crossed |-> FALSE]
OldTurn == Gap + Cycle + 1

TypeOK ==
    /\ box \in {"up", "asleep"} /\ quiet \in 0..IdleAfter /\ sweep \in BOOLEAN
    /\ conv \in [Conversations ->
         [at : {"closed", "beat", "ask", "look", "touch", "gap"}, timer : 0..(Beat + Gap + Answer),
          spoke : BOOLEAN, why : {"none", "words", "working", "silence"}, crossed : BOOLEAN]]
    /\ turn \in [Conversations -> 0..OldTurn]
    /\ words \in 0..MaxWords /\ troubles \in 0..MaxTroubles

Init ==
    /\ box = "asleep" /\ quiet = 0 /\ sweep = FALSE
    /\ conv = [c \in Conversations |-> Closed] /\ turn = [c \in Conversations |-> 0]
    /\ words = 0 /\ troubles = 0

-----------------------------------------------------------------------------
Speaks == words < MaxWords /\ words' = words + 1 /\ UNCHANGED troubles
Trouble == troubles < MaxTroubles /\ troubles' = troubles + 1 /\ UNCHANGED words
NoTrouble == UNCHANGED <<words, troubles>>

Goes(c, at, timer) == conv' = [conv EXCEPT ![c].at = at, ![c].timer = timer]
Decides(c, why) ==
    conv' = [conv EXCEPT ![c].at = IF why = "silence" THEN "look" ELSE "touch", ![c].timer = 0,
                         ![c].why = why, ![c].spoke = FALSE, ![c].crossed = FALSE]
Open(c) == conv[c].at # "closed"

(* _record_activity: the timeline moves at most once a minute.             *)
Addressed == quiet' = IF quiet < Floor THEN quiet ELSE 0

(* wake_box, after _record_activity.                                       *)
Wake ==
    /\ box' = "up"
    /\ IF box = "asleep" THEN quiet' = 0 ELSE Addressed

-----------------------------------------------------------------------------
(* A conversation. *)

(* proxy_ws: the box is woken before the socket opens.                     *)
Opens(c) ==
    /\ ~Open(c) /\ Speaks
    /\ Wake
    /\ conv' = [conv EXCEPT ![c] = [Closed EXCEPT !.at = "beat", !.timer = Beat]]
    /\ UNCHANGED <<sweep, turn>>

(* Liveness.heard.  A page's ping is nobody speaking.                      *)
MutHeard(c, keepalive) == conv' = [conv EXCEPT ![c].spoke = TRUE]
Heard(c, keepalive) == conv' = [conv EXCEPT ![c].spoke = @ \/ ~keepalive]

(* Words start a turn, at once or when the machine is up again.            *)
Says(c) ==
    /\ Open(c) /\ Speaks
    /\ Heard(c, FALSE)
    /\ turn' = [turn EXCEPT ![c] = IF @ = 0 THEN 1 ELSE @]
    /\ UNCHANGED <<box, quiet, sweep>>

Pings(c) ==
    /\ Open(c)
    /\ Heard(c, TRUE)
    /\ UNCHANGED <<box, quiet, sweep, turn, words, troubles>>

(* Liveness.beat ends: someone spoke, or the beat is due.                  *)
BeatEnds(c) ==
    /\ conv[c].at = "beat" /\ (conv[c].spoke \/ conv[c].timer = 0)
    /\ IF conv[c].spoke THEN Decides(c, "words") ELSE Goes(c, "ask", Answer)
    /\ UNCHANGED <<box, quiet, sweep, turn, words, troubles>>

(* Liveness._working settled: by words, by Hermes saying whether any of    *)
(* its sessions works, or by no answer, which a sleeping machine never     *)
(* gives.                                                                  *)
HermesWorks == \E d \in Conversations : turn[d] # 0
Settles(c) ==
    /\ conv[c].at = "ask"
    /\ \/ conv[c].spoke /\ Decides(c, "words") /\ NoTrouble
       \/ /\ ~conv[c].spoke /\ box = "up" /\ NoTrouble
          /\ IF HermesWorks THEN Decides(c, "working") ELSE Goes(c, "beat", Beat)
       \/ /\ ~conv[c].spoke /\ conv[c].timer = 0 /\ Decides(c, "silence")
          /\ IF box = "asleep" THEN NoTrouble ELSE Trouble
    /\ UNCHANGED <<box, quiet, sweep, turn>>

(* _is_down: without an answer, a box the fleet says is not running ends   *)
(* the conversation; not knowing holds it awake.                           *)
Looks(c) ==
    /\ conv[c].at = "look"
    /\ \/ box = "asleep" /\ conv' = [conv EXCEPT ![c] = Closed] /\ NoTrouble
       \/ box = "up" /\ Goes(c, "touch", 0) /\ NoTrouble
       \/ Trouble /\ conv' = [conv EXCEPT ![c].at = "touch", ![c].crossed = TRUE]
    /\ UNCHANGED <<box, quiet, sweep, turn>>

(* ControlPlane.touch: best effort.                                        *)
Touches(c) ==
    /\ conv[c].at = "touch"
    /\ \/ Wake /\ NoTrouble
       \/ Trouble /\ UNCHANGED <<box, quiet>>
    /\ Goes(c, "gap", Gap)
    /\ UNCHANGED <<sweep, turn>>

GapEnds(c) ==
    /\ conv[c].at = "gap" /\ conv[c].timer = 0
    /\ Goes(c, "beat", Beat)
    /\ UNCHANGED <<box, quiet, sweep, turn, words, troubles>>

(* The client goes; or the machine does, taking the socket with it, which  *)
(* a suspended one need not.  A turn works on without its socket.          *)
HangsUp(c) ==
    /\ Open(c) /\ conv' = [conv EXCEPT ![c] = Closed]
    /\ \/ Speaks
       \/ box = "asleep" /\ NoTrouble
    /\ UNCHANGED <<box, quiet, sweep, turn>>

TurnEnds(c) ==
    /\ box = "up" /\ turn[c] # 0
    /\ turn' = [turn EXCEPT ![c] = 0]
    /\ UNCHANGED <<box, quiet, sweep, conv, words, troubles>>

-----------------------------------------------------------------------------
(* The control plane. *)

(* idle_boxes reads the timelines of all boxes; stop_box comes later.      *)
MutIdle == quiet >= Cycle
Idle == quiet >= IdleAfter
SweepFinds ==
    /\ ~sweep /\ box = "up" /\ Idle
    /\ sweep' = TRUE
    /\ UNCHANGED <<box, quiet, conv, turn, words, troubles>>

StopBox ==
    /\ IF box = "up" THEN box' = "asleep" /\ quiet' = 0 ELSE UNCHANGED <<box, quiet>>
    /\ conv' = [c \in Conversations |->
                  IF conv[c].at = "touch" THEN [conv[c] EXCEPT !.crossed = TRUE] ELSE conv[c]]
    /\ UNCHANGED <<turn>>

SweepSleeps == sweep /\ sweep' = FALSE /\ StopBox /\ NoTrouble

(* sleep_box_endpoint: a person puts the agent to sleep.                   *)
PersonSleeps == box = "up" /\ Speaks /\ StopBox /\ UNCHANGED sweep

-----------------------------------------------------------------------------
(* A tick passes once nothing is due.                                      *)
Due(c) ==
    \/ conv[c].at \in {"look", "touch"}
    \/ conv[c].at \in {"beat", "ask"} /\ conv[c].spoke
    \/ conv[c].at \in {"beat", "ask", "gap"} /\ conv[c].timer = 0

Tick ==
    /\ \A c \in Conversations : ~Due(c)
    /\ quiet' = IF quiet < IdleAfter THEN quiet + 1 ELSE quiet
    /\ conv' = [c \in Conversations |->
                  IF Open(c) THEN [conv[c] EXCEPT !.timer = @ - 1] ELSE conv[c]]
    /\ turn' = [c \in Conversations |->
                  IF turn[c] \in 1..(OldTurn - 1) /\ box = "up" THEN turn[c] + 1 ELSE turn[c]]
    /\ UNCHANGED <<box, sweep, words, troubles>>

Heartbeat(c) == BeatEnds(c) \/ Settles(c) \/ Looks(c) \/ Touches(c) \/ GapEnds(c)

Next ==
    \/ \E c \in Conversations :
         \/ Opens(c) \/ Says(c) \/ Pings(c) \/ HangsUp(c) \/ TurnEnds(c)
         \/ Heartbeat(c)
    \/ SweepFinds \/ SweepSleeps \/ PersonSleeps
    \/ Tick

Spec == Init /\ [][Next]_vars

(* Heartbeats run, pages ping, turns end, sweeps come round and time       *)
(* passes; nothing makes anyone speak.                                     *)
Fairness ==
    /\ \A c \in Conversations :
        WF_vars(Heartbeat(c)) /\ WF_vars(Pings(c)) /\ WF_vars(TurnEnds(c))
    /\ WF_vars(SweepFinds) /\ WF_vars(SweepSleeps) /\ WF_vars(Tick)
FairSpec == Spec /\ Fairness

-----------------------------------------------------------------------------
(* Properties. *)

(* The sweep does not take a box for idle while a turn of an open          *)
(* conversation works on it, once the words that began the turn have had   *)
(* the time to be noted: a heartbeat that failed costs one cycle and no    *)
(* more (Liveness, keep_awake, idle_boxes).                                *)
BusyBoxIsNotIdle ==
    \A c \in Conversations :
        Open(c) /\ box = "up" /\ turn[c] > Gap + troubles * Cycle => ~Idle

(* A forgotten tab does not keep the box awake for ever: once nobody       *)
(* speaks and nothing works, it goes to sleep and stays so, however the    *)
(* page pings (is_keepalive, Liveness.needs_box).                          *)
ForgottenTabsLetItSleep == <>[](box = "asleep")

=============================================================================
