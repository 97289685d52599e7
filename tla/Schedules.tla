------------------------------ MODULE Schedules ------------------------------
(* Schedules: an agent's triggers, the sweep of every control plane that      *)
(* fires what is due (runner.fire_schedules), the requests that add, change   *)
(* and delete a trigger meanwhile, and the teardown that turns them all off.  *)
(*                                                                            *)
(* A fire puts a run in the queue RunDelivery models; here a run only waits   *)
(* or has left the queue.  A cron read in its zone is the set of instants it  *)
(* names (schedules.next_fire); parsing and time zones are left out.          *)
(* A transaction under the `triggers` lock is one step.  Definitions named    *)
(* Mut... are slips that the properties must notice.                          *)
EXTENDS Integers, FiniteSets

CONSTANTS
    Planes,             \* control planes over one store
    Boxes,
    MaxTriggers,        \* bound: triggers ever added
    Crons,              \* the schedules people save
    MaxTime,            \* bound: the last instant
    Window,             \* schedules.MISSED_WINDOW
    Cap,                \* TRIGGER_QUEUE_CAP
    MaxFaults           \* bound: processes that die, store calls that fail

Times == 0 .. MaxTime
Triggers == 1 .. MaxTriggers    \* in the order `created_at, id`

ASSUME TimeAssumption == MaxTime \in Nat /\ Window \in Nat /\ Crons \subseteq SUBSET Times
ASSUME BoundAssumption ==
    MaxTriggers \in Nat /\ Cap \in Nat /\ MaxFaults \in Nat

VARIABLES
    now,
    state,      \* of each trigger: its row is absent, "on", "off" or "deleted"
    boxOf,      \* the box of each trigger
    cron,       \* its schedule: a member of Crons
    since,      \* last_fired_at, or created_at until it has one
    fired,      \* trigger_fires with a run: times of each trigger
    skipped,    \* trigger_fires without one
    runs,       \* runs the triggers made; they outlive their trigger
    row,        \* boxes.status
    phase,      \* how far a teardown_box of the box is
    back,       \* history: the triggers turned on, or added, in the middle of it
    todo,       \* what each plane's sweep saw due and has not come to
    faults

rows == <<state, boxOf, cron, since, fired, skipped>>
closing == <<row, phase, back>>
vars == <<now, rows, runs, closing, todo, faults>>

(* A run of a trigger: the time it is for (`scheduled_for`), which of that    *)
(* time's runs it is, and whether it still waits.                             *)
RunRow == [trigger : Triggers, at : Times, nth : Nat \ {0},
           status : {"pending", "over"}]
(* What a sweep saw of a trigger: the time due, and whether it is too late.   *)
Sight == [trigger : Triggers, at : Times, late : BOOLEAN]

(* Every variable has its type: in particular the clock of a trigger never    *)
(* leaves the instants the system has seen (FleetStore.update_trigger).       *)
TypeOK ==
    /\ now \in Times
    /\ state \in [Triggers -> {"absent", "on", "off", "deleted"}]
    /\ boxOf \in [Triggers -> Boxes \cup {"none"}]
    /\ cron \in [Triggers -> SUBSET Times]
    /\ since \in [Triggers -> Times]
    /\ fired \in [Triggers -> SUBSET Times]
    /\ skipped \in [Triggers -> SUBSET Times]
    /\ runs \subseteq RunRow
    /\ row \in [Boxes -> {"open", "torn_down"}]
    /\ phase \in [Boxes -> {"no", "disabled", "ended", "closed"}]
    /\ back \subseteq Triggers
    /\ todo \in [Planes -> SUBSET Sight]
    /\ faults \in 0 .. MaxFaults

Init ==
    /\ now = 0
    /\ state = [t \in Triggers |-> "absent"]
    /\ boxOf = [t \in Triggers |-> "none"]
    /\ cron = [t \in Triggers |-> {}]
    /\ since = [t \in Triggers |-> 0]
    /\ fired = [t \in Triggers |-> {}]
    /\ skipped = [t \in Triggers |-> {}]
    /\ runs = {}
    /\ row = [b \in Boxes |-> "open"]
    /\ phase = [b \in Boxes |-> "no"]
    /\ back = {}
    /\ todo = [p \in Planes |-> {}]
    /\ faults = 0

-----------------------------------------------------------------------------
(* The requests. *)

UnderWay(b) == phase[b] \in {"disabled", "ended"}

TurnedOn(t, b, s) ==
    back' = IF s = "on" /\ UnderWay(b) THEN back \cup {t} ELSE back

(* POST /api/boxes/{id}/triggers, on or off from the start. *)
CreateTrigger(b) ==
    /\ row[b] = "open"
    /\ \E t \in Triggers, c \in Crons, s \in {"on", "off"} :
        /\ state[t] = "absent"
        /\ \A u \in Triggers : state[u] = "absent" => t <= u
        /\ TurnedOn(t, b, s)
        /\ state' = [state EXCEPT ![t] = s]
        /\ boxOf' = [boxOf EXCEPT ![t] = b]
        /\ cron' = [cron EXCEPT ![t] = c]
        /\ since' = [since EXCEPT ![t] = now]
    /\ UNCHANGED <<now, fired, skipped, runs, row, phase, todo, faults>>

(* What a trigger missed while it was off is not owed; another edit leaves    *)
(* the clock alone.                                                           *)
MutSinceEveryEdit(t, s) == IF s = "on" THEN now ELSE since[t]
Since(t, s) == IF s = "on" /\ state[t] = "off" THEN now ELSE since[t]

(* PATCH /api/triggers/{id}: nobody looks at the box. *)
UpdateTrigger(t) ==
    /\ state[t] \in {"on", "off"}
    /\ \E c \in Crons, s \in {"on", "off"} :
        /\ TurnedOn(t, boxOf[t], s)
        /\ state' = [state EXCEPT ![t] = s]
        /\ cron' = [cron EXCEPT ![t] = c]
        /\ since' = [since EXCEPT ![t] = Since(t, s)]
    /\ UNCHANGED <<now, boxOf, fired, skipped, runs, row, phase, todo, faults>>

(* DELETE /api/triggers/{id}: its runs stay. *)
DeleteTrigger(t) ==
    /\ state[t] \in {"on", "off"}
    /\ state' = [state EXCEPT ![t] = "deleted"]
    /\ cron' = [cron EXCEPT ![t] = {}]
    /\ since' = [since EXCEPT ![t] = 0]
    /\ fired' = [fired EXCEPT ![t] = {}]
    /\ skipped' = [skipped EXCEPT ![t] = {}]
    /\ UNCHANGED <<now, boxOf, runs, closing, todo, faults>>

-----------------------------------------------------------------------------
(* The queue: the run loop starts a waiting run, or ends it (RunDelivery).    *)

LeaveQueue(S) == (runs \ S) \cup {[r EXCEPT !.status = "over"] : r \in S}

RunLeaves(r) ==
    /\ r.status = "pending"
    /\ runs' = LeaveQueue({r})
    /\ UNCHANGED <<now, rows, closing, todo, faults>>

-----------------------------------------------------------------------------
(* fire_schedules.  A sweep reads its clock and the triggers that are on;     *)
(* what is due follows from what it read, and each due trigger is then a      *)
(* transaction of its own.                                                    *)

(* schedules.due: the latest time in (since, now] is the only one that counts *)
DueTimes(t) == {x \in cron[t] : since[t] < x /\ x <= now}
Latest(t) == {x \in DueTimes(t) : \A y \in DueTimes(t) : y <= x}

EnabledSchedules == {t \in Triggers : state[t] = "on" /\ row[boxOf[t]] # "torn_down"}

SweepReads(p) ==
    /\ todo[p] = {}
    /\ todo' = [todo EXCEPT ![p] =
            UNION {{[trigger |-> t, at |-> x, late |-> x < now - Window] : x \in Latest(t)} :
                t \in EnabledSchedules}]
    /\ UNCHANGED <<now, rows, runs, closing, faults>>

First(p) == {s \in todo[p] : \A u \in todo[p] : s.trigger <= u.trigger}
Done(p, s) == todo' = [todo EXCEPT ![p] = @ \ {s}]

MutFired(t, x) == FALSE
Fired(t, x) == x \in fired[t] \cup skipped[t]

ScheduledWaiting(b) == {r \in runs : r.status = "pending" /\ boxOf[r.trigger] = b}

(* With the queue full the run is born `cancelled`, as `queue_full`.  The     *)
(* runs people asked for count too: any number of them may wait.              *)
Full(b, asked) == Cardinality(ScheduledWaiting(b)) + asked >= Cap

NewRun(t, x, asked) ==
    [trigger |-> t, at |-> x,
     nth |-> Cardinality({r \in runs : r.trigger = t /\ r.at = x}) + 1,
     status |-> IF Full(boxOf[t], asked) THEN "over" ELSE "pending"]

(* FleetStore.fire_trigger: a trigger that is off, a time that fired and a    *)
(* destroyed agent make no run.                                               *)
MayFire(t, x) == state[t] = "on" /\ ~Fired(t, x) /\ row[boxOf[t]] # "torn_down"

Fire(p) == \E s \in First(p) :
    /\ ~s.late
    /\ state[s.trigger] # "deleted"
    /\ IF MayFire(s.trigger, s.at)
       THEN /\ \E asked \in 0 .. Cap : runs' = runs \cup {NewRun(s.trigger, s.at, asked)}
            /\ fired' = [fired EXCEPT ![s.trigger] = @ \cup {s.at}]
            /\ since' = [since EXCEPT ![s.trigger] = s.at]
       ELSE UNCHANGED <<runs, fired, since>>
    /\ Done(p, s)
    /\ UNCHANGED <<now, state, boxOf, cron, skipped, closing, faults>>

(* FleetStore.skip_fire: too late to run. *)
Skip(p) == \E s \in First(p) :
    /\ s.late
    /\ state[s.trigger] # "deleted"
    /\ IF state[s.trigger] = "on" /\ ~Fired(s.trigger, s.at)
       THEN /\ skipped' = [skipped EXCEPT ![s.trigger] = @ \cup {s.at}]
            /\ since' = [since EXCEPT ![s.trigger] = s.at]
       ELSE UNCHANGED <<skipped, since>>
    /\ Done(p, s)
    /\ UNCHANGED <<now, state, boxOf, cron, fired, runs, closing, faults>>

(* Deleted since it was read: UnknownEntityError ends the sweep, and the      *)
(* triggers after it wait for the next.                                       *)
SweepRaises(p) == \E s \in First(p) :
    /\ state[s.trigger] = "deleted"
    /\ todo' = [todo EXCEPT ![p] = {}]
    /\ UNCHANGED <<now, rows, runs, closing, faults>>

(* The process dies between two transactions, or the store fails. *)
SweepDies(p) ==
    /\ todo[p] # {}
    /\ faults < MaxFaults
    /\ faults' = faults + 1
    /\ todo' = [todo EXCEPT ![p] = {}]
    /\ UNCHANGED <<now, rows, runs, closing>>

-----------------------------------------------------------------------------
(* teardown_box: triggers off, tasks ended, row closed; a repeat on a closed  *)
(* box returns early.  Its look at the row goes with the first of these, one  *)
(* of a box is under way at a time, and what can happen between its scan for  *)
(* live tasks and their ends is RunDelivery's.                                *)

MutDisable(b) == UNCHANGED state
Disable(b) ==
    state' = [t \in Triggers |-> IF boxOf[t] = b /\ state[t] = "on" THEN "off" ELSE state[t]]

TeardownDisables(b) ==
    /\ row[b] = "open"
    /\ phase[b] = "no"
    /\ Disable(b)
    /\ phase' = [phase EXCEPT ![b] = "disabled"]
    /\ UNCHANGED <<now, boxOf, cron, since, fired, skipped, runs, row, back, todo, faults>>

TeardownEndsRuns(b) ==
    /\ phase[b] = "disabled"
    /\ runs' = LeaveQueue(ScheduledWaiting(b))
    /\ phase' = [phase EXCEPT ![b] = "ended"]
    /\ UNCHANGED <<now, rows, row, back, todo, faults>>

TeardownCloses(b) ==
    /\ phase[b] = "ended"
    /\ row[b] = "open"
    /\ row' = [row EXCEPT ![b] = "torn_down"]
    /\ phase' = [phase EXCEPT ![b] = "closed"]
    /\ UNCHANGED <<now, rows, runs, back, todo, faults>>

(* A store call fails, or the row was closed meanwhile and the close raises.  *)
TeardownFails(b) ==
    /\ UnderWay(b)
    /\ IF phase[b] = "ended" /\ row[b] = "torn_down"
       THEN UNCHANGED faults
       ELSE faults < MaxFaults /\ faults' = faults + 1
    /\ phase' = [phase EXCEPT ![b] = "no"]
    /\ back' = {t \in back : boxOf[t] # b}
    /\ UNCHANGED <<now, rows, runs, row, todo>>

(* Its machine was found gone, nobody finished its provision, or its create   *)
(* failed: the row closes, and triggers and runs stay as they are.            *)
RowCloses(b) ==
    /\ row[b] = "open"
    /\ row' = [row EXCEPT ![b] = "torn_down"]
    /\ UNCHANGED <<now, rows, runs, phase, back, todo, faults>>

-----------------------------------------------------------------------------
Tick ==
    /\ now < MaxTime
    /\ now' = now + 1
    /\ UNCHANGED <<rows, runs, closing, todo, faults>>

SweepGoesOn(p) == Fire(p) \/ Skip(p) \/ SweepRaises(p)

BoxStep(b) ==
    \/ CreateTrigger(b)
    \/ TeardownDisables(b) \/ TeardownEndsRuns(b) \/ TeardownCloses(b) \/ TeardownFails(b)
    \/ RowCloses(b)

Next ==
    \/ \E p \in Planes : SweepReads(p) \/ SweepGoesOn(p) \/ SweepDies(p)
    \/ \E b \in Boxes : BoxStep(b)
    \/ \E t \in Triggers : UpdateTrigger(t) \/ DeleteTrigger(t)
    \/ \E r \in runs : RunLeaves(r)
    \/ Tick

Spec == Init /\ [][Next]_vars

-----------------------------------------------------------------------------
(* A time of a trigger comes to one thing: one run, however many sweeps of    *)
(* however many control planes see it due, or one skip, and never both; and   *)
(* the record of fires tells which (fire_trigger's key, skip_fire).           *)
OneOutcomePerTime ==
    /\ \A r \in runs : r.nth = 1
    /\ \A r, q \in runs : r.trigger = q.trigger /\ r.at = q.at => r = q
    /\ \A t \in Triggers :
        /\ fired[t] \cap skipped[t] = {}
        /\ state[t] # "deleted" => fired[t] = {r.at : r \in {q \in runs : q.trigger = t}}

(* Triggers never pile up more than TRIGGER_QUEUE_CAP runs on an agent,       *)
(* whichever control planes fire them and however long it sleeps.             *)
WaitingFiresAreCapped == \A b \in Boxes : Cardinality(ScheduledWaiting(b)) <= Cap

(* A teardown leaves no run of a schedule waiting: what fires before the      *)
(* triggers go off is there for it to end, and a sweep that read a trigger as *)
(* on long before finds it off (disable_triggers, fire_trigger).  So it is    *)
(* from the scan of the tasks on, for all triggers but those that somebody    *)
(* turned on, or added, while it was under way.                               *)
TeardownLeavesNoFire == \A b \in Boxes :
    phase[b] \in {"ended", "closed"} => \A r \in ScheduledWaiting(b) : r.trigger \in back

(* A time that is due stays due until a fire or a skip settles it, its own or *)
(* a later time's, or people let it go: whatever else they edit, and whatever *)
(* sweeps die, trip over a deleted trigger or act on what they read long ago  *)
(* (update_trigger, fire_trigger, skip_fire).                                 *)
Due(t, x) == state[t] = "on" /\ x \in cron[t] /\ since[t] < x /\ x <= now
Settled(t, x) == \E y \in fired[t] \cup skipped[t] : y >= x
LetGo(t, x) == state[t] # "on" \/ x \notin cron[t]
NothingIsPassedOver ==
    [][\A t \in Triggers, x \in Times :
        Due(t, x) => (Due(t, x) \/ Settled(t, x) \/ LetGo(t, x))']_vars
=============================================================================
