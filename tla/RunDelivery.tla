---------------------------- MODULE RunDelivery ----------------------------
(***************************************************************************)
(* Delivering runs: flotta/runner.py over the `tasks` rows of              *)
(* flotta/store.py, with the reaper and the teardown of                    *)
(* flotta/provision.py.                                                    *)
(*                                                                         *)
(* Several control planes share one fleet store, as during a rolling       *)
(* deploy.  Each sweeps: a worker thread reads the queue, looks at each    *)
(* offered run's box and moves the run to `running`; back on the event     *)
(* loop the claimed runs become deliveries, which end in a verdict that is *)
(* written to the row.  A control plane may be stopped on purpose or       *)
(* killed, a store call may fail, boxes are paused, freed and torn down by *)
(* other requests, and the reaper closes what lost its deliverer.          *)
(*                                                                         *)
(* Every store call is one atomic step: each opens                         *)
(* `transaction(guard="tasks")` or "boxes", which serialises the read, the *)
(* check and the write (flotta/db.py).                                     *)
(*                                                                         *)
(* A definition MutX is X with one plausible bug.  No specification uses   *)
(* it: each shows that some property notices that bug.                     *)
(***************************************************************************)
EXTENDS Naturals, FiniteSets

CONSTANTS
    Planes,         \* control plane processes over one store
    Boxes,          \* agents
    MaxRuns,        \* bound: runs asked for in a behaviour
    MaxConcurrent,  \* MAX_CONCURRENT: deliveries at once on one control plane
    Timeout,        \* RUN_TIMEOUT_S, in ticks
    Lag,            \* how late a ready step of a live control plane may be
    Deadline,       \* RUN_DEADLINE_S + DEFAULT_GRACE_S, in ticks
    MaxStops,       \* bound: control planes stopped on purpose
    QueueCap,       \* TRIGGER_QUEUE_CAP: waiting runs a fire does not add to
    MaxFires,       \* bound: schedules that fire
    MaxFaults       \* bound: kills, failed store calls and failed requests

ASSUME CountsAssumption ==
    /\ MaxRuns \in Nat
    /\ MaxConcurrent \in Nat
    /\ MaxStops \in Nat
    /\ QueueCap \in Nat
    /\ MaxFires \in Nat
    /\ MaxFaults \in Nat

(* runs.py: the control plane "gives up well inside" the deadline.         *)
ASSUME TimesAssumption ==
    /\ Timeout \in Nat
    /\ Lag \in Nat
    /\ Deadline \in Nat
    /\ Timeout + Lag + Lag <= Deadline

Runs == 1 .. MaxRuns    \* a run's number is its place in `created_at, id`:
                        \* a number nobody took yet may be taken later
NoBox == "no box"       \* the box of a run nobody asked for yet
ASSUME NoBoxAssumption == NoBox \notin Boxes

TaskTerminal == {"done", "failed", "cancelled", "budget_blocked"}
TaskStatus == {"unborn", "pending", "running"} \cup TaskTerminal

(* TASK_TRANSITIONS *)
TaskMayMove(from, to) ==
    \/ from = "pending" /\ to \in {"running", "failed", "cancelled", "budget_blocked"}
    \/ from = "running" /\ to \in TaskTerminal

(* How `_carry` ends a delivery, and the row status each way writes.       *)
(* "error" stands for the error classes `agent` and `error`.               *)
Outcomes == {"done", "timeout", "interrupted", "paused", "error"}
EndingOf(outcome) ==
    IF outcome = "done" THEN "done"
    ELSE IF outcome = "paused" THEN "budget_blocked" ELSE "failed"

(* What the claiming thread decides about a run's box: start the run, or   *)
(* end it with one of the error classes of `RunLoop._blocked`.             *)
Decisions == {"start", "paused", "budget"}

ErrorClass == (Outcomes \ {"done"}) \cup {"none", "budget", "stranded", "torn_down", "queue_full"}

VARIABLES
    status,     \* tasks.status of each run
    boxOf,      \* tasks.box_id
    kind,       \* tasks.trigger_kind: somebody asked, or a schedule fired
    age,        \* now - tasks.started_at, in ticks
    error,      \* tasks.error_class
    row,        \* boxes.status: "open" is provisioning, running or stopped
    plane,      \* each control plane process
    stage,      \* where its claiming thread is
    offered,    \* the rows `queued_runs` returned, not dealt with yet
    taken,      \* runs this sweep moved to `running`, not yet deliveries
    carry,      \* RunLoop.in_flight: each delivery, and how it ended
    tearing,    \* where a teardown request of each box is
    scanQueued, \* runs its task scan saw pending
    scanRunning,\* runs its task scan saw running
    stops,      \* control planes stopped on purpose so far
    faults      \* faults so far

rows == <<status, boxOf, kind, age, error>>
claims == <<stage, offered, taken>>
teardown == <<tearing, scanQueued, scanRunning>>
bounds == <<stops, faults>>
vars == <<rows, row, plane, claims, carry, teardown, bounds>>

TypeOK ==
    /\ status \in [Runs -> TaskStatus]
    /\ boxOf \in [Runs -> Boxes \cup {NoBox}]
    /\ kind \in [Runs -> {"api", "schedule"}]
    /\ age \in [Runs -> 0 .. Deadline + 1]
    /\ error \in [Runs -> ErrorClass]
    /\ row \in [Boxes -> {"open", "paused", "torn_down"}]
    /\ plane \in [Planes -> {"up", "stopping", "down"}]
    /\ stage \in [Planes -> {"idle", "look", "claimed"} \cup Decisions]
    /\ offered \in [Planes -> SUBSET Runs]
    /\ taken \in [Planes -> SUBSET Runs]
    /\ carry \in [Planes -> [Runs -> {"no", "talking"} \cup Outcomes]]
    /\ tearing \in [Boxes -> {"no", "closing"}]
    /\ scanQueued \in [Boxes -> SUBSET Runs]
    /\ scanRunning \in [Boxes -> SUBSET Runs]
    /\ stops \in 0 .. MaxStops
    /\ faults \in 0 .. MaxFaults

Init ==
    /\ status = [r \in Runs |-> "unborn"]
    /\ boxOf = [r \in Runs |-> NoBox]
    /\ kind = [r \in Runs |-> "api"]
    /\ age = [r \in Runs |-> 0]
    /\ error = [r \in Runs |-> "none"]
    /\ row = [b \in Boxes |-> "open"]
    /\ plane = [p \in Planes |-> "up"]
    /\ stage = [p \in Planes |-> "idle"]
    /\ offered = [p \in Planes |-> {}]
    /\ taken = [p \in Planes |-> {}]
    /\ carry = [p \in Planes |-> [r \in Runs |-> "no"]]
    /\ tearing = [b \in Boxes |-> "no"]
    /\ scanQueued = [b \in Boxes |-> {}]
    /\ scanRunning = [b \in Boxes |-> {}]
    /\ stops = 0
    /\ faults = 0

-----------------------------------------------------------------------------
(* The rows *)

(* The first of S in the order they were asked for (ORDER BY created_at,   *)
(* id); none if S is empty.                                                *)
MutOldestOf(S) == {r \in S : \A q \in S : q <= r}
OldestOf(S) == {r \in S : \A q \in S : r <= q}

WithStatus(b, s) == {r \in Runs : boxOf[r] = b /\ status[r] = s}

InFlight(p) == {r \in Runs : carry[p][r] # "no"}

(* A run some live control plane holds: claimed, or being delivered.       *)
Holds(p, r) == r \in taken[p] \/ carry[p][r] # "no"

(* FleetStore.finish_run as `RunLoop._end` calls it: an ending the row may *)
(* not take any more is dropped, and the verdict already there stands.     *)
MutEndRun(r, to, why) ==
    /\ status' = [status EXCEPT ![r] = to]
    /\ error' = [error EXCEPT ![r] = why]
    /\ UNCHANGED <<boxOf, kind, age>>
EndRun(r, to, why) ==
    /\ status' = IF TaskMayMove(status[r], to) THEN [status EXCEPT ![r] = to] ELSE status
    /\ error' = IF TaskMayMove(status[r], to) THEN [error EXCEPT ![r] = why] ELSE error
    /\ UNCHANGED <<boxOf, kind, age>>

(* POST /api/boxes/{id}/runs: FleetStore.create_run refuses a destroyed    *)
(* box.  It reads the clock inside its transaction, which puts the run     *)
(* after every one already there.                                          *)
CreateRun(b) ==
    /\ row[b] # "torn_down"
    /\ \E r \in Runs :
        /\ \A q \in Runs : r <= q => status[q] = "unborn"
        /\ status' = [status EXCEPT ![r] = "pending"]
        /\ boxOf' = [boxOf EXCEPT ![r] = b]
    /\ UNCHANGED <<kind, age, error, row, plane, claims, carry, teardown, bounds>>

(* FleetStore.fire_trigger, in a sweep's `_fire`: the run is written with  *)
(* the time the sweep began, so a slow sweep puts it before runs that were *)
(* asked for, offered or even done in the meantime.  An agent whose queue  *)
(* is full gets it `cancelled`.  Which schedules are on and due is the     *)
(* module Schedules; here any agent's may be.                              *)
FireTrigger(b) ==
    /\ \E p \in Planes : plane[p] = "up"
    /\ row[b] # "torn_down"
    /\ Cardinality({r \in Runs : kind[r] = "schedule"}) < MaxFires
    /\ \E r \in Runs :
        LET full == Cardinality(WithStatus(b, "pending")) >= QueueCap
        IN  /\ status[r] = "unborn"
            /\ status' = [status EXCEPT ![r] = IF full THEN "cancelled" ELSE "pending"]
            /\ error' = [error EXCEPT ![r] = IF full THEN "queue_full" ELSE "none"]
            /\ boxOf' = [boxOf EXCEPT ![r] = b]
            /\ kind' = [kind EXCEPT ![r] = "schedule"]
    /\ UNCHANGED <<age, row, plane, claims, carry, teardown, bounds>>

(* FleetStore.start_run: pending -> running, unless the box is doing       *)
(* another run.                                                            *)
MutMayStartBusy(r) == TaskMayMove(status[r], "running")
MutMayStartTwice(r) ==
    \A q \in Runs \ {r} : ~(boxOf[q] = boxOf[r] /\ status[q] = "running")
MayStart(r) ==
    /\ TaskMayMove(status[r], "running")
    /\ \A q \in Runs \ {r} : ~(boxOf[q] = boxOf[r] /\ status[q] = "running")

-----------------------------------------------------------------------------
(* One sweep of a control plane's run loop *)

(* RunLoop._claim reads the queue: each free agent's oldest waiting run    *)
(* (FleetStore.queued_runs; its limit of 200 agents is not reached).       *)
Offer(p) ==
    /\ plane[p] = "up"
    /\ stage[p] = "idle"
    /\ LET free == Boxes \ {boxOf[r] : r \in InFlight(p)}
           heads == UNION {OldestOf(WithStatus(b, "pending")) : b \in free}
       IN offered' = [offered EXCEPT ![p] = heads]
    /\ stage' = [stage EXCEPT ![p] = "look"]
    /\ UNCHANGED <<rows, row, plane, taken, carry, teardown, bounds>>

(* The next offered run: its box is read, and the run left for teardown,   *)
(* ended for the budget, or started.  `budgets.holding` is an input here.  *)
Look(p) ==
    /\ stage[p] = "look"
    /\ Cardinality(InFlight(p)) + Cardinality(taken[p]) < MaxConcurrent
    /\ \E r \in OldestOf(offered[p]) :
        \/ /\ row[boxOf[r]] = "torn_down"
           /\ offered' = [offered EXCEPT ![p] = @ \ {r}]
           /\ UNCHANGED stage
        \/ /\ row[boxOf[r]] # "torn_down"
           /\ \E d \in IF row[boxOf[r]] = "paused" THEN {"paused"} ELSE {"start", "budget"} :
                  stage' = [stage EXCEPT ![p] = d]
           /\ UNCHANGED offered
    /\ UNCHANGED <<rows, row, plane, taken, carry, teardown, bounds>>

(* The same run, in the transaction of its own that ends or starts it: it  *)
(* may have been started, ended or overtaken since it was looked at.       *)
Act(p) ==
    /\ stage[p] \in Decisions
    /\ \E r \in OldestOf(offered[p]) :
        /\ offered' = [offered EXCEPT ![p] = @ \ {r}]
        /\ \/ /\ stage[p] # "start"
              /\ EndRun(r, "budget_blocked", stage[p])
              /\ UNCHANGED taken
           \/ /\ stage[p] = "start"
              /\ MayStart(r)
              /\ status' = [status EXCEPT ![r] = "running"]
              /\ taken' = [taken EXCEPT ![p] = @ \cup {r}]
              /\ UNCHANGED <<boxOf, kind, age, error>>
           \/ /\ stage[p] = "start"
              /\ ~MayStart(r)
              /\ UNCHANGED <<rows, taken>>
    /\ stage' = [stage EXCEPT ![p] = "look"]
    /\ UNCHANGED <<row, plane, carry, teardown, bounds>>

(* Nothing more to offer, or no more room: `_claim` returns.               *)
ClaimEnds(p) ==
    /\ stage[p] = "look"
    /\ \/ offered[p] = {}
       \/ Cardinality(InFlight(p)) + Cardinality(taken[p]) >= MaxConcurrent
    /\ stage' = [stage EXCEPT ![p] = "claimed"]
    /\ offered' = [offered EXCEPT ![p] = {}]
    /\ UNCHANGED <<rows, row, plane, taken, carry, teardown, bounds>>

ClearClaim(p) ==
    /\ stage' = [stage EXCEPT ![p] = "idle"]
    /\ offered' = [offered EXCEPT ![p] = {}]
    /\ taken' = [taken EXCEPT ![p] = {}]

(* RunLoop.sweep resumes and makes each claimed run a delivery.  A loop    *)
(* cancelled while it waited for the thread never does: the list is lost.  *)
Launch(p) ==
    /\ stage[p] = "claimed"
    /\ carry' = IF plane[p] = "up"
                THEN [carry EXCEPT ![p] = [r \in Runs |-> IF r \in taken[p] THEN "talking" ELSE @[r]]]
                ELSE carry
    /\ ClearClaim(p)
    /\ UNCHANGED <<rows, row, plane, teardown, bounds>>

(* A store call of `_claim` raises: the sweep is logged and the next one   *)
(* tries, without the runs this one had already started.                   *)
ClaimFails(p) ==
    /\ faults < MaxFaults
    /\ stage[p] \in {"look"} \cup Decisions
    /\ ClearClaim(p)
    /\ faults' = faults + 1
    /\ UNCHANGED <<rows, row, plane, carry, teardown, stops>>

-----------------------------------------------------------------------------
(* Deliveries *)

(* RunLoop._carry: the conversation ends with a reply, the door's 402, a   *)
(* refusal or an error; only its time being up makes it a timeout.         *)
TalkEnds(p, r) ==
    /\ plane[p] = "up"
    /\ carry[p][r] = "talking"
    /\ \E o \in Outcomes \ {"interrupted"} :
        /\ o = "timeout" => age[r] >= Timeout
        /\ carry' = [carry EXCEPT ![p][r] = o]
    /\ UNCHANGED <<rows, row, plane, claims, teardown, bounds>>

(* RunLoop._finish and _end: the verdict is written unless the row is      *)
(* closed already, and the delivery leaves `in_flight`.                    *)
MutFinish(p, r) ==
    /\ carry[p][r] \in Outcomes
    /\ EndRun(r, EndingOf(carry[p][r]), IF carry[p][r] = "done" THEN "none" ELSE carry[p][r])
    /\ UNCHANGED <<row, plane, claims, carry, teardown, bounds>>
Finish(p, r) ==
    /\ carry[p][r] \in Outcomes
    /\ EndRun(r, EndingOf(carry[p][r]), IF carry[p][r] = "done" THEN "none" ELSE carry[p][r])
    /\ carry' = [carry EXCEPT ![p][r] = "no"]
    /\ UNCHANGED <<row, plane, claims, teardown, bounds>>

(* provision.reap_runs, from any live control plane's reconcile loop.  The *)
(* read and the write are one step: a `running` run's age only grows, and  *)
(* one ended in between is skipped.                                        *)
MutReapEarly(r) ==
    /\ \E p \in Planes : plane[p] = "up"
    /\ status[r] = "running"
    /\ age[r] >= Deadline
    /\ EndRun(r, "failed", "stranded")
    /\ UNCHANGED <<row, plane, claims, carry, teardown, bounds>>
MutReapOpen(r) ==
    /\ \E p \in Planes : plane[p] = "up"
    /\ status[r] = "running"
    /\ row[boxOf[r]] = "open"
    /\ age[r] > Deadline
    /\ EndRun(r, "failed", "stranded")
    /\ UNCHANGED <<row, plane, claims, carry, teardown, bounds>>
Reap(r) ==
    /\ \E p \in Planes : plane[p] = "up"
    /\ status[r] = "running"
    /\ age[r] > Deadline
    /\ EndRun(r, "failed", "stranded")
    /\ UNCHANGED <<row, plane, claims, carry, teardown, bounds>>

-----------------------------------------------------------------------------
(* Control planes stop, die and come back *)

Forget(p) ==
    /\ plane' = [plane EXCEPT ![p] = "down"]
    /\ carry' = [carry EXCEPT ![p] = [r \in Runs |-> "no"]]
    /\ ClearClaim(p)

(* The lifespan cancels `run_run_loop`, whose `finally` cancels every      *)
(* delivery in flight: each will write `interrupted`.  A claiming thread   *)
(* cannot be cancelled and runs on.                                        *)
Stop(p) ==
    /\ plane[p] = "up"
    /\ stops < MaxStops
    /\ stops' = stops + 1
    /\ plane' = [plane EXCEPT ![p] = "stopping"]
    /\ carry' = [carry EXCEPT ![p] =
            [r \in Runs |-> IF @[r] = "talking" THEN "interrupted" ELSE @[r]]]
    /\ UNCHANGED <<rows, row, claims, teardown, faults>>

(* Its deliveries wrote their endings inside STOP_GRACE_S.                 *)
Exit(p) ==
    /\ plane[p] = "stopping"
    /\ InFlight(p) = {}
    /\ stage[p] = "idle"
    /\ Forget(p)
    /\ UNCHANGED <<rows, row, teardown, bounds>>

(* Killed outright, or the grace ran out.                                  *)
Crash(p) ==
    /\ plane[p] # "down"
    /\ faults < MaxFaults
    /\ faults' = faults + 1
    /\ Forget(p)
    /\ UNCHANGED <<rows, row, teardown, stops>>

Boot(p) ==
    /\ plane[p] = "down"
    /\ plane' = [plane EXCEPT ![p] = "up"]
    /\ UNCHANGED <<rows, row, claims, carry, teardown, bounds>>

-----------------------------------------------------------------------------
(* What other requests do to a box *)

(* A budget pauses the box's row (enforce_budgets), or frees it.           *)
Pause(b) ==
    /\ row[b] = "open"
    /\ row' = [row EXCEPT ![b] = "paused"]
    /\ UNCHANGED <<rows, plane, claims, carry, teardown, bounds>>

Unpause(b) ==
    /\ row[b] = "paused"
    /\ row' = [row EXCEPT ![b] = "open"]
    /\ UNCHANGED <<rows, plane, claims, carry, teardown, bounds>>

(* provision.teardown_box: the machine is destroyed, then the live tasks   *)
(* are listed, then each is ended, then the row closes.  One request per   *)
(* box at a time.                                                          *)
TeardownScans(b) ==
    /\ tearing[b] = "no"
    /\ row[b] # "torn_down"
    /\ scanQueued' = [scanQueued EXCEPT ![b] = WithStatus(b, "pending")]
    /\ scanRunning' = [scanRunning EXCEPT ![b] = WithStatus(b, "running")]
    /\ tearing' = [tearing EXCEPT ![b] = "closing"]
    /\ UNCHANGED <<rows, row, plane, claims, carry, bounds>>

TeardownStops(b) ==
    /\ tearing' = [tearing EXCEPT ![b] = "no"]
    /\ scanQueued' = [scanQueued EXCEPT ![b] = {}]
    /\ scanRunning' = [scanRunning EXCEPT ![b] = {}]

(* The next listed run ends as the scan saw it.  One that ended since      *)
(* makes finish_run raise, and the request fails half way.                 *)
TeardownEndsRun(b) ==
    /\ tearing[b] = "closing"
    /\ \E r \in OldestOf(scanQueued[b] \cup scanRunning[b]) :
        LET to == IF r \in scanRunning[b] THEN "failed" ELSE "cancelled"
        IN /\ EndRun(r, to, "torn_down")
           /\ \/ /\ TaskMayMove(status[r], to)
                 /\ scanQueued' = [scanQueued EXCEPT ![b] = @ \ {r}]
                 /\ scanRunning' = [scanRunning EXCEPT ![b] = @ \ {r}]
                 /\ UNCHANGED tearing
              \/ /\ ~TaskMayMove(status[r], to)
                 /\ TeardownStops(b)
    /\ UNCHANGED <<row, plane, claims, carry, bounds>>

TeardownCloses(b) ==
    /\ tearing[b] = "closing"
    /\ scanQueued[b] \cup scanRunning[b] = {}
    /\ row' = [row EXCEPT ![b] = "torn_down"]
    /\ TeardownStops(b)
    /\ UNCHANGED <<rows, plane, claims, carry, bounds>>

(* The process serving the request dies, or a store call fails.            *)
TeardownFails(b) ==
    /\ tearing[b] # "no"
    /\ faults < MaxFaults
    /\ faults' = faults + 1
    /\ TeardownStops(b)
    /\ UNCHANGED <<rows, row, plane, claims, carry, stops>>

-----------------------------------------------------------------------------

(* Time.  A step of a live control plane that is due is at most Lag late:  *)
(* a claimed run becomes a delivery, `asyncio.wait_for` ends a delivery at *)
(* Timeout, and its verdict is written.                                    *)
OnTime(p, r) ==
    /\ r \in taken[p] => age[r] < Lag
    /\ carry[p][r] = "talking" => age[r] < Timeout + Lag
    /\ carry[p][r] \in Outcomes => age[r] < Timeout + Lag + Lag

Tick ==
    /\ \A p \in Planes, r \in Runs : OnTime(p, r)
    /\ age' = [r \in Runs |->
            IF \/ status[r] = "running"
               \/ \E p \in Planes : Holds(p, r)
            THEN IF age[r] <= Deadline THEN age[r] + 1 ELSE age[r]
            ELSE age[r]]
    /\ UNCHANGED <<status, boxOf, kind, error, row, plane, claims, carry, teardown, bounds>>

PlaneStep(p) ==
    \/ Offer(p) \/ Look(p) \/ Act(p) \/ ClaimEnds(p) \/ Launch(p) \/ ClaimFails(p)
    \/ \E r \in Runs : TalkEnds(p, r) \/ Finish(p, r)
    \/ Stop(p) \/ Exit(p) \/ Crash(p) \/ Boot(p)

BoxStep(b) ==
    \/ CreateRun(b) \/ FireTrigger(b) \/ Pause(b) \/ Unpause(b)
    \/ TeardownScans(b) \/ TeardownEndsRun(b)
    \/ TeardownCloses(b) \/ TeardownFails(b)

Next ==
    \/ \E p \in Planes : PlaneStep(p)
    \/ \E b \in Boxes : BoxStep(b)
    \/ \E r \in Runs : Reap(r)
    \/ Tick

Spec == Init /\ [][Next]_vars

-----------------------------------------------------------------------------
(* Properties *)

(* The agent does one run at a time: `start_run` refuses a second running  *)
(* run on a box, which is what lets a model call belong to exactly one run *)
(* (FleetStore._run_for_call, live_run: "There is at most one").           *)
OneRunningRunPerBox ==
    \A r, q \in Runs :
        r # q /\ status[r] = "running" /\ status[q] = "running" => boxOf[r] # boxOf[q]

(* No two control planes hold the same run, nor does one hold it twice     *)
(* over, claimed again while its delivery is in flight.                    *)
OneDeliverer ==
    /\ \A p, q \in Planes : \A r \in Runs : Holds(p, r) /\ Holds(q, r) => p = q
    /\ \A p \in Planes : taken[p] \cap InFlight(p) = {}

(* Past the deadline a run has lost its deliverer for certain: every       *)
(* delivery still alive is inside it.                                      *)
DeliveriesAreInsideDeadline ==
    \A p \in Planes : \A r \in Runs : Holds(p, r) => age[r] <= Deadline

(* The reaper closes only runs nobody is delivering: it never overrules a  *)
(* control plane that is still talking to the agent.                       *)
ReaperOverrulesNobody ==
    [][\A r \in Runs :
        error[r] # "stranded" /\ error'[r] = "stranded" => \A p \in Planes : ~Holds(p, r)]_vars

(* A verdict, once on the row, stands: the deliverer, the reaper, a budget *)
(* and a teardown that race leave one ending, and it does not change.      *)
VerdictStands ==
    [][\A r \in Runs : status[r] \in TaskTerminal =>
        status'[r] = status[r] /\ error'[r] = error[r]]_vars

(* Nothing delivers a run a second time, which would do the work twice: a  *)
(* control plane takes hold of a run only as it leaves the queue.          *)
NothingDeliversAgain ==
    [][\A p \in Planes, r \in Runs : ~Holds(p, r) /\ Holds(p, r)' => status[r] = "pending"]_vars

(* A run somebody asked for is not passed over: however late a sweep acts  *)
(* on what it read, it starts no later run of that agent while this one    *)
(* waits.  Only a schedule's run may be passed over, when it was put in    *)
(* its place behind the sweep's back (RunLoop._claim: "an agent's runs go  *)
(* in the order they were asked for").                                     *)
StartsInOrder ==
    [][\A r, q \in Runs :
        /\ status[r] = "pending" /\ status'[r] = "running"
        /\ q < r /\ boxOf[q] = boxOf[r] /\ status[q] = "pending"
        => kind[q] = "schedule"]_vars

-----------------------------------------------------------------------------
(* Fairness.  The event loop and the worker threads run, time passes, and  *)
(* the host restarts a dead control plane; nothing makes anyone ask for    *)
(* work, stop, kill, pause or tear down.                                   *)
Fairness ==
    /\ \A p \in Planes :
        /\ WF_vars(Offer(p)) /\ WF_vars(Look(p)) /\ WF_vars(Act(p))
        /\ WF_vars(ClaimEnds(p)) /\ WF_vars(Launch(p))
        /\ WF_vars(Exit(p)) /\ WF_vars(Boot(p))
        /\ \A r \in Runs : WF_vars(TalkEnds(p, r)) /\ WF_vars(Finish(p, r))
    /\ \A r \in Runs : WF_vars(Reap(r))
    /\ WF_vars(Tick)

FairSpec == Spec /\ Fairness

(* Whatever stopped or died while it was delivered, a started run ends.    *)
EveryStartedRunEnds ==
    \A r \in Runs : status[r] = "running" ~> status[r] \in TaskTerminal

(* A waiting run is not forgotten: it starts or ends, unless its box is    *)
(* destroyed.  A stranded run holds up its agent's queue for the deadline  *)
(* and no longer.                                                          *)
EveryWaitingRunIsServed ==
    \A r \in Runs : status[r] = "pending" ~>
        status[r] # "pending" \/ row[boxOf[r]] = "torn_down"
=============================================================================
