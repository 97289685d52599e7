---------------------------- MODULE BoxLifecycle ----------------------------
(***************************************************************************)
(* One box: its row in the fleet store and its machine on the substrate,   *)
(* and everything that moves either (flotta/provision.py).                 *)
(*                                                                         *)
(* Each operation reads the row, calls the substrate, and writes the row,  *)
(* in separate steps: API requests run on threads of their own, beside the *)
(* reconcile loop of each control plane (flotta/control/loop.py), whose    *)
(* sweep does its phases one after another, and beside the thread that     *)
(* provisions the box.  Only a row write is atomic and checked             *)
(* (FleetStore.update_box_status); what an operation read may be stale by  *)
(* the time it writes.                                                     *)
(*                                                                         *)
(* The substrate is external: a machine of it can be started, put to sleep *)
(* and destroyed, a call may fail, and a machine may go down by itself.    *)
(*                                                                         *)
(* A definition MutX is X with one plausible bug.  No specification uses   *)
(* it: each shows that some property notices that bug.                     *)
(***************************************************************************)
EXTENDS Naturals

CONSTANTS
    Clients,    \* API requests at work on the box at once
    Sweepers,   \* control planes, each with a reconcile loop
    Stopping,   \* what budgets of the box may do at their limit
    MaxFaults   \* bound: failed calls, dead threads, machines lost

ASSUME FaultsAssumption == MaxFaults \in Nat
ASSUME ActorsAssumption == Clients \cap Sweepers = {}
ASSUME StoppingAssumption == Stopping \subseteq {"pause", "kill"}

Actors == Clients \cup Sweepers

RowStatus == {"provisioning", "running", "stopped", "paused", "torn_down"}

(* BOX_TRANSITIONS *)
MutMayMove(from, to) ==
    \/ from = "provisioning" /\ to \in {"running", "stopped", "torn_down"}
    \/ from = "running" /\ to \in {"stopped", "paused", "torn_down"}
    \/ from = "stopped" /\ to \in {"running", "torn_down"}
    \/ from = "paused" /\ to \in {"stopped", "torn_down"}
MayMove(from, to) ==
    \/ from = "provisioning" /\ to \in {"running", "stopped", "torn_down"}
    \/ from = "running" /\ to \in {"stopped", "paused", "torn_down"}
    \/ from = "stopped" /\ to \in {"running", "paused", "torn_down"}
    \/ from = "paused" /\ to \in {"stopped", "torn_down"}

Phases == {"sleep", "correct", "budget"}
NextPhase == [sleep |-> "correct", correct |-> "budget", budget |-> "sleep"]

Steps == {"idle",
          "wake.observe", "wake.start", "wake.write",       \* wake_box, start_box
          "stop.pause", "stop.write",                       \* stop_box
          "destroy", "close",                               \* teardown, stranded
          "correct.observe", "correct.write",               \* _correct_running
          "budget.row", "budget.settle", "budget.sleep",    \* enforce_budgets
          "release.observe", "release.write", "release.run"}

VARIABLES
    row,        \* boxes.status
    machine,    \* "none" before it exists, "up", "asleep", "gone" once destroyed
    creator,    \* the provisioning thread; "done" once the row has the endpoint
    work,       \* the box's one task: none, queued or running
    held,       \* what the budget that has reached its limit does, or "no"
    step,       \* what each actor does next
    seen,       \* the row's status as the actor read it
    obs,        \* what the substrate told the actor
    phase,      \* the next phase of each reconcile sweep
    undestroyed,\* a destroy failed, and the event log says so
    faults

actorVars == <<step, seen, obs>>
vars == <<row, machine, creator, work, held, actorVars, phase, undestroyed, faults>>

TypeOK ==
    /\ row \in RowStatus
    /\ machine \in {"none", "up", "asleep", "gone"}
    /\ creator \in {"creating", "made", "started", "unstarted",
                    "done", "dead", "failed"}
    /\ work \in {"none", "queued", "running"}
    /\ held \in {"no"} \cup Stopping
    /\ step \in [Actors -> Steps]
    /\ seen \in [Actors -> RowStatus]
    /\ obs \in [Actors -> {"up", "asleep", "gone", "unknown"}]
    /\ phase \in [Sweepers -> Phases]
    /\ undestroyed \in BOOLEAN
    /\ faults \in 0 .. MaxFaults

(* `reserve_box` wrote the row; the thread that provisions it starts.      *)
Init ==
    /\ row = "provisioning"
    /\ machine = "none"
    /\ creator = "creating"
    /\ work = "none"
    /\ held = "no"
    /\ step = [a \in Actors |-> "idle"]
    /\ seen = [a \in Actors |-> "provisioning"]
    /\ obs = [a \in Actors |-> "unknown"]
    /\ phase = [s \in Sweepers |-> "sleep"]
    /\ undestroyed = FALSE
    /\ faults = 0

-----------------------------------------------------------------------------
(* Helpers *)

Fault == faults < MaxFaults /\ faults' = faults + 1

(* The actor goes on to step s, still holding what it read.                *)
GoOn(a, s) == step' = [step EXCEPT ![a] = s] /\ UNCHANGED <<seen, obs>>

Ends(a) ==
    /\ step' = [step EXCEPT ![a] = "idle"]
    /\ seen' = [seen EXCEPT ![a] = "provisioning"]
    /\ obs' = [obs EXCEPT ![a] = "unknown"]

(* It read the row and goes on to step s.                                  *)
Reads(a, s) ==
    /\ step[a] = "idle"
    /\ seen' = [seen EXCEPT ![a] = row]
    /\ step' = [step EXCEPT ![a] = s]
    /\ UNCHANGED <<row, machine, creator, work, held, obs, undestroyed, faults>>

(* FleetStore.update_box_status: a move the table does not allow raises,   *)
(* which ends the operation with the row as it was.                        *)
WriteRow(to) == row' = IF MayMove(row, to) THEN to ELSE row

(* Observing the machine: what it is, or `fallback` when the substrate     *)
(* cannot answer.                                                          *)
Observes(a, fallback, next) ==
    /\ \/ obs' = [obs EXCEPT ![a] = IF machine = "none" THEN "gone" ELSE machine] /\ UNCHANGED faults
       \/ Fault /\ obs' = [obs EXCEPT ![a] = fallback]
    /\ step' = [step EXCEPT ![a] = next]
    /\ UNCHANGED <<row, machine, creator, work, held, seen, phase, undestroyed>>

-----------------------------------------------------------------------------
(* provision.create_box on its thread *)

(* The machine exists, asleep or up, before the row can say where.         *)
Create ==
    /\ creator = "creating"
    /\ machine' \in {"up", "asleep"}
    /\ creator' = "made"
    /\ UNCHANGED <<row, work, held, actorVars, phase, undestroyed, faults>>

(* `create` raises, perhaps after the machine was made: the row closes.    *)
CreateFails ==
    /\ creator = "creating"
    /\ Fault
    /\ machine' \in {"none", "asleep", "up"}
    /\ creator' = "failed"
    /\ WriteRow("torn_down")
    /\ UNCHANGED <<work, held, actorVars, phase, undestroyed>>

CreateStarts ==
    /\ creator = "made"
    /\ \/ machine' = "up" /\ creator' = "started" /\ UNCHANGED faults
       \/ machine' \in {machine, "up"} /\ creator' = "unstarted" /\ Fault
    /\ UNCHANGED <<row, work, held, actorVars, phase, undestroyed>>

(* The substrate is believed: `running` if the machine is up, `stopped`    *)
(* otherwise, with the endpoint either way.  If it cannot say, a `start`   *)
(* that returned is taken for evidence.                                    *)
CreateRecords ==
    /\ creator \in {"started", "unstarted"}
    /\ \E up \in BOOLEAN :
        LET to == IF up THEN "running" ELSE "stopped"
        IN /\ \/ up = (machine = "up") /\ UNCHANGED faults
              \/ up = (creator = "started") /\ Fault
           /\ WriteRow(to)
           /\ creator' = IF MayMove(row, to) THEN "done" ELSE "dead"
    /\ UNCHANGED <<machine, work, held, actorVars, phase, undestroyed>>

(* The process dies with its daemon thread.                                *)
CreatorDies ==
    /\ creator \in {"creating", "made", "started", "unstarted"}
    /\ Fault
    /\ creator' = "dead"
    /\ UNCHANGED <<row, machine, work, held, actorVars, phase, undestroyed>>

-----------------------------------------------------------------------------
(* provision.wake_box, and start_box, which asks no questions first *)

Wake(c) ==
    /\ row \in {"running", "stopped"}
    /\ Reads(c, "wake.observe")
    /\ UNCHANGED phase

StartBox(c) ==
    /\ row = "stopped"
    /\ Reads(c, "wake.start")
    /\ UNCHANGED phase

WakeObserves(a) ==
    /\ step[a] = "wake.observe"
    /\ \/ machine = "up" /\ GoOn(a, "wake.write")
       \/ machine # "up" /\ GoOn(a, "wake.start")
    /\ UNCHANGED <<row, machine, creator, work, held, phase, undestroyed, faults>>

(* The substrate did not answer: start the machine anyway.                 *)
WakeObservesNothing(a) ==
    /\ step[a] = "wake.observe"
    /\ Fault
    /\ GoOn(a, "wake.start")
    /\ UNCHANGED <<row, machine, creator, work, held, phase, undestroyed>>

WakeStarts(a) ==
    /\ step[a] = "wake.start"
    /\ machine \in {"up", "asleep"}
    /\ machine' = "up"
    /\ GoOn(a, "wake.write")
    /\ UNCHANGED <<row, creator, work, held, phase, undestroyed, faults>>

(* There is no machine to start, or the call fails, the machine up or not. *)
WakeFails(a) ==
    /\ step[a] = "wake.start"
    /\ \/ machine \in {"none", "gone"} /\ UNCHANGED <<machine, faults>>
       \/ machine \in {"up", "asleep"} /\ machine' \in {machine, "up"} /\ Fault
    /\ Ends(a)
    /\ UNCHANGED <<row, creator, work, held, phase, undestroyed>>

(* Only a row it read `stopped` is moved.                                  *)
WakeWrites(a) ==
    /\ step[a] = "wake.write"
    /\ IF seen[a] = "stopped" THEN WriteRow("running") ELSE UNCHANGED row
    /\ Ends(a)
    /\ UNCHANGED <<machine, creator, work, held, phase, undestroyed, faults>>

-----------------------------------------------------------------------------
(* provision.stop_box, for a request and for the idle sweep *)

MayStop == row = "running" /\ work = "none"

Stop(c) ==
    /\ MayStop
    /\ Reads(c, "stop.pause")
    /\ UNCHANGED phase

StopPauses(a) ==
    /\ step[a] = "stop.pause"
    /\ machine \in {"up", "asleep"}
    /\ machine' = "asleep"
    /\ GoOn(a, "stop.write")
    /\ UNCHANGED <<row, creator, work, held, phase, undestroyed, faults>>

StopFails(a) ==
    /\ step[a] = "stop.pause"
    /\ \/ machine = "gone" /\ UNCHANGED <<machine, faults>>
       \/ machine \in {"up", "asleep"} /\ machine' \in {machine, "asleep"} /\ Fault
    /\ Ends(a)
    /\ UNCHANGED <<row, creator, work, held, phase, undestroyed>>

StopWrites(a) ==
    /\ step[a] = "stop.write"
    /\ WriteRow("stopped")
    /\ Ends(a)
    /\ UNCHANGED <<machine, creator, work, held, phase, undestroyed, faults>>

-----------------------------------------------------------------------------
(* provision.teardown_box, and _close_stranded_provision for the sweeper *)

Teardown(c) ==
    /\ row # "torn_down"
    /\ Reads(c, "destroy")
    /\ UNCHANGED phase

(* A request destroys what the row it read had an endpoint for; the        *)
(* sweeper, which closes only provisions, looks for a machine by name.     *)
MutFinds(a) == a \in Sweepers \/ seen[a] = "running"
Finds(a) == a \in Sweepers \/ seen[a] # "provisioning"

Destroys(a) ==
    /\ step[a] = "destroy"
    /\ machine' = IF Finds(a) /\ machine # "none" THEN "gone" ELSE machine
    /\ GoOn(a, "close")
    /\ UNCHANGED <<row, creator, work, held, phase, undestroyed, faults>>

(* Best effort: a destroy that fails is put in the event log, and does not *)
(* keep the row open.  A name the sweeper cannot look up is not logged.    *)
DestroyFails(a) ==
    /\ step[a] = "destroy"
    /\ Finds(a)
    /\ Fault
    /\ \/ undestroyed' = TRUE
       \/ a \in Sweepers /\ UNCHANGED undestroyed
    /\ GoOn(a, "close")
    /\ UNCHANGED <<row, machine, creator, work, held, phase>>

(* Its live work ends, and the row closes.                                 *)
Closes(a) ==
    /\ step[a] = "close"
    /\ work' = "none"
    /\ WriteRow("torn_down")
    /\ Ends(a)
    /\ UNCHANGED <<machine, creator, held, phase, undestroyed, faults>>

-----------------------------------------------------------------------------
(* provision._correct_running: a row that says `running` *)

(* An unreadable substrate is not a verdict.                               *)
Settled(o) == o \in {"asleep", "gone"}

CorrectObserves(a) == Observes(a, "unknown", "correct.write") /\ step[a] = "correct.observe"

CorrectWrites(a) ==
    /\ step[a] = "correct.write"
    /\ IF Settled(obs[a])
         THEN WriteRow(IF obs[a] = "asleep" THEN "stopped" ELSE "torn_down")
         ELSE UNCHANGED row
    /\ Ends(a)
    /\ UNCHANGED <<machine, creator, work, held, phase, undestroyed, faults>>

-----------------------------------------------------------------------------
(* provision.enforce_budgets for this box, and unpause_box *)

(* The row moves before the machine does.  A move the table refuses raises *)
(* out of the whole sweep.                                                 *)
BudgetPauses(a) ==
    /\ step[a] = "budget.row"
    /\ WriteRow("paused")
    /\ IF MayMove(row, "paused") THEN GoOn(a, "budget.settle") ELSE Ends(a)
    /\ UNCHANGED <<machine, creator, work, held, phase, undestroyed, faults>>

(* A kill stops the machine now, whatever the row says.  The sweep goes by *)
(* the budgets it read: one that has let go since may have been of either  *)
(* kind.                                                                   *)
MutBudgetKills(a) ==
    /\ step[a] = "budget.settle"
    /\ held # "pause"
    /\ \/ machine' = (IF machine = "up" /\ seen[a] # "paused" THEN "asleep" ELSE machine)
          /\ UNCHANGED faults
       \/ Fault /\ UNCHANGED machine
    /\ Ends(a)
    /\ UNCHANGED <<row, creator, work, held, phase, undestroyed>>
BudgetKills(a) ==
    /\ step[a] = "budget.settle"
    /\ held # "pause"
    /\ \/ machine' = (IF machine = "up" THEN "asleep" ELSE machine) /\ UNCHANGED faults
       \/ Fault /\ UNCHANGED machine
    /\ Ends(a)
    /\ UNCHANGED <<row, creator, work, held, phase, undestroyed>>

(* A pause lets it sleep once it is quiet and nothing is live on it.       *)
BudgetWaitsForQuiet(a) ==
    /\ step[a] = "budget.settle"
    /\ held # "kill"
    /\ \/ work = "none" /\ GoOn(a, "budget.sleep")
       \/ Ends(a)
    /\ UNCHANGED <<row, machine, creator, work, held, phase, undestroyed, faults>>

BudgetSleeps(a) ==
    /\ step[a] = "budget.sleep"
    /\ \/ machine' = (IF machine = "up" THEN "asleep" ELSE machine) /\ UNCHANGED faults
       \/ Fault /\ UNCHANGED machine
    /\ Ends(a)
    /\ UNCHANGED <<row, creator, work, held, phase, undestroyed>>

Releasable == row = "paused" /\ held = "no"

(* An owner's way out, once no budget holds the box.                       *)
Unpause(c) ==
    /\ Releasable
    /\ Reads(c, "release.observe")
    /\ UNCHANGED phase

(* _release_paused: out of `paused` by `stopped`, and on to `running` if   *)
(* the machine was seen up, so that the idle sweep looks at it.            *)
ReleaseObserves(a) == Observes(a, "asleep", "release.write") /\ step[a] = "release.observe"

ReleaseWrites(a) ==
    /\ step[a] = "release.write"
    /\ WriteRow("stopped")
    /\ IF MayMove(row, "stopped") /\ obs[a] = "up" THEN GoOn(a, "release.run") ELSE Ends(a)
    /\ UNCHANGED <<machine, creator, work, held, phase, undestroyed, faults>>

ReleaseRuns(a) ==
    /\ step[a] = "release.run"
    /\ WriteRow("running")
    /\ Ends(a)
    /\ UNCHANGED <<machine, creator, work, held, phase, undestroyed, faults>>

-----------------------------------------------------------------------------
(* The reconcile loop: sleep_idle_boxes, reconcile_boxes, enforce_budgets,  *)
(* one after another; a phase that fails does not stop the next.           *)

NextPhaseOf(s) == phase' = [phase EXCEPT ![s] = NextPhase[@]]

(* Nothing for this phase to do.                                           *)
Passes == UNCHANGED <<row, machine, creator, work, held, actorVars, undestroyed, faults>>

(* Nothing has happened to the box for the idle time, or something has.    *)
SweepSleeps(s) ==
    /\ phase[s] = "sleep"
    /\ \/ MayStop /\ Reads(s, "stop.pause")
       \/ Passes

(* `provisioning` for STALE_PROVISION_S: no thread still provisions it.    *)
MutStranded == row = "provisioning" /\ creator = "dead" /\ machine # "none"
Stranded == row = "provisioning" /\ creator \in {"dead", "failed"}

SweepCorrects(s) ==
    /\ phase[s] = "correct"
    /\ IF Stranded THEN Reads(s, "destroy")
       ELSE IF row = "running" THEN Reads(s, "correct.observe")
       ELSE Passes

SweepBudgets(s) ==
    /\ phase[s] = "budget"
    /\ IF held # "no" /\ row \in {"running", "stopped"} THEN Reads(s, "budget.row")
       ELSE IF held # "no" /\ row = "paused" THEN Reads(s, "budget.settle")
       ELSE IF Releasable THEN Reads(s, "release.observe")
       ELSE Passes

Sweep(s) ==
    /\ step[s] = "idle"
    /\ SweepSleeps(s) \/ SweepCorrects(s) \/ SweepBudgets(s)
    /\ NextPhaseOf(s)

-----------------------------------------------------------------------------
(* What happens around it *)

(* Spend reaches the limit; a period ends, or an owner raises the limit.   *)
BudgetMoves ==
    /\ held' \in (IF held = "no" THEN Stopping ELSE {"no"})
    /\ UNCHANGED <<row, machine, creator, work, actorVars, phase, undestroyed, faults>>

(* A task is created on any box that is not torn down; the run loop starts *)
(* it unless the box is paused or held, which ends it; and it ends.        *)
WorkMoves ==
    /\ \/ work = "none" /\ row # "torn_down" /\ work' = "queued"
       \/ work = "queued" /\ row \notin {"paused", "torn_down"} /\ held = "no" /\ work' = "running"
       \/ work = "queued" /\ (row = "paused" \/ held # "no") /\ work' = "none"
       \/ work = "running" /\ work' = "none"
    /\ UNCHANGED <<row, machine, creator, held, actorVars, phase, undestroyed, faults>>

(* The substrate drains a host, or somebody destroys the machine by hand.  *)
MachineLost ==
    /\ Fault
    /\ \/ machine = "up" /\ machine' = "asleep"
       \/ machine \in {"up", "asleep"} /\ creator = "done" /\ machine' = "gone"
    /\ UNCHANGED <<row, creator, work, held, actorVars, phase, undestroyed>>

-----------------------------------------------------------------------------
Provisions == Create \/ CreateFails \/ CreateStarts \/ CreateRecords

Asks(c) == Wake(c) \/ StartBox(c) \/ Stop(c) \/ Teardown(c) \/ Unpause(c)

GoesOn(a) ==
    \/ WakeObserves(a) \/ WakeObservesNothing(a) \/ WakeStarts(a) \/ WakeFails(a) \/ WakeWrites(a)
    \/ StopPauses(a) \/ StopFails(a) \/ StopWrites(a)
    \/ Destroys(a) \/ DestroyFails(a) \/ Closes(a)
    \/ CorrectObserves(a) \/ CorrectWrites(a)
    \/ BudgetPauses(a) \/ BudgetKills(a) \/ BudgetWaitsForQuiet(a) \/ BudgetSleeps(a)
    \/ ReleaseObserves(a) \/ ReleaseWrites(a) \/ ReleaseRuns(a)

Next ==
    \/ Provisions
    \/ CreatorDies
    \/ \E c \in Clients : Asks(c)
    \/ \E s \in Sweepers : Sweep(s)
    \/ \E a \in Actors : GoesOn(a)
    \/ BudgetMoves
    \/ WorkMoves
    \/ MachineLost

Spec == Init /\ [][Next]_vars

(* Threads run on and every reconcile loop comes round; nothing makes      *)
(* anyone ask, a budget move or a task progress.                           *)
Fairness ==
    /\ WF_vars(Provisions)
    /\ \A a \in Actors : WF_vars(GoesOn(a))
    /\ \A s \in Sweepers : WF_vars(Sweep(s))

FairSpec == Spec /\ Fairness

-----------------------------------------------------------------------------
(* Properties *)

(* A row that has an endpoint closes only over a destroyed machine, or     *)
(* with the failure to destroy it in the event log: whatever else was      *)
(* waking, stopping or pausing the box, `torn_down` does not hide a        *)
(* machine that bills (teardown_box, _correct_running).  A teardown that   *)
(* read the row before it had an endpoint is the exception: see            *)
(* ClosedBoxesHaveNoMachine.                                               *)
BlindClose == \E c \in Clients : step[c] = "close" /\ seen[c] = "provisioning"
EndpointsCloseClean ==
    [][~BlindClose /\ row \in {"running", "stopped", "paused"} /\ row' = "torn_down"
       => machine' = "gone" \/ undestroyed']_vars

(* A provision ends, its thread dead or alive: the row is not left at      *)
(* `provisioning` (create_box, _close_stranded_provision).                 *)
ProvisionSettles == <>(row # "provisioning")

(* A budget that keeps holding gets its box paused, however often requests *)
(* and stale writes take the row out of `paused` (enforce_budgets).        *)
HeldBoxIsPaused == []<>(held = "no" \/ row \in {"paused", "torn_down"})

(* With a kill, the machine goes down too, and again each time somebody    *)
(* has it started in between (_settle_paused_machine).                     *)
KillStopsTheMachine ==
    <>[](held = "kill") => []<>(machine # "up" \/ row = "torn_down")

(* The next three are what the repository says of itself and the code does  *)
(* not do: TLC finds each violated.                                        *)

=============================================================================
