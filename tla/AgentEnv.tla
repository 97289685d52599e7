------------------------------ MODULE AgentEnv ------------------------------
(***************************************************************************)
(* What one agent's machine is given in its environment, and how big it    *)
(* is: its model (set_model), whether it calls the provider or the gateway *)
(* (join_gateway, leave_gateway) and its memory (resize_box), in           *)
(* flotta/provision.py, each accepted by an endpoint of                    *)
(* flotta/control/app.py and made on a thread.                             *)
(*                                                                         *)
(* A change of model and a resize are accepted one at a time: an event     *)
(* says one is under way, a set of this process that one has a thread.  A  *)
(* move between provider and gateway looks for a change of model under     *)
(* way, when it is accepted and on its thread.  Each writes to the machine *)
(* first and to the store second; a write may fail, with or without having *)
(* had its effect, and the process may die between two steps.              *)
(*                                                                         *)
(* The substrate's own refusals, the operator's list of models and the     *)
(* restart that makes a machine take its new environment are left out.     *)
(***************************************************************************)
EXTENDS Naturals, FiniteSets

CONSTANTS
    Models, First,   \* models on offer, and the fleet's when the agent is made
    Sizes, Least,    \* memory sizes, and the one the agent is made with
    Workers,         \* requests and threads under way
    None,
    MaxRequests,     \* bound: requests accepted
    MaxMoves,        \* bound: changes made elsewhere, and events that grow old
    MaxTroubles      \* bound: writes that fail, and crashes

MadeAssumption == First \in Models /\ Least \in Sizes /\ None \notin Models \cup Sizes
BoundsAssumption ==
    MaxRequests \in Nat /\ MaxMoves \in Nat /\ MaxTroubles \in Nat

VARIABLES
    status,      \* boxes.status
    default,     \* the fleet's model
    machine,     \* its environment and its size
    own, given,  \* box_models, and the model of the latest model_set event
    change,      \* the latest event of a model change
    sized,       \* the latest event of a resize
    sizeSet,     \* the size of the latest size_set event
    label,       \* the size metering last read, and whether it is newer than that
    reading,     \* a metering sweep under way: the size it read, and whether it will be newer
    thisHour,    \* the latest size_set event is of the current hour
    busy,        \* _model_changes_running and _resizes_running
    work,        \* what each request or thread has done and read
    asked, moves, troubles,
    unsure       \* history: what failed, was cut off or was overtaken

events == <<change, sized, sizeSet>>
metered == <<label, reading, thisHour>>
bounds == <<asked, moves, troubles>>
vars == <<status, default, machine, own, given, events, metered, busy, work, bounds, unsure>>

Idle == [at |-> "idle"]
States == {"none", "started", "stale", "failed", "set"}

TypeOK ==
    /\ status \in {"settled", "paused", "torn_down"} /\ default \in Models
    /\ machine \in [model : Models, via : {"provider", "gateway"}, key : BOOLEAN,
                    upstream : BOOLEAN, size : Sizes]
    /\ own \in Models \cup {None} /\ given \in Models
    /\ change \in States /\ sized \in States /\ sizeSet \in Sizes
    /\ label \in [size : Sizes, newer : BOOLEAN]
    /\ reading \in [size : Sizes, newer : BOOLEAN] \cup {None}
    /\ thisHour \in BOOLEAN
    /\ busy \subseteq {"model", "size"}
    /\ work \in [Workers -> {Idle}
         \cup [at : {"model.plan"}, wanted : Models \cup {None}]
         \cup [at : {"model.write", "model.row", "model.event"},
               wanted : Models \cup {None}, model : Models]
         \cup [at : {"size.write", "size.event"}, size : Sizes]
         \cup [at : {"move.read"}, join : BOOLEAN]
         \cup [at : {"move.write"}, join : BOOLEAN, model : Models]
         \cup [at : {"move.remove"}, join : BOOLEAN]]
    /\ asked \in 0..MaxRequests /\ moves \in 0..MaxMoves /\ troubles \in 0..MaxTroubles
    /\ unsure \subseteq {"model", "size", "key"}

(* An agent just made, on the fleet's model and calling the provider.      *)
Init ==
    /\ status = "settled" /\ default = First
    /\ machine = [model |-> First, via |-> "provider", key |-> TRUE, upstream |-> FALSE,
                  size |-> Least]
    /\ own = None /\ given = First
    /\ change = "set" /\ sized = "set" /\ sizeSet = Least
    /\ label = [size |-> Least, newer |-> FALSE] /\ reading = None /\ thisHour = TRUE
    /\ busy = {} /\ work = [w \in Workers |-> Idle]
    /\ asked = 0 /\ moves = 0 /\ troubles = 0
    /\ unsure = {}

-----------------------------------------------------------------------------
Begins(w, first) ==
    /\ work[w] = Idle /\ asked < MaxRequests
    /\ asked' = asked + 1
    /\ work' = [work EXCEPT ![w] = first]
    /\ UNCHANGED <<moves, troubles>>
Goes(w, next) == work' = [work EXCEPT ![w] = next]
Ends(w) == Goes(w, Idle)
At(w, at) == work[w].at = at
Under(ats) == \E w \in Workers : work[w].at \in ats
Trouble ==
    /\ troubles < MaxTroubles /\ troubles' = troubles + 1
    /\ UNCHANGED <<asked, moves>>
Moves ==
    /\ moves < MaxMoves /\ moves' = moves + 1
    /\ UNCHANGED <<asked, troubles>>

Settled == status # "torn_down"
ModelAt == {"model.plan", "model.write", "model.row", "model.event"}
MoveAt == {"move.read", "move.write", "move.remove"}

(* The model the fleet API reports the agent runs.                         *)
Recorded == IF own # None THEN own ELSE given

-----------------------------------------------------------------------------
(* The model.                                                              *)

(* The bug: a second change is accepted while a thread is still at the     *)
(* first, once its event is stale.                                         *)
MutBeginModelChange(w, wanted) ==
    /\ Settled /\ change # "started"
    /\ Begins(w, [at |-> "model.plan", wanted |-> wanted])
    /\ busy' = busy \cup {"model"}
    /\ change' = "started"
    /\ UNCHANGED <<status, default, machine, own, given, sized, sizeSet, metered, unsure>>

(* set_model_endpoint and begin_model_change, under one lock.              *)
BeginModelChange(w, wanted) ==
    /\ Settled /\ "model" \notin busy /\ change # "started"
    /\ Begins(w, [at |-> "model.plan", wanted |-> wanted])
    /\ busy' = busy \cup {"model"}
    /\ change' = "started"
    /\ UNCHANGED <<status, default, machine, own, given, sized, sizeSet, metered, unsure>>

(* The thread plans again: the fleet's model may have changed since.       *)
ModelPlanned(w) ==
    /\ At(w, "model.plan") /\ Settled
    /\ Goes(w, [at |-> "model.write", wanted |-> work[w].wanted,
                model |-> IF work[w].wanted = None THEN default ELSE work[w].wanted])
    /\ UNCHANGED <<status, default, machine, own, given, events, metered, busy, bounds, unsure>>

ModelWritten(w) ==
    /\ At(w, "model.write") /\ Settled
    /\ machine' = [machine EXCEPT !.model = work[w].model]
    /\ Goes(w, [work[w] EXCEPT !.at = "model.row"])
    /\ UNCHANGED <<status, default, own, given, events, metered, busy, bounds, unsure>>

ModelEnds(w, event) ==
    /\ change' = event
    /\ busy' = busy \ {"model"}
    /\ Ends(w)
    /\ UNCHANGED <<status, default, sized, sizeSet, metered>>

(* The box is gone, before the plan or before the write.                   *)
ModelUnfinished(w) ==
    /\ At(w, "model.plan") \/ At(w, "model.write")
    /\ ~Settled
    /\ ModelEnds(w, "failed")
    /\ UNCHANGED <<machine, own, given, bounds, unsure>>

ModelFails(w) ==
    /\ At(w, "model.write") /\ Settled /\ Trouble
    /\ machine' \in {machine, [machine EXCEPT !.model = work[w].model]}
    /\ unsure' = unsure \cup {"model"}
    /\ ModelEnds(w, "failed")
    /\ UNCHANGED <<own, given>>

ModelRecorded(w) ==
    /\ At(w, "model.row")
    /\ own' = work[w].wanted
    /\ Goes(w, [work[w] EXCEPT !.at = "model.event"])
    /\ UNCHANGED <<status, default, machine, given, events, metered, busy, bounds, unsure>>

ModelSet(w) ==
    /\ At(w, "model.event")
    /\ given' = work[w].model
    /\ ModelEnds(w, "set")
    /\ UNCHANGED <<machine, own, bounds, unsure>>

-----------------------------------------------------------------------------
(* Moves between the provider and the gateway.                             *)

(* movable_box: the endpoint asks first.                                   *)
Movable == status = "settled" /\ change # "started"

MoveProvider(w, join) ==
    /\ Movable
    /\ Begins(w, [at |-> "move.read", join |-> join])
    /\ unsure' = IF Under(MoveAt) THEN unsure \cup {"key"} ELSE unsure
    /\ UNCHANGED <<status, default, machine, own, given, events, metered, busy>>

(* And the thread again, with the model to write.                          *)
MoveReads(w) ==
    /\ At(w, "move.read")
    /\ IF Movable
       THEN Goes(w, [at |-> "move.write", join |-> work[w].join, model |-> Recorded])
       ELSE Ends(w)
    /\ UNCHANGED <<status, default, machine, own, given, events, metered, busy, bounds, unsure>>

(* gateway_secrets and provider_secrets, both with the model.              *)
ProviderWritten(w) ==
    IF work[w].join
    THEN [machine EXCEPT !.model = work[w].model, !.via = "gateway", !.upstream = TRUE]
    ELSE [machine EXCEPT !.model = work[w].model, !.via = "provider", !.key = TRUE]

(* Overtaken by a change of model that began after the thread's look.      *)
Overtakes(w) ==
    IF work[w].model # Recorded \/ Under(ModelAt) THEN unsure \cup {"model"} ELSE unsure

MoveWrites(w) ==
    /\ At(w, "move.write") /\ Settled
    /\ machine' = ProviderWritten(w)
    /\ unsure' = Overtakes(w)
    /\ Goes(w, [at |-> "move.remove", join |-> work[w].join])
    /\ UNCHANGED <<status, default, own, given, events, metered, busy, bounds>>

MoveWriteFails(w) ==
    /\ At(w, "move.write")
    /\ Trouble
    /\ \/ Settled /\ machine' = ProviderWritten(w) /\ unsure' = Overtakes(w)
       \/ UNCHANGED <<machine, unsure>>
    /\ Ends(w)
    /\ UNCHANGED <<status, default, own, given, events, metered, busy>>

Removed(w) ==
    IF work[w].join THEN [machine EXCEPT !.key = FALSE] ELSE [machine EXCEPT !.upstream = FALSE]

MoveRemoves(w) ==
    /\ At(w, "move.remove") /\ Settled
    /\ machine' = Removed(w)
    /\ Ends(w)
    /\ UNCHANGED <<status, default, own, given, events, metered, busy, bounds, unsure>>

MoveRemoveFails(w) ==
    /\ At(w, "move.remove")
    /\ Trouble
    /\ machine' \in {machine, Removed(w)}
    /\ Ends(w)
    /\ UNCHANGED <<status, default, own, given, events, metered, busy, unsure>>

-----------------------------------------------------------------------------
(* The size.                                                               *)

(* box_sizes: the newer of the event and what metering read.               *)
BoxSize == IF label.newer THEN label.size ELSE sizeSet

(* set_size_endpoint and begin_resize, under one lock; an agent already    *)
(* that size is answered so, and nothing is recorded.                      *)
BeginResize(w, size) ==
    /\ Settled /\ "size" \notin busy /\ sized # "started"
    /\ size # BoxSize
    /\ Begins(w, [at |-> "size.write", size |-> size])
    /\ busy' = busy \cup {"size"}
    /\ sized' = "started"
    /\ UNCHANGED <<status, default, machine, own, given, change, sizeSet, metered, unsure>>

Resized(w) ==
    /\ At(w, "size.write") /\ Settled
    /\ machine' = [machine EXCEPT !.size = work[w].size]
    /\ Goes(w, [work[w] EXCEPT !.at = "size.event"])
    /\ UNCHANGED <<status, default, own, given, events, metered, busy, bounds, unsure>>

ResizeEnds(w) ==
    /\ busy' = busy \ {"size"}
    /\ Ends(w)
    /\ UNCHANGED <<status, default, own, given, change>>

ResizeUnfinished(w) ==
    /\ At(w, "size.write") /\ ~Settled
    /\ sized' = "failed"
    /\ ResizeEnds(w)
    /\ UNCHANGED <<machine, sizeSet, metered, bounds, unsure>>

ResizeFails(w) ==
    /\ At(w, "size.write") /\ Settled /\ Trouble
    /\ machine' \in {machine, [machine EXCEPT !.size = work[w].size]}
    /\ unsure' = unsure \cup {"size"}
    /\ sized' = "failed"
    /\ ResizeEnds(w)
    /\ UNCHANGED <<sizeSet, metered>>

(* The event is newer than anything metering has read.                     *)
SizeSet(w) ==
    /\ At(w, "size.event")
    /\ sized' = "set" /\ sizeSet' = work[w].size
    /\ label' = [label EXCEPT !.newer = FALSE]
    /\ reading' = IF reading = None THEN None ELSE [reading EXCEPT !.newer = FALSE]
    /\ thisHour' = TRUE
    /\ ResizeEnds(w)
    /\ UNCHANGED <<machine, bounds, unsure>>

(* metering reads the machine, and marks what it read with the hour it     *)
(* closed, which is no newer than an event of the hour it read in.         *)
MeterReads ==
    /\ reading = None /\ Settled
    /\ reading' = [size |-> machine.size, newer |-> ~thisHour]
    /\ UNCHANGED <<status, default, machine, own, given, events, label, thisHour, busy, work,
                   bounds, unsure>>

MeterMarks ==
    /\ reading # None
    /\ label' = reading
    /\ reading' = None
    /\ UNCHANGED <<status, default, machine, own, given, events, thisHour, busy, work, bounds,
                   unsure>>

HourTurns ==
    /\ thisHour
    /\ thisHour' = FALSE
    /\ UNCHANGED <<status, default, machine, own, given, events, label, reading, busy, work,
                   bounds, unsure>>

-----------------------------------------------------------------------------
(* What else happens to the agent.                                         *)

(* MODEL_CHANGE_STALE_S and SIZE_CHANGE_STALE_S: ten minutes pass, whether *)
(* or not its thread is still at it.                                       *)
GrowsStale ==
    /\ Moves
    /\ \/ change = "started" /\ change' = "stale" /\ UNCHANGED sized
       \/ sized = "started" /\ sized' = "stale" /\ UNCHANGED change
    /\ UNCHANGED <<status, default, machine, own, given, sizeSet, metered, busy, work, unsure>>

(* `fly machine update`, made by nobody here.                              *)
ResizedElsewhere(size) ==
    /\ Settled /\ Moves
    /\ machine' = [machine EXCEPT !.size = size]
    /\ unsure' = unsure \cup {"size"}
    /\ UNCHANGED <<status, default, own, given, events, metered, busy, work>>

SetDefault(model) ==
    /\ Moves
    /\ default' = model
    /\ UNCHANGED <<status, machine, own, given, events, metered, busy, work, unsure>>

BoxMoves(to) ==
    /\ <<status, to>> \in {<<"settled", "paused">>, <<"paused", "settled">>,
                           <<"settled", "torn_down">>, <<"paused", "torn_down">>}
    /\ Moves
    /\ status' = to
    /\ UNCHANGED <<default, machine, own, given, events, metered, busy, work, unsure>>

Crash ==
    /\ \E w \in Workers : work[w] # Idle
    /\ Trouble
    /\ unsure' = unsure \cup (IF Under({"model.row", "model.event"}) THEN {"model"} ELSE {})
                        \cup (IF Under({"size.event"}) THEN {"size"} ELSE {})
    /\ work' = [w \in Workers |-> Idle]
    /\ busy' = {} /\ reading' = None
    /\ UNCHANGED <<status, default, machine, own, given, events, label, thisHour>>

-----------------------------------------------------------------------------
Step(w) ==
    \/ \E wanted \in Models \cup {None} : BeginModelChange(w, wanted)
    \/ ModelPlanned(w) \/ ModelWritten(w) \/ ModelUnfinished(w) \/ ModelFails(w)
    \/ ModelRecorded(w) \/ ModelSet(w)
    \/ \E join \in BOOLEAN : MoveProvider(w, join)
    \/ MoveReads(w) \/ MoveWrites(w) \/ MoveWriteFails(w) \/ MoveRemoves(w) \/ MoveRemoveFails(w)
    \/ \E size \in Sizes : BeginResize(w, size)
    \/ Resized(w) \/ ResizeUnfinished(w) \/ ResizeFails(w) \/ SizeSet(w)

Next ==
    \/ \E w \in Workers : Step(w)
    \/ MeterReads \/ MeterMarks \/ HourTurns \/ GrowsStale
    \/ \E size \in Sizes : ResizedElsewhere(size)
    \/ \E model \in Models : SetDefault(model)
    \/ \E to \in {"settled", "paused", "torn_down"} : BoxMoves(to)
    \/ Crash

Spec == Init /\ [][Next]_vars

-----------------------------------------------------------------------------
(* The model the store reports is the one on the machine, once no change   *)
(* is under way: begin_model_change and set_model, one at a time, against  *)
(* teardown, a new fleet model, events gone stale and restarts, unless a   *)
(* write failed, was cut off from its record, or a move overtook it.       *)
ModelIsRecorded ==
    Settled /\ ~Under(ModelAt) /\ "model" \notin unsure => machine.model = Recorded

(* An agent that calls the provider directly holds its key, at every       *)
(* moment of a move, also one that fails or dies half way: write, then     *)
(* remove (_rewrite_provider), with one move at a time.                    *)
AgentCanCall ==
    "key" \notin unsure /\ machine.via = "provider" => machine.key

(* The size the fleet page shows is the machine's, once no resize is       *)
(* under way: the event and metering's late reading against each other,    *)
(* unless a resize failed, was cut off, or was made elsewhere.             *)
SizeIsKnown ==
    Settled /\ ~Under({"size.write", "size.event"}) /\ "size" \notin unsure =>
        BoxSize = machine.size

=============================================================================
