------------------------------ MODULE Rollouts ------------------------------
(***************************************************************************)
(* Moving agents onto a new Hermes.  An update builds and releases a box   *)
(* image (flotta/images.py) and then moves every agent onto it, one at a   *)
(* time, on a thread of the control plane that accepted it                 *)
(* (flotta/control/app.py, update_hermes); a row of `builds` says that it  *)
(* is under way (flotta/store.py).  One agent is also moved by itself      *)
(* (upgrade_box_endpoint), made and destroyed, all meanwhile.              *)
(*                                                                         *)
(* A call of the substrate may fail, having had its effect or not, and the *)
(* process may die at any point, its rows staying behind: a row an hour    *)
(* old counts as abandoned.  Images are numbered by the release that made  *)
(* them.  Releases made by hand into the same app, $FLOTTA_FLY_IMAGE and   *)
(* the machine a deploy makes and destroys are left out.                   *)
(***************************************************************************)
EXTENDS Naturals, Sequences, FiniteSetsExt

CONSTANTS
    Boxes,        \* agents, numbered in the order they are made
    Made,         \* those there at first
    Refs, First,  \* Hermes refs, and the one all agents first run
    Builds,       \* updates, numbered as they are accepted
    MaxTroubles,  \* bound: failed calls and crashes
    MaxMoves      \* bound: agents upgraded singly, and destroyed

BoxesAssumption == Boxes \subseteq Nat \ {0} /\ IsFiniteSet(Boxes) /\ Made \subseteq Boxes
RefsAssumption == First \in Refs
BuildsAssumption == Builds \subseteq Nat \ {0}
BoundsAssumption == MaxTroubles \in Nat /\ MaxMoves \in Nat

VARIABLES
    status,     \* boxes.status
    image,      \* the release each machine runs
    releases,   \* the ref each release of the build app was built from
    build,      \* rows of builds
    roll,       \* the thread of each update
    upgrade,    \* the thread of a single upgrade
    troubles, moves,
    elsewhere   \* history: agents moved by another after an update moved them

bounds == <<troubles, moves>>
vars == <<status, image, releases, build, roll, upgrade, bounds, elsewhere>>

Idle == [at |-> "idle", target |-> 0, listed |-> {}, todo |-> {}]
Resting == [at |-> "idle", box |-> 0, target |-> 0]

TypeOK ==
    /\ status \in [Boxes -> {"absent", "provisioning", "settled", "torn_down"}]
    /\ image \in [Boxes -> Nat]
    /\ releases \in Seq(Refs)
    /\ build \in [Builds -> [status : {"none", "building", "rolling", "done", "failed"},
                             ref : Refs, image : Nat, stale : BOOLEAN]]
    /\ roll \in [Builds -> [at : {"idle", "deploy", "release", "mark", "list", "roll", "reimage"},
                            target : Nat, listed : SUBSET Boxes, todo : SUBSET Boxes]]
    /\ upgrade \in [at : {"idle", "turn", "reimage"}, box : Boxes \cup {0}, target : Nat]
    /\ troubles \in 0..MaxTroubles /\ moves \in 0..MaxMoves
    /\ elsewhere \in [Builds -> SUBSET Boxes]

Init ==
    /\ status = [b \in Boxes |-> IF b \in Made THEN "settled" ELSE "absent"]
    /\ image = [b \in Boxes |-> 1]
    /\ releases = <<First>>
    /\ build = [i \in Builds |-> [status |-> "none", ref |-> First, image |-> 0, stale |-> FALSE]]
    /\ roll = [i \in Builds |-> Idle]
    /\ upgrade = Resting
    /\ troubles = 0 /\ moves = 0
    /\ elsewhere = [i \in Builds |-> {}]

-----------------------------------------------------------------------------
Trouble == troubles < MaxTroubles /\ troubles' = troubles + 1 /\ UNCHANGED moves
Moves == moves < MaxMoves /\ moves' = moves + 1 /\ UNCHANGED troubles

At(i, at) == roll[i].at = at
Goes(i, at) == roll' = [roll EXCEPT ![i].at = at]
Newest == Len(releases)

(* finish_build, the last thing a thread does.  What a finished update had *)
(* listed is kept for the properties.                                      *)
FinishBuild(i, outcome) ==
    /\ build' = [build EXCEPT ![i].status = outcome,
                              ![i].image = IF outcome = "done" THEN roll[i].target ELSE 0]
    /\ roll' = [roll EXCEPT ![i] = IF outcome = "done" THEN [@ EXCEPT !.at = "idle"] ELSE Idle]

(* The rows that say an update is under way, and whether the latest of     *)
(* them is one to wait for.                                                *)
Open == {i \in Builds : build[i].status \in {"building", "rolling"}}

(* The bug: no row is ever given up.                                       *)
MutActiveBuild == Open # {}
ActiveBuild == Open # {} /\ ~build[Max(Open)].stale

-----------------------------------------------------------------------------
(* An update. *)

(* update_hermes: the check and the row in one transaction, then a thread. *)
StartBuild(i, ref) ==
    /\ build[i].status = "none" /\ \A j \in Builds : j < i => build[j].status # "none"
    /\ ~ActiveBuild
    /\ build' = [build EXCEPT ![i].status = "building", ![i].ref = ref]
    /\ Goes(i, "deploy")
    /\ UNCHANGED <<status, image, releases, upgrade, bounds, elsewhere>>

Deployed(i) ==
    /\ At(i, "deploy")
    /\ releases' = Append(releases, build[i].ref)
    /\ Goes(i, "release")
    /\ UNCHANGED <<status, image, build, upgrade, bounds, elsewhere>>

(* A deploy that times out may have released all the same.                 *)
BuildFails(i) ==
    /\ roll[i].at \in {"deploy", "release"}
    /\ Trouble
    /\ releases' \in {releases} \cup (IF At(i, "deploy") THEN {Append(releases, build[i].ref)} ELSE {})
    /\ FinishBuild(i, "failed")
    /\ UNCHANGED <<status, image, upgrade, elsewhere>>

(* What was built is taken to be the app's newest release.                 *)
ReadsRelease(i) ==
    /\ At(i, "release")
    /\ roll' = [roll EXCEPT ![i].at = "mark", ![i].target = Newest]
    /\ UNCHANGED <<status, image, releases, build, upgrade, bounds, elsewhere>>

MarksRolling(i) ==
    /\ At(i, "mark")
    /\ build' = [build EXCEPT ![i].status = "rolling"]
    /\ Goes(i, "list")
    /\ UNCHANGED <<status, image, releases, upgrade, bounds, elsewhere>>

(* The agents are listed once; those still being made are passed over.     *)
ListsBoxes(i) ==
    /\ At(i, "list")
    /\ LET settled == {b \in Boxes : status[b] = "settled"}
       IN  roll' = [roll EXCEPT ![i].at = "roll", ![i].listed = settled, ![i].todo = settled]
    /\ UNCHANGED <<status, image, releases, build, upgrade, bounds, elsewhere>>

(* The newest agent first.                                                 *)
Turn(i) == Max(roll[i].todo)
HasTurn(i) == At(i, "roll") /\ roll[i].todo # {}
Passes(i) == roll' = [roll EXCEPT ![i].at = "roll", ![i].todo = @ \ {Turn(i)}]

(* upgrade_box reads the row again.  An agent that has gone raises, and    *)
(* stops the roll as a failed upgrade does.                                *)
FindsGone(i) ==
    /\ HasTurn(i) /\ status[Turn(i)] = "torn_down"
    /\ FinishBuild(i, "failed")
    /\ UNCHANGED <<status, image, releases, upgrade, bounds, elsewhere>>

(* An agent that already runs the image is left alone; a machine that      *)
(* cannot be read is moved all the same.                                   *)
FindsCurrent(i) ==
    /\ HasTurn(i) /\ status[Turn(i)] # "torn_down" /\ image[Turn(i)] = roll[i].target
    /\ \/ Passes(i) /\ UNCHANGED troubles
       \/ Trouble /\ Goes(i, "reimage")
    /\ UNCHANGED <<status, image, releases, build, upgrade, moves, elsewhere>>

FindsBehind(i) ==
    /\ HasTurn(i) /\ status[Turn(i)] # "torn_down" /\ image[Turn(i)] # roll[i].target
    /\ Goes(i, "reimage")
    /\ UNCHANGED <<status, image, releases, build, upgrade, bounds, elsewhere>>

(* Those an update has moved, which somebody else moves now.               *)
MovedElsewhere(b, by) ==
    elsewhere' = [i \in Builds |->
                    IF i # by /\ b \in roll[i].listed \ roll[i].todo
                    THEN elsewhere[i] \cup {b} ELSE elsewhere[i]]

Reimaged(i) ==
    /\ At(i, "reimage") /\ status[Turn(i)] # "torn_down"
    /\ image' = [image EXCEPT ![Turn(i)] = roll[i].target]
    /\ MovedElsewhere(Turn(i), i)
    /\ Passes(i)
    /\ UNCHANGED <<status, releases, build, upgrade, bounds>>

(* The first failure stops the roll, whether the machine had moved or not. *)
MutReimageFails(i) ==
    /\ At(i, "reimage")
    /\ IF status[Turn(i)] = "torn_down" THEN UNCHANGED bounds ELSE Trouble
    /\ Passes(i)
    /\ UNCHANGED <<status, image, releases, build, upgrade, elsewhere>>
ReimageFails(i) ==
    /\ At(i, "reimage")
    /\ \/ status[Turn(i)] = "torn_down" /\ UNCHANGED <<bounds, image, elsewhere>>
       \/ /\ status[Turn(i)] # "torn_down" /\ Trouble
          /\ \/ UNCHANGED <<image, elsewhere>>
             \/ image' = [image EXCEPT ![Turn(i)] = roll[i].target] /\ MovedElsewhere(Turn(i), i)
    /\ FinishBuild(i, "failed")
    /\ UNCHANGED <<status, releases, upgrade>>

Rolled(i) ==
    /\ At(i, "roll") /\ roll[i].todo = {}
    /\ FinishBuild(i, "done")
    /\ UNCHANGED <<status, image, releases, upgrade, bounds, elsewhere>>

(* Anything else that raises on the thread.                                *)
Raises(i) ==
    /\ roll[i].at \in {"mark", "list", "roll"} /\ Trouble
    /\ FinishBuild(i, "failed")
    /\ UNCHANGED <<status, image, releases, upgrade, elsewhere>>

(* BUILD_STALE_S since it was accepted.  A deploy and its listings are cut *)
(* off well before (BUILD_TIMEOUT_S); a roll is not.                       *)
GrowsStale(i) ==
    /\ i \in Open /\ ~build[i].stale /\ roll[i].at \notin {"deploy", "release"}
    /\ \A j \in Open : j < i => build[j].stale
    /\ build' = [build EXCEPT ![i].stale = TRUE]
    /\ UNCHANGED <<status, image, releases, roll, upgrade, bounds, elsewhere>>

-----------------------------------------------------------------------------
(* One agent. *)

(* upgrade_box_endpoint: the image is settled when the request is accepted,*)
(* the fleet's as last looked up or a release the operator names.          *)
AcceptUpgrade(b, target) ==
    /\ upgrade.at = "idle" /\ status[b] = "settled" /\ Moves
    /\ upgrade' = [at |-> "turn", box |-> b, target |-> target]
    /\ UNCHANGED <<status, image, releases, build, roll, elsewhere>>

UpgradeLooks ==
    /\ upgrade.at = "turn"
    /\ upgrade' = IF status[upgrade.box] = "torn_down" \/ image[upgrade.box] = upgrade.target
                  THEN Resting ELSE [upgrade EXCEPT !.at = "reimage"]
    /\ UNCHANGED <<status, image, releases, build, roll, bounds, elsewhere>>

Upgraded ==
    /\ upgrade.at = "reimage"
    /\ \/ /\ status[upgrade.box] # "torn_down" /\ UNCHANGED bounds
          /\ image' = [image EXCEPT ![upgrade.box] = upgrade.target]
          /\ MovedElsewhere(upgrade.box, 0)
       \/ /\ IF status[upgrade.box] = "torn_down" THEN UNCHANGED bounds ELSE Trouble
          /\ UNCHANGED <<image, elsewhere>>
    /\ upgrade' = Resting
    /\ UNCHANGED <<status, releases, build, roll>>

(* resolve_fleet_image: a release that was the newest when last looked up. *)
FleetImages == 1..Newest

MakeBox(b) ==
    /\ status[b] = "absent" /\ \A c \in Boxes : c < b => status[c] # "absent"
    /\ status' = [status EXCEPT ![b] = "provisioning"]
    /\ \E m \in FleetImages : image' = [image EXCEPT ![b] = m]
    /\ UNCHANGED <<releases, build, roll, upgrade, bounds, elsewhere>>
BoxSettles(b) ==
    /\ status[b] = "provisioning"
    /\ status' = [status EXCEPT ![b] = "settled"]
    /\ UNCHANGED <<image, releases, build, roll, upgrade, bounds, elsewhere>>
Teardown(b) ==
    /\ status[b] = "settled" /\ Moves
    /\ status' = [status EXCEPT ![b] = "torn_down"]
    /\ UNCHANGED <<image, releases, build, roll, upgrade, elsewhere>>

(* Every thread dies with the process; the deploy it ran may go through.   *)
Crash ==
    /\ Trouble
    /\ \E i \in Builds : roll[i].at # "idle"
    /\ releases' \in {releases}
         \cup {Append(releases, build[i].ref) : i \in {j \in Builds : At(j, "deploy")}}
    /\ roll' = [i \in Builds |-> IF At(i, "idle") THEN roll[i] ELSE Idle] /\ upgrade' = Resting
    /\ UNCHANGED <<status, image, build, elsewhere>>

-----------------------------------------------------------------------------
RollStep(i) ==
    \/ Deployed(i) \/ BuildFails(i) \/ ReadsRelease(i) \/ MarksRolling(i) \/ ListsBoxes(i)
    \/ FindsGone(i) \/ FindsCurrent(i) \/ FindsBehind(i) \/ Reimaged(i) \/ ReimageFails(i)
    \/ Rolled(i) \/ Raises(i)

Next ==
    \/ \E i \in Builds : (\E ref \in Refs : StartBuild(i, ref)) \/ RollStep(i) \/ GrowsStale(i)
    \/ \E b \in Boxes : \/ \E target \in FleetImages : AcceptUpgrade(b, target)
                        \/ MakeBox(b) \/ BoxSettles(b) \/ Teardown(b)
    \/ UpgradeLooks \/ Upgraded
    \/ Crash

Spec == Init /\ [][Next]_vars

(* Threads run on and time passes.                                         *)
Fairness == \A i \in Builds : WF_vars(RollStep(i)) /\ WF_vars(GrowsStale(i))
FairSpec == Spec /\ Fairness

-----------------------------------------------------------------------------
(* Properties. *)

(* An update that is reported done left no agent behind: every one it      *)
(* listed is on its image, unless another upgrade moved it after           *)
(* (update_hermes, upgrade_box).                                           *)
DoneMeansMoved ==
    \A i \in Builds : build[i].status = "done" =>
        \A b \in roll[i].listed : image[b] = build[i].image \/ b \in elsewhere[i]

(* No update keeps the next one out for ever, however it ended             *)
(* (_active_build).                                                        *)
UpdatesGiveWay == []<>~ActiveBuild
=============================================================================
