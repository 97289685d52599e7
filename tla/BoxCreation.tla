---------------------------- MODULE BoxCreation ----------------------------
(***************************************************************************)
(* How agents come to have machines of their own, and who they are         *)
(* (flotta/provision.py, the create routes of flotta/control/app.py and    *)
(* flotta/backends/fly_backend.py): probing and reserving a name,          *)
(* creating the Fly app and its machine or adopting one that is there,     *)
(* the identity in its secrets and its environment, rotating and repairing *)
(* that, and destroying the app under the same name a new agent may take.  *)
(*                                                                         *)
(* Fly is external: an app has secrets, which reach each of its machines,  *)
(* and machines, which keep the environment they were made with.  Each     *)
(* call of flyctl and each statement of the store is a step, and requests, *)
(* creates on threads and the sweep of stranded rows run beside each       *)
(* other.  What wakes, sleeps and corrects a box is BoxLifecycle's: here a *)
(* settled row is "live".  Images, volumes, sizes and models are left out. *)
(***************************************************************************)
EXTENDS Naturals

CONSTANTS
    MaxBoxes,      \* bound: rows ever reserved
    Names,         \* addresses an agent may be given
    MaxMachines,   \* bound: machines ever run
    Desks,         \* requests and sweeps under way at once
    MaxFaults,     \* bound: calls that fail, kills, moves to a new address
    None

Boxes == 1..MaxBoxes
Machines == 1..MaxMachines
Apps == Names \cup {"shared"}

(* Nobody is no name and no machine.                                       *)
NoneAssumption ==
    /\ None \notin Names \cup Machines
    /\ None \notin [app : Apps, up : BOOLEAN, id : Boxes, url : Nat]

VARIABLES
    prefix,    \* whether FLOTTA_FLY_APP_PREFIX gives each agent an app
    url,       \* FLOTTA_CONTROL_URL of this control plane
    row,       \* boxes: status, name while it holds one, endpoint
    apps,      \* Fly: the apps there are
    secrets,   \* Fly: whose secrets each app has
    machine,   \* Fly: each machine's app and environment
    creator,   \* the thread that provisions each box
    desk,      \* the other operations
    told,      \* each timeline's last word on the box's identity
    faults,
    strayed,   \* history: something acted for a box torn down meanwhile
    outrun,    \* history: destroys under way of a box that something else closed
    crowded    \* history: one shared app and a create that could not see what is there

fly == <<apps, secrets, machine>>
history == <<strayed, outrun, crowded>>
vars == <<prefix, url, row, fly, creator, desk, told, faults, history>>

Idle == [at |-> "idle"]
Told == {"nothing", "minted", "skipped", "rotated", "repaired"}

TypeOK ==
    /\ prefix \in BOOLEAN /\ url \in 1..MaxFaults + 1
    /\ row \in [Boxes -> [status : {"none", "provisioning", "live", "torn_down"},
                          name : Names \cup {None}, endpoint : Machines \cup {None}]]
    /\ apps \subseteq Apps /\ secrets \in [Apps -> Boxes \cup {None}]
    /\ machine \in [Machines -> {None} \cup
         [app : Apps, up : BOOLEAN, id : Boxes, url : 1..MaxFaults + 1]]
    /\ creator \in [Boxes -> {Idle}
         \cup [at : {"look", "app", "import", "run"}, app : Apps]
         \cup [at : {"apply", "start"}, app : Apps, on : Machines]]
    /\ desk \in [Desks -> {Idle} \cup [at : {"reserve"}, name : Names, others : SUBSET Boxes]
         \cup [at : {"destroy", "sweep", "close", "shut", "release"}, box : Boxes, on : Machines \cup {None}]
         \cup [at : {"find"}, box : Boxes, app : Apps]
         \cup [at : {"inspect", "rewrite"}, box : Boxes, on : Machines]
         \cup [at : {"rotate"}, box : Boxes, on : Machines, as : {"rotated", "repaired"}]]
    /\ told \in [Boxes -> Told] /\ faults \in 0..MaxFaults
    /\ strayed \in BOOLEAN /\ outrun \subseteq Desks /\ crowded \in BOOLEAN

(* FlyConfig.app_for *)
AppFor(n) == IF prefix THEN n ELSE "shared"

In(a) == {m \in Machines : machine[m] # None /\ machine[m].up /\ machine[m].app = a}

(* build_identity and fleet_secrets: what the machine's environment says   *)
(* of the box, and what only the box may hold.                             *)
Identity(b) == [id |-> b, url |-> url]
Secrets(b) == b

Init ==
    /\ prefix \in BOOLEAN /\ url = 1
    /\ row = [b \in Boxes |-> [status |-> "none", name |-> None, endpoint |-> None]]
    /\ apps = {} /\ secrets = [a \in Apps |-> None]
    /\ machine = [m \in Machines |-> None]
    /\ creator = [b \in Boxes |-> Idle]
    /\ desk = [d \in Desks |-> Idle]
    /\ told = [b \in Boxes |-> "nothing"]
    /\ faults = 0 /\ strayed = FALSE /\ outrun = {} /\ crowded = FALSE

Live(b) == row[b].status = "live"
Fault == faults < MaxFaults /\ faults' = faults + 1

-----------------------------------------------------------------------------
(* Reserving a row: create_box_endpoint. *)

(* _occupant: another live box on the machine create would adopt.          *)
Occupied(m) == \E b \in Boxes : row[b].status \in {"provisioning", "live"} /\ row[b].endpoint = m

Hosted == {b \in Boxes : Live(b) /\ machine[row[b].endpoint].up}

(* existing_endpoint, through _peek_for: a probe that fails finds nothing. *)
Probe(d, n) ==
    /\ desk[d] = Idle
    /\ \/ /\ \/ In(AppFor(n)) = {}
             \/ \E m \in In(AppFor(n)) : ~Occupied(m)
          /\ UNCHANGED <<faults, crowded>>
       \/ /\ Fault /\ In(AppFor(n)) # {}
          /\ crowded' = (crowded \/ ~prefix)
    /\ desk' = [desk EXCEPT ![d] = [at |-> "reserve", name |-> n, others |-> Hosted]]
    /\ UNCHANGED <<prefix, url, row, fly, creator, told, strayed, outrun>>

(* store.create_box: a name, and so an address, is one row's.  The row is  *)
(* answered and a thread provisions it.                                    *)
Reserve(d) ==
    LET n == desk[d].name
        fresh == {b \in Boxes : row[b].status = "none"} IN
    /\ desk[d].at = "reserve"
    /\ desk' = [desk EXCEPT ![d] = Idle]
    /\ IF (\E b \in Boxes : row[b].name = n) \/ fresh = {}
       THEN UNCHANGED <<row, creator, crowded>>
       ELSE LET b == CHOOSE c \in fresh : TRUE IN
            /\ row' = [row EXCEPT ![b] = [status |-> "provisioning", name |-> n, endpoint |-> None]]
            /\ creator' = [creator EXCEPT ![b] = [at |-> "look", app |-> AppFor(n)]]
            /\ crowded' = (crowded \/ (~prefix /\ \E c \in Boxes \ desk[d].others :
                                          row[c].status \in {"provisioning", "live"}))
    /\ UNCHANGED <<prefix, url, fly, told, faults, strayed, outrun>>

-----------------------------------------------------------------------------
(* create_box on its thread. *)

At(b, step) == creator[b].at = step
Goes(b, step) == creator' = [creator EXCEPT ![b].at = step]

(* What else is under way for a box.                                       *)
UnderWay(b) == {d \in Desks : desk[d] # Idle /\ desk[d].at # "reserve" /\ desk[d].box = b}
Destroyers(b) == {d \in UnderWay(b) : desk[d].at \in {"find", "sweep", "destroy"}}

(* A create that fails closes its row, which keeps its name, and ends: what *)
(* it made stays.                                                          *)
Abandons(b) ==
    /\ creator' = [creator EXCEPT ![b] = Idle]
    /\ row' = IF row[b].status = "provisioning" THEN [row EXCEPT ![b].status = "torn_down"] ELSE row
    /\ strayed' = (strayed \/ UnderWay(b) # {})
    /\ outrun' = IF row[b].status = "provisioning" THEN outrun \cup Destroyers(b) ELSE outrun
    /\ UNCHANGED <<told, crowded>>
Fails(b) == Abandons(b) /\ UNCHANGED fly
FailsAt(b, step) ==
    /\ At(b, step) /\ Fault /\ Fails(b)
    /\ UNCHANGED <<prefix, url, desk>>

(* A machine that is there is the box; a listing that fails is an empty one.*)
Look(b) ==
    /\ At(b, "look")
    /\ \/ \E m \in In(creator[b].app) :
             creator' = [creator EXCEPT ![b] = [at |-> "apply", app |-> @.app, on |-> m]]
          /\ UNCHANGED <<faults, crowded>>
       \/ In(creator[b].app) = {} /\ Goes(b, "app") /\ UNCHANGED <<faults, crowded>>
       \/ /\ In(creator[b].app) # {} /\ Fault /\ Goes(b, "app")
          /\ crowded' = (crowded \/ ~prefix)
    /\ UNCHANGED <<prefix, url, row, fly, desk, told, strayed, outrun>>

CreateApp(b) ==
    /\ At(b, "app")
    /\ apps' = apps \cup {creator[b].app} /\ Goes(b, "import")
    /\ UNCHANGED <<prefix, url, row, secrets, machine, desk, told, faults, history>>

(* Setting an app's secrets restarts what runs in it with them.            *)
Imports(a, b) == secrets' = [secrets EXCEPT ![a] = Secrets(b)] /\ UNCHANGED <<apps, machine>>

(* The secrets, before there is a machine to need them.                    *)
Import(b) ==
    LET a == creator[b].app IN
    /\ At(b, "import")
    /\ IF a \in apps THEN Imports(a, b) /\ Goes(b, "run") /\ UNCHANGED <<row, told, history>> ELSE Fails(b)
    /\ UNCHANGED <<prefix, url, desk, faults>>

(* machine run, and the app's first machine afterwards.                    *)
New == CHOOSE m \in Machines : machine[m] = None
Runs(a, b) ==
    /\ \E m \in Machines : machine[m] = None
    /\ machine' = [machine EXCEPT ![New] =
           [app |-> a, up |-> TRUE, id |-> Identity(b).id, url |-> Identity(b).url]]
    /\ UNCHANGED <<apps, secrets>>
Run(b) ==
    LET a == creator[b].app IN
    /\ At(b, "run")
    /\ IF a \notin apps THEN Fails(b)
       ELSE /\ Runs(a, b)
            /\ \E m \in In(a) \cup {New} :
                 creator' = [creator EXCEPT ![b] = [at |-> "start", app |-> a, on |-> m]]
            /\ told' = [told EXCEPT ![b] = "minted"]
            /\ UNCHANGED <<row, history>>
    /\ UNCHANGED <<prefix, url, desk, faults>>

(* It fails although it made the machine, or the listing after it fails.   *)
RunIsLost(b) ==
    /\ At(b, "run") /\ Fault
    /\ creator[b].app \in apps /\ Runs(creator[b].app, b) /\ Abandons(b)
    /\ UNCHANGED <<prefix, url, desk>>

(* What an adopted machine needs and was not made with.  That failing does *)
(* not fail the create.                                                    *)
MutApply(b) ==
    /\ At(b, "apply") /\ Goes(b, "start")
    /\ told' = [told EXCEPT ![b] = "minted"]
    /\ UNCHANGED <<prefix, url, row, fly, desk, faults, history>>
Apply(b) ==
    LET a == creator[b].app IN
    /\ At(b, "apply") /\ Goes(b, "start")
    /\ \/ /\ a \in apps /\ Imports(a, b)
          /\ told' = [told EXCEPT ![b] = "minted"] /\ UNCHANGED faults
       \/ /\ Fault \/ (a \notin apps /\ UNCHANGED faults)
          /\ told' = [told EXCEPT ![b] = "skipped"] /\ UNCHANGED fly
    /\ UNCHANGED <<prefix, url, row, desk, history>>

(* Whether it starts or not, the row is told where it is.                  *)
Settle(b) ==
    /\ At(b, "start")
    /\ row' = IF row[b].status # "provisioning" THEN row
              ELSE [row EXCEPT ![b].status = "live", ![b].endpoint = creator[b].on]
    /\ creator' = [creator EXCEPT ![b] = Idle]
    /\ UNCHANGED <<prefix, url, fly, desk, told, faults, history>>

-----------------------------------------------------------------------------
(* Destroying: teardown_box, and the sweep of stranded provisions. *)

(* The order of a teardown: the machine, the row, and then the name.       *)
MutThen == [read |-> "close", close |-> "release", release |-> "destroy", destroy |-> "idle"]
Then == [read |-> "destroy", destroy |-> "close", close |-> "release", release |-> "idle"]

Moves(d, at) == desk' = [desk EXCEPT ![d] = IF at = "idle" THEN Idle ELSE [@ EXCEPT !.at = at]]

Teardown(d, b) ==
    /\ desk[d] = Idle /\ row[b].status # "none"
    /\ desk' = [desk EXCEPT ![d] = [at |-> IF row[b].status = "torn_down" THEN "release" ELSE Then["read"],
                                   box |-> b, on |-> row[b].endpoint]]
    /\ UNCHANGED <<prefix, url, row, fly, creator, told, faults, history>>

(* _close_stranded_provision looks for a machine under the row's name.     *)
Sweep(d, b) ==
    /\ desk[d] = Idle /\ row[b].status = "provisioning"
    /\ desk' = [desk EXCEPT ![d] = [at |-> "find", box |-> b, app |-> AppFor(row[b].name)]]
    /\ UNCHANGED <<prefix, url, row, fly, creator, told, faults, history>>
Find(d) ==
    LET was == desk[d]
        Found(m) == desk' = [desk EXCEPT ![d] = [at |-> "sweep", box |-> was.box, on |-> m]] IN
    /\ was.at = "find"
    /\ \/ \E m \in In(was.app) : Found(m) /\ UNCHANGED faults
       \/ In(was.app) = {} /\ Found(None) /\ UNCHANGED faults
       \/ In(was.app) # {} /\ Fault /\ Found(None)
    /\ UNCHANGED <<prefix, url, row, fly, creator, told, history>>

(* FlyBackend.destroy: the whole app, whichever machine is in it.          *)
Destroyed(a) ==
    /\ apps' = apps \ {a} /\ secrets' = [secrets EXCEPT ![a] = None]
    /\ machine' = [m \in Machines |-> IF m \in In(a) THEN [machine[m] EXCEPT !.up = FALSE] ELSE machine[m]]
Destroy(d) ==
    LET m == desk[d].on IN
    /\ desk[d].at \in {"destroy", "sweep"}
    /\ IF m = None \/ machine[m].app \notin apps THEN UNCHANGED <<fly, faults>>
       ELSE \/ Destroyed(machine[m].app) /\ UNCHANGED faults
            \/ Fault /\ UNCHANGED fly
    /\ Moves(d, IF desk[d].at = "sweep" THEN "shut" ELSE Then["destroy"])
    /\ outrun' = outrun \ {d}
    /\ UNCHANGED <<prefix, url, row, creator, told, strayed, crowded>>

(* The row closes, over whatever else is under way for its box.            *)
Close(d) ==
    LET b == desk[d].box IN
    /\ desk[d].at \in {"close", "shut"}
    /\ IF row[b].status = "torn_down" THEN desk' = [desk EXCEPT ![d] = Idle] /\ UNCHANGED row
       ELSE /\ row' = [row EXCEPT ![b].status = "torn_down"]
            /\ Moves(d, IF desk[d].at = "shut" THEN "idle" ELSE Then["close"])
    /\ strayed' = (strayed \/ creator[b] # Idle \/ UnderWay(b) # {d})
    /\ outrun' = IF row[b].status = "torn_down" THEN outrun ELSE outrun \cup Destroyers(b)
    /\ UNCHANGED <<prefix, url, fly, creator, told, faults, crowded>>

(* release_name: what holds a name is the row that has not given it up.    *)
Release(d) ==
    /\ desk[d].at = "release"
    /\ row' = [row EXCEPT ![desk[d].box].name = None]
    /\ Moves(d, Then["release"])
    /\ UNCHANGED <<prefix, url, fly, creator, told, faults, history>>

-----------------------------------------------------------------------------
(* Giving a box its identity again. *)

(* rotate_identity, asked for by itself.                                   *)
AsksIdentity(d, b) ==
    /\ desk[d] = Idle /\ Live(b)
    /\ desk' = [desk EXCEPT ![d] = [at |-> "rotate", box |-> b, on |-> row[b].endpoint, as |-> "rotated"]]
    /\ UNCHANGED <<prefix, url, row, fly, creator, told, faults, history>>
Rotate(d) ==
    LET b == desk[d].box  a == machine[desk[d].on].app IN
    /\ desk[d].at = "rotate"
    /\ \/ /\ a \in apps /\ Imports(a, b)
          /\ told' = [told EXCEPT ![b] = desk[d].as] /\ UNCHANGED faults
       \/ (Fault \/ (a \notin apps /\ UNCHANGED faults)) /\ UNCHANGED <<fly, told>>
    /\ Moves(d, "idle")
    /\ UNCHANGED <<prefix, url, row, creator, history>>

(* connection_of: does the machine call this control plane, as its box?    *)
MutConnected(b, m) == machine[m].url = url
Connected(b, m) == machine[m].url = url /\ machine[m].id = b

(* repair_connection, which reads the machine's environment first.         *)
AsksRepair(d, b) ==
    /\ desk[d] = Idle /\ Live(b)
    /\ desk' = [desk EXCEPT ![d] = [at |-> "inspect", box |-> b, on |-> row[b].endpoint]]
    /\ UNCHANGED <<prefix, url, row, fly, creator, told, faults, history>>
RotatesToo(d) ==
    LET b == desk[d].box IN
    desk' = [desk EXCEPT ![d] = IF ~Live(b) THEN Idle
                                ELSE [at |-> "rotate", box |-> b, on |-> desk[d].on, as |-> "repaired"]]
Inspect(d) ==
    LET b == desk[d].box  m == desk[d].on IN
    /\ desk[d].at = "inspect"
    /\ \/ machine[m].up /\ Connected(b, m) /\ RotatesToo(d) /\ UNCHANGED faults
       \/ ~(machine[m].up /\ Connected(b, m)) /\ Moves(d, "rewrite") /\ UNCHANGED faults
       \/ Fault /\ Connected(b, m) /\ Moves(d, "rewrite")
    /\ UNCHANGED <<prefix, url, row, fly, creator, told, history>>
Rewrite(d) ==
    LET b == desk[d].box  m == desk[d].on IN
    /\ desk[d].at = "rewrite"
    /\ \/ /\ machine[m].up
          /\ machine' = [machine EXCEPT ![m].id = Identity(b).id, ![m].url = Identity(b).url]
          /\ RotatesToo(d)
          /\ UNCHANGED faults
       \/ /\ Fault \/ (~machine[m].up /\ UNCHANGED faults)
          /\ Moves(d, "idle") /\ UNCHANGED machine
    /\ UNCHANGED <<prefix, url, row, apps, secrets, creator, told, history>>

(* The control plane is killed, and may come back at another address.      *)
Crash ==
    /\ Fault /\ url' \in {url, url + 1}
    /\ desk' = [d \in Desks |-> Idle] /\ creator' = [b \in Boxes |-> Idle]
    /\ outrun' = {}
    /\ UNCHANGED <<prefix, row, fly, told, strayed, crowded>>

-----------------------------------------------------------------------------
Next ==
    \/ \E d \in Desks, n \in Names : Probe(d, n)
    \/ \E d \in Desks : Reserve(d) \/ Find(d) \/ Destroy(d) \/ Close(d) \/ Release(d)
                          \/ Rotate(d) \/ Inspect(d) \/ Rewrite(d)
    \/ \E d \in Desks, b \in Boxes : Teardown(d, b) \/ Sweep(d, b) \/ AsksIdentity(d, b) \/ AsksRepair(d, b)
    \/ \E b \in Boxes : Look(b) \/ CreateApp(b) \/ Import(b) \/ Run(b) \/ Apply(b) \/ Settle(b)
                          \/ \E step \in {"look", "app", "import", "run"} : FailsAt(b, step)
                          \/ RunIsLost(b)
    \/ Crash

Spec == Init /\ [][Next]_vars

-----------------------------------------------------------------------------
(* Properties.  But for what outlived a box that was torn down under it,   *)
(* and for a create in one shared app that could not see the agent or the  *)
(* machine that is there.                                                  *)

Alone == ~strayed /\ ~crowded

(* An agent whose timeline says it was given its identity holds it, on     *)
(* whatever machine it was put: a new one, or one that another left behind.*)
(* After a repair its machine calls as it, too (create_box,                *)
(* repair_connection).                                                     *)
HoldsItsIdentity ==
    \A b \in Boxes : LET m == row[b].endpoint IN
        Alone /\ Live(b) /\ machine[m].up =>
            /\ told[b] \notin {"nothing", "skipped"} => secrets[machine[m].app] = Secrets(b)
            /\ told[b] = "repaired" => machine[m].id = b

(* One machine hosts one agent: two never share one (_occupant, and a name *)
(* that is one row's).                                                     *)
OneBoxPerMachine ==
    \A b, c \in Boxes :
        Alone /\ Live(b) /\ Live(c) /\ b # c => row[b].endpoint # row[c].endpoint

(* A teardown or sweep takes no other agent's machine, though an app is    *)
(* destroyed whole, by its name, and the name is free for the next agent:   *)
(* teardown_box gives the name up last.  It holds while nothing else closes *)
(* its box under it (another teardown or sweep, or a create that fails), and *)
(* in one shared app for an agent that is alone in it.                      *)
DestroysItsOwn ==
    [][\A d \in Desks, b \in Boxes :
         desk[d].at \in {"destroy", "sweep"} /\ desk'[d] # desk[d] /\ desk[d].box # b
         /\ d \notin outrun /\ (prefix \/ Alone) /\ Live(b) /\ machine[row[b].endpoint].up
         => machine[row[b].endpoint].up']_vars
=============================================================================
