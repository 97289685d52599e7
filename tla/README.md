# Flotta in TLA+

Formal models of [Flotta](../src/README.md), a control plane that runs one
long-lived agent per machine ("box"): TLA+ modules of its protocols, TLC
configurations that check them on small instances, and theorems that the TLA+
proof system (TLAPS) checks for every size. Every definition is translated from the code
under `src/src/flotta/`; `PROJECT.json` maps each to its lines.

## 1. The system

One or more control plane processes (two during a rolling deploy) serve the API
and run the background loops over **one fleet store**, SQLite or Postgres. A
gateway process meters model calls, a front door forwards conversations, and
each box runs an agent on a machine of a substrate (Fly, or local containers).
The store is the only shared memory: a call opens
`transaction(guard=<table>)`, which serialises its read, check and write. Every
handler, loop and worker thread is a sequence of such calls and of calls to
the substrate or to a socket, with no lock held in between: almost every hazard
below is a value read before one of them and used after it.

| Component (source) | State | Operations | Hard parts | What makes it correct |
|---|---|---|---|---|
| Run delivery (`runner.py`, `store.py` runs, `reap_runs`, `teardown_box`) | `tasks` rows; per process `in_flight`, a claiming thread | ask, claim, start, deliver, end, block, reap, tear down, stop | two sweepers, cancelled coroutines whose threads run on, kills, deadlines | one run per agent, none asked for passed over; one deliverer; one verdict; every started run ends |
| Run approvals (`runner.Talk`, `through_door`, `run_approvals` rows, the answer endpoint) | rows; `_heard`, `_open`, `_sent`; the box's own view | ask, hold, answer, send, mark, withdraw, expire | the relay's thread outlives the relay; answers that cross the end of the turn | the row says what the box was told; accepted answers are sent |
| Box lifecycle (`provision.py`, `control/loop.py`) | `boxes` row; the machine; events | create, wake, start, stop, tear down, idle sweep, drift correction, stranded provisions, budget pause, release and kill | rows read before substrate calls and written after; threads that die; a substrate that fails or loses machines | rows and machines agree again; budgets hold; no machine outlives its row |
| Box creation and identity (`provision.py`, `backends/fly_backend.py`) | rows, Fly apps, secrets, machines | probe, reserve, create or adopt, connect, repair, rotate, destroy, close | names taken over by the next agent, creates still running when killed | one box per machine, with its own identity; nobody destroys another's |
| Agent files and environment (`provision.py`, `mcp.py`) | rows and events; SOUL.md, `config.yaml`, machine environment, pending marks | save, rename, grant, rewrite, change model, move, resize | two stores that are not written together, overlapping requests, sleeping boxes | the machine reads what the rows say |
| Schedules (`schedules.py`, `fire_schedules`, `triggers`, `trigger_fires`) | enabled schedules, fire times spent | create, change, fire, skip, disable | several sweeps see one time due; teardown and edits between read and fire | one outcome per due time, none lost; waiting fires are capped; a teardown leaves none |
| Budgets and gateway (`budgets.py`, `gateway/app.py`) | budgets, `usage`, `budget_events` | admit a call, refuse, meter, retry the row | admission before the call, the row after it, rows retried and drained at exit | a call is billed once; overruns are bounded by calls in flight |
| MCP connections (`mcp_oauth.py`, `gateway/mcp.py`) | connections, sign-ins, locks | connect, refresh, break, disconnect, call | rotated tokens, two refreshes of one token, a server that moves | a sign-in that works is kept; tokens go where they are for |
| Alerts outbox (`alerts.py`, `alert_deliveries`) | pending deliveries with a next attempt | queue, claim, send, note, finish, replace | at-least-once over several processes, a webhook that moves | each event is queued once per target, tried as often as promised and settled once |
| Hermes builds and updates (`images.py`, `update_hermes`) | builds, images | build, release, roll, upgrade | two updates at once, dead processes, calls that failed with effect | done means moved; a dead update gives way |
| Accounts (`auth.py`, `store.py` 1420-2155) | orgs, users, memberships, login links, sessions | sign up, invite, accept, remove, redeem, revoke | links redeemed twice, concurrent removals | only members are signed in; the removed stay out |
| GitHub connect (`github_app.py`) | installations, grants, the agent's author | link, claim, disconnect, grant, mint, refresh | GitHub forgets, refreshes overlap, scopes nest | connections and credentials stay with whom they were given to |
| Front door (`door/app.py`, `conversation.py`) | tickets, open sockets, per socket asked approvals, activity events | open, forward, filter, beat | names and ports taken over, the heartbeat against the idle sweep, two directions of a socket | a socket wakes the box it was let in for; what a ticket says is no older than it lives; clients stay apart; a used box is not idle |
| Metering (`metering.py`) | marks, machine hours | sweep, correct, write | corrections that arrive late, two sweepers | each hour is written once, with the right amount |
| Loop health, peers, relay, prices, migrations, API tokens, rate limits | rows, counters | single transactions or pure functions | little interleaving | per operation |
| Box scripts, CLI, dashboard, desktop app, mail | outside or stateless | | | external to the models |

How they interact: API requests and the loops act on the same `boxes` and
`tasks` rows. The run loop wakes boxes through the front door, the idle sweep puts
them to sleep, budgets pause them and block their runs, a teardown ends their
runs, the reaper ends runs whose deliverer died, and a conversation's approvals
live and end with its run.

`PROJECT.json` lists the hazards line by line.

## 2. The modules

| Module | Models | Checked by | Proved in |
|---|---|---|---|
| `RunDelivery` | runs, from being asked for to their verdict | `MCRunDelivery`, `RunDelivery.cfg`, `RunDeliveryFair.cfg` | `RunDeliveryProofs` |
| `BoxLifecycle` | one box's row and machine, and everyone who moves them | `BoxLifecycle.cfg` | `BoxLifecycleProofs` |
| `Approvals` | one run's conversation with a person | `MCApprovals`, `Approvals.cfg` | `RunDeliveryProofs` |
| `Alerts`, `AlertPromise` | the alerts outbox, and what it promises | `Alerts.cfg` | `AlertsProofs` |
| `Door` | heartbeats of conversations against the idle sweep | `MCDoor`, `Door.cfg` | `BoxLifecycleProofs` |
| `Rollouts` | Hermes updates, the roll over the fleet, single upgrades | `MCRollouts`, `Rollouts.cfg` | `BoxLifecycleProofs` |
| `AgentFiles` | SOUL.md, rules and MCP config of one agent | `MCAgent`, `Agent.cfg` | `AgentProofs` |
| `AgentEnv` | model, gateway route and size of one agent | `MCAgent` | `AgentProofs` |
| `BoxCreation` | names, apps, machines and their identity | `MCAgent` | `AgentProofs` |
| `GatewayBudget` | model calls, budgets and the ledger | `MCGateway`, `Gateway.cfg` | `GatewayProofs` |
| `McpAccess` | sign-ins to MCP servers and the tool calls that use them | `MCGateway` | `GatewayProofs` |
| `DoorAccess` | tickets, keys, and the box a socket opens and wakes | `MCFrontDoor`, `FrontDoor.cfg` | `DoorAccessProofs` |
| `Conversations` | what a socket may see and say | `MCFrontDoor` | `DoorAccessProofs` |
| `Accounts` | people, links, memberships, sessions | `MCPeople`, `People.cfg` | `AccountsProofs` |
| `Github` | connected GitHub accounts, authors, credentials | `MCPeople` | `AccountsProofs` |
| `Schedules` | triggers, the sweeps that fire them, edits and teardown | `MCClocks`, `Clocks.cfg` | `ClocksProofs` |
| `Metering` | machine hours | `MCClocks` | `ClocksProofs` |

In each, one action is one store transaction, one substrate call or one uninterrupted stretch
of the event loop, with what it reads kept in a variable until it is used. A
definition `MutX` is `X` with one plausible bug: no specification uses it, and
`PROJECT.json` ("mutants") says which property notices it. A variable marked
"history" records what happened for a property to speak of; no guard of the code reads it.

`MCAgent`, `MCGateway`, `MCFrontDoor`, `MCPeople` and `MCClocks` check two or three
modules in one run: their parts share no state, `part` says which of them a
behaviour is of, and the others stutter at their initial states. A property of
such a run that has one name is the conjunction of those of the instanced
module, so each part is checked as if alone. `MCApprovals` only gives the names of
`Approvals` apart from those of `RunDelivery`, for the proofs.

### RunDelivery

State: `status`, `error`, `boxOf`, `kind` (asked for, or a schedule's) and `age` (time since the start) of each run;
`row`, the box's status as the run loop sees it (`open`, `paused`,
`torn_down`); per control plane `plane` (up, stopping, down), the claim its
worker thread is at (`offered` runs, the one it `look`s at, the runs it has
`taken`) and `carry`, the deliveries of `in_flight`; and the teardown of a
box with the runs it still has to end.

`Offer`, `Look`, `Act`, `ClaimEnds` are `RunLoop._claim` store call by store
call; `Launch` is the rest of `sweep`, back on the event loop; `TalkEnds` and
`Finish` are `_carry` and `_finish`; `Stop`, `Exit`, `Crash`, `Boot` the
lifespan of the process; `Reap` is `reap_runs`; `TeardownScans`,
`TeardownEndsRun`, `TeardownCloses`, `TeardownFails` are `teardown_box`.
`ClaimFails` is a store call that raises in the claim. `CreateRun` is
`create_run`, `FireTrigger` is `fire_trigger` (whose clock the sweep read at its
start), `Pause` and `Unpause` the budget's write of the row.

Abstractions: a run's number is its place in the order of `created_at`, so "oldest"
is the least. A run somebody asks for takes the next number; a fire takes any that is
free, and so may be put before runs asked for while its sweep was under way, which
`StartsInOrder` allows for. The clocks of two control planes are taken to agree. The limit of 200 rows of a queue scan is never reached; whether a
budget holds a box (`budgets.holding`) is an input of each look; what a run
says is not modelled, only how it ends (`Outcomes`).

Time: `Tick` passes only if no due step of a live control plane is more than
`Lag` late (`OnTime`). `TimesAssumption` says Timeout + 2 Lag <= Deadline: the
code's 50 minutes against 60 and a grace leave minutes of lag.

### BoxLifecycle

State: `row` (BOX_STATUSES), `machine` (none, up, asleep, gone), `creator` (how far the
provisioning thread is), `work` (a live task or not), `held` (a stopping budget
is reached), `phase` of each reconcile loop, and for every request and loop
the `step` it is at, the row it read (`seen`) and the machine state it
observed (`obs`). `undestroyed` is the event that says a destroy failed.

`Wake`, `StartBox`, `Stop`, `Teardown`, `Unpause` are requests: each reads the
row and then goes step by step (`WakeObserves`, `WakeStarts`, `WakeWrites`,
`StopPauses`, `StopWrites`, `Destroys`, `Closes`, ...). `SweepSleeps`,
`SweepCorrects`, `SweepBudgets` are the three phases of `run_reconcile_loop` that move a
box, in that order (`NextPhase`). `Create*` is the provisioning thread.

External: the substrate, from how `provision.py` uses it (a call does what it
says or fails, at most `MaxFaults` times; a machine may disappear), the spend
that makes a budget hold (`BudgetMoves`) and whether there is work (`WorkMoves`).
Whether the box was quiet long enough is nondeterministic. A provisioning thread is taken to
need less than `STALE_PROVISION_S` (20 minutes), so `Stranded` sees only threads that
died or failed. Not modelled: resize, upgrade, secret rotation and the
writing of rules, model and MCP config.

### Approvals

State: the rows (`row`, `delivered`, `held`: a `held_at` inside 30 s), the
conversation's memory (`heard`, `open`, `sent` for `_heard`, `_open`, `_sent`),
`told` (what the box heard of each question, in order), how far the
conversation is (`talk`), the relay task with the answers it has to send
(`relay`, `outbox`), and two threads, the relay's and the closer's, each with a
`step` and a frame in its `hand`. `picked` are answer requests between the
endpoint's look and `answer_approval`.

`Looks`, `Pops`, `Records`, `HoldsOn`, `Collects` are `_sync`, in either thread;
`Sends` (the frame is written), `Notes` (the `await send` came back), `MarksSent`,
`RelaySleeps` the rest of `relay`, which may be cancelled, or its socket fail, between
any two of them (`CutOff`: the box was told, `_sent` does not know); `TurnEnds` is the
`finally` of `through_door`, `Withdraws` is `withdraw`, `CloseMarks` and
`CloseExpires` are `close`. The model keeps two facts of asyncio: cancelling the relay drops
the result of the thread it waits for, and does not stop that thread.
`PopsNothing` is the data race of two threads on `_heard`: one sees a frame, the
other pops it, and `pop` raises.

Abstractions: a reply is "choice" (the person's, whatever it is) or "deny"; a
hold may lapse at any time (slower threads than the code expects); repeats of a
frame that is still unrecorded merge. An agent that gives up on its own question is not
modelled: its timeout outlasts the run.

### Schedules

State: of each trigger its row (`state`, `boxOf`, `cron`, and `since`, which is
`last_fired_at`, or `created_at` before the first fire) and its fires (`fired`
with a run, `skipped` without); the `runs` triggers made; the box `row` and how far
a teardown is (`phase`); and `todo`, what each control plane's sweep saw due and
has not come to.

`SweepReads` is the clock, `enabled_schedules` and `schedules.due`; then each
trigger of the list, in its order, is a `Fire` (`fire_trigger`) or a `Skip`
(`skip_fire`), or, deleted meanwhile, ends the sweep (`SweepRaises`). `CreateTrigger`,
`UpdateTrigger`, `DeleteTrigger` are the requests; `TeardownDisables`,
`TeardownEndsRuns`, `TeardownCloses` the parts of `teardown_box` that matter here;
`RunLeaves` is the run loop, which `RunDelivery` models.

Abstractions: a cron read in its zone is the set of instants it names, so cron
syntax and daylight saving are left out; a sweep computes each due time from the
row it read, so all of them belong to the read. The runs of other kinds of trigger that
wait for an agent are any number up to the cap (`asked` in `Fire`). Two
planes may hold what they read for as long as they like.

A row also closes where no teardown runs (`RowCloses`: the drift correction of a lost
machine, a stranded provision, a failed create), which leaves triggers and runs as they
are. People may turn a trigger on, or add one, at any moment, also in the middle of a teardown:
`back` remembers those triggers, because `TeardownLeavesNoFire` cannot speak for them (see the
findings below).

### Alerts and AlertPromise

State: the thresholds `recorded` and `queued`, the webhook (`hook`), the rows
(`status`, `attempts`, `due`; `fresh` is a row nobody claimed yet), and for each
control plane how far its sweep is (`sweep`), the rows it read (`found`) and those it
claimed, with how the send went (`hand`). `arrived` and `tries` are what the world saw.

A sweep queues, reads what is due, claims row by row, sends, and notes the results at the
end. `ComesDue` is the clock. A claim is good only until the next try is due, so a slow
batch is claimed by another plane while the first still sends it. `PutAlerts` is
the endpoint, which writes all settings back as it read them and requeues for a new
place what waited for the old one. `Crash` forgets a plane's claims.

`AlertPromise` has no planes: a threshold is queued once for each place, a delivery
arrives maybe more than once, is settled once, as sent only if it arrived, and a
moved webhook takes along what is still tried. `PromiseKept` is `AlertPromise!Spec`,
its liveness included, under the refinement mapping that keeps the variables of the same
names and drops the rest.

### GatewayBudget

State: the store (`budget`, `priced`, rows in `usage`), each call's `phase`, the `model`
it is of and the agents whose rows `settle` found `missing`, its `_Entry` in the ledger's
list (`entry`), its `cost` and the period it ended in (`at`), `day` and `gateway`.

`CallStep` is a call from its settling and admission to its end, `RowStep` the thread
that writes its row, fails and tries again, `ProcessStep` the lifespan with the last
drain. Budgets and prices change meanwhile, a new day empties the spend. Euro rates, stream parsing and
the cost formula are data.

### McpAccess

State: the catalogue's address (`entry`), the sign-ins (`flow`, `code`), the connections
of the client's and the org's `Levels`, what the `provider` made of each
sign-in (the generation of its refresh token, whether it is ended), the
per-level `lock`, and what each tool call (`call`) and each owner's request (`desk`) has read.

A call `Looks`, `Resolves`, `Locks` if its token is stale, and under the lock reads
again, `Refreshes` and `Keeps` or `Breaks`; then it `Sends`. The provider rotates: a refresh token is
good once, an answer may be lost after it had its effect (`spoilt`), and some sign-ins come
without a refresh token (`renews`): a call that would renew one marks it broken. Owners
start, finish and remove sign-ins, and the entry may move.

### DoorAccess, Conversations and Door

`DoorAccess`: roles (`member`), rows with the address and port they hold, which box's Hermes
is `up` at each port, the credentials people hold (`cred`, with an age) and the door's
requests (`sock`), which resolve a name, wake, wait, log in and connect, one
request each. Addresses and ports are taken over by later boxes in between.

`Conversations`: Hermes's sessions (`made`, `stale`), approvals (`ask`), the control
plane's list of the client's sessions (`listed`), and per socket the gate of
`conversation.py`, with frames under way in each direction.

`Door`: the box's `quiet` time, the heartbeat of each conversation (`conv`), the turn it
is at, and a `sweep` that found the box idle. `stop_box` and `wake_box` are one
step here. `TicksAssumption` says that two cycles and the floor fit into the idle
time, as the code's seconds do.

### Accounts and Github

`Accounts`: `org`, `account`, `role`, the numbered `link`s, `sessions`, and two
kinds of requests in several steps: a `click` looks at a link, spends it, writes the
membership and makes the session; a `desk` is admitted first and acts later. `barred`
remembers the invites there were when somebody was turned away.

`Github`: the App's installations as GitHub has them (`installed`, `live`), rows, grants, the
author on the agent's machine, and the requests and refresh threads that move them. Each change starts a
refresh of its scope, and changes and refreshes overlap as they like. `decided` (history)
is the refresh that read the rows last and has not written yet. `NamedByItsScope` is
`excused` only by a change no refresh passes on (`PassesOver`: the agent was being created, or the
connection was taken from another client), a refresh that fails or dies, and one that writes after
one that decided later has written (`Overrules`); a refresh that reads and finds all as it should be
clears that.

### AgentFiles, AgentEnv and BoxCreation

`AgentFiles`: rows and files of one agent, `_rules_lock`, and requests and threads
(`work`) that write one and then the other, in the order the code has: instructions
and rules to the machine first, grants to the store first. `unsure` holds the files whose last save
failed, was cut off or overtaken: nothing is claimed of them until a later save.

`AgentEnv`: environment and size of the `machine`, the model in the store, the
events that say a change is under way, the sets of this process (`busy`), and the sweep that reads the size for metering.

`BoxCreation`: rows, Fly's `apps`, `secrets` and `machine`s, the thread that creates each
box, other operations (`desk`), and kills between any two steps. A create that fails may have
made its machine (`RunIsLost`). Two teardowns of one box, or a teardown and the sweep, run beside each
other as they do in the code. The second may then destroy the app of the next agent of the
name: `outrun` (history) are the destroys under way whose box something else closed, and
`DestroysItsOwn` speaks of all others. `HoldsItsIdentity` and `OneBoxPerMachine` end where an
operation acted for a box torn down meanwhile (`strayed`), and where two creates of one shared app
overlapped or a create of one could not see the machine that is there (`crowded`);
`Owned` (a CONSTRAINT) follows agents with apps of their own everywhere, and agents that share an
app until one of these two came about: the first two say nothing after it, and `DestroysItsOwn` nothing of a shared app.

### Rollouts

Rows of builds, the thread of each update (`roll`), the thread of a single `upgrade`, each
agent's `image` and the `releases` of the build app. An update builds, releases, lists the
agents and moves them one by one; failures may have had their effect, and a row an hour
old (`GrowsStale`) counts as abandoned.

### Metering

The machine and what the substrate says of it, the box's `row` and lifecycle `log` (what
comes up and what goes down: a budget that kills a machine or puts it to sleep logs what a stop
does but leaves the row as it is: `Stops`), the
`mark`, the rows (`seconds`, `disk`) by hour, and up to two sweeps at any step.
`NotFooled` (a CONSTRAINT) stops where the machine changed while the log was
wrong, or where a reading outlived the box: what is billed then is not what the machine did (see
the findings), and no property speaks of it.

## 3. What the runs show

Bounds are named in each module and set in each `.cfg`.

| Run | Question | Instance and why it is enough |
|---|---|---|
| `run_delivery` | one run per agent, one deliverer, reaped only when lost, one verdict, none asked for passed over | 2 control planes, 1 box, 2 runs (one may be a trigger's, dropped if one waits), 1 fault (a kill among them): the races are between two claimers, and a queue of two has an order |
| `run_served` | every started run ends, no waiting run is forgotten | 1 control plane stopped once and killed once, 1 box, 2 runs people ask for: the second waits behind the first |
| `box_settles` | an endpoint closes only over a destroyed machine or a logged failure; stranded provisions end, a held box gets paused, a killing budget stops the machine | the provisioning thread, 1 request that may do anything, 1 loop, 1 fault |
| `approvals` | rows say what the box heard, accepted answers are sent, or expire | 2 questions (one answered while the other is open), 1 repeat, 1 fault |
| `alerts` | the outbox keeps `AlertPromise`; nobody is given up before every try | 2 planes, 1 event, 2 places, 2 tries, 2 moves (away and back), 1 crash |
| `door` | a working conversation keeps its box awake, forgotten tabs let it sleep | 2 conversations, 3 words, 1 lost touch, answer or lookup |
| `rollouts` | done means moved, a dead update gives way | 2 agents and a third made meanwhile, 2 updates, 1 failure or crash, 1 move elsewhere |
| `agent` | files, environment, size and machines are as the rows say; teardowns destroy their own | 2 requests at once (4 in all for files, 3 for the environment), 2 agents after one another with one name to fight over, 1 fault |
| `gateway` | overruns bounded, calls billed once, sign-ins kept, tokens sent where they are for | 3 calls under one budget, an edit, a day or a fault; 2 tool calls, 2 sign-ins, 1 expiry, 1 move, 1 failure, at most 3 of those together |
| `front_door` | a socket wakes the box it was let in for, tickets say nothing old, clients stay apart | 2 boxes one after another on 2 ports, one credential, tickets of 2 and keys of 3 ticks (a door request may outlast a ticket); the agency's socket and a client's, 2 sessions, 1 approval |
| `people` | only members act, the removed stay out, connections and credentials stay with whom they were given to | 2 people, 2 links, a click and 2 administrators' requests; 2 GitHub accounts, 2 clients, 2 installations, 2 claims, 2 refreshes |
| `clocks` | one outcome per due time, none lost, a teardown leaves none; metered hours are exact | 2 planes; 2 triggers, instants 0 to 2, schedules {1, 2} and {2} (an older and a newer time due), a window of 0 so that times are missed, 1 fault; 2 sweeps over 2 hours of 2 ticks with 3 events |

Fairness is stated in `RunDelivery`, `BoxLifecycle`, `Approvals`, `Alerts`, `Door`
and `Rollouts`: worker threads, sweeps and the event loop run on, a control plane is
restarted by its host, the reconcile loop comes round (a `while True` that catches
what a sweep raises), a delivery ends (`asyncio.wait_for`), turns end, pings come, retries
come due, rows grow old and time passes. Nothing makes anyone ask, answer, stop, pause, tear
down or fail. All of it is weak. Deadlock is checked in the runs where somebody can
always act; the header of each other `.cfg` says what runs out.

### Where the code does not do what it says

`PROJECT.json` ("findings") quotes each sentence and its line. No run is kept for them:
the models contain these behaviours, and the properties above hold in their
presence because they do not claim what the code does not do.

| Component | What happens |
|---|---|
| Runs | A run asked for between a teardown's scan of tasks and the write of `torn_down` stays `pending` for good: the claim skips it, and a second teardown returns early. |
| Boxes | A teardown of a box still provisioning destroys nothing; the machine appears after. |
| Boxes | A wake inside a stop: the row says stopped, the machine is up, and no sweep looks at it. |
| Boxes | A run started between the idle sweep's scan for tasks and its suspend is suspended under. |
| Runs | A row that closes by itself (lost machine, stranded provision, failed create) leaves triggers on and runs waiting, for good; so does a trigger turned on or added between a teardown's scan and its close. |
| Machines | Two teardowns of one box, or a teardown and its sweep: the second destroys the app of the next agent of that name. |
| Approvals | A relay stopped inside its send: the box acts on a choice whose row expires. |
| Approvals | A question heard in the last second of a turn, or whose answer a cancelled relay had collected, is never denied. |
| Accounts | Of two invites delivered at once each withdraws the other's link. |
| Accounts | The last owner who stays may be one whose account is disabled. |
| MCP config | A grant taken away while the agent sleeps, of a server no longer offered, leaves its entry in `config.yaml`. |
| Agent environment | A change of model accepted during a move is undone by it, and the store says otherwise. |
| MCP connections | A call that waited for the lock while server and connection moved sends the new token to the old address. |
| MCP connections | A call refused with an old token breaks a connection made anew meanwhile, if that one has no refresh token. |
| GitHub | A client's account connected again for another client of the org replaces its connection, and its agents go on committing as who proved it: only the new client's are refreshed. |
| Conversations | A client's session made between the list and Hermes's answer may be handed to the agency as its latest. |
| Metering | A sweep that inspected the machine before a destroy bills time after the teardown. |

More interleavings of the same kinds were met, and are in the models:

* two control planes read a budget on either side of its limit, and one ends
  as `budget_blocked` a run the other has begun to deliver (`RunLoop._blocked`);
* a planned stop cancels `sweep`, not its claiming thread: a run that thread moves
  to `running` waits for the reaper, though a process stopped on purpose is said to
  end its own deliveries (`RunLoop.sweep`);
* a fire carries its sweep's clock, so it may be put in the queue before runs asked for
  in the meantime (`fire_trigger`, `queued_runs`);
* a create that fails after it made the machine closes its row without an endpoint; the machine
  runs on until an agent of that name adopts it (`create_box`, `RunIsLost`);
* a sweep that read an older due time fires it after another control plane fired
  a later one: one outage fires twice, and `last_fired_at` goes back
  (`fire_trigger` compares the time with nothing);
* an edit of a schedule leaves `last_fired_at` alone, so a new time earlier the
  same day is due at once, up to an hour back (`update_trigger`);
* a stop that read `running` writes `stopped` over a budget's `paused`
  (`stop_box`), and a wake that read `running` starts the machine after a budget
  paused it (`wake_box`); the next sweeps put both right;
* a question repeated while its answer is being sent goes back into `_open` and
  is answered twice (`Talk._sync`), and the thread a cancelled relay leaves behind
  records a question after its run's approvals expired (`Talk.relay`);
* a batch of alerts that takes longer than a minute is claimed by another plane as
  well, and the first may mark `failed` what the second delivers;
* overlapping saves of instructions and of the agent's name may leave the record and
  SOUL.md different until the next save; a crash of the thread that rewrites configs
  leaves boxes unmarked;
* a destroyed agent stops a roll, and a single upgrade may take an agent back;
* the words of a conversation said while the heartbeat looks the box up are not counted;
* two refreshes of a Git author may leave the older name; a create still running when
  its row is destroyed writes into the app of the next agent of that name;
* a wake of a row that says running writes no event, so a gap is billed; two first
  sweeps of a box may skip hours.

## 4. What is proved

All theorems hold for any actors (control planes, boxes, requests, people, calls,
places, ...) and any bounds, under the assumptions the modules name. They are
about the shape of the constants: bounds are naturals, a "none" is not one of
the values it stands beside, sets that are added up are finite, and for time what the
code's own constants satisfy (`TimesAssumption`: Timeout + 2 Lag <= Deadline, the
code's 50 minutes against 60 and a grace).

* `RunDeliveryProofs`. `TypeCorrect`, then `IInv` = types, that a queued run is
  untouched, that every phase of a delivery is on time, that a run has one
  holder and a box one running run. "One run per box" and "one deliverer" need
  each other: `start_run`'s check on the row is worth something only because
  nobody holds a run that is not `running` or just over, and the deadline because each phase
  adds at most one `Lag`. Steps are sorted into *quiet* ones (nobody gains a run) and the one that
  starts a run. From it `OneAtATime`, `NeverTwoDeliverers`,
  `InsideDeadline`, `ReaperIsLast`, `FirstVerdictStays`, `NeverRedelivered`.
  `FirstAskedFirstStarted` (the order of the queue) has an invariant of its own,
  `InOrder`: run ids are asked for one after another, and whatever people had asked an agent before
  a run that is offered has left the queue. A run that left never returns, so this survives any
  delay between what a sweep reads and what it does with it.
  The same module has the conversations of a run (`Approvals`, as `Asking`, over `MCApprovals`):
  `AsksTypeCorrect` with "a thread that records has a question in hand"; `ChoiceIsTheRows` and
  `RowsAreHonest` from: nothing is left to send once the turn is over (`TurnOver`), what was
  sent is in `_sent` and was the box's first reply, what is carried is answered, what is
  marked was sent.
* `BoxLifecycleProofs`. `TypeCorrect`; `ClosesClean` from an `Inv` that says who
  may be about to close the row and what each of them did before: the
  provisioning thread is done once the row moved on by its hand (`Recorded`), whoever works on the box
  read such a row (`WorkersFollow`), the loop tears down only what nobody
  provisions (`SweepersFollow`), a request about to close has destroyed
  (`ClosersFollow`).
  The same module proves two properties of the modules around a box. `BusyBoxStaysBusy`
  (`Door`, as `Doorway`), assuming of the periods what `TicksAssumption` says, from `Awake`:
  each timer is within its period (`Timers`); a heartbeat in its gap touched the box when the gap
  began, or failed to (`JustTouched`); and while a turn works under an open conversation, the next touch is due
  before the box has been quiet for too long, or the turn is still young, each failure
  costing one cycle (`NotedSoon`). A turn's age is not told apart past one cycle, and the property
  speaks of at most one failure: of two the code promises nothing, and neither does the theorem.
  `DoneUpdatesMovedAll` (`Rollouts`, as `Rolls`), for any agents and updates, from `InTurn`: whom an update
  listed had a machine and keeps it or is torn down (`SettledOf`), and whom it is through with runs its
  image unless another moved them after (`MovedOf`).
* `ClocksProofs`. `TypeCorrect`; `OneOutcome` from: a run has a fire, a fire
  has a run unless its trigger was deleted, and a time is fired or skipped but
  not both; `Capped` from counting the waiting runs, which a step adds one to at
  most, below the cap; `TornDownOwesNothing` from
  what each phase of a teardown has made true (`TeardownKeeps`): once disabled, no
  trigger of the box is on but those turned on since, so nothing else fires; once the runs are
  ended, none waits but theirs;
  `NonePassedOver`, an action property, since every step that moves the clock of a trigger either settles a time at or after the
  one due or turns the trigger on.
  `HoursStayExact` (`Metering`, as `Meter`, over `MCClocks`), for any sweeps, length of an hour and
  log, from `MeterInv`. `LogRight`: up to the last change (`Changed`) the log says of
  every moment what the machine did, and after it the machine is as it is now; that the log may
  have missed that one change, but no two, is what `~fooled` says. `SweepLog`: what a sweep
  holds agrees with it (the reading is fresh, or the change came at the very moment it
  was read; the spans are those of a log that was right up to the last whole hour), whatever
  the people, the substrate and other sweeps do meanwhile. `RowsRight` and `MarkRight`: a row
  written is right, and below the mark nothing is missing (`PaidTo`), also while
  a destroyed box has lost its mark; `Closed`: a sweep writes hours that are over. Under these lie lemmas on
  the functions by which `_spans` and `_overlap` are written: spans are in order and never overlap
  (`Neat`), they hold exactly the moments the log says it was up (`SpansAreRight`), and what `_overlap`
  adds up is the number of ticks (`OverlapCounts`). As with the sums of the gateway, no library induction can be
  cited, so each takes the least index for which it would fail (`LeastOf`).
* `AlertsProofs`. A row is given up for the count its reader claimed it with, not for
  the sends there were, so `EveryTryIsMade` needs an invariant about what lies between a
  send and its note: a row's attempts and the sends in hand that are not noted are
  together no more than the sends there were (`SendsAreCounted`), and what any plane
  read or claimed is behind them (`ReadersAreBehind`). From the same invariant
  `PromiseIsKept`: initial states map to initial states of `AlertPromise` and each step to
  a step of it or a stutter, one step per action (the safety part of `PromiseKept`).
* `DoorAccessProofs`. `WakesOnlyItsOwn`, an action property, from: a
  socket past the check keeps a credential that admits the name it asked for (`Held`),
  and a box that bore that name when it was checked and still does, or is destroyed: a row loses
  its name only with its life (`Checked`); boxes not yet made are nobody's (`Unmade`).
  `TicketsAreRecent` from: a ticket and what it says age together (`TicketAges`).
  `ClientsAreApart` (every behaviour of `MCFrontDoor`) from `Apart`: what is on its way in
  either direction was let through by a list or is of a session a client made (`MayGo`, `MayCome`), a gate
  holds nothing else (`Keeps`), and what a client made or was listed is never taken back, so
  neither the other direction nor a lost record can outdate a check.
* `AccountsProofs`. Links are numbered as they are made (`MadeInOrder`), and what
  barred a person was withdrawn, and is gone for good (`BarredAreGone`), so that no
  click on it, however far it had come, can finish: `TheRemovedStayOut`. `OnlyMembersSignedIn`
  is inductive beside the types, since each transaction that ends a membership or an
  account ends its sessions, and the one that makes a session looks again.
  The same module proves the two properties of `Github` (as `Hub`, over `MCPeople`) from one
  invariant, `Sound`. `Connected`: a claim under way is of the account of who started its link,
  GitHub has one live installation of the App for an account, and what is being forgotten here is gone there.
  `Minted`: a row an agent was given goes only when its installation is gone or for a newer one
  of the account. `AuthorFollows`: while nothing is excused, the refresh that decided last is to write what
  the rows say, or one that has still to read them is under way, or the machine has it; a change that
  starts no refresh of this agent does not touch the rows it reaches (`ChangeIsFollowed`). That last lemma
  is false for a connection taken over by another client of the org: `PassesOver`, the finding above.
* `AgentProofs`, about the three parts of `MCAgent`, each with an invariant of its own.
  *Files* (`FilesInv`): one request at most is under `_rules_lock` (`Locked`); a rule or an
  instruction differs from its record only while someone stands between the two writes
  (`RulesFollow`, `SoulFollows`). `AgentFindsItsServers` is the hard one: an entry may be wrong
  while nobody writes the config, because a change of the catalogue reaches it later. `EntriesFollow`
  says that each entry that differs is then owed by a thread of the catalogue (`Owes`), and
  `WritesFollow` the same of what a writer under the lock holds in hand, so that whoever
  finishes last leaves nothing owed.
  *Environment* (`EnvInv`): one request changes the model, and one the size (`OneEach`, from the sets of
  the process and the events); what a request has in hand is what the machine has by
  then (`ModelFollows`, `SizeFollows`); one move at a time takes the provider's key away, and only
  where the gateway pays (`OneMove`). Until a request was overtaken: what an
  overtaken one leaves is the finding above.
  *Machines* (`MakeInv`): a name is one row's, agents live in apps of their own, and a shared app has one
  machine (`Apart`); a create works in the app of its row (`Creates`), and a teardown or repair on
  the machine its row points at (`Deals`). `EachDestroysItsOwn` needs more, in states where `Alone` no longer
  holds (a create that goes on for a box torn down, two teardowns), and adds two parts (`OwnInv`): a
  create works in the app of its row's name and a live agent's machine is in it (`Known`), and who
  is about to destroy and was not outrun acts for a box still open and a machine of its app (`Ruins`).
  A first attempt at `MachinesStayTheirs` failed for a good reason: in a shared app, a create whose
  listing failed made a second machine, and the next create adopted the other's, as
  `existing_endpoint` takes the first machine there is. With one fault TLC had not met it, with two it
  does; `crowded` now counts that create too.
* `GatewayProofs`, about both parts of `MCGateway`. `EachBilledOnce` from
  `RowsFollowCalls`: what the ledger has of a call follows from where its call and its entry are, over every
  failed write, retry and drain. `OverrunsStayBounded` from `OverInv`: a call that is settled while no
  row of its budget is missing is open beside all those whose rows it cannot read yet, so these, those out
  and those that ended unwritten are at most as many as were once open together (`FewUnder`); and what the
  ended ones cost, with the highest price for each one still out, stays within the bound
  (`LittleOver`), because a call is admitted only on a spend below the limit that misses nothing else. It needs
  that a fold over a finite set does add up (`SumTakes`, `SumGrows`). The library's induction
  cannot be cited for that, so these lemmas take a smallest set among those for which they would fail
  (`LeastSet`) and find a smaller one. For the connections, `Kept`: a code belongs to a
  sign-in started by who holds it, sign-ins are traded once before anything uses
  them, and whoever holds the lock of a level is the only one to spend refresh tokens of the connection
  there. So a holder that is refused was refused because the sign-in had ended or its
  tokens were lost: `SignInsStay`. `TokensStayAtHome` says a call that did not wait for the
  lock sends its token to the address it was for (one that waited may not: a finding).

Only model-checked:

* what is true only under fairness, out of the proof system's reach:
  `EveryStartedRunEnds`, `EveryWaitingRunIsServed`, `ProvisionSettles`, `HeldBoxIsPaused`,
  `KillStopsTheMachine`, `AcceptedAnswersAreSent`, `AcceptedAnswersSettle`, `ForgottenTabsLetItSleep`,
  `UpdatesGiveWay`, and the liveness part of `PromiseKept`.

## 5. What is left

Everything that is safe and that a run checks is a theorem; what must eventually happen is
checked by TLC alone.

Not modelled, and why: the health of the control loop (a counter and two clocks with one
writer), peers and the relay (one message held for one request), watched tasks (nothing creates them any
more), prices and exchange rates (append-only tables), the store engine and migrations (its guarded
transactions are the atomic steps of every module), box scripts, the CLI, mail and the user
interfaces. Of the API, its requests are the actors of the modules; scopes, views and
validation are pure functions of a token, and the rate limit is one counter. Of the backends,
what Fly's makes, adopts, re-images and destroys is in `BoxCreation` and `Rollouts`.

## Running

    tlc -config RunDelivery.cfg MCRunDelivery
    tlc -config Alerts.cfg Alerts
    tlapm RunDeliveryProofs.tla
    tlapm AgentProofs.tla
