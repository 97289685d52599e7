----------------------------- MODULE AgentFiles -----------------------------
(***************************************************************************)
(* What one agent reads on its own volume, and what the store says it      *)
(* reads: its instructions (SOUL.md), its rules and its MCP servers        *)
(* (config.yaml), in flotta/provision.py, with the endpoints of            *)
(* flotta/control/app.py that change them.                                 *)
(*                                                                         *)
(* Instructions and rules go to the machine first and are recorded         *)
(* second; grants are recorded first, since the gateway reads the record,  *)
(* and written second, or marked pending for the next wake.  Saves of      *)
(* config.yaml share a lock of this process; those of SOUL.md do not.  A   *)
(* change of the catalogue writes the config again from a thread.          *)
(*                                                                         *)
(* Every store call and every command on the machine is a step; a command  *)
(* may fail, with or without having had its effect.  A server is offered   *)
(* or not; the rest of its specification, the gateway's address and key,   *)
(* and the best-effort reload after a write are left out.  The machine's   *)
(* power is in BoxLifecycle: a command starts a machine that sleeps.       *)
(***************************************************************************)
EXTENDS Naturals, FiniteSets

CONSTANTS
    Servers,        \* servers the operator may offer
    Names,          \* display names
    Texts,          \* instructions, and rules
    Workers,        \* requests and threads under way
    None,
    MaxRequests,    \* bound: requests made
    MaxMoves,       \* bound: changes of the box's row but by a wake
    MaxTroubles     \* bound: commands that fail, and crashes

ASSUME BoundsAssumption ==
    MaxRequests \in Nat /\ MaxMoves \in Nat /\ MaxTroubles \in Nat
ASSUME NoneAssumption == None \notin Workers \cup Texts \cup Names

VARIABLES
    status,                           \* boxes.status
    catalogue,                        \* servers on offer
    meta, rules, grants, pending,     \* rows: box_meta, box_rules, box_mcp_grants, ..._config_pending
    soul, boxRules, entries,          \* files: SOUL.md; in config.yaml, the rules and the entries
    lock,                             \* _rules_lock
    work,                             \* what each request or thread has done and read
    asked, moves, troubles,
    unsure,   \* history: files whose last save failed, was cut off or was overtaken
    crossed,  \* history: two saves of box_meta have overlapped
    dropped   \* history: servers that have left the catalogue

rows == <<meta, rules, grants, pending>>
files == <<soul, boxRules, entries>>
bounds == <<asked, moves, troubles>>
history == <<unsure, crossed, dropped>>
vars == <<status, catalogue, rows, files, lock, work, bounds, history>>

Idle == [at |-> "idle"]

TypeOK ==
    /\ status \in {"running", "stopped", "paused", "torn_down"}
    /\ catalogue \in SUBSET Servers /\ grants \in SUBSET Servers
    /\ entries \in SUBSET Servers /\ dropped \in SUBSET Servers
    /\ meta \in [name : Names \cup {None}, text : Texts \cup {None}]
    /\ {rules, soul, boxRules} \subseteq Texts \cup {None}
    /\ pending \in BOOLEAN /\ crossed \in BOOLEAN
    /\ lock \in Workers \cup {None}
    /\ work \in [Workers -> {Idle}
         \cup [at : {"meta.write"}, name : Names, text : Texts \cup {None}]
         \cup [at : {"soul.exec", "soul.read"}, text : Texts \cup {None}]
         \cup [at : {"soul.write"}, text : Texts \cup {None}, name : Names \cup {None}]
         \cup [at : {"rules.lock", "rules.record"}, text : Texts \cup {None}]
         \cup [at : {"grants.lock"}, grants : SUBSET Servers, refused : BOOLEAN]
         \cup [at : {"grants.now"}, previous : SUBSET Servers, refused : BOOLEAN]
         \cup [at : {"catalogue.set"}, before : SUBSET Servers, to : SUBSET Servers]
         \cup [at : {"catalogue.after"}, before : SUBSET Servers]
         \cup [at : {"catalogue.boxes"}, changed : SUBSET Servers]
         \cup [at : {"wake.row"}, seen : {"running", "stopped"}]
         \cup [at : {"wake.pending"}]
         \cup [at : {"rewrite.lock", "rewrite.now"}, by : {"wake", "catalogue"}]
         \cup [at : {"write"}, by : {"grants", "wake", "catalogue"},
                               want : SUBSET Servers, named : SUBSET Servers]
         \cup [at : {"clear"}, by : {"grants", "wake", "catalogue"}, want : SUBSET Servers]]
    /\ asked \in 0..MaxRequests /\ moves \in 0..MaxMoves /\ troubles \in 0..MaxTroubles
    /\ unsure \subseteq {"rules", "servers", "soul"}

Init ==
    /\ status = "running" /\ catalogue = Servers
    /\ meta = [name |-> None, text |-> None] /\ rules = None
    /\ grants = {} /\ pending = FALSE
    /\ soul = None /\ boxRules = None /\ entries = {}
    /\ lock = None /\ work = [w \in Workers |-> Idle]
    /\ asked = 0 /\ moves = 0 /\ troubles = 0
    /\ unsure = {} /\ crossed = FALSE /\ dropped = {}

-----------------------------------------------------------------------------
Begins(w, first) ==
    /\ work[w] = Idle /\ asked < MaxRequests
    /\ asked' = asked + 1
    /\ work' = [work EXCEPT ![w] = first]
    /\ UNCHANGED <<moves, troubles>>
Goes(w, next) == work' = [work EXCEPT ![w] = next]
Ends(w) == Goes(w, Idle)
At(w, at) == work[w].at = at
Trouble ==
    /\ troubles < MaxTroubles /\ troubles' = troubles + 1
    /\ UNCHANGED <<asked, moves>>

(* with _rules_lock(box.id)                                                *)
Takes(w) == lock = None /\ lock' = w
Releases == lock' = None

(* _writable_box, and set_instructions' own checks: not paused, and with a *)
(* volume.                                                                 *)
Writable == status \notin {"paused", "torn_down"}

-----------------------------------------------------------------------------
(* Names and instructions share a row that is replaced whole: each save    *)
(* reads what the other one owns and writes it back.                       *)

MetaAt == {"meta.write", "soul.exec", "soul.read", "soul.write"}
Overlaps == crossed' = (crossed \/ \E v \in Workers : work[v].at \in MetaAt)

(* The bug: a rename reads nothing and clears the instructions' record.    *)
MutSetMeta(w, name) ==
    /\ Begins(w, [at |-> "meta.write", name |-> name, text |-> None])
    /\ Overlaps
    /\ UNCHANGED <<status, catalogue, rows, files, lock, unsure, dropped>>

(* PUT .../meta                                                            *)
SetMeta(w, name) ==
    /\ Begins(w, [at |-> "meta.write", name |-> name, text |-> meta.text])
    /\ Overlaps
    /\ UNCHANGED <<status, catalogue, rows, files, lock, unsure, dropped>>

SetBoxMeta(name, text) ==
    /\ meta' = [name |-> name, text |-> text]
    /\ UNCHANGED <<rules, grants, pending>>

MetaWrites(w) ==
    /\ At(w, "meta.write")
    /\ SetBoxMeta(work[w].name, work[w].text)
    /\ Ends(w)
    /\ UNCHANGED <<status, catalogue, files, lock, bounds, history>>

(* PUT .../instructions                                                    *)
SetInstructions(w, text) ==
    /\ Writable
    /\ Begins(w, [at |-> "soul.exec", text |-> text])
    /\ Overlaps
    /\ UNCHANGED <<status, catalogue, rows, files, lock, unsure, dropped>>

SoulWritten(w) ==
    /\ At(w, "soul.exec")
    /\ soul' = work[w].text
    /\ Goes(w, [at |-> "soul.read", text |-> work[w].text])
    /\ UNCHANGED <<status, catalogue, rows, boxRules, entries, lock, bounds, history>>

SoulFails(w) ==
    /\ At(w, "soul.exec") /\ Trouble
    /\ soul' \in {soul, work[w].text}
    /\ unsure' = unsure \cup {"soul"}
    /\ Ends(w)
    /\ UNCHANGED <<status, catalogue, rows, boxRules, entries, lock, crossed, dropped>>

SoulReads(w) ==
    /\ At(w, "soul.read")
    /\ Goes(w, [at |-> "soul.write", text |-> work[w].text, name |-> meta.name])
    /\ UNCHANGED <<status, catalogue, rows, files, lock, bounds, history>>

SoulRecorded(w) ==
    /\ At(w, "soul.write")
    /\ SetBoxMeta(work[w].name, work[w].text)
    /\ unsure' = unsure \ {"soul"}
    /\ Ends(w)
    /\ UNCHANGED <<status, catalogue, files, lock, bounds, crossed, dropped>>

-----------------------------------------------------------------------------
(* PUT .../rules: the write and its record under the lock.                 *)

PutRules(w, text) ==
    /\ Writable
    /\ Begins(w, [at |-> "rules.lock", text |-> text])
    /\ UNCHANGED <<status, catalogue, rows, files, lock, history>>

(* The bug: rules are written without the lock.                            *)
MutRulesWritten(w) ==
    /\ At(w, "rules.lock") /\ UNCHANGED lock
    /\ boxRules' = work[w].text
    /\ Goes(w, [at |-> "rules.record", text |-> work[w].text])
    /\ UNCHANGED <<status, catalogue, rows, soul, entries, bounds, history>>

RulesWritten(w) ==
    /\ At(w, "rules.lock") /\ Takes(w)
    /\ boxRules' = work[w].text
    /\ Goes(w, [at |-> "rules.record", text |-> work[w].text])
    /\ UNCHANGED <<status, catalogue, rows, soul, entries, bounds, history>>

RulesFail(w) ==
    /\ At(w, "rules.lock") /\ lock = None /\ Trouble
    /\ boxRules' \in {boxRules, work[w].text}
    /\ unsure' = unsure \cup {"rules"}
    /\ Ends(w)
    /\ UNCHANGED <<status, catalogue, rows, soul, entries, lock, crossed, dropped>>

RulesRecorded(w) ==
    /\ At(w, "rules.record")
    /\ rules' = work[w].text
    /\ unsure' = unsure \ {"rules"}
    /\ Releases
    /\ Ends(w)
    /\ UNCHANGED <<status, catalogue, meta, grants, pending, files, bounds, crossed, dropped>>

-----------------------------------------------------------------------------
(* Grants, and the config that tells the agent of them.                    *)

(* PUT .../mcp parses against the catalogue of the moment; a box that      *)
(* cannot be written has its grants recorded all the same.                 *)
PutGrants(w, wanted) ==
    /\ wanted \subseteq catalogue
    /\ Begins(w, [at |-> "grants.lock", grants |-> wanted, refused |-> ~Writable])
    /\ UNCHANGED <<status, catalogue, rows, files, lock, history>>

GrantsRecorded(w) ==
    /\ At(w, "grants.lock") /\ Takes(w)
    /\ grants' = work[w].grants
    /\ Goes(w, [at |-> "grants.now", previous |-> grants, refused |-> work[w].refused])
    /\ UNCHANGED <<status, catalogue, meta, rules, pending, files, bounds, history>>

(* `written: false`, and nothing will write it.                            *)
GrantsRefused(w) ==
    /\ At(w, "grants.now") /\ work[w].refused
    /\ unsure' = unsure \cup {"servers"}
    /\ Releases
    /\ Ends(w)
    /\ UNCHANGED <<status, catalogue, rows, files, bounds, crossed, dropped>>

(* `pending: true`: the next wake writes it.                               *)
MarksPending(w) ==
    /\ pending' = TRUE
    /\ Releases
    /\ Ends(w)
    /\ UNCHANGED <<status, catalogue, meta, rules, grants, files>>

GrantsPending(w) ==
    /\ At(w, "grants.now") /\ ~work[w].refused /\ status # "running"
    /\ MarksPending(w)
    /\ UNCHANGED <<bounds, history>>

(* _write_mcp_config, up to its command: set what is granted and offered,  *)
(* remove the rest of what is offered or was granted before.               *)
ReadsConfig(w, by, previous) ==
    /\ Goes(w, [at |-> "write", by |-> by, want |-> grants \cap catalogue,
                named |-> catalogue \cup previous \cup grants])
    /\ UNCHANGED <<status, catalogue, rows, files, lock, bounds, history>>

GrantsRead(w) ==
    /\ At(w, "grants.now") /\ ~work[w].refused /\ status = "running"
    /\ ReadsConfig(w, "grants", work[w].previous)

Merged(w) == (entries \ work[w].named) \cup work[w].want

ConfigWritten(w) ==
    /\ At(w, "write")
    /\ entries' = Merged(w)
    /\ Goes(w, [at |-> "clear", by |-> work[w].by, want |-> work[w].want])
    /\ UNCHANGED <<status, catalogue, rows, soul, boxRules, lock, bounds, history>>

(* A save answers `written: false`; a rewrite marks the box.               *)
ConfigFails(w) ==
    /\ At(w, "write") /\ Trouble
    /\ entries' \in {entries, Merged(w)}
    /\ \/ work[w].by = "grants" /\ unsure' = unsure \cup {"servers"} /\ UNCHANGED pending
       \/ work[w].by # "grants" /\ pending' = TRUE /\ UNCHANGED unsure
    /\ Releases
    /\ Ends(w)
    /\ UNCHANGED <<status, catalogue, meta, rules, grants, soul, boxRules, crossed, dropped>>

ConfigCleared(w) ==
    /\ At(w, "clear")
    /\ pending' = FALSE
    /\ unsure' = IF work[w].want = grants \cap catalogue THEN unsure \ {"servers"} ELSE unsure
    /\ Releases
    /\ Ends(w)
    /\ UNCHANGED <<status, catalogue, meta, rules, grants, files, bounds, crossed, dropped>>

(* rewrite_mcp_config reads the row again under the lock.                  *)
Rewrites(w, by) == Goes(w, [at |-> "rewrite.lock", by |-> by])

RewriteLocks(w) ==
    /\ At(w, "rewrite.lock") /\ Takes(w)
    /\ Goes(w, [work[w] EXCEPT !.at = "rewrite.now"])
    /\ UNCHANGED <<status, catalogue, rows, files, bounds, history>>

RewriteDeferred(w) ==
    /\ At(w, "rewrite.now") /\ status # "running"
    /\ MarksPending(w)
    /\ UNCHANGED <<bounds, history>>

RewriteReads(w) ==
    /\ At(w, "rewrite.now") /\ status = "running"
    /\ ReadsConfig(w, work[w].by, {})

-----------------------------------------------------------------------------
(* PUT /api/settings: the catalogue before, the write, the catalogue       *)
(* after, and a thread for the boxes granted a server that differs.        *)

PutSettings(w, to) ==
    /\ to # catalogue
    /\ Begins(w, [at |-> "catalogue.set", before |-> catalogue, to |-> to])
    /\ UNCHANGED <<status, catalogue, rows, files, lock, history>>

(* Overtaken when another write came after its own look.                   *)
SettingsWritten(w) ==
    /\ At(w, "catalogue.set")
    /\ catalogue' = work[w].to
    /\ dropped' = dropped \cup (catalogue \ work[w].to)
    /\ unsure' = IF catalogue = work[w].before THEN unsure ELSE unsure \cup {"servers"}
    /\ Goes(w, [at |-> "catalogue.after", before |-> work[w].before])
    /\ UNCHANGED <<status, rows, files, lock, bounds, crossed>>

CatalogueChanged(w) ==
    /\ At(w, "catalogue.after")
    /\ LET changed == (work[w].before \cup catalogue) \ (work[w].before \cap catalogue) IN
       IF changed = {} THEN Ends(w)
                       ELSE Goes(w, [at |-> "catalogue.boxes", changed |-> changed])
    /\ UNCHANGED <<status, catalogue, rows, files, lock, bounds, history>>

(* The bug: a catalogue change skips an agent that sleeps.                 *)
MutRewritesConfigs(w) ==
    /\ At(w, "catalogue.boxes")
    /\ IF grants \cap work[w].changed # {} /\ status = "running"
       THEN Rewrites(w, "catalogue") ELSE Ends(w)
    /\ UNCHANGED <<status, catalogue, rows, files, lock, bounds, history>>

RewritesConfigs(w) ==
    /\ At(w, "catalogue.boxes")
    /\ IF grants \cap work[w].changed # {} /\ status # "torn_down"
       THEN Rewrites(w, "catalogue") ELSE Ends(w)
    /\ UNCHANGED <<status, catalogue, rows, files, lock, bounds, history>>

-----------------------------------------------------------------------------
(* The box sleeps, wakes, and is paused, and may be torn down.             *)

(* wake_box: something addresses the agent.                                *)
Wake(w) ==
    /\ status \in {"running", "stopped"}
    /\ Begins(w, [at |-> "wake.row", seen |-> status])
    /\ UNCHANGED <<status, catalogue, rows, files, lock, history>>

(* A row it read `stopped` is moved, or the wake fails where it has moved  *)
(* since.                                                                  *)
WakeMoves(w) ==
    /\ At(w, "wake.row")
    /\ IF work[w].seen = "running" \/ status = "stopped"
       THEN status' = (IF work[w].seen = "stopped" THEN "running" ELSE status)
            /\ Goes(w, [at |-> "wake.pending"])
       ELSE Ends(w) /\ UNCHANGED status
    /\ UNCHANGED <<catalogue, rows, files, lock, bounds, history>>

WakeLooks(w) ==
    /\ At(w, "wake.pending")
    /\ IF pending /\ status # "torn_down" THEN Rewrites(w, "wake") ELSE Ends(w)
    /\ UNCHANGED <<status, catalogue, rows, files, lock, bounds, history>>

(* Idle sleep and stop, an operator's start, a budget's pause and its      *)
(* release, and teardown, each in one step.                                *)
BoxMoves(to) ==
    /\ <<status, to>> \in {<<"running", "stopped">>, <<"stopped", "running">>,
          <<"running", "paused">>, <<"stopped", "paused">>, <<"paused", "stopped">>,
          <<"running", "torn_down">>, <<"stopped", "torn_down">>, <<"paused", "torn_down">>}
    /\ moves < MaxMoves /\ moves' = moves + 1
    /\ status' = to
    /\ UNCHANGED <<catalogue, rows, files, lock, work, asked, troubles, history>>

(* The control plane dies: its requests, its threads and its lock with it. *)
(* A save cut off between the machine and the record answers nobody, and a *)
(* catalogue thread leaves no mark.                                        *)
CutOff(w) ==
    CASE work[w].at \in {"soul.exec", "soul.read", "soul.write"} -> {"soul"}
      [] work[w].at = "rules.record" -> {"rules"}
      [] work[w].at \in {"grants.now", "catalogue.after", "catalogue.boxes"} -> {"servers"}
      [] work[w].at \in {"rewrite.lock", "rewrite.now", "write", "clear"} ->
            (IF work[w].by = "wake" THEN {} ELSE {"servers"})
      [] OTHER -> {}

Crash ==
    /\ \E w \in Workers : work[w] # Idle
    /\ Trouble
    /\ unsure' = unsure \cup UNION {CutOff(w) : w \in Workers}
    /\ work' = [w \in Workers |-> Idle]
    /\ lock' = None
    /\ UNCHANGED <<status, catalogue, rows, files, crossed, dropped>>

-----------------------------------------------------------------------------
Step(w) ==
    \/ \E name \in Names : SetMeta(w, name)
    \/ \E text \in Texts \cup {None} : SetInstructions(w, text) \/ PutRules(w, text)
    \/ \E s \in SUBSET Servers : PutGrants(w, s) \/ PutSettings(w, s)
    \/ MetaWrites(w) \/ SoulWritten(w) \/ SoulFails(w) \/ SoulReads(w) \/ SoulRecorded(w)
    \/ RulesWritten(w) \/ RulesFail(w) \/ RulesRecorded(w)
    \/ GrantsRecorded(w) \/ GrantsRefused(w) \/ GrantsPending(w) \/ GrantsRead(w)
    \/ ConfigWritten(w) \/ ConfigFails(w) \/ ConfigCleared(w)
    \/ RewriteLocks(w) \/ RewriteDeferred(w) \/ RewriteReads(w)
    \/ SettingsWritten(w) \/ CatalogueChanged(w) \/ RewritesConfigs(w)
    \/ Wake(w) \/ WakeMoves(w) \/ WakeLooks(w)

Next ==
    \/ \E w \in Workers : Step(w)
    \/ \E to \in {"running", "stopped", "paused", "torn_down"} : BoxMoves(to)
    \/ Crash

Spec == Init /\ [][Next]_vars

-----------------------------------------------------------------------------
ServersAt == {"grants.now", "catalogue.after", "catalogue.boxes", "rewrite.lock", "rewrite.now",
              "write", "clear"}
ServersSettled ==
    /\ \A w \in Workers : work[w].at \notin ServersAt
    /\ ~pending /\ "servers" \notin unsure /\ status # "torn_down"

(* Once nobody is at it, an agent finds every server it is granted that is *)
(* on offer and no other, unless the box is marked for its next wake or    *)
(* the last save was answered as not written.  What may stay is an entry   *)
(* of a server that had left the catalogue: set_mcp_grants and             *)
(* rewrite_mcp_configs against each other, wakes, pauses and crashes.      *)
ServersAreFound ==
    ServersSettled =>
        /\ entries \cap grants = catalogue \cap grants
        /\ entries \ grants \subseteq dropped

(* The rules the store shows are the ones the agent follows, whenever      *)
(* nobody saves them and no save failed or was cut off: set_rules under    *)
(* its lock.                                                               *)
RulesAreFollowed ==
    "rules" \notin unsure /\ (\A w \in Workers : ~At(w, "rules.record")) => rules = boxRules

SoulSettled ==
    "soul" \notin unsure /\ \A w \in Workers : work[w].at \notin MetaAt

(* The instructions the store shows are those on the volume, when no two   *)
(* saves of the agent's name or instructions overlapped: a rename writes   *)
(* back what set_instructions recorded, and the other way round.           *)
SoulIsRecorded == SoulSettled /\ ~crossed => meta.text = soul

(* What the store shows of an agent's rules and instructions is what the   *)
(* agent goes by: both of the above.                                       *)
ShownIsFollowed == RulesAreFollowed /\ SoulIsRecorded
=============================================================================
