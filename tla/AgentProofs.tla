---------------------------- MODULE AgentProofs ----------------------------
(* Proofs about what makes an agent: the files control writes into it      *)
(* (AgentFiles), the environment it runs in (AgentEnv, here Env) and the   *)
(* machine that carries it (BoxCreation, here Makes).                      *)
EXTENDS MCAgent, TLAPS

(***************************************************************************)
(* The files.  FilesInv says, of every place a request or a thread can     *)
(* stand, what it holds that is still owed: the writer of the config holds *)
(* the lock and knows what it found, whoever changed a grant or the        *)
(* catalogue owes the entries, and rules and identity lag their record     *)
(* only while someone is between the two writes.                           *)
(***************************************************************************)
(* What a request or thread is at, in the words of the code it is in. *)
Said == Texts \cup {None}
By == {"grants", "wake", "catalogue"}
Renaming == [at : {"meta.write"}, name : Names, text : Said]
Saying == [at : {"soul.exec", "soul.read"}, text : Said]
Telling == [at : {"soul.write"}, text : Said, name : Names \cup {None}]
Ruling == [at : {"rules.lock", "rules.record"}, text : Said]
Granting == [at : {"grants.lock"}, grants : SUBSET Servers, refused : BOOLEAN]
Granted == [at : {"grants.now"}, previous : SUBSET Servers, refused : BOOLEAN]
Setting == [at : {"catalogue.set"}, before : SUBSET Servers, to : SUBSET Servers]
Following == [at : {"catalogue.after"}, before : SUBSET Servers]
Spreading == [at : {"catalogue.boxes"}, changed : SUBSET Servers]
Waking == [at : {"wake.row"}, seen : {"running", "stopped"}]
Woken == [at : {"wake.pending"}]
Rewriting == [at : {"rewrite.lock", "rewrite.now"}, by : {"wake", "catalogue"}]
Writing == [at : {"write"}, by : By, want : SUBSET Servers, named : SUBSET Servers]
Marking == [at : {"clear"}, by : By, want : SUBSET Servers]
Tasks == {Idle} \cup Renaming \cup Saying \cup Telling \cup Ruling \cup Granting \cup Granted
         \cup Setting \cup Following \cup Spreading \cup Waking \cup Woken \cup Rewriting
         \cup Writing \cup Marking

FilesTyped ==
    /\ catalogue \in SUBSET Servers /\ grants \in SUBSET Servers
    /\ entries \in SUBSET Servers /\ dropped \in SUBSET Servers
    /\ meta \in [name : Names \cup {None}, text : Said]
    /\ work \in [Workers -> Tasks]

LockedAt == {"rules.record", "grants.now", "rewrite.now", "write", "clear"}

Locked ==
    \A w \in Workers : work[w].at \in LockedAt <=> lock = w

RulesFollow ==
    /\ \A w \in Workers : work[w].at = "rules.record" => boxRules = work[w].text
    /\ "rules" \notin unsure /\ (\A w \in Workers : work[w].at # "rules.record")
           => rules = boxRules

SoulFollows ==
    ~crossed =>
      /\ \A v, w \in Workers : work[v].at \in MetaAt /\ work[w].at \in MetaAt => v = w
      /\ \A w \in Workers :
           /\ work[w].at = "meta.write" => work[w].text = meta.text
           /\ work[w].at \in {"soul.read", "soul.write"} => work[w].text = soul
      /\ "soul" \notin unsure
             /\ (\A w \in Workers : work[w].at \notin {"soul.read", "soul.write"}) =>
           meta.text = soul

Offered == Servers \subseteq catalogue \cup dropped

Sure == "servers" \notin unsure /\ status # "torn_down"

Differ(A, B) == (A \ B) \cup (B \ A)
Owes(v, s) ==
    \/ work[v].at = "catalogue.after" /\ s \in Differ(work[v].before, catalogue)
    \/ work[v].at = "catalogue.boxes" /\ s \in work[v].changed
Waits(v) == work[v].at = "rewrite.lock" /\ work[v].by = "catalogue"
Replaces(w) ==
    \/ work[w].at = "grants.now"
    \/ work[w].at \in {"rewrite.lock", "rewrite.now", "write"} /\ work[w].by = "catalogue"
    \/ work[w].at = "write" /\ work[w].by = "grants"

EntriesFollow ==
    Sure /\ ~pending /\ (\A w \in Workers : ~Replaces(w)) =>
        /\ entries \ grants \subseteq dropped
        /\ \A s \in Differ(entries \cap grants, catalogue \cap grants) : \E v \in Workers :
               Owes(v, s)

Coming(w) ==
    /\ work[w].want \subseteq grants
    /\ Sure => \A s \in Differ(work[w].want, catalogue \cap grants) :
                 \E v \in Workers : Owes(v, s) \/ Waits(v)
    /\ work[w].at = "write"
           => grants \subseteq work[w].named /\ Servers \ work[w].named \subseteq dropped
    /\ work[w].at = "clear"
           => entries \cap grants = work[w].want /\ entries \ grants \subseteq dropped
WritesFollow == \A w \in Workers : work[w].at \in {"write", "clear"} => Coming(w)

FilesInv == FilesTyped /\ Locked /\ RulesFollow /\ SoulFollows /\ Offered /\ EntriesFollow
    /\ WritesFollow

-----------------------------------------------------------------------------
LEMMA TaskOf ==
    ASSUME FilesTyped, NEW w \in Workers
    PROVE  /\ work[w].at = "meta.write" => work[w] \in Renaming
           /\ work[w].at \in {"soul.exec", "soul.read"} => work[w] \in Saying
           /\ work[w].at = "soul.write" => work[w] \in Telling
           /\ work[w].at \in {"rules.lock", "rules.record"} => work[w] \in Ruling
           /\ work[w].at = "grants.lock" => work[w] \in Granting
           /\ work[w].at = "grants.now" => work[w] \in Granted
           /\ work[w].at = "catalogue.set" => work[w] \in Setting
           /\ work[w].at = "catalogue.after" => work[w] \in Following
           /\ work[w].at = "catalogue.boxes" => work[w] \in Spreading
           /\ work[w].at = "wake.row" => work[w] \in Waking
           /\ work[w].at \in {"rewrite.lock", "rewrite.now"} => work[w] \in Rewriting
           /\ work[w].at = "write" => work[w] \in Writing
           /\ work[w].at = "clear" => work[w] \in Marking
<1>1. work[w] \in Tasks BY DEF FilesTyped
<1> QED
  BY <1>1 DEF Tasks, Renaming, Saying, Telling, Ruling, Granting, Granted, Setting,
     Following, Spreading, Waking, Woken, Rewriting, Writing, Marking, Idle

LEMMA FilesGoesTo ==
    ASSUME FilesTyped, NEW w \in Workers, NEW next, Goes(w, next)
    PROVE  work'[w] = next /\ \A v \in Workers : v # w => work'[v] = work[v]
BY DEF FilesTyped, Goes

LEMMA FilesGoesTyped ==
    ASSUME FilesTyped, NEW w \in Workers, NEW next \in Tasks, Goes(w, next)
    PROVE  work' \in [Workers -> Tasks]
BY DEF FilesTyped, Goes

LEMMA FilesBeginsGoes ==
    ASSUME NEW w, NEW first, Begins(w, first)
    PROVE  Goes(w, first) /\ work[w] = Idle /\ work[w].at = "idle"
BY DEF Begins, Goes, Idle

(* Where each step takes the thread that makes it.                         *)
Path(w, from, to) ==
    work[w].at = from /\ \E next \in Tasks : Goes(w, next) /\ next.at = to

LEMMA Begun ==
    ASSUME NEW w \in Workers
    PROVE  /\ \A name \in Names : FilesTyped /\ SetMeta(w, name)
                  => Path(w, "idle", "meta.write")
           /\ \A text \in Said : SetInstructions(w, text) => Path(w, "idle", "soul.exec")
           /\ \A text \in Said : PutRules(w, text) => Path(w, "idle", "rules.lock")
           /\ \A s \in SUBSET Servers : PutGrants(w, s) => Path(w, "idle", "grants.lock")
           /\ \A s \in SUBSET Servers :
                FilesTyped /\ PutSettings(w, s) => Path(w, "idle", "catalogue.set")
           /\ Wake(w) => Path(w, "idle", "wake.row")
<1>1. ASSUME NEW first \in Tasks, Begins(w, first) PROVE Path(w, "idle", first.at)
  BY <1>1, FilesBeginsGoes DEF Path
<1>2. ASSUME NEW name \in Names, FilesTyped, SetMeta(w, name)
      PROVE Path(w, "idle", "meta.write")
  <2> DEFINE first == [at |-> "meta.write", name |-> name, text |-> meta.text]
  <2>1. first \in Tasks BY <1>2 DEF FilesTyped, Tasks, Renaming
  <2> QED BY <1>1, <1>2, <2>1 DEF SetMeta
<1>3. ASSUME NEW text \in Said, SetInstructions(w, text)
      PROVE Path(w, "idle", "soul.exec")
  <2>1. [at |-> "soul.exec", text |-> text] \in Tasks BY DEF Tasks, Saying
  <2> QED BY <1>1, <1>3, <2>1 DEF SetInstructions
<1>4. ASSUME NEW text \in Said, PutRules(w, text) PROVE Path(w, "idle", "rules.lock")
  <2>1. [at |-> "rules.lock", text |-> text] \in Tasks BY DEF Tasks, Ruling
  <2> QED BY <1>1, <1>4, <2>1 DEF PutRules
<1>5. ASSUME NEW s \in SUBSET Servers, PutGrants(w, s)
      PROVE Path(w, "idle", "grants.lock")
  <2>1. (~Writable) \in BOOLEAN BY Zenon DEF Writable
  <2>2. [at |-> "grants.lock", grants |-> s, refused |-> ~Writable] \in Tasks
    BY <2>1 DEF Tasks, Granting
  <2> QED BY <1>1, <1>5, <2>2 DEF PutGrants
<1>6. ASSUME NEW s \in SUBSET Servers, FilesTyped, PutSettings(w, s)
      PROVE  Path(w, "idle", "catalogue.set")
  <2>1. [at |-> "catalogue.set", before |-> catalogue, to |-> s] \in Tasks
    BY <1>6 DEF FilesTyped, Tasks, Setting
  <2> QED BY <1>1, <1>6, <2>1 DEF PutSettings
<1>7. ASSUME Wake(w) PROVE Path(w, "idle", "wake.row")
  <2>1. [at |-> "wake.row", seen |-> status] \in Tasks BY <1>7 DEF Wake, Tasks, Waking
  <2> QED BY <1>1, <1>7, <2>1 DEF Wake
<1> QED BY <1>2, <1>3, <1>4, <1>5, <1>6, <1>7

LEMMA Ended ==
    ASSUME FilesTyped, NEW w \in Workers
    PROVE  /\ MetaWrites(w) => Path(w, "meta.write", "idle")
           /\ SoulFails(w) => Path(w, "soul.exec", "idle")
           /\ SoulRecorded(w) => Path(w, "soul.write", "idle")
           /\ RulesFail(w) => Path(w, "rules.lock", "idle")
           /\ RulesRecorded(w) => Path(w, "rules.record", "idle")
           /\ GrantsRefused(w) => Path(w, "grants.now", "idle")
           /\ GrantsPending(w) => Path(w, "grants.now", "idle")
           /\ ConfigFails(w) => Path(w, "write", "idle")
           /\ ConfigCleared(w) => Path(w, "clear", "idle")
           /\ RewriteDeferred(w) => Path(w, "rewrite.now", "idle")
<1>1. ASSUME Ends(w) PROVE Path(w, work[w].at, "idle")
  <2>1. Idle \in Tasks /\ Idle.at = "idle" BY DEF Tasks, Idle
  <2> QED BY <1>1, <2>1 DEF Ends, Path
<1> QED
  BY <1>1 DEF MetaWrites, SoulFails, SoulRecorded, RulesFail, RulesRecorded,
     GrantsRefused, GrantsPending, MarksPending, ConfigFails, ConfigCleared,
     RewriteDeferred, At

LEMMA GoneOn ==
    ASSUME FilesTyped, NEW w \in Workers
    PROVE  /\ SoulWritten(w) => Path(w, "soul.exec", "soul.read")
           /\ SoulReads(w) => Path(w, "soul.read", "soul.write")
           /\ RulesWritten(w) => Path(w, "rules.lock", "rules.record")
           /\ GrantsRecorded(w) => Path(w, "grants.lock", "grants.now")
           /\ GrantsRead(w) => Path(w, "grants.now", "write")
           /\ ConfigWritten(w) => Path(w, "write", "clear")
           /\ RewriteLocks(w) => Path(w, "rewrite.lock", "rewrite.now")
           /\ RewriteReads(w) => Path(w, "rewrite.now", "write")
           /\ SettingsWritten(w) => Path(w, "catalogue.set", "catalogue.after")
           /\ CatalogueChanged(w) => \/ Path(w, "catalogue.after", "idle")
                                     \/ Path(w, "catalogue.after", "catalogue.boxes")
           /\ RewritesConfigs(w) => \/ Path(w, "catalogue.boxes", "idle")
                                    \/ Path(w, "catalogue.boxes", "rewrite.lock")
           /\ WakeMoves(w)
                  => Path(w, "wake.row", "idle") \/ Path(w, "wake.row", "wake.pending")
           /\ WakeLooks(w) => \/ Path(w, "wake.pending", "idle")
                              \/ Path(w, "wake.pending", "rewrite.lock")
<1>0. Idle \in Tasks /\ Idle.at = "idle" BY DEF Tasks, Idle
<1>1. ASSUME SoulWritten(w) PROVE Path(w, "soul.exec", "soul.read")
  <2>1. work[w] \in Saying BY <1>1, TaskOf DEF SoulWritten, At
  <2>2. [at |-> "soul.read", text |-> work[w].text] \in Tasks BY <2>1 DEF Tasks, Saying
  <2> QED BY <1>1, <2>2 DEF SoulWritten, At, Path
<1>2. ASSUME SoulReads(w) PROVE Path(w, "soul.read", "soul.write")
  <2>1. work[w] \in Saying BY <1>2, TaskOf DEF SoulReads, At
  <2>2. meta.name \in Names \cup {None} BY DEF FilesTyped
  <2>3. [at |-> "soul.write", text |-> work[w].text, name |-> meta.name] \in Tasks
    BY <2>1, <2>2 DEF Tasks, Saying, Telling
  <2> QED BY <1>2, <2>3 DEF SoulReads, At, Path
<1>3. ASSUME RulesWritten(w) PROVE Path(w, "rules.lock", "rules.record")
  <2>1. work[w] \in Ruling BY <1>3, TaskOf DEF RulesWritten, At
  <2>2. [at |-> "rules.record", text |-> work[w].text] \in Tasks
    BY <2>1 DEF Tasks, Ruling
  <2> QED BY <1>3, <2>2 DEF RulesWritten, At, Path
<1>4. ASSUME GrantsRecorded(w) PROVE Path(w, "grants.lock", "grants.now")
  <2>1. work[w] \in Granting BY <1>4, TaskOf DEF GrantsRecorded, At
  <2>2. [at |-> "grants.now", previous |-> grants, refused |-> work[w].refused] \in Tasks
    BY <2>1 DEF FilesTyped, Tasks, Granting, Granted
  <2> QED BY <1>4, <2>2 DEF GrantsRecorded, At, Path
<1>5. ASSUME NEW by \in By, NEW previous \in SUBSET Servers, ReadsConfig(w, by, previous)
      PROVE  Path(w, work[w].at, "write")
  <2> DEFINE next == [at |-> "write", by |-> by, want |-> grants \cap catalogue,
                      named |-> catalogue \cup previous \cup grants]
  <2>1. /\ grants \cap catalogue \in SUBSET Servers
        /\ catalogue \cup previous \cup grants \in SUBSET Servers
    BY DEF FilesTyped
  <2>2. next \in Tasks BY <2>1 DEF Tasks, Writing
  <2> QED BY <1>5, <2>2 DEF ReadsConfig, Path
<1>6. ASSUME GrantsRead(w) PROVE Path(w, "grants.now", "write")
  <2>1. work[w] \in Granted /\ work[w].at = "grants.now"
    BY <1>6, TaskOf DEF GrantsRead, At
  <2>2. work[w].previous \in SUBSET Servers /\ "grants" \in By BY <2>1 DEF Granted, By
  <2> QED BY <1>5, <1>6, <2>1, <2>2 DEF GrantsRead
<1>7. ASSUME RewriteReads(w) PROVE Path(w, "rewrite.now", "write")
  <2>1. work[w] \in Rewriting /\ work[w].at = "rewrite.now"
    BY <1>7, TaskOf DEF RewriteReads, At
  <2>2. work[w].by \in By /\ {} \in SUBSET Servers BY <2>1 DEF Rewriting, By
  <2> QED BY <1>5, <1>7, <2>1, <2>2 DEF RewriteReads
<1>8. ASSUME ConfigWritten(w) PROVE Path(w, "write", "clear")
  <2>1. work[w] \in Writing BY <1>8, TaskOf DEF ConfigWritten, At
  <2>2. [at |-> "clear", by |-> work[w].by, want |-> work[w].want] \in Tasks
    BY <2>1 DEF Tasks, Writing, Marking
  <2> QED BY <1>8, <2>2 DEF ConfigWritten, At, Path
<1>9. ASSUME RewriteLocks(w) PROVE Path(w, "rewrite.lock", "rewrite.now")
  <2>1. work[w] \in Rewriting BY <1>9, TaskOf DEF RewriteLocks, At
  <2> DEFINE next == [work[w] EXCEPT !.at = "rewrite.now"]
  <2>2. next \in Rewriting /\ next.at = "rewrite.now" BY <2>1 DEF Rewriting
  <2>3. Goes(w, next) /\ work[w].at = "rewrite.lock" BY <1>9 DEF RewriteLocks, At
  <2> HIDE DEF next
  <2>4. next \in Tasks BY <2>2 DEF Tasks
  <2> QED BY <2>2, <2>3, <2>4 DEF Path
<1>10. ASSUME SettingsWritten(w) PROVE Path(w, "catalogue.set", "catalogue.after")
  <2>1. work[w] \in Setting BY <1>10, TaskOf DEF SettingsWritten, At
  <2>2. [at |-> "catalogue.after", before |-> work[w].before] \in Tasks
    BY <2>1 DEF Tasks, Setting, Following
  <2> QED BY <1>10, <2>2 DEF SettingsWritten, At, Path
<1>11. ASSUME CatalogueChanged(w)
       PROVE  Path(w, "catalogue.after", "idle")
                  \/ Path(w, "catalogue.after", "catalogue.boxes")
  <2> DEFINE changed == (work[w].before \cup catalogue) \ (work[w].before \cap catalogue)
             next == [at |-> "catalogue.boxes", changed |-> changed]
  <2>1. work[w] \in Following BY <1>11, TaskOf DEF CatalogueChanged, At
  <2>2. changed \in SUBSET Servers BY <2>1 DEF FilesTyped, Following
  <2>3. next \in Tasks
    <3> HIDE DEF changed
    <3> QED BY <2>2 DEF Tasks, Spreading
  <2>4. work[w].at = "catalogue.after" /\ (Goes(w, Idle) \/ Goes(w, next))
    BY <1>11 DEF CatalogueChanged, At, Ends
  <2>5. next.at = "catalogue.boxes" OBVIOUS
  <2> HIDE DEF next
  <2> QED BY <2>3, <2>4, <2>5, <1>0 DEF Path
<1>12. ASSUME NEW by \in {"wake", "catalogue"}, Rewrites(w, by)
       PROVE Path(w, work[w].at, "rewrite.lock")
  <2>1. [at |-> "rewrite.lock", by |-> by] \in Tasks BY DEF Tasks, Rewriting
  <2> QED BY <1>12, <2>1 DEF Rewrites, Path
<1>13. ASSUME RewritesConfigs(w)
       PROVE  Path(w, "catalogue.boxes", "idle")
                  \/ Path(w, "catalogue.boxes", "rewrite.lock")
  <2>1. work[w].at = "catalogue.boxes" /\ (Goes(w, Idle) \/ Rewrites(w, "catalogue"))
    BY <1>13 DEF RewritesConfigs, At, Ends
  <2> QED BY <1>0, <1>12, <2>1 DEF Path
<1>14. ASSUME WakeMoves(w)
       PROVE Path(w, "wake.row", "idle") \/ Path(w, "wake.row", "wake.pending")
  <2>1. [at |-> "wake.pending"] \in Tasks BY DEF Tasks, Woken
  <2> QED BY <1>0, <1>14, <2>1 DEF WakeMoves, At, Ends, Path
<1>15. ASSUME WakeLooks(w)
       PROVE Path(w, "wake.pending", "idle") \/ Path(w, "wake.pending", "rewrite.lock")
  <2>1. work[w].at = "wake.pending" /\ (Goes(w, Idle) \/ Rewrites(w, "wake"))
    BY <1>15 DEF WakeLooks, At, Ends
  <2> QED BY <1>0, <1>12, <2>1 DEF Path
<1> QED
  BY <1>1, <1>2, <1>3, <1>4, <1>6, <1>7, <1>8, <1>9, <1>10, <1>11, <1>13, <1>14, <1>15

(* Every step of Step(w), by its path.                                     *)
LEMMA Paths ==
    ASSUME FilesTyped, NEW w \in Workers, Step(w)
    PROVE  \E from, to : Path(w, from, to)
BY Begun, Ended, GoneOn DEF Step, Said

Other ==
    \/ \E to \in {"running", "stopped", "paused", "torn_down"} : BoxMoves(to)
    \/ UNCHANGED vars

LEMMA NextSteps == [Next]_vars => (\E w \in Workers : Step(w)) \/ Other \/ Crash
BY DEF Next, Other

LEMMA FilesTypedInit == Init => FilesTyped
<1> SUFFICES ASSUME Init PROVE FilesTyped OBVIOUS
<1>1. Idle \in Tasks BY DEF Tasks
<1> QED BY <1>1 DEF Init, FilesTyped, Said

LEMMA FilesTypedNext == FilesTyped /\ [Next]_vars => FilesTyped'
<1> SUFFICES ASSUME FilesTyped, [Next]_vars PROVE FilesTyped' OBVIOUS
<1>1. work' \in [Workers -> Tasks]
  <2>1. ASSUME NEW w \in Workers, Step(w) PROVE work' \in [Workers -> Tasks]
    BY <2>1, Paths, FilesGoesTyped DEF Path
  <2>2. Other => UNCHANGED work BY DEF Other, BoxMoves, vars
  <2>3. CASE Crash BY <2>3 DEF Crash, Tasks
  <2> QED BY <2>1, <2>2, <2>3, NextSteps DEF FilesTyped
<1>2. ASSUME NEW w \in Workers, Step(w),
                 UNCHANGED <<catalogue, grants, entries, dropped, meta>>
      PROVE  FilesTyped'
  BY <1>1, <1>2 DEF FilesTyped
<1>3. ASSUME NEW w \in Workers, MetaWrites(w) \/ SoulRecorded(w) PROVE FilesTyped'
  <2>1. work[w].name \in Names \cup {None} /\ work[w].text \in Said
    BY <1>3, TaskOf DEF MetaWrites, SoulRecorded, At, Renaming, Telling
  <2>2. meta' = [name |-> work[w].name, text |-> work[w].text]
        /\ UNCHANGED <<catalogue, grants, entries, dropped>>
    BY <1>3 DEF MetaWrites, SoulRecorded, SetBoxMeta, files, history
  <2> QED BY <1>1, <2>1, <2>2 DEF FilesTyped
<1>4. ASSUME NEW w \in Workers, GrantsRecorded(w) PROVE FilesTyped'
  <2>1. work[w].grants \in SUBSET Servers
    BY <1>4, TaskOf DEF GrantsRecorded, At, Granting
  <2> QED BY <1>1, <1>4, <2>1 DEF GrantsRecorded, FilesTyped, files, history
<1>5. ASSUME NEW w \in Workers, ConfigWritten(w) \/ ConfigFails(w) PROVE FilesTyped'
  <2>1. work[w].want \in SUBSET Servers
    BY <1>5, TaskOf DEF ConfigWritten, ConfigFails, At, Writing
  <2>2. Merged(w) \in SUBSET Servers BY <2>1 DEF Merged, FilesTyped
  <2>3. entries' \in {entries, Merged(w)}
            /\ UNCHANGED <<catalogue, grants, dropped, meta>>
    BY <1>5 DEF ConfigWritten, ConfigFails, rows, history
  <2> QED BY <1>1, <2>2, <2>3 DEF FilesTyped
<1>6. ASSUME NEW w \in Workers, SettingsWritten(w) PROVE FilesTyped'
  <2>1. work[w].to \in SUBSET Servers BY <1>6, TaskOf DEF SettingsWritten, At, Setting
  <2> QED BY <1>1, <1>6, <2>1 DEF SettingsWritten, FilesTyped, rows, files
<1>7. ASSUME NEW w \in Workers,
             \/ \E name \in Names : SetMeta(w, name)
             \/ \E text \in Texts \cup {None} : SetInstructions(w, text)
                    \/ PutRules(w, text)
             \/ \E s \in SUBSET Servers : PutGrants(w, s) \/ PutSettings(w, s)
             \/ Wake(w) \/ WakeMoves(w) \/ WakeLooks(w)
      PROVE  UNCHANGED <<catalogue, grants, entries, dropped, meta>>
  BY <1>7 DEF SetMeta, SetInstructions, PutRules, PutGrants, PutSettings, Wake,
     WakeMoves, WakeLooks, rows, files, history
<1>8. ASSUME NEW w \in Workers,
             \/ SoulWritten(w) \/ SoulFails(w) \/ SoulReads(w)
             \/ RulesWritten(w) \/ RulesFail(w) \/ RulesRecorded(w)
             \/ GrantsRefused(w) \/ GrantsPending(w) \/ GrantsRead(w) \/ ConfigCleared(w)
      PROVE  UNCHANGED <<catalogue, grants, entries, dropped, meta>>
  BY <1>8 DEF SoulWritten, SoulFails, SoulReads, RulesWritten, RulesFail, RulesRecorded,
     GrantsRefused, GrantsPending, MarksPending, GrantsRead, ReadsConfig, ConfigCleared,
     rows, files, history
<1>9. ASSUME NEW w \in Workers,
             \/ RewriteLocks(w) \/ RewriteDeferred(w) \/ RewriteReads(w)
             \/ CatalogueChanged(w) \/ RewritesConfigs(w)
      PROVE  UNCHANGED <<catalogue, grants, entries, dropped, meta>>
  BY <1>9 DEF RewriteLocks, RewriteDeferred, MarksPending, RewriteReads, ReadsConfig,
     CatalogueChanged, RewritesConfigs, rows, files, history
<1>10. Other \/ Crash => UNCHANGED <<catalogue, grants, entries, dropped, meta>>
  BY DEF Other, BoxMoves, Crash, vars, rows, files, history
<1>11. ASSUME NEW w \in Workers, Step(w) PROVE FilesTyped'
  BY <1>2, <1>3, <1>4, <1>5, <1>6, <1>7, <1>8, <1>9, <1>11 DEF Step
<1>12. CASE Other \/ Crash BY <1>1, <1>10, <1>12 DEF FilesTyped
<1> QED BY <1>11, <1>12, NextSteps

(* The lock of config.yaml is held by who is past it, and by nobody else.  *)
LEMMA LockedNext == FilesTyped /\ Locked /\ [Next]_vars => Locked'
<1> SUFFICES ASSUME FilesTyped, Locked, [Next]_vars PROVE Locked' OBVIOUS
<1>a. ASSUME NEW w \in Workers, NEW from, NEW to, Path(w, from, to),
             \/ UNCHANGED lock /\ (from \in LockedAt <=> to \in LockedAt)
             \/ lock = None /\ lock' = w /\ to \in LockedAt
             \/ from \in LockedAt /\ lock' = None /\ to \notin LockedAt
      PROVE  Locked'
  <2>1. work[w].at = from /\ work'[w].at = to /\ \A v \in Workers : v # w
            => work'[v] = work[v]
    BY <1>a, FilesGoesTo DEF Path
  <2>2. \A v \in Workers : v # None BY NoneAssumption
  <2> QED BY <1>a, <2>1, <2>2 DEF Locked
<1> USE DEF LockedAt
<1>1. ASSUME NEW w \in Workers,
             \/ \E name \in Names : SetMeta(w, name)
             \/ \E text \in Texts \cup {None} : SetInstructions(w, text)
                    \/ PutRules(w, text)
             \/ \E s \in SUBSET Servers : PutGrants(w, s) \/ PutSettings(w, s)
             \/ Wake(w)
      PROVE  Locked'
  <2>1. UNCHANGED lock
    BY <1>1 DEF SetMeta, SetInstructions, PutRules, PutGrants, PutSettings, Wake
  <2>2. \E to \in {"meta.write", "soul.exec", "rules.lock", "grants.lock", "catalogue.set",
            "wake.row"} :
          Path(w, "idle", to)
    BY <1>1, Begun DEF Said
  <2> QED BY <2>1, <2>2, <1>a
<1>2. ASSUME NEW w \in Workers, MetaWrites(w) \/ SoulFails(w) \/ SoulRecorded(w)
                 \/ RulesFail(w)
      PROVE  Locked'
  <2>1. UNCHANGED lock BY <1>2 DEF MetaWrites, SoulFails, SoulRecorded, RulesFail
  <2> QED BY <1>2, <2>1, <1>a, Ended
<1>3. ASSUME NEW w \in Workers, SoulWritten(w) \/ SoulReads(w) PROVE Locked'
  <2>1. UNCHANGED lock BY <1>3 DEF SoulWritten, SoulReads
  <2> QED BY <1>3, <2>1, <1>a, GoneOn
<1>4. ASSUME NEW w \in Workers, RulesWritten(w) \/ GrantsRecorded(w) \/ RewriteLocks(w)
      PROVE Locked'
  <2>1. lock = None /\ lock' = w
    BY <1>4 DEF RulesWritten, GrantsRecorded, RewriteLocks, Takes
  <2> QED BY <1>4, <2>1, <1>a, GoneOn
<1>5. ASSUME NEW w \in Workers,
             \/ RulesRecorded(w) \/ GrantsRefused(w) \/ GrantsPending(w)
             \/ ConfigFails(w) \/ ConfigCleared(w) \/ RewriteDeferred(w)
      PROVE  Locked'
  <2>1. lock' = None
    BY <1>5 DEF RulesRecorded, GrantsRefused, GrantsPending, MarksPending, ConfigFails,
       ConfigCleared, RewriteDeferred, Releases
  <2> QED BY <1>5, <2>1, <1>a, Ended
<1>6. ASSUME NEW w \in Workers,
             \/ GrantsRead(w) \/ ConfigWritten(w) \/ RewriteReads(w)
             \/ SettingsWritten(w) \/ CatalogueChanged(w) \/ RewritesConfigs(w)
             \/ WakeMoves(w) \/ WakeLooks(w)
      PROVE  Locked'
  <2>1. UNCHANGED lock
    BY <1>6 DEF GrantsRead, ReadsConfig, ConfigWritten, RewriteReads, SettingsWritten,
       CatalogueChanged, RewritesConfigs, WakeMoves, WakeLooks
  <2> QED BY <1>6, <2>1, <1>a, GoneOn
<1>7. CASE Other
  <2>1. UNCHANGED <<work, lock>> BY <1>7 DEF Other, BoxMoves, vars
  <2> QED BY <2>1 DEF Locked
<1>8. CASE Crash
  <2>1. (\A w \in Workers : work'[w].at = "idle" /\ w # None) /\ lock' = None
    BY <1>8, NoneAssumption DEF Crash, Idle
  <2> QED BY <2>1 DEF Locked
<1> QED BY <1>1, <1>2, <1>3, <1>4, <1>5, <1>6, <1>7, <1>8, NextSteps DEF Step

LEMMA OneHolder ==
    ASSUME Locked, NEW v \in Workers, NEW w \in Workers, work[v].at \in LockedAt,
               work[w].at \in LockedAt
    PROVE  v = w
BY DEF Locked

(* Rules are written and recorded under the lock.                          *)
LEMMA RulesFollowNext ==
    FilesTyped /\ Locked /\ RulesFollow /\ [Next]_vars => RulesFollow'
<1> SUFFICES ASSUME FilesTyped, Locked, RulesFollow, [Next]_vars
    PROVE RulesFollow' OBVIOUS
<1>a. ASSUME NEW w \in Workers, NEW from, NEW to, Path(w, from, to),
             from # "rules.record", to # "rules.record", UNCHANGED <<rules, boxRules>>,
             "rules" \in unsure => "rules" \in unsure'
      PROVE  RulesFollow'
  <2>1. work[w].at = from /\ work'[w].at = to /\ \A v \in Workers : v # w
            => work'[v] = work[v]
    BY <1>a, FilesGoesTo DEF Path
  <2> QED BY <1>a, <2>1 DEF RulesFollow
<1>1. ASSUME NEW w \in Workers,
             \/ \E name \in Names : SetMeta(w, name)
             \/ \E text \in Texts \cup {None} : SetInstructions(w, text)
                    \/ PutRules(w, text)
             \/ \E s \in SUBSET Servers : PutGrants(w, s) \/ PutSettings(w, s)
             \/ Wake(w)
      PROVE  RulesFollow'
  <2>1. UNCHANGED <<rules, boxRules, unsure>>
    BY <1>1 DEF SetMeta, SetInstructions, PutRules, PutGrants, PutSettings, Wake, rows,
       files, history
  <2>2. \E to \in {"meta.write", "soul.exec", "rules.lock", "grants.lock", "catalogue.set",
            "wake.row"} :
          Path(w, "idle", to)
    BY <1>1, Begun DEF Said
  <2> QED BY <2>1, <2>2, <1>a
<1>2. ASSUME NEW w \in Workers,
             \/ MetaWrites(w) \/ SoulFails(w) \/ SoulRecorded(w) \/ GrantsRefused(w)
                    \/ GrantsPending(w)
             \/ ConfigFails(w) \/ ConfigCleared(w) \/ RewriteDeferred(w)
      PROVE  RulesFollow'
  <2>1. UNCHANGED <<rules, boxRules>> /\ ("rules" \in unsure => "rules" \in unsure')
    BY <1>2 DEF MetaWrites, SoulFails, SoulRecorded, GrantsRefused, GrantsPending,
       MarksPending, ConfigFails, ConfigCleared, RewriteDeferred, SetBoxMeta, rows,
       files, history
  <2> QED BY <1>2, <2>1, <1>a, Ended
<1>3. ASSUME NEW w \in Workers,
             \/ SoulWritten(w) \/ SoulReads(w) \/ GrantsRecorded(w) \/ GrantsRead(w)
                    \/ ConfigWritten(w)
             \/ RewriteLocks(w) \/ RewriteReads(w)
             \/ SettingsWritten(w) \/ CatalogueChanged(w) \/ RewritesConfigs(w)
             \/ WakeMoves(w) \/ WakeLooks(w)
      PROVE  RulesFollow'
  <2>1. UNCHANGED <<rules, boxRules>> /\ ("rules" \in unsure => "rules" \in unsure')
    BY <1>3 DEF SoulWritten, SoulReads, GrantsRecorded, GrantsRead, ReadsConfig,
       ConfigWritten, RewriteLocks, RewriteReads, SettingsWritten, CatalogueChanged,
       RewritesConfigs, WakeMoves, WakeLooks, rows, files, history
  <2> QED BY <1>3, <2>1, <1>a, GoneOn
<1>4. ASSUME NEW w \in Workers, RulesWritten(w) PROVE RulesFollow'
  <2>1. lock = None /\ boxRules' = work[w].text
        /\ Goes(w, [at |-> "rules.record", text |-> work[w].text])
    BY <1>4 DEF RulesWritten, Takes
  <2>2. work'[w] = [at |-> "rules.record", text |-> work[w].text]
        /\ \A v \in Workers : v # w => work'[v] = work[v]
    BY <2>1, FilesGoesTo
  <2>3. \A v \in Workers : work[v].at # "rules.record"
    BY <2>1, NoneAssumption DEF Locked, LockedAt
  <2> QED BY <2>1, <2>2, <2>3 DEF RulesFollow
<1>5. ASSUME NEW w \in Workers, RulesFail(w) PROVE RulesFollow'
  <2>1. lock = None /\ "rules" \in unsure' /\ Path(w, "rules.lock", "idle")
    BY <1>5, Ended DEF RulesFail
  <2>2. work'[w].at = "idle" /\ \A v \in Workers : v # w => work'[v] = work[v]
    BY <2>1, FilesGoesTo DEF Path
  <2>3. \A v \in Workers : work[v].at # "rules.record"
    BY <2>1, NoneAssumption DEF Locked, LockedAt
  <2> QED BY <2>1, <2>2, <2>3 DEF RulesFollow
<1>6. ASSUME NEW w \in Workers, RulesRecorded(w) PROVE RulesFollow'
  <2>1. work[w].at = "rules.record" /\ Path(w, "rules.record", "idle")
        /\ rules' = work[w].text /\ boxRules' = boxRules
    BY <1>6, Ended DEF RulesRecorded, At, files
  <2>2. work'[w].at = "idle" /\ \A v \in Workers : v # w => work'[v] = work[v]
    BY <2>1, FilesGoesTo DEF Path
  <2>3. \A v \in Workers : v # w => work[v].at # "rules.record"
    BY <2>1, OneHolder DEF LockedAt
  <2> QED BY <2>1, <2>2, <2>3 DEF RulesFollow
<1>7. CASE Other
  <2>1. UNCHANGED <<work, rules, boxRules, unsure>>
    BY <1>7 DEF Other, BoxMoves, vars, rows, files, history
  <2> QED BY <2>1 DEF RulesFollow
<1>8. CASE Crash
  <2>1. (\A w \in Workers : work'[w].at = "idle") /\ UNCHANGED <<rules, boxRules>>
    BY <1>8 DEF Crash, Idle, rows, files
  <2>2. ASSUME "rules" \notin unsure' PROVE rules = boxRules
    <3>1. \A w \in Workers : CutOff(w) \subseteq unsure' /\ "rules" \notin unsure
      BY <1>8, <2>2 DEF Crash
    <3>2. \A w \in Workers : work[w].at = "rules.record" => CutOff(w) = {"rules"}
      BY DEF CutOff
    <3>3. \A w \in Workers : work[w].at # "rules.record" BY <2>2, <3>1, <3>2
    <3>4. "rules" \notin unsure BY <1>8, <2>2 DEF Crash
    <3> QED BY <3>3, <3>4 DEF RulesFollow
  <2> QED BY <2>1, <2>2 DEF RulesFollow
<1> QED BY <1>1, <1>2, <1>3, <1>4, <1>5, <1>6, <1>7, <1>8, NextSteps DEF Step

(* Saves of names and instructions that do not overlap see each other.     *)
LEMMA SoulFollowsNext ==
    FilesTyped /\ SoulFollows /\ [Next]_vars => SoulFollows'
<1> SUFFICES ASSUME FilesTyped, SoulFollows, [Next]_vars, ~crossed' PROVE SoulFollows'
  BY DEF SoulFollows
<1>a. ASSUME NEW w \in Workers, NEW from, NEW to, Path(w, from, to),
             from \notin MetaAt, to \notin MetaAt, UNCHANGED <<meta, soul, crossed>>,
             "soul" \in unsure => "soul" \in unsure'
      PROVE  SoulFollows'
  <2>1. work[w].at = from /\ work'[w].at = to /\ \A v \in Workers : v # w
            => work'[v] = work[v]
    BY <1>a, FilesGoesTo DEF Path
  <2> QED BY <1>a, <2>1 DEF SoulFollows, MetaAt
<1>b. ASSUME NEW w \in Workers, NEW from, NEW to, Path(w, from, to),
             work[w].at \in MetaAt, ~crossed,
             to = "meta.write" => work'[w].text = meta'.text,
             to \in {"soul.read", "soul.write"} => work'[w].text = soul',
             "soul" \notin unsure' /\ to \notin {"soul.read", "soul.write"}
                 => meta'.text = soul'
      PROVE  SoulFollows'
  <2>1. work'[w].at = to /\ \A v \in Workers : v # w => work'[v] = work[v]
    BY <1>b, FilesGoesTo DEF Path
  <2>2. \A v \in Workers : v # w => work[v].at \notin MetaAt BY <1>b DEF SoulFollows
  <2>3. \A v \in Workers : v # w => work'[v].at \notin MetaAt BY <2>1, <2>2
  <2> QED BY <1>b, <2>1, <2>3 DEF SoulFollows, MetaAt
<1>c. ASSUME NEW w \in Workers, NEW to, Path(w, "idle", to), Overlaps,
             to \notin {"soul.read", "soul.write"},
             UNCHANGED <<meta, soul, unsure>>, to = "meta.write"
                           => work'[w].text = meta.text
      PROVE  SoulFollows'
  <2>1. work[w].at = "idle" /\ work'[w].at = to /\ \A v \in Workers : v # w
            => work'[v] = work[v]
    BY <1>c, FilesGoesTo DEF Path
  <2>2. ~crossed /\ \A v \in Workers : work[v].at \notin MetaAt BY <1>c DEF Overlaps
  <2> QED BY <1>c, <2>1, <2>2 DEF SoulFollows, MetaAt
<1>1. ASSUME NEW w \in Workers, NEW name \in Names, SetMeta(w, name) PROVE SoulFollows'
  <2>1. Path(w, "idle", "meta.write") /\ Overlaps /\ UNCHANGED <<meta, soul, unsure>>
    BY <1>1, Begun DEF SetMeta, rows, files
  <2>2. work'[w] = [at |-> "meta.write", name |-> name, text |-> meta.text]
    BY <1>1, FilesBeginsGoes, FilesGoesTo DEF SetMeta
  <2> QED BY <2>1, <2>2, <1>c
<1>2. ASSUME NEW w \in Workers, NEW text \in Said, SetInstructions(w, text)
      PROVE SoulFollows'
  <2>1. Path(w, "idle", "soul.exec") /\ Overlaps /\ UNCHANGED <<meta, soul, unsure>>
    BY <1>2, Begun DEF SetInstructions, rows, files
  <2> QED BY <2>1, <1>c
<1>3. ASSUME NEW w \in Workers, MetaWrites(w) PROVE SoulFollows'
  <2>1. work[w].at = "meta.write" /\ Path(w, "meta.write", "idle")
            /\ meta'.text = work[w].text
        /\ UNCHANGED <<soul, unsure, crossed>>
    BY <1>3, Ended DEF MetaWrites, SetBoxMeta, At, files, history
  <2>2. work[w].at \in MetaAt BY <2>1 DEF MetaAt
  <2>3. work[w].text = meta.text BY <2>1 DEF SoulFollows
  <2>4. \A v \in Workers : work[v].at \notin {"soul.read", "soul.write"}
    BY <2>1, <2>2 DEF SoulFollows, MetaAt
  <2>5. "soul" \notin unsure => meta.text = soul BY <2>1, <2>4 DEF SoulFollows
  <2> QED BY <2>1, <2>2, <2>3, <2>5, <1>b
<1>4. ASSUME NEW w \in Workers, SoulWritten(w) PROVE SoulFollows'
  <2>1. work[w].at = "soul.exec" /\ Path(w, "soul.exec", "soul.read")
            /\ soul' = work[w].text
        /\ UNCHANGED crossed /\ Goes(w, [at |-> "soul.read", text |-> work[w].text])
    BY <1>4, GoneOn DEF SoulWritten, At, history
  <2>2. work'[w].text = work[w].text BY <2>1, FilesGoesTo
  <2>3. work[w].at \in MetaAt BY <2>1 DEF MetaAt
  <2> QED BY <2>1, <2>2, <2>3, <1>b
<1>5. ASSUME NEW w \in Workers, SoulFails(w) PROVE SoulFollows'
  <2>1. work[w].at = "soul.exec" /\ Path(w, "soul.exec", "idle") /\ "soul" \in unsure'
        /\ UNCHANGED crossed
    BY <1>5, Ended DEF SoulFails, At
  <2>2. work[w].at \in MetaAt BY <2>1 DEF MetaAt
  <2> QED BY <2>1, <2>2, <1>b
<1>6. ASSUME NEW w \in Workers, SoulReads(w) PROVE SoulFollows'
  <2>1. work[w].at = "soul.read" /\ Path(w, "soul.read", "soul.write") /\ soul' = soul
        /\ UNCHANGED crossed
        /\ Goes(w, [at |-> "soul.write", text |-> work[w].text, name |-> meta.name])
    BY <1>6, GoneOn DEF SoulReads, At, files, history
  <2>2. work'[w].text = work[w].text BY <2>1, FilesGoesTo
  <2>3. work[w].at \in MetaAt /\ work[w].text = soul BY <2>1 DEF MetaAt, SoulFollows
  <2> QED BY <2>1, <2>2, <2>3, <1>b
<1>7. ASSUME NEW w \in Workers, SoulRecorded(w) PROVE SoulFollows'
  <2>1. work[w].at = "soul.write" /\ Path(w, "soul.write", "idle")
            /\ meta'.text = work[w].text
        /\ UNCHANGED <<soul, crossed>>
    BY <1>7, Ended DEF SoulRecorded, SetBoxMeta, At, files
  <2>2. work[w].at \in MetaAt /\ work[w].text = soul BY <2>1 DEF MetaAt, SoulFollows
  <2> QED BY <2>1, <2>2, <1>b
<1> USE DEF MetaAt
<1>8. ASSUME NEW w \in Workers,
             \/ \E text \in Texts \cup {None} : PutRules(w, text)
             \/ \E s \in SUBSET Servers : PutGrants(w, s) \/ PutSettings(w, s)
             \/ Wake(w)
      PROVE  SoulFollows'
  <2>1. UNCHANGED <<meta, soul, crossed, unsure>>
    BY <1>8 DEF PutRules, PutGrants, PutSettings, Wake, rows, files, history
  <2>2. \E to \in {"rules.lock", "grants.lock", "catalogue.set", "wake.row"} :
            Path(w, "idle", to)
    BY <1>8, Begun DEF Said
  <2> QED BY <2>1, <2>2, <1>a
<1>9. ASSUME NEW w \in Workers,
             \/ RulesFail(w) \/ RulesRecorded(w) \/ GrantsRefused(w) \/ GrantsPending(w)
             \/ ConfigFails(w) \/ ConfigCleared(w) \/ RewriteDeferred(w)
      PROVE  SoulFollows'
  <2>1. UNCHANGED <<meta, soul, crossed>> /\ ("soul" \in unsure => "soul" \in unsure')
    BY <1>9 DEF RulesFail, RulesRecorded, GrantsRefused, GrantsPending, MarksPending,
       ConfigFails, ConfigCleared, RewriteDeferred, rows, files, history
  <2> QED BY <1>9, <2>1, <1>a, Ended
<1>10. ASSUME NEW w \in Workers,
             \/ RulesWritten(w) \/ GrantsRecorded(w) \/ GrantsRead(w) \/ ConfigWritten(w)
             \/ RewriteLocks(w) \/ RewriteReads(w)
             \/ SettingsWritten(w) \/ CatalogueChanged(w) \/ RewritesConfigs(w)
             \/ WakeMoves(w) \/ WakeLooks(w)
       PROVE  SoulFollows'
  <2>1. UNCHANGED <<meta, soul, crossed>> /\ ("soul" \in unsure => "soul" \in unsure')
    BY <1>10 DEF RulesWritten, GrantsRecorded, GrantsRead, ReadsConfig, ConfigWritten,
       RewriteLocks, RewriteReads, SettingsWritten, CatalogueChanged, RewritesConfigs,
       WakeMoves, WakeLooks, rows, files, history
  <2> QED BY <1>10, <2>1, <1>a, GoneOn
<1>11. CASE Other
  <2>1. UNCHANGED <<work, meta, soul, crossed, unsure>>
    BY <1>11 DEF Other, BoxMoves, vars, rows, files, history
  <2> QED BY <2>1 DEF SoulFollows
<1>12. CASE Crash
  <2>1. (\A w \in Workers : work'[w].at = "idle") /\ UNCHANGED <<meta, soul, crossed>>
    BY <1>12 DEF Crash, Idle, rows, files
  <2>2. ASSUME "soul" \notin unsure' PROVE meta.text = soul
    <3>1. "soul" \notin unsure /\ \A w \in Workers : "soul" \notin CutOff(w)
      BY <1>12, <2>2 DEF Crash
    <3>2. \A w \in Workers : work[w].at \in {"soul.read", "soul.write"}
              => CutOff(w) = {"soul"}
      BY DEF CutOff
    <3>3. \A w \in Workers : work[w].at \notin {"soul.read", "soul.write"} BY <3>1, <3>2
    <3> QED BY <2>1, <3>1, <3>3 DEF SoulFollows
  <2> QED BY <2>1, <2>2 DEF SoulFollows
<1> QED
  BY <1>1, <1>2, <1>3, <1>4, <1>5, <1>6, <1>7, <1>8, <1>9, <1>10, <1>11, <1>12,
     NextSteps DEF Step, Said
(* What has left the catalogue is remembered.                              *)
LEMMA OfferedNext == Offered /\ [Next]_vars => Offered'
<1> SUFFICES ASSUME Offered, [Next]_vars PROVE Offered' OBVIOUS
<1>1. ASSUME NEW w \in Workers, SettingsWritten(w) PROVE Offered'
  BY <1>1 DEF SettingsWritten, Offered
<1>2. ASSUME NEW w \in Workers,
             \/ \E name \in Names : SetMeta(w, name)
             \/ \E text \in Texts \cup {None} : SetInstructions(w, text)
                    \/ PutRules(w, text)
             \/ \E s \in SUBSET Servers : PutGrants(w, s) \/ PutSettings(w, s)
             \/ Wake(w) \/ WakeMoves(w) \/ WakeLooks(w)
      PROVE  UNCHANGED <<catalogue, dropped>>
  BY <1>2 DEF SetMeta, SetInstructions, PutRules, PutGrants, PutSettings, Wake,
     WakeMoves, WakeLooks, history
<1>3. ASSUME NEW w \in Workers,
             \/ MetaWrites(w) \/ SoulWritten(w) \/ SoulFails(w) \/ SoulReads(w)
                    \/ SoulRecorded(w)
             \/ RulesWritten(w) \/ RulesFail(w) \/ RulesRecorded(w)
             \/ GrantsRecorded(w) \/ GrantsRefused(w) \/ GrantsPending(w) \/ GrantsRead(w)
      PROVE  UNCHANGED <<catalogue, dropped>>
  BY <1>3 DEF MetaWrites, SoulWritten, SoulFails, SoulReads, SoulRecorded, RulesWritten,
     RulesFail, RulesRecorded, GrantsRecorded, GrantsRefused, GrantsPending,
     MarksPending, GrantsRead, ReadsConfig, history
<1>4. ASSUME NEW w \in Workers,
             \/ ConfigWritten(w) \/ ConfigFails(w) \/ ConfigCleared(w)
             \/ RewriteLocks(w) \/ RewriteDeferred(w) \/ RewriteReads(w)
             \/ CatalogueChanged(w) \/ RewritesConfigs(w)
      PROVE  UNCHANGED <<catalogue, dropped>>
  BY <1>4 DEF ConfigWritten, ConfigFails, ConfigCleared, RewriteLocks, RewriteDeferred,
     MarksPending, RewriteReads, ReadsConfig, CatalogueChanged, RewritesConfigs, history
<1>5. Other \/ Crash => UNCHANGED <<catalogue, dropped>>
  BY DEF Other, BoxMoves, Crash, vars, history
<1>6. UNCHANGED <<catalogue, dropped>> => Offered' BY DEF Offered
<1> QED BY <1>1, <1>2, <1>3, <1>4, <1>5, <1>6, NextSteps DEF Step

Found == EntriesFollow /\ WritesFollow

(* Who does not move owes, waits and replaces what it did.                 *)
LEMMA Steady ==
    ASSUME FilesTyped, NEW w \in Workers, NEW from, NEW to, Path(w, from, to)
    PROVE  /\ work[w].at = from /\ work'[w].at = to
           /\ \A v \in Workers : v # w =>
                /\ work'[v] = work[v]
                /\ Waits(v)' <=> Waits(v)
                /\ Replaces(v)' <=> Replaces(v)
                /\ UNCHANGED catalogue => \A s : Owes(v, s)' <=> Owes(v, s)
<1>1. work[w].at = from /\ work'[w].at = to /\ \A v \in Workers : v # w
          => work'[v] = work[v]
  BY FilesGoesTo DEF Path
<1> QED BY <1>1 DEF Waits, Replaces, Owes

LEMMA NoOthers ==
    ASSUME Locked, NEW w \in Workers, work[w].at \in LockedAt
    PROVE  \A v \in Workers : v # w => work[v].at \notin {"write", "clear"}
BY DEF Locked, LockedAt

LEMMA NobodyWrites == Locked /\ lock = None
    => \A v \in Workers : work[v].at \notin {"write", "clear"}
BY NoneAssumption DEF Locked, LockedAt

(* A step that leaves the entries alone, and what they should be.          *)
LEMMA Aside ==
    ASSUME FilesTyped, Found, NEW w \in Workers, NEW from, NEW to, Path(w, from, to),
           UNCHANGED <<catalogue, grants, dropped, entries>>,
           Sure' => Sure,
           ~pending' => ~pending,
           Sure' /\ ~pending' /\ Replaces(w) => Replaces(w)',
           Sure' => \A s \in grants : Owes(w, s) => Owes(w, s)' \/ Waits(w)',
           Sure' /\ Waits(w)
               => Waits(w)' \/ \A v \in Workers : work[v].at \notin {"write", "clear"},
           to \in {"write", "clear"} => Coming(w)'
    PROVE  Found'
<1>1. /\ work[w].at = from /\ work'[w].at = to
      /\ \A v \in Workers : v # w =>
           /\ work'[v] = work[v]
           /\ Waits(v)' <=> Waits(v)
           /\ Replaces(v)' <=> Replaces(v)
           /\ \A s : Owes(v, s)' <=> Owes(v, s)
  BY Steady
<1>2. \A v \in Workers : Waits(v)' => Replaces(v)' BY DEF Waits, Replaces
<1>3. EntriesFollow'
  <2> SUFFICES ASSUME Sure', ~pending', \A v \in Workers : ~Replaces(v)'
               PROVE  /\ entries \ grants \subseteq dropped
                      /\ \A s \in Differ(entries \cap grants, catalogue \cap grants) :
                           \E v \in Workers : Owes(v, s)'
    BY DEF EntriesFollow, Differ
  <2>1. Sure /\ ~pending /\ \A v \in Workers : ~Replaces(v) BY <1>1
  <2>2. /\ entries \ grants \subseteq dropped
        /\ \A s \in Differ(entries \cap grants, catalogue \cap grants) : \E v \in Workers :
               Owes(v, s)
    BY <2>1 DEF Found, EntriesFollow
  <2>3. ASSUME NEW s \in Differ(entries \cap grants, catalogue \cap grants)
        PROVE  \E v \in Workers : Owes(v, s)'
    <3>1. s \in grants BY DEF Differ
    <3>2. PICK v \in Workers : Owes(v, s) BY <2>2
    <3>3. CASE v = w BY <1>2, <3>1, <3>2, <3>3
    <3>4. CASE v # w BY <1>1, <3>2, <3>4
    <3> QED BY <3>3, <3>4
  <2> QED BY <2>2, <2>3
<1>4. ASSUME NEW v \in Workers, v # w, work'[v].at \in {"write", "clear"} PROVE Coming(v)'
  <2>1. work'[v] = work[v] /\ work[v].at \in {"write", "clear"} BY <1>1, <1>4
  <2>2. Coming(v) BY <2>1 DEF Found, WritesFollow
  <2>3. ASSUME Sure', NEW s \in Differ(work[v].want, catalogue \cap grants)
        PROVE  \E u \in Workers : Owes(u, s)' \/ Waits(u)'
    <3>1. s \in grants BY <2>2 DEF Differ, Coming
    <3>2. PICK u \in Workers : Owes(u, s) \/ Waits(u) BY <2>2, <2>3 DEF Coming
    <3>3. CASE u = w BY <2>1, <2>3, <3>1, <3>2, <3>3
    <3>4. CASE u # w BY <1>1, <3>2, <3>4
    <3> QED BY <3>3, <3>4
  <2> QED BY <2>1, <2>2, <2>3 DEF Coming, Differ
<1>5. WritesFollow' BY <1>1, <1>4 DEF WritesFollow
<1> QED BY <1>3, <1>5 DEF Found
(* A step of who has no say in the entries.                                *)
LEMMA Elsewhere ==
    ASSUME FilesTyped, Found, NEW w \in Workers, NEW from, NEW to, Path(w, from, to),
           from \notin ServersAt, to \notin ServersAt,
           UNCHANGED <<catalogue, grants, dropped, entries>>, ~pending' => ~pending, Sure'
                         => Sure
    PROVE  Found'
<1>1. work[w].at = from /\ work'[w].at = to BY Steady
<1>2. ~Replaces(w) /\ ~Waits(w) /\ (\A s : ~Owes(w, s)) /\ to \notin {"write", "clear"}
  BY <1>1 DEF Replaces, Waits, Owes, ServersAt
<1> QED BY <1>2, Aside

(* What is written when a save reads the record.                           *)
LEMMA ReadsAreComing ==
    ASSUME FilesTyped, Offered, NEW w \in Workers, NEW by \in By,
               NEW previous \in SUBSET Servers,
           ReadsConfig(w, by, previous)
    PROVE  Coming(w)'
<1>1. /\ work'[w] = [at |-> "write", by |-> by, want |-> grants \cap catalogue,
                     named |-> catalogue \cup previous \cup grants]
      /\ UNCHANGED <<catalogue, grants, dropped, entries>>
  BY FilesGoesTo DEF ReadsConfig, rows, files, history
<1>2. work'[w].want = grants \cap catalogue /\ work'[w].at = "write"
      /\ work'[w].named = catalogue \cup previous \cup grants
  BY <1>1
<1>3. Differ(grants \cap catalogue, catalogue \cap grants) = {} BY DEF Differ
<1>4. Servers \ (catalogue \cup previous \cup grants) \subseteq dropped BY DEF Offered
<1> QED BY <1>1, <1>2, <1>3, <1>4 DEF Coming

(* The record of grants: whoever saved them now replaces the entries.      *)
LEMMA GrantsRecordedFound ==
    ASSUME FilesTyped, Locked, Found, NEW w \in Workers, GrantsRecorded(w)
    PROVE  Found'
<1>1. lock = None /\ Path(w, "grants.lock", "grants.now")
  BY GoneOn DEF GrantsRecorded, Takes
<1>2. work'[w].at = "grants.now" /\ \A v \in Workers : v # w => work'[v] = work[v]
  BY <1>1, Steady
<1>3. \A v \in Workers : work'[v].at \notin {"write", "clear"}
  BY <1>1, <1>2, NobodyWrites
<1>4. Replaces(w)' BY <1>2 DEF Replaces
<1> QED BY <1>3, <1>4 DEF Found, EntriesFollow, WritesFollow

LEMMA ConfigWrittenFound ==
    ASSUME FilesTyped, Locked, Found, NEW w \in Workers, ConfigWritten(w)
    PROVE  Found'
<1>1. /\ Path(w, "write", "clear") /\ entries' = Merged(w)
      /\ Goes(w, [at |-> "clear", by |-> work[w].by, want |-> work[w].want])
      /\ UNCHANGED <<catalogue, grants, pending, dropped, unsure, status>>
  BY GoneOn DEF ConfigWritten, rows, history
<1>2. work[w].at = "write" /\ work'[w].at = "clear" /\ work'[w].want = work[w].want
  BY <1>1, FilesGoesTo DEF Path
<1>3. \A v \in Workers : v # w =>
        /\ work'[v] = work[v] /\ (Waits(v)' <=> Waits(v)) /\ \A s : Owes(v, s)'
               <=> Owes(v, s)
  BY <1>1, Steady
<1>4. Coming(w) BY <1>2 DEF Found, WritesFollow
<1>5. ~Waits(w) /\ \A s : ~Owes(w, s) BY <1>2 DEF Waits, Owes
<1>6. Sure => \A s \in Differ(work[w].want, catalogue \cap grants) :
                \E v \in Workers : Owes(v, s)' \/ Waits(v)'
  BY <1>3, <1>4, <1>5 DEF Coming
<1>7. entries' \cap grants = work[w].want /\ entries' \ grants \subseteq dropped
  BY <1>1, <1>2, <1>4 DEF Coming, Merged, FilesTyped
<1>8. Coming(w)' BY <1>1, <1>2, <1>4, <1>6, <1>7 DEF Coming, Sure, Differ
<1>9. WritesFollow' BY <1>2, <1>3, <1>8, NoOthers DEF WritesFollow, LockedAt
<1>10. EntriesFollow'
  <2>1. \A v \in Workers : Waits(v)' => Replaces(v)' BY DEF Waits, Replaces
  <2> QED BY <1>1, <1>6, <1>7, <2>1 DEF EntriesFollow, Sure, Differ
<1> QED BY <1>9, <1>10 DEF Found

LEMMA ConfigFailsFound ==
    ASSUME FilesTyped, Locked, NEW w \in Workers, ConfigFails(w)
    PROVE  Found'
<1>1. work[w].at = "write" /\ Path(w, "write", "idle") BY Ended DEF ConfigFails, At
<1>2. work'[w].at = "idle" /\ \A v \in Workers : v # w => work'[v] = work[v]
  BY <1>1, Steady
<1>3. WritesFollow' BY <1>1, <1>2, NoOthers DEF WritesFollow, LockedAt
<1>4. pending' \/ ~Sure' BY DEF ConfigFails, Sure
<1> QED BY <1>3, <1>4 DEF Found, EntriesFollow

LEMMA ConfigClearedFound ==
    ASSUME FilesTyped, Locked, Found, NEW w \in Workers, ConfigCleared(w)
    PROVE  Found'
<1>1. /\ Path(w, "clear", "idle") /\ work[w].at = "clear"
      /\ unsure' = IF work[w].want = grants \cap catalogue THEN unsure \ {"servers"} ELSE unsure
      /\ UNCHANGED <<catalogue, grants, entries, dropped, status>>
  BY Ended DEF ConfigCleared, At, files
<1>2. work'[w].at = "idle" BY <1>1, Steady
<1>3. \A v \in Workers : v # w =>
        /\ work'[v] = work[v] /\ (Waits(v)' <=> Waits(v)) /\ \A s : Owes(v, s)'
               <=> Owes(v, s)
  BY <1>1, Steady
<1>4. WritesFollow' BY <1>1, <1>2, <1>3, NoOthers DEF WritesFollow, LockedAt
<1>5. Coming(w) BY <1>1 DEF Found, WritesFollow
<1>6. entries \cap grants = work[w].want /\ entries \ grants \subseteq dropped
  BY <1>1, <1>5 DEF Coming
<1>7. ~Waits(w) /\ \A s : ~Owes(w, s) BY <1>1 DEF Waits, Owes
<1>8. ASSUME Sure', \A v \in Workers : ~Replaces(v)',
             NEW s \in Differ(entries \cap grants, catalogue \cap grants)
      PROVE  \E v \in Workers : Owes(v, s)'
  <2>1. work[w].want # grants \cap catalogue BY <1>6, <1>8 DEF Differ
  <2>2. Sure BY <1>1, <1>8, <2>1 DEF Sure
  <2>3. PICK v \in Workers : Owes(v, s) \/ Waits(v) BY <1>5, <1>6, <1>8, <2>2 DEF Coming
  <2>4. v # w BY <1>7, <2>3
  <2>5. ~Waits(v)' BY <1>8 DEF Waits, Replaces
  <2> QED BY <1>3, <2>3, <2>4, <2>5
<1>9. EntriesFollow' BY <1>1, <1>6, <1>8 DEF EntriesFollow, Differ
<1> QED BY <1>4, <1>9 DEF Found

(* A change of the catalogue owes what it changes.                         *)
LEMMA SettingsWrittenFound ==
    ASSUME FilesTyped, Found, NEW w \in Workers, SettingsWritten(w)
    PROVE  Found'
<1>1. /\ Path(w, "catalogue.set", "catalogue.after") /\ work[w].at = "catalogue.set"
      /\ Goes(w, [at |-> "catalogue.after", before |-> work[w].before])
      /\ dropped \subseteq dropped'
      /\ unsure' = IF catalogue = work[w].before THEN unsure ELSE unsure \cup {"servers"}
      /\ UNCHANGED <<grants, pending, entries, status>>
  BY GoneOn DEF SettingsWritten, At, rows, files
<1>2. work'[w] = [at |-> "catalogue.after", before |-> work[w].before]
  BY <1>1, FilesGoesTo
<1>3. work'[w].at = "catalogue.after" /\ work'[w].before = work[w].before BY <1>2
<1>4. \A v \in Workers : v # w =>
        work'[v] = work[v] /\ (Waits(v)' <=> Waits(v)) /\ (Replaces(v)' <=> Replaces(v))
  BY <1>1, Steady
<1>5. ~Waits(w) /\ ~Replaces(w) /\ \A s : ~Owes(w, s) BY <1>1 DEF Waits, Replaces, Owes
<1>6. ASSUME Sure' PROVE Sure /\ catalogue = work[w].before BY <1>1, <1>6 DEF Sure
<1>7. ASSUME Sure', NEW s, s \in Differ(catalogue, catalogue') PROVE Owes(w, s)'
  BY <1>3, <1>6, <1>7 DEF Owes
<1>8. ASSUME NEW s, s \notin Differ(catalogue, catalogue'), NEW v \in Workers, Owes(v, s)
      PROVE  Owes(v, s)'
  <2>1. work'[v] = work[v] BY <1>4, <1>5, <1>8
  <2> QED BY <1>8, <2>1 DEF Owes, Differ
<1>9. ASSUME Sure', NEW X, NEW s, s \in Differ(X, (catalogue \cap grants)'),
             \A r \in Differ(X, catalogue \cap grants) : \E v \in Workers : Owes(v, r)
                 \/ Waits(v)
      PROVE  \E v \in Workers : Owes(v, s)' \/ Waits(v)'
  <2>1. CASE s \in Differ(catalogue, catalogue') BY <1>7, <1>9, <2>1
  <2>2. CASE s \notin Differ(catalogue, catalogue')
    <3>1. s \in Differ(X, catalogue \cap grants) BY <1>1, <1>9, <2>2 DEF Differ
    <3>2. PICK v \in Workers : Owes(v, s) \/ Waits(v) BY <1>9, <3>1
    <3> QED BY <1>4, <1>5, <1>8, <2>2, <3>2
  <2> QED BY <2>1, <2>2
<1>10. EntriesFollow'
  <2> SUFFICES ASSUME Sure', ~pending', \A v \in Workers : ~Replaces(v)'
               PROVE  /\ entries \ grants \subseteq dropped'
                      /\ \A s \in Differ(entries \cap grants, (catalogue \cap grants)') :
                           \E v \in Workers : Owes(v, s)'
    BY <1>1 DEF EntriesFollow, Differ
  <2>1. Sure /\ ~pending /\ \A v \in Workers : ~Replaces(v) BY <1>1, <1>4, <1>5, <1>6
  <2>2. /\ entries \ grants \subseteq dropped
        /\ \A s \in Differ(entries \cap grants, catalogue \cap grants) : \E v \in Workers :
               Owes(v, s)
    BY <2>1 DEF Found, EntriesFollow
  <2>3. \A v \in Workers : ~Waits(v)' BY DEF Waits, Replaces
  <2> QED BY <1>1, <1>9, <2>2, <2>3
<1>11. ASSUME NEW v \in Workers, work'[v].at \in {"write", "clear"} PROVE Coming(v)'
  <2>1. work'[v] = work[v] /\ work[v].at \in {"write", "clear"} BY <1>3, <1>4, <1>11
  <2>2. Coming(v) BY <2>1 DEF Found, WritesFollow
  <2>3. ASSUME Sure', NEW s \in Differ(work[v].want, (catalogue \cap grants)')
        PROVE  \E u \in Workers : Owes(u, s)' \/ Waits(u)'
    <3>1. \A r \in Differ(work[v].want, catalogue \cap grants) :
            \E u \in Workers : Owes(u, r) \/ Waits(u)
      BY <1>6, <2>2, <2>3 DEF Coming
    <3> QED BY <1>9, <2>3, <3>1
  <2> QED BY <1>1, <2>1, <2>2, <2>3 DEF Coming, Differ
<1> QED BY <1>10, <1>11 DEF Found, WritesFollow

(* The threads a crash cuts off answered nobody.                           *)
LEMMA CrashFound ==
    ASSUME FilesTyped, Found, Crash
    PROVE  Found'
<1>1. /\ \A v \in Workers : work'[v].at = "idle" /\ CutOff(v) \subseteq unsure'
      /\ unsure \subseteq unsure'
      /\ UNCHANGED <<catalogue, grants, pending, entries, dropped, status>>
  BY DEF Crash, Idle, rows, files
<1>2. WritesFollow' BY <1>1 DEF WritesFollow
<1>3. ASSUME Sure', ~pending'
      PROVE  entries \ grants \subseteq dropped
                 /\ Differ(entries \cap grants, catalogue \cap grants) = {}
  <2>1. Sure /\ \A v \in Workers : "servers" \notin CutOff(v) BY <1>1, <1>3 DEF Sure
  <2>2. ASSUME NEW v \in Workers,
                   work[v].at \in {"grants.now", "catalogue.after", "catalogue.boxes"}
        PROVE  FALSE
    <3>1. CutOff(v) = {"servers"} BY <2>2 DEF CutOff
    <3> QED BY <2>1, <3>1
  <2>3. ASSUME NEW v \in Workers,
                   work[v].at \in {"rewrite.lock", "rewrite.now", "write", "clear"},
               work[v].by # "wake"
        PROVE  FALSE
    <3>1. CutOff(v) = {"servers"} BY <2>3 DEF CutOff
    <3> QED BY <2>1, <3>1
  <2>4. \A v \in Workers : ~Replaces(v) /\ \A s : ~Owes(v, s)
    BY <2>2, <2>3 DEF Replaces, Owes
  <2> QED BY <1>1, <1>3, <2>1, <2>4 DEF Found, EntriesFollow
<1>4. EntriesFollow' BY <1>1, <1>3 DEF EntriesFollow, Differ
<1> QED BY <1>2, <1>4 DEF Found
(* What the agent finds follows its grants, or is about to.                *)
LEMMA FoundNext ==
    FilesTyped /\ Locked /\ Offered /\ Found /\ [Next]_vars => Found'
<1> SUFFICES ASSUME FilesTyped, Locked, Offered, Found, [Next]_vars PROVE Found' OBVIOUS
<1>1. ASSUME NEW w \in Workers,
             \/ \E name \in Names : SetMeta(w, name)
             \/ \E text \in Texts \cup {None} : SetInstructions(w, text)
                    \/ PutRules(w, text)
             \/ \E s \in SUBSET Servers : PutGrants(w, s) \/ PutSettings(w, s)
             \/ Wake(w)
      PROVE  Found'
  <2>1. UNCHANGED <<catalogue, grants, dropped, entries, pending, unsure, status>>
    BY <1>1 DEF SetMeta, SetInstructions, PutRules, PutGrants, PutSettings, Wake, rows,
       files, history
  <2>2. \E to \in {"meta.write", "soul.exec", "rules.lock", "grants.lock", "catalogue.set",
            "wake.row"} :
          Path(w, "idle", to)
    BY <1>1, Begun DEF Said
  <2>3. Sure' => Sure BY <2>1 DEF Sure
  <2> QED BY <2>1, <2>2, <2>3, Elsewhere DEF ServersAt
<1>2. ASSUME NEW w \in Workers,
             \/ MetaWrites(w) \/ SoulFails(w) \/ SoulRecorded(w) \/ RulesFail(w)
                    \/ RulesRecorded(w)
      PROVE  Found'
  <2>1. UNCHANGED <<catalogue, grants, dropped, entries, pending>> /\ (Sure' => Sure)
    BY <1>2 DEF MetaWrites, SoulFails, SoulRecorded, RulesFail, RulesRecorded,
       SetBoxMeta, rows, files, history, Sure
  <2> QED BY <1>2, <2>1, Ended, Elsewhere DEF ServersAt
<1>3. ASSUME NEW w \in Workers, SoulWritten(w) \/ SoulReads(w) \/ RulesWritten(w)
                 \/ WakeMoves(w)
      PROVE  Found'
  <2>1. UNCHANGED <<catalogue, grants, dropped, entries, pending>> /\ (Sure' => Sure)
    BY <1>3 DEF SoulWritten, SoulReads, RulesWritten, WakeMoves, rows, files, history,
       Sure
  <2> QED BY <1>3, <2>1, GoneOn, Elsewhere DEF ServersAt
<1>4. ASSUME NEW w \in Workers, GrantsRefused(w) PROVE Found'
  <2>1. Path(w, "grants.now", "idle")
            /\ UNCHANGED <<catalogue, grants, dropped, entries, pending>>
        /\ ~Sure'
    BY <1>4, Ended DEF GrantsRefused, rows, files, Sure
  <2> QED BY <2>1, Aside
<1>5. ASSUME NEW w \in Workers, GrantsPending(w) \/ RewriteDeferred(w) PROVE Found'
  <2>1. UNCHANGED <<catalogue, grants, dropped, entries, unsure, status>> /\ pending'
    BY <1>5 DEF GrantsPending, RewriteDeferred, MarksPending, files, history
  <2>2. Path(w, "grants.now", "idle") \/ Path(w, "rewrite.now", "idle") BY <1>5, Ended
  <2>3. (Sure' => Sure) /\ ~Waits(w) /\ \A s : ~Owes(w, s)
    BY <2>1, <2>2 DEF Sure, Path, Waits, Owes
  <2> QED BY <2>1, <2>2, <2>3, Aside
<1>6. ASSUME NEW w \in Workers, GrantsRead(w) PROVE Found'
  <2>1. Path(w, "grants.now", "write") /\ ReadsConfig(w, "grants", work[w].previous)
    BY <1>6, GoneOn DEF GrantsRead
  <2>2. work[w].previous \in SUBSET Servers /\ "grants" \in By
    BY <2>1, TaskOf DEF Path, Granted, By
  <2>3. Coming(w)' BY <2>1, <2>2, ReadsAreComing
  <2>4. UNCHANGED <<catalogue, grants, dropped, entries, pending>> /\ (Sure' => Sure)
    BY <2>1 DEF ReadsConfig, rows, files, history, Sure
  <2>5. work'[w].at = "write" /\ work'[w].by = "grants"
    BY <2>1, FilesGoesTo DEF ReadsConfig
  <2>6. Replaces(w)' /\ ~Waits(w) /\ \A s : ~Owes(w, s)
    BY <2>1, <2>5 DEF Path, Replaces, Waits, Owes
  <2> QED BY <2>1, <2>3, <2>4, <2>6, Aside
<1>7. ASSUME NEW w \in Workers, RewriteReads(w) PROVE Found'
  <2>1. Path(w, "rewrite.now", "write") /\ ReadsConfig(w, work[w].by, {})
    BY <1>7, GoneOn DEF RewriteReads
  <2>2. work[w].by \in By /\ {} \in SUBSET Servers
    BY <2>1, TaskOf DEF Path, Rewriting, By
  <2>3. Coming(w)' BY <2>1, <2>2, ReadsAreComing
  <2>4. UNCHANGED <<catalogue, grants, dropped, entries, pending>> /\ (Sure' => Sure)
    BY <2>1 DEF ReadsConfig, rows, files, history, Sure
  <2>5. work[w].at = "rewrite.now" /\ work'[w].at = "write" /\ work'[w].by = work[w].by
    BY <2>1, FilesGoesTo DEF Path, ReadsConfig
  <2>6. (Replaces(w) => Replaces(w)') /\ ~Waits(w) /\ \A s : ~Owes(w, s)
    BY <2>5 DEF Replaces, Waits, Owes
  <2> QED BY <2>1, <2>3, <2>4, <2>6, Aside
<1>8. ASSUME NEW w \in Workers, RewriteLocks(w) PROVE Found'
  <2>1. lock = None /\ work[w].at = "rewrite.lock"
            /\ Path(w, "rewrite.lock", "rewrite.now")
        /\ Goes(w, [work[w] EXCEPT !.at = "rewrite.now"])
        /\ UNCHANGED <<catalogue, grants, dropped, entries, pending>> /\ (Sure' => Sure)
    BY <1>8, GoneOn DEF RewriteLocks, At, Takes, rows, files, history, Sure
  <2>2. work[w] \in Rewriting BY <2>1, TaskOf
  <2>3. work'[w].at = "rewrite.now" /\ work'[w].by = work[w].by
    BY <2>1, <2>2, FilesGoesTo DEF Rewriting
  <2>4. (Replaces(w) => Replaces(w)') /\ \A s : ~Owes(w, s)
    BY <2>1, <2>3 DEF Replaces, Owes
  <2>5. \A v \in Workers : work[v].at \notin {"write", "clear"} BY <2>1, NobodyWrites
  <2> QED BY <2>1, <2>4, <2>5, Aside
<1>9. ASSUME NEW w \in Workers, CatalogueChanged(w) PROVE Found'
  <2> DEFINE changed == (work[w].before \cup catalogue) \ (work[w].before \cap catalogue)
  <2>1. /\ work[w].at = "catalogue.after"
        /\ Path(w, "catalogue.after", "idle")
               \/ Path(w, "catalogue.after", "catalogue.boxes")
        /\ IF changed = {} THEN Goes(w, Idle)
                           ELSE Goes(w, [at |-> "catalogue.boxes", changed |-> changed])
        /\ UNCHANGED <<catalogue, grants, dropped, entries, pending>> /\ (Sure' => Sure)
    BY <1>9, GoneOn DEF CatalogueChanged, At, Ends, rows, files, history, Sure
  <2>2. changed = Differ(work[w].before, catalogue) BY DEF Differ
  <2>3. ASSUME NEW s, Owes(w, s) PROVE Owes(w, s)'
    <3>1. s \in changed BY <2>1, <2>2, <2>3 DEF Owes
    <3>2. work'[w] = [at |-> "catalogue.boxes", changed |-> changed]
      BY <2>1, <3>1, FilesGoesTo
    <3> QED BY <3>1, <3>2 DEF Owes
  <2>4. ~Replaces(w) /\ ~Waits(w) BY <2>1 DEF Replaces, Waits
  <2> HIDE DEF changed
  <2> QED BY <2>1, <2>3, <2>4, Aside
<1>10. ASSUME NEW w \in Workers, RewritesConfigs(w) PROVE Found'
  <2>1. /\ work[w].at = "catalogue.boxes"
        /\ Path(w, "catalogue.boxes", "idle")
               \/ Path(w, "catalogue.boxes", "rewrite.lock")
        /\ IF grants \cap work[w].changed # {} /\ status # "torn_down"
           THEN Goes(w, [at |-> "rewrite.lock", by |-> "catalogue"]) ELSE Goes(w, Idle)
        /\ UNCHANGED <<catalogue, grants, dropped, entries, pending, status, unsure>>
    BY <1>10, GoneOn DEF RewritesConfigs, At, Ends, Rewrites, rows, files, history
  <2>2. ASSUME Sure', NEW s \in grants, Owes(w, s) PROVE Waits(w)'
    <3>1. s \in work[w].changed BY <2>1, <2>2 DEF Owes
    <3>2. status # "torn_down" BY <2>1, <2>2 DEF Sure
    <3>3. Goes(w, [at |-> "rewrite.lock", by |-> "catalogue"]) BY <2>1, <2>2, <3>1, <3>2
    <3>4. work'[w] = [at |-> "rewrite.lock", by |-> "catalogue"] BY <3>3, FilesGoesTo
    <3> QED BY <3>4 DEF Waits
  <2>3. ~Replaces(w) /\ ~Waits(w) /\ (Sure' => Sure) BY <2>1 DEF Replaces, Waits, Sure
  <2> QED BY <2>1, <2>2, <2>3, Aside
<1>11. ASSUME NEW w \in Workers, WakeLooks(w) PROVE Found'
  <2>1. /\ work[w].at = "wake.pending"
        /\ Path(w, "wake.pending", "idle") \/ Path(w, "wake.pending", "rewrite.lock")
        /\ UNCHANGED <<catalogue, grants, dropped, entries, pending>> /\ (Sure' => Sure)
    BY <1>11, GoneOn DEF WakeLooks, At, rows, files, history, Sure
  <2>2. ~Replaces(w) /\ ~Waits(w) /\ \A s : ~Owes(w, s)
    BY <2>1 DEF Replaces, Waits, Owes
  <2> QED BY <2>1, <2>2, Aside
<1>12. CASE Other
  <2>1. UNCHANGED <<work, catalogue, grants, dropped, entries, pending>>
                      /\ (Sure' => Sure)
    BY <1>12 DEF Other, BoxMoves, vars, rows, files, history, Sure
  <2>2. \A v \in Workers : (Waits(v)' <=> Waits(v)) /\ (Replaces(v)' <=> Replaces(v))
                           /\ \A s : Owes(v, s)' <=> Owes(v, s)
    BY <2>1 DEF Waits, Replaces, Owes
  <2>3. \A v \in Workers : Coming(v) => Coming(v)' BY <2>1, <2>2 DEF Coming, Differ
  <2>4. WritesFollow' BY <2>1, <2>3 DEF Found, WritesFollow
  <2>5. EntriesFollow' BY <2>1, <2>2 DEF Found, EntriesFollow, Differ
  <2> QED BY <2>4, <2>5 DEF Found
<1> QED
  BY <1>1, <1>2, <1>3, <1>4, <1>5, <1>6, <1>7, <1>8, <1>9, <1>10, <1>11, <1>12,
     GrantsRecordedFound, ConfigWrittenFound, ConfigFailsFound, ConfigClearedFound,
     SettingsWrittenFound, CrashFound, NextSteps DEF Step

LEMMA FilesInit == Init => FilesInv
<1> SUFFICES ASSUME Init PROVE FilesInv OBVIOUS
<1>1. FilesTyped BY FilesTypedInit
<1>2. \A w \in Workers : work[w].at = "idle" /\ w # None
  BY NoneAssumption DEF Init, Idle
<1>3. Locked BY <1>2 DEF Init, Locked, LockedAt
<1>4. RulesFollow BY <1>2 DEF Init, RulesFollow
<1>5. SoulFollows BY <1>2 DEF Init, SoulFollows, MetaAt
<1>6. Offered BY DEF Init, Offered
<1>7. EntriesFollow BY DEF Init, EntriesFollow, Differ
<1>8. WritesFollow BY <1>2 DEF WritesFollow
<1> QED BY <1>1, <1>3, <1>4, <1>5, <1>6, <1>7, <1>8 DEF FilesInv

LEMMA FilesNext == FilesInv /\ [Next]_vars => FilesInv'
BY FilesTypedNext, LockedNext, RulesFollowNext, SoulFollowsNext, OfferedNext, FoundNext
   DEF FilesInv, Found

LEMMA FilesMeans == FilesInv => ServersAreFound /\ ShownIsFollowed
<1> SUFFICES ASSUME FilesInv PROVE ServersAreFound /\ ShownIsFollowed OBVIOUS
<1>1. ASSUME ServersSettled
      PROVE  entries \cap grants = catalogue \cap grants
                 /\ entries \ grants \subseteq dropped
  <2>1. Sure /\ ~pending BY <1>1 DEF ServersSettled, Sure
  <2>2. \A w \in Workers : ~Replaces(w) /\ \A s : ~Owes(w, s)
    BY <1>1 DEF ServersSettled, ServersAt, Replaces, Owes
  <2>3. entries \ grants \subseteq dropped
            /\ Differ(entries \cap grants, catalogue \cap grants) = {}
    BY <2>1, <2>2 DEF FilesInv, EntriesFollow
  <2> QED BY <2>3 DEF Differ
<1>2. RulesAreFollowed BY DEF FilesInv, RulesFollow, RulesAreFollowed, At
<1>3. SoulIsRecorded BY DEF FilesInv, SoulFollows, SoulIsRecorded, SoulSettled, MetaAt
<1> QED BY <1>1, <1>2, <1>3 DEF ServersAreFound, ShownIsFollowed

(* Once nobody is at it, an agent finds every server it is granted that is *)
(* on offer and no other, unless it is marked for its next wake or the     *)
(* last save was answered as not written (set_mcp_grants,                  *)
(* rewrite_mcp_configs).                                                   *)
THEOREM AgentFindsItsServers == Spec => []ServersAreFound
<1>1. Spec => []FilesInv BY FilesInit, FilesNext, PTL DEF Spec
<1> QED BY <1>1, FilesMeans, PTL

(* What the store shows of an agent's rules and instructions is what the   *)
(* agent goes by, once nobody saves them and no save was cut off           *)
(* (set_rules, set_instructions).                                          *)
THEOREM AgentGoesByWhatIsShown == Spec => []ShownIsFollowed
<1>1. Spec => []FilesInv BY FilesInit, FilesNext, PTL DEF Spec
<1> QED BY <1>1, FilesMeans, PTL

(***************************************************************************)
(* The environment.  EnvInv: one request at a time changes the model or    *)
(* the size, the row and the machine differ only while it is under way,    *)
(* and a move to the gateway never leaves the machine with neither key.    *)
(***************************************************************************)
Planned == [at : {"model.plan"}, wanted : Models \cup {None}]
Changing == [at : {"model.write", "model.row", "model.event"},
             wanted : Models \cup {None}, model : Models]
Sizing == [at : {"size.write", "size.event"}, size : Sizes]
Looking == [at : {"move.read"}, join : BOOLEAN]
Moving == [at : {"move.write"}, join : BOOLEAN, model : Models]
Clearing == [at : {"move.remove"}, join : BOOLEAN]
Works == {Env!Idle} \cup Planned \cup Changing \cup Sizing \cup Looking \cup Moving \cup Clearing
EnvShapes == [model : Models, via : {"provider", "gateway"}, key : BOOLEAN, upstream :
    BOOLEAN, size : Sizes]
EnvLabels == [size : Sizes, newer : BOOLEAN]

EnvTyped ==
    /\ default \in Models /\ own \in Models \cup {None} /\ given \in Models
    /\ machine \in EnvShapes /\ e_work \in [Workers -> Works]
    /\ label \in EnvLabels /\ reading \in EnvLabels \cup {None} /\ sizeSet \in Sizes

SizeAt == {"size.write", "size.event"}

(* One thread at a time changes the model, one the size. *)
EnvOneEach ==
    /\ \A v, w \in Workers : e_work[v].at \in Env!ModelAt /\ e_work[w].at \in Env!ModelAt
           => v = w
    /\ \A v, w \in Workers : e_work[v].at \in SizeAt /\ e_work[w].at \in SizeAt => v = w
    /\ \A w \in Workers : e_work[w].at \in Env!ModelAt => "model" \in busy
    /\ \A w \in Workers : e_work[w].at \in SizeAt => "size" \in busy

ModelFollows ==
    Env!Settled /\ "model" \notin e_unsure =>
        /\ ~Env!Under({"model.row", "model.event"}) => machine.model = Env!Recorded
        /\ \A w \in Workers :
             /\ e_work[w].at \in {"model.row", "model.event"} =>
                  /\ machine.model = e_work[w].model
                  /\ e_work[w].wanted # None => e_work[w].wanted = e_work[w].model
             /\ e_work[w].at = "model.write" /\ e_work[w].wanted # None
                    => e_work[w].wanted = e_work[w].model
             /\ e_work[w].at = "model.event" => own = e_work[w].wanted

OneMove ==
    "key" \notin e_unsure =>
        /\ \A v, w \in Workers : e_work[v].at \in Env!MoveAt
               /\ e_work[w].at \in Env!MoveAt => v = w
        /\ \A w \in Workers : e_work[w].at = "move.remove" /\ e_work[w].join
               => machine.via = "gateway"
        /\ machine.via = "provider" => machine.key

SizeFollows ==
    Env!Settled /\ "size" \notin e_unsure =>
        /\ \A w \in Workers : e_work[w].at = "size.event" => machine.size = e_work[w].size
        /\ ~Env!Under({"size.event"}) =>
             /\ sizeSet = machine.size
             /\ label.newer => label.size = machine.size
             /\ reading # None => (reading.newer => reading.size = machine.size)
EnvInv == EnvTyped /\ EnvOneEach /\ ModelFollows /\ OneMove /\ SizeFollows

LEMMA EnvShape ==
    ASSUME EnvTyped, NEW w \in Workers
    PROVE  /\ e_work[w].at = "model.plan" => e_work[w] \in Planned
           /\ e_work[w].at \in {"model.write", "model.row", "model.event"}
                  => e_work[w] \in Changing
           /\ e_work[w].at \in {"size.write", "size.event"} => e_work[w] \in Sizing
           /\ e_work[w].at = "move.read" => e_work[w] \in Looking
           /\ e_work[w].at = "move.write" => e_work[w] \in Moving
           /\ e_work[w].at = "move.remove" => e_work[w] \in Clearing
<1>1. e_work[w] \in Works BY DEF EnvTyped
<1> QED
  BY <1>1 DEF Works, Planned, Changing, Sizing, Looking, Moving, Clearing, Env!Idle

LEMMA EnvGoesTo ==
    ASSUME EnvTyped, NEW w \in Workers, NEW next, Env!Goes(w, next)
    PROVE  e_work'[w] = next /\ \A v \in Workers : v # w => e_work'[v] = e_work[v]
BY DEF EnvTyped, Env!Goes

LEMMA EnvGoesTyped ==
    ASSUME EnvTyped, NEW w \in Workers, NEW next \in Works, Env!Goes(w, next)
    PROVE  e_work' \in [Workers -> Works]
BY DEF EnvTyped, Env!Goes

LEMMA EnvBeginsGoes ==
    ASSUME NEW w, NEW first, Env!Begins(w, first)
    PROVE  Env!Goes(w, first) /\ e_work[w] = Env!Idle
BY DEF Env!Begins, Env!Goes

LEMMA RecordedTyped == EnvTyped => Env!Recorded \in Models
BY DEF EnvTyped, Env!Recorded

LEMMA EnvShapeChanges ==
    ASSUME NEW k \in EnvShapes
    PROVE  /\ \A m \in Models : [k EXCEPT !.model = m] \in EnvShapes
           /\ \A s \in Sizes : [k EXCEPT !.size = s] \in EnvShapes
           /\ \A m \in Models :
                  [k EXCEPT !.model = m, !.via = "gateway",
                      !.upstream = TRUE] \in EnvShapes
           /\ \A m \in Models :
                  [k EXCEPT !.model = m, !.via = "provider", !.key = TRUE] \in EnvShapes
           /\ [k EXCEPT !.key = FALSE] \in EnvShapes
                  /\ [k EXCEPT !.upstream = FALSE] \in EnvShapes
BY DEF EnvShapes

LEMMA ProviderTyped ==
    ASSUME EnvTyped, NEW w \in Workers, e_work[w].at = "move.write"
    PROVE Env!ProviderWritten(w) \in EnvShapes
<1>1. e_work[w].model \in Models BY EnvShape DEF Moving
<1> QED BY <1>1, EnvShapeChanges DEF EnvTyped, Env!ProviderWritten

LEMMA EnvTypedInit == Env!Init => EnvTyped
<1> SUFFICES ASSUME Env!Init PROVE EnvTyped OBVIOUS
<1>1. First \in Models /\ Least \in Sizes BY EnvAssumption DEF Env!MadeAssumption
<1>2. machine \in EnvShapes BY <1>1 DEF Env!Init, EnvShapes
<1>3. label \in EnvLabels BY <1>1 DEF Env!Init, EnvLabels
<1>4. e_work \in [Workers -> Works] BY DEF Env!Init, Works
<1> QED BY <1>1, <1>2, <1>3, <1>4 DEF Env!Init, EnvTyped

LEMMA EnvWorkTyped ==
    ASSUME EnvTyped, [Env!Next]_(Env!vars)
    PROVE  e_work' \in [Workers -> Works]
<1> USE DEF EnvTyped
<1>1. ASSUME NEW w \in Workers, NEW wanted \in Models \cup {None},
                 Env!BeginModelChange(w, wanted)
      PROVE  e_work' \in [Workers -> Works]
  <2>1. [at |-> "model.plan", wanted |-> wanted] \in Works BY DEF Works, Planned
  <2> QED BY <1>1, <2>1, EnvBeginsGoes, EnvGoesTyped DEF Env!BeginModelChange
<1>2. ASSUME NEW w \in Workers, Env!ModelPlanned(w) PROVE e_work' \in [Workers -> Works]
  <2> DEFINE m == IF e_work[w].wanted = None THEN default ELSE e_work[w].wanted
  <2>1. e_work[w].wanted \in Models \cup {None}
    BY <1>2, EnvShape DEF Env!ModelPlanned, Env!At, Planned
  <2>2. m \in Models BY <2>1
  <2>3. [at |-> "model.write", wanted |-> e_work[w].wanted, model |-> m] \in Works
    BY <2>1, <2>2 DEF Works, Changing
  <2> QED BY <1>2, <2>3, EnvGoesTyped DEF Env!ModelPlanned
<1>3. ASSUME NEW w \in Workers, Env!ModelWritten(w) PROVE e_work' \in [Workers -> Works]
  <2>1. e_work[w] \in Changing BY <1>3, EnvShape DEF Env!ModelWritten, Env!At
  <2>2. [e_work[w] EXCEPT !.at = "model.row"] \in Works BY <2>1 DEF Works, Changing
  <2> QED BY <1>3, <2>2, EnvGoesTyped DEF Env!ModelWritten
<1>4. ASSUME NEW w \in Workers, Env!Ends(w) PROVE e_work' \in [Workers -> Works]
  BY <1>4, EnvGoesTyped DEF Env!Ends, Works
<1>5. ASSUME NEW w \in Workers, Env!ModelUnfinished(w) \/ Env!ModelFails(w)
                 \/ Env!ModelSet(w)
      PROVE Env!Ends(w)
  BY <1>5 DEF Env!ModelUnfinished, Env!ModelFails, Env!ModelSet, Env!ModelEnds
<1>6. ASSUME NEW w \in Workers, Env!ModelRecorded(w) PROVE e_work' \in [Workers -> Works]
  <2>1. e_work[w] \in Changing BY <1>6, EnvShape DEF Env!ModelRecorded, Env!At
  <2>2. [e_work[w] EXCEPT !.at = "model.event"] \in Works BY <2>1 DEF Works, Changing
  <2> QED BY <1>6, <2>2, EnvGoesTyped DEF Env!ModelRecorded
<1>7. ASSUME NEW w \in Workers, NEW join \in BOOLEAN, Env!MoveProvider(w, join)
      PROVE  e_work' \in [Workers -> Works]
  <2>1. [at |-> "move.read", join |-> join] \in Works BY DEF Works, Looking
  <2> QED BY <1>7, <2>1, EnvBeginsGoes, EnvGoesTyped DEF Env!MoveProvider
<1>8. ASSUME NEW w \in Workers, Env!MoveReads(w) PROVE e_work' \in [Workers -> Works]
  <2>1. e_work[w].join \in BOOLEAN BY <1>8, EnvShape DEF Env!MoveReads, Env!At, Looking
  <2>2. [at |-> "move.write", join |-> e_work[w].join, model |-> Env!Recorded] \in Works
    BY <2>1, RecordedTyped DEF Works, Moving
  <2> QED BY <1>8, <2>2, <1>4, EnvGoesTyped DEF Env!MoveReads
<1>9. ASSUME NEW w \in Workers, Env!MoveWrites(w) PROVE e_work' \in [Workers -> Works]
  <2>1. e_work[w].join \in BOOLEAN BY <1>9, EnvShape DEF Env!MoveWrites, Env!At, Moving
  <2>2. [at |-> "move.remove", join |-> e_work[w].join] \in Works
    BY <2>1 DEF Works, Clearing
  <2> QED BY <1>9, <2>2, EnvGoesTyped DEF Env!MoveWrites
<1>10. ASSUME NEW w \in Workers, Env!MoveWriteFails(w) \/ Env!MoveRemoves(w)
                  \/ Env!MoveRemoveFails(w)
       PROVE Env!Ends(w)
  BY <1>10 DEF Env!MoveWriteFails, Env!MoveRemoves, Env!MoveRemoveFails
<1>11. ASSUME NEW w \in Workers, NEW size \in Sizes, Env!BeginResize(w, size)
       PROVE  e_work' \in [Workers -> Works]
  <2>1. [at |-> "size.write", size |-> size] \in Works BY DEF Works, Sizing
  <2> QED BY <1>11, <2>1, EnvBeginsGoes, EnvGoesTyped DEF Env!BeginResize
<1>12. ASSUME NEW w \in Workers, Env!Resized(w) PROVE e_work' \in [Workers -> Works]
  <2>1. e_work[w] \in Sizing BY <1>12, EnvShape DEF Env!Resized, Env!At
  <2>2. [e_work[w] EXCEPT !.at = "size.event"] \in Works BY <2>1 DEF Works, Sizing
  <2> QED BY <1>12, <2>2, EnvGoesTyped DEF Env!Resized
<1>13. ASSUME NEW w \in Workers, Env!ResizeUnfinished(w) \/ Env!ResizeFails(w)
                  \/ Env!SizeSet(w)
       PROVE Env!Ends(w)
  BY <1>13 DEF Env!ResizeUnfinished, Env!ResizeFails, Env!SizeSet, Env!ResizeEnds
<1>14. ASSUME UNCHANGED e_work PROVE e_work' \in [Workers -> Works] BY <1>14
<1>15. Env!MeterReads \/ Env!MeterMarks \/ Env!HourTurns \/ Env!GrowsStale
         \/ (\E size \in Sizes : Env!ResizedElsewhere(size))
                \/ (\E model \in Models : Env!SetDefault(model))
         \/ (\E to \in {"settled", "paused", "torn_down"} : Env!BoxMoves(to))
                \/ UNCHANGED Env!vars
       => UNCHANGED e_work
  BY DEF Env!MeterReads, Env!MeterMarks, Env!HourTurns, Env!GrowsStale,
     Env!ResizedElsewhere, Env!SetDefault, Env!BoxMoves, Env!vars
<1>16. CASE Env!Crash BY <1>16 DEF Env!Crash, Works
<1> QED
  BY <1>1, <1>2, <1>3, <1>4, <1>5, <1>6, <1>7, <1>8, <1>9, <1>10, <1>11, <1>12, <1>13,
     <1>14, <1>15, <1>16 DEF Env!Next, Env!Step

LEMMA EnvMachineTyped ==
    ASSUME EnvTyped, [Env!Next]_(Env!vars)
    PROVE  machine' \in EnvShapes
<1> USE DEF EnvTyped
<1>1. ASSUME NEW w \in Workers, Env!ModelWritten(w) \/ Env!ModelFails(w)
      PROVE machine' \in EnvShapes
  <2>1. e_work[w].model \in Models
    BY <1>1, EnvShape DEF Env!ModelWritten, Env!ModelFails, Env!At, Changing
  <2>2. [machine EXCEPT !.model = e_work[w].model] \in EnvShapes
    BY <2>1, EnvShapeChanges
  <2> QED BY <1>1, <2>2 DEF Env!ModelWritten, Env!ModelFails
<1>2. ASSUME NEW w \in Workers, Env!MoveWrites(w) \/ Env!MoveWriteFails(w)
      PROVE machine' \in EnvShapes
  BY <1>2, ProviderTyped DEF Env!MoveWrites, Env!MoveWriteFails, Env!At
<1>3. ASSUME NEW w \in Workers, Env!MoveRemoves(w) \/ Env!MoveRemoveFails(w)
      PROVE machine' \in EnvShapes
  <2>1. Env!Removed(w) \in EnvShapes BY EnvShapeChanges DEF Env!Removed
  <2> QED BY <1>3, <2>1 DEF Env!MoveRemoves, Env!MoveRemoveFails
<1>4. ASSUME NEW w \in Workers, Env!Resized(w) \/ Env!ResizeFails(w)
      PROVE machine' \in EnvShapes
  <2>1. e_work[w].size \in Sizes
    BY <1>4, EnvShape DEF Env!Resized, Env!ResizeFails, Env!At, Sizing
  <2>2. [machine EXCEPT !.size = e_work[w].size] \in EnvShapes BY <2>1, EnvShapeChanges
  <2> QED BY <1>4, <2>2 DEF Env!Resized, Env!ResizeFails
<1>5. ASSUME NEW size \in Sizes, Env!ResizedElsewhere(size) PROVE machine' \in EnvShapes
  BY <1>5, EnvShapeChanges DEF Env!ResizedElsewhere
<1>6. ASSUME NEW w \in Workers,
             \/ \E wanted \in Models \cup {None} : Env!BeginModelChange(w, wanted)
             \/ \E join \in BOOLEAN : Env!MoveProvider(w, join)
             \/ \E size \in Sizes : Env!BeginResize(w, size)
             \/ Env!ModelPlanned(w) \/ Env!ModelUnfinished(w) \/ Env!ModelRecorded(w)
                    \/ Env!ModelSet(w)
             \/ Env!MoveReads(w) \/ Env!ResizeUnfinished(w) \/ Env!SizeSet(w)
      PROVE  UNCHANGED machine
  BY <1>6 DEF Env!BeginModelChange, Env!MoveProvider, Env!BeginResize, Env!ModelPlanned,
     Env!ModelUnfinished, Env!ModelRecorded, Env!ModelSet, Env!MoveReads,
     Env!ResizeUnfinished, Env!SizeSet
<1>7. Env!MeterReads \/ Env!MeterMarks \/ Env!HourTurns \/ Env!GrowsStale
          \/ (\E model \in Models : Env!SetDefault(model))
         \/ (\E to \in {"settled", "paused", "torn_down"} : Env!BoxMoves(to)) \/ Env!Crash
                \/ UNCHANGED Env!vars
       => UNCHANGED machine
  BY DEF Env!MeterReads, Env!MeterMarks, Env!HourTurns, Env!GrowsStale, Env!SetDefault,
     Env!BoxMoves, Env!Crash, Env!vars
<1> QED BY <1>1, <1>2, <1>3, <1>4, <1>5, <1>6, <1>7 DEF Env!Next, Env!Step

Else ==
    \/ Env!MeterReads \/ Env!MeterMarks \/ Env!HourTurns \/ Env!GrowsStale
    \/ \E size \in Sizes : Env!ResizedElsewhere(size)
    \/ \E model \in Models : Env!SetDefault(model)
    \/ \E to \in {"settled", "paused", "torn_down"} : Env!BoxMoves(to)
    \/ UNCHANGED Env!vars

LEMMA EnvTypedNext == EnvTyped /\ [Env!Next]_(Env!vars) => EnvTyped'
<1> SUFFICES ASSUME EnvTyped, [Env!Next]_(Env!vars) PROVE EnvTyped' OBVIOUS
<1>1. e_work' \in [Workers -> Works] /\ machine' \in EnvShapes
  BY EnvWorkTyped, EnvMachineTyped
<1> USE DEF EnvTyped
<1>2. default' \in Models
  BY DEF Env!Next, Env!Step, Env!BeginModelChange, Env!ModelPlanned, Env!ModelWritten,
     Env!ModelUnfinished, Env!ModelFails, Env!ModelRecorded, Env!ModelSet,
     Env!ModelEnds, Env!MoveProvider, Env!MoveReads, Env!MoveWrites, Env!MoveWriteFails,
     Env!MoveRemoves, Env!MoveRemoveFails, Env!BeginResize, Env!Resized,
     Env!ResizeUnfinished, Env!ResizeFails, Env!SizeSet, Env!ResizeEnds, Env!MeterReads,
     Env!MeterMarks, Env!HourTurns, Env!GrowsStale, Env!ResizedElsewhere,
     Env!SetDefault, Env!BoxMoves, Env!Crash, Env!vars
<1>3. own' \in Models \cup {None} /\ given' \in Models
  <2>1. ASSUME NEW w \in Workers, Env!ModelRecorded(w)
        PROVE own' \in Models \cup {None} /\ given' \in Models
    <3>1. e_work[w].wanted \in Models \cup {None}
      BY <2>1, EnvShape DEF Env!ModelRecorded, Env!At, Changing
    <3> QED BY <2>1, <3>1 DEF Env!ModelRecorded
  <2>2. ASSUME NEW w \in Workers, Env!ModelSet(w)
        PROVE own' \in Models \cup {None} /\ given' \in Models
    <3>1. e_work[w].model \in Models
      BY <2>2, EnvShape DEF Env!ModelSet, Env!At, Changing
    <3> QED BY <2>2, <3>1 DEF Env!ModelSet
  <2>3. (\A w \in Workers : ~Env!ModelRecorded(w) /\ ~Env!ModelSet(w))
            => UNCHANGED <<own, given>>
    BY DEF Env!Next, Env!Step, Env!BeginModelChange, Env!ModelPlanned, Env!ModelWritten,
       Env!ModelUnfinished, Env!ModelFails, Env!MoveProvider, Env!MoveReads,
       Env!MoveWrites, Env!MoveWriteFails, Env!MoveRemoves, Env!MoveRemoveFails,
       Env!BeginResize, Env!Resized, Env!ResizeUnfinished, Env!ResizeFails, Env!SizeSet,
       Env!ResizeEnds, Env!MeterReads, Env!MeterMarks, Env!HourTurns, Env!GrowsStale,
       Env!ResizedElsewhere, Env!SetDefault, Env!BoxMoves, Env!Crash, Env!vars
  <2> QED BY <2>1, <2>2, <2>3
<1>4. label' \in EnvLabels /\ reading' \in EnvLabels \cup {None} /\ sizeSet' \in Sizes
  <2>1. ASSUME NEW w \in Workers, Env!SizeSet(w)
        PROVE  label' \in EnvLabels /\ reading' \in EnvLabels \cup {None}
                   /\ sizeSet' \in Sizes
    <3>1. e_work[w].size \in Sizes BY <2>1, EnvShape DEF Env!SizeSet, Env!At, Sizing
    <3>2. \A l \in EnvLabels : [l EXCEPT !.newer = FALSE] \in EnvLabels BY DEF EnvLabels
    <3> QED BY <2>1, <3>1, <3>2 DEF Env!SizeSet
  <2>2. ASSUME Env!MeterReads
        PROVE label' \in EnvLabels /\ reading' \in EnvLabels \cup {None}
                  /\ sizeSet' \in Sizes
    <3>1. machine.size \in Sizes BY DEF EnvShapes
    <3>2. (~thisHour) \in BOOLEAN BY Zenon
    <3>3. [size |-> machine.size, newer |-> ~thisHour] \in EnvLabels
      BY <3>1, <3>2 DEF EnvLabels
    <3> QED BY <2>2, <3>3 DEF Env!MeterReads, Env!events
  <2>3. Env!MeterMarks
            => label' \in EnvLabels /\ reading' \in EnvLabels \cup {None}
                /\ sizeSet' \in Sizes
    BY DEF Env!MeterMarks, Env!events
  <2>4. Env!Crash => label' \in EnvLabels /\ reading' \in EnvLabels \cup {None}
            /\ sizeSet' \in Sizes
    BY DEF Env!Crash, Env!events
  <2>5. (\A w \in Workers : ~Env!SizeSet(w)) /\ ~Env!MeterReads /\ ~Env!MeterMarks
            /\ ~Env!Crash
          => UNCHANGED <<label, reading, sizeSet>>
    BY DEF Env!Next, Env!Step, Env!BeginModelChange, Env!ModelPlanned, Env!ModelWritten,
       Env!ModelUnfinished, Env!ModelFails, Env!ModelRecorded, Env!ModelSet,
       Env!ModelEnds, Env!MoveProvider, Env!MoveReads, Env!MoveWrites,
       Env!MoveWriteFails, Env!MoveRemoves, Env!MoveRemoveFails, Env!BeginResize,
       Env!Resized, Env!ResizeUnfinished, Env!ResizeFails, Env!ResizeEnds,
       Env!HourTurns, Env!GrowsStale, Env!ResizedElsewhere, Env!SetDefault,
       Env!BoxMoves, Env!vars, Env!events, Env!metered
  <2> QED BY <2>1, <2>2, <2>3, <2>4, <2>5
<1> QED BY <1>1, <1>2, <1>3, <1>4

(* What any step does to a thread that another step, or none, moves.       *)
LEMMA EnvOneEachNext == EnvTyped /\ EnvOneEach /\ [Env!Next]_(Env!vars) => EnvOneEach'
<1> SUFFICES ASSUME EnvTyped, EnvOneEach, [Env!Next]_(Env!vars) PROVE EnvOneEach' OBVIOUS
<1>a. ASSUME NEW w \in Workers, NEW next, Env!Goes(w, next),
             /\ next.at \in Env!ModelAt
                    => (e_work[w].at \in Env!ModelAt \/ "model" \notin busy)
                        /\ "model" \in busy'
             /\ next.at \in SizeAt
                    => (e_work[w].at \in SizeAt \/ "size" \notin busy)
                        /\ "size" \in busy',
             "model" \in busy
                 => "model" \in busy'
                     \/ (e_work[w].at \in Env!ModelAt /\ next.at \notin Env!ModelAt),
             "size" \in busy
                 => "size" \in busy' \/ (e_work[w].at \in SizeAt /\ next.at \notin SizeAt)
      PROVE  EnvOneEach'
  <2>1. e_work'[w] = next /\ \A v \in Workers : v # w => e_work'[v] = e_work[v]
    BY <1>a, EnvGoesTo
  <2> QED BY <2>1, <1>a DEF EnvOneEach
<1>b. ASSUME UNCHANGED <<e_work, busy>> PROVE EnvOneEach' BY <1>b DEF EnvOneEach
<1>c. ASSUME NEW w \in Workers, NEW next, Env!Goes(w, next), next.at \notin Env!ModelAt,
    next.at \notin SizeAt,
             UNCHANGED busy
      PROVE  EnvOneEach'
  BY <1>a, <1>c
<1>d. Env!Idle.at \notin Env!ModelAt /\ Env!Idle.at \notin SizeAt
  BY DEF Env!Idle, Env!ModelAt, SizeAt
<1>1. ASSUME NEW w \in Workers, NEW wanted \in Models \cup {None},
                 Env!BeginModelChange(w, wanted)
      PROVE EnvOneEach'
  <2> DEFINE next == [at |-> "model.plan", wanted |-> wanted]
  <2>1. Env!Goes(w, next) BY <1>1, EnvBeginsGoes DEF Env!BeginModelChange
  <2>2. next.at \notin SizeAt /\ next.at \in Env!ModelAt BY DEF SizeAt, Env!ModelAt
  <2>3. "model" \notin busy /\ busy' = busy \cup {"model"}
    BY <1>1 DEF Env!BeginModelChange
  <2> HIDE DEF next
  <2> QED BY <2>1, <2>2, <2>3, <1>a
<1>2. ASSUME NEW w \in Workers, NEW next, Env!Goes(w, next), UNCHANGED busy,
                 e_work[w].at \in Env!ModelAt,
             next.at \in Env!ModelAt
      PROVE  EnvOneEach'
  <2>1. next.at \notin SizeAt BY <1>2 DEF SizeAt, Env!ModelAt
  <2>2. "model" \in busy BY <1>2 DEF EnvOneEach
  <2> QED BY <1>2, <2>1, <2>2, <1>a
<1>3. ASSUME NEW w \in Workers, Env!ModelPlanned(w) PROVE EnvOneEach'
  <2>1. e_work[w].at \in Env!ModelAt /\ UNCHANGED busy
    BY <1>3 DEF Env!ModelPlanned, Env!At, Env!ModelAt
  <2>2. PICK next : Env!Goes(w, next) /\ next.at = "model.write"
    BY <1>3 DEF Env!ModelPlanned
  <2>3. next.at \in Env!ModelAt BY <2>2 DEF Env!ModelAt
  <2> QED BY <2>1, <2>2, <2>3, <1>2
<1>4. ASSUME NEW w \in Workers, Env!ModelWritten(w) PROVE EnvOneEach'
  <2>1. e_work[w] \in Changing BY <1>4, EnvShape DEF Env!ModelWritten, Env!At
  <2>2. e_work[w].at \in Env!ModelAt /\ UNCHANGED busy
    BY <1>4 DEF Env!ModelWritten, Env!At, Env!ModelAt
  <2>3. [e_work[w] EXCEPT !.at = "model.row"].at \in Env!ModelAt
    BY <2>1 DEF Changing, Env!ModelAt
  <2> QED BY <1>4, <2>2, <2>3, <1>2 DEF Env!ModelWritten
<1>5. ASSUME NEW w \in Workers, NEW event, Env!ModelEnds(w, event),
                 e_work[w].at \in Env!ModelAt
      PROVE EnvOneEach'
  <2>1. Env!Goes(w, Env!Idle) /\ busy' = busy \ {"model"}
    BY <1>5 DEF Env!ModelEnds, Env!Ends
  <2>2. e_work[w].at \notin SizeAt BY <1>5 DEF Env!ModelAt, SizeAt
  <2> QED BY <2>1, <2>2, <1>5, <1>d, <1>a
<1>6. ASSUME NEW w \in Workers, Env!ModelUnfinished(w) \/ Env!ModelFails(w)
                 \/ Env!ModelSet(w)
      PROVE EnvOneEach'
  <2>1. e_work[w].at \in Env!ModelAt
    BY <1>6 DEF Env!ModelUnfinished, Env!ModelFails, Env!ModelSet, Env!At, Env!ModelAt
  <2> QED BY <1>6, <2>1, <1>5 DEF Env!ModelUnfinished, Env!ModelFails, Env!ModelSet
<1>7. ASSUME NEW w \in Workers, Env!ModelRecorded(w) PROVE EnvOneEach'
  <2>1. e_work[w] \in Changing BY <1>7, EnvShape DEF Env!ModelRecorded, Env!At
  <2>2. e_work[w].at \in Env!ModelAt /\ UNCHANGED busy
    BY <1>7 DEF Env!ModelRecorded, Env!At, Env!ModelAt
  <2>3. [e_work[w] EXCEPT !.at = "model.event"].at \in Env!ModelAt
    BY <2>1 DEF Changing, Env!ModelAt
  <2> QED BY <1>7, <2>2, <2>3, <1>2 DEF Env!ModelRecorded
<1>8. ASSUME NEW w \in Workers, NEW join \in BOOLEAN, Env!MoveProvider(w, join)
      PROVE EnvOneEach'
  <2>1. Env!Goes(w, [at |-> "move.read", join |-> join]) /\ UNCHANGED busy
    BY <1>8, EnvBeginsGoes DEF Env!MoveProvider
  <2> QED BY <2>1, <1>c DEF Env!ModelAt, SizeAt
<1>9. ASSUME NEW w \in Workers, Env!MoveReads(w) PROVE EnvOneEach'
  <2>1. UNCHANGED busy BY <1>9 DEF Env!MoveReads
  <2>2. PICK next : Env!Goes(w, next) /\ next.at \in {"move.write", "idle"}
    BY <1>9 DEF Env!MoveReads, Env!Ends, Env!Idle
  <2>3. next.at \notin Env!ModelAt /\ next.at \notin SizeAt
    BY <2>2 DEF Env!ModelAt, SizeAt
  <2> QED BY <2>1, <2>2, <2>3, <1>c
<1>10. ASSUME NEW w \in Workers, Env!MoveWrites(w) PROVE EnvOneEach'
  <2>1. Env!Goes(w, [at |-> "move.remove", join |-> e_work[w].join]) /\ UNCHANGED busy
    BY <1>10 DEF Env!MoveWrites
  <2> QED BY <2>1, <1>c DEF Env!ModelAt, SizeAt
<1>11. ASSUME NEW w \in Workers, Env!MoveWriteFails(w) \/ Env!MoveRemoves(w)
                  \/ Env!MoveRemoveFails(w)
       PROVE EnvOneEach'
  <2>1. Env!Goes(w, Env!Idle) /\ UNCHANGED busy
    BY <1>11 DEF Env!MoveWriteFails, Env!MoveRemoves, Env!MoveRemoveFails, Env!Ends
  <2> QED BY <2>1, <1>c, <1>d
<1>12. ASSUME NEW w \in Workers, NEW size \in Sizes, Env!BeginResize(w, size)
       PROVE EnvOneEach'
  <2> DEFINE next == [at |-> "size.write", size |-> size]
  <2>1. Env!Goes(w, next) BY <1>12, EnvBeginsGoes DEF Env!BeginResize
  <2>2. next.at \in SizeAt /\ next.at \notin Env!ModelAt BY DEF SizeAt, Env!ModelAt
  <2>3. "size" \notin busy /\ busy' = busy \cup {"size"} BY <1>12 DEF Env!BeginResize
  <2> HIDE DEF next
  <2> QED BY <2>1, <2>2, <2>3, <1>a
<1>13. ASSUME NEW w \in Workers, Env!Resized(w) PROVE EnvOneEach'
  <2>1. e_work[w] \in Sizing BY <1>13, EnvShape DEF Env!Resized, Env!At
  <2>2. e_work[w].at \in SizeAt /\ UNCHANGED busy
    BY <1>13 DEF Env!Resized, Env!At, SizeAt
  <2>3. [e_work[w] EXCEPT !.at = "size.event"].at \in SizeAt BY <2>1 DEF Sizing, SizeAt
  <2>4. [e_work[w] EXCEPT !.at = "size.event"].at \notin Env!ModelAt
    BY <2>3 DEF SizeAt, Env!ModelAt
  <2>5. "size" \in busy BY <2>2 DEF EnvOneEach
  <2>6. Env!Goes(w, [e_work[w] EXCEPT !.at = "size.event"]) BY <1>13 DEF Env!Resized
  <2> QED BY <2>2, <2>3, <2>4, <2>5, <2>6, <1>a
<1>14. ASSUME NEW w \in Workers, Env!ResizeUnfinished(w) \/ Env!ResizeFails(w)
                  \/ Env!SizeSet(w)
       PROVE EnvOneEach'
  <2>1. e_work[w].at \in SizeAt
    BY <1>14 DEF Env!ResizeUnfinished, Env!ResizeFails, Env!SizeSet, Env!At, SizeAt
  <2>2. Env!Goes(w, Env!Idle) /\ busy' = busy \ {"size"}
    BY <1>14 DEF Env!ResizeUnfinished, Env!ResizeFails, Env!SizeSet, Env!ResizeEnds,
       Env!Ends
  <2>3. e_work[w].at \notin Env!ModelAt BY <2>1 DEF Env!ModelAt, SizeAt
  <2> QED BY <2>1, <2>2, <2>3, <1>d, <1>a
<1>15. Else => UNCHANGED <<e_work, busy>>
  BY DEF Else, Env!MeterReads, Env!MeterMarks, Env!HourTurns, Env!GrowsStale,
     Env!ResizedElsewhere, Env!SetDefault, Env!BoxMoves, Env!vars
<1>16. CASE Env!Crash
  <2>1. \A w \in Workers : e_work'[w] = Env!Idle BY <1>16 DEF Env!Crash
  <2> QED BY <2>1, <1>d DEF EnvOneEach
<1> QED
  BY <1>b, <1>1, <1>3, <1>4, <1>6, <1>7, <1>8, <1>9, <1>10, <1>11, <1>12, <1>13, <1>14,
     <1>15, <1>16 DEF Env!Next, Env!Step, Else

LEMMA OneMoveNext == EnvTyped /\ OneMove /\ [Env!Next]_(Env!vars) => OneMove'
<1> SUFFICES ASSUME EnvTyped, OneMove, [Env!Next]_(Env!vars), "key" \notin e_unsure'
    PROVE OneMove'
  BY DEF OneMove
<1>m. machine \in EnvShapes BY DEF EnvTyped
<1>a. ASSUME NEW w \in Workers, NEW next, Env!Goes(w, next), next.at \notin Env!MoveAt,
    "key" \notin e_unsure,
             machine'.via = machine.via /\ (machine.key => machine'.key)
      PROVE  OneMove'
  <2>1. e_work'[w] = next /\ \A v \in Workers : v # w => e_work'[v] = e_work[v]
    BY <1>a, EnvGoesTo
  <2> QED BY <2>1, <1>a DEF OneMove, Env!MoveAt
<1>d. Env!Idle.at \notin Env!MoveAt BY DEF Env!Idle, Env!MoveAt
<1>1. ASSUME NEW w \in Workers, NEW wanted \in Models \cup {None},
                 Env!BeginModelChange(w, wanted)
      PROVE OneMove'
  <2>1. Env!Goes(w, [at |-> "model.plan", wanted |-> wanted])
            /\ UNCHANGED <<machine, e_unsure>>
    BY <1>1, EnvBeginsGoes DEF Env!BeginModelChange
  <2> QED BY <2>1, <1>a DEF Env!MoveAt
<1>2. ASSUME NEW w \in Workers, Env!ModelPlanned(w) PROVE OneMove'
  <2>1. PICK next : Env!Goes(w, next) /\ next.at = "model.write"
    BY <1>2 DEF Env!ModelPlanned
  <2>2. UNCHANGED <<machine, e_unsure>> BY <1>2 DEF Env!ModelPlanned
  <2>3. next.at \notin Env!MoveAt BY <2>1 DEF Env!MoveAt
  <2> QED BY <2>1, <2>2, <2>3, <1>a
<1>3. ASSUME NEW w \in Workers, Env!ModelWritten(w) PROVE OneMove'
  <2>1. e_work[w] \in Changing BY <1>3, EnvShape DEF Env!ModelWritten, Env!At
  <2>2. [e_work[w] EXCEPT !.at = "model.row"].at \notin Env!MoveAt
    BY <2>1 DEF Changing, Env!MoveAt
  <2>3. Env!Goes(w, [e_work[w] EXCEPT !.at = "model.row"]) /\ UNCHANGED e_unsure
    BY <1>3 DEF Env!ModelWritten
  <2>4. machine'.via = machine.via /\ machine'.key = machine.key
    BY <1>3, <1>m DEF Env!ModelWritten, EnvShapes
  <2> QED BY <2>2, <2>3, <2>4, <1>a
<1>4. ASSUME NEW w \in Workers, Env!ModelUnfinished(w) \/ Env!ModelFails(w)
                 \/ Env!ModelSet(w)
      PROVE OneMove'
  <2>1. Env!Goes(w, Env!Idle)
    BY <1>4 DEF Env!ModelUnfinished, Env!ModelFails, Env!ModelSet, Env!ModelEnds,
       Env!Ends
  <2>2. "key" \notin e_unsure
    BY <1>4 DEF Env!ModelUnfinished, Env!ModelFails, Env!ModelSet
  <2>3. machine'.via = machine.via /\ machine'.key = machine.key
    BY <1>4, <1>m DEF Env!ModelUnfinished, Env!ModelFails, Env!ModelSet, EnvShapes
  <2> QED BY <2>1, <2>2, <2>3, <1>a, <1>d
<1>5. ASSUME NEW w \in Workers, Env!ModelRecorded(w) PROVE OneMove'
  <2>1. e_work[w] \in Changing BY <1>5, EnvShape DEF Env!ModelRecorded, Env!At
  <2>2. [e_work[w] EXCEPT !.at = "model.event"].at \notin Env!MoveAt
    BY <2>1 DEF Changing, Env!MoveAt
  <2>3. Env!Goes(w, [e_work[w] EXCEPT !.at = "model.event"])
            /\ UNCHANGED <<machine, e_unsure>>
    BY <1>5 DEF Env!ModelRecorded
  <2> QED BY <2>2, <2>3, <1>a
<1>6. ASSUME NEW w \in Workers, NEW join \in BOOLEAN, Env!MoveProvider(w, join)
      PROVE OneMove'
  <2>1. ~Env!Under(Env!MoveAt) /\ "key" \notin e_unsure /\ machine' = machine
    BY <1>6 DEF Env!MoveProvider
  <2>2. Env!Goes(w, [at |-> "move.read", join |-> join])
    BY <1>6, EnvBeginsGoes DEF Env!MoveProvider
  <2>3. e_work'[w] = [at |-> "move.read", join |-> join] /\ \A v \in Workers : v # w
            => e_work'[v] = e_work[v]
    BY <2>2, EnvGoesTo
  <2>4. \A v \in Workers : e_work[v].at \notin Env!MoveAt BY <2>1 DEF Env!Under
  <2>5. \A v \in Workers : v # w => e_work'[v].at # "move.remove"
    BY <2>3, <2>4 DEF Env!MoveAt
  <2> QED BY <2>1, <2>3, <2>4, <2>5 DEF OneMove
<1>7. ASSUME NEW w \in Workers, e_work[w].at \in Env!MoveAt, NEW next, Env!Goes(w, next),
                 "key" \notin e_unsure,
             next.at = "move.remove" /\ next.join => machine'.via = "gateway",
             machine'.via = "provider" => machine'.key
      PROVE  OneMove'
  <2>1. e_work'[w] = next /\ \A v \in Workers : v # w => e_work'[v] = e_work[v]
    BY <1>7, EnvGoesTo
  <2>2. \A v \in Workers : v # w => e_work[v].at \notin Env!MoveAt BY <1>7 DEF OneMove
  <2>3. \A v \in Workers : v # w => e_work'[v].at # "move.remove"
    BY <2>1, <2>2 DEF Env!MoveAt
  <2> QED BY <2>1, <2>2, <2>3, <1>7 DEF OneMove
<1>8. ASSUME NEW w \in Workers, Env!MoveReads(w) PROVE OneMove'
  <2>1. UNCHANGED <<machine, e_unsure>> BY <1>8 DEF Env!MoveReads
  <2>2. PICK next : Env!Goes(w, next) /\ next.at \in {"move.write", "idle"}
    BY <1>8 DEF Env!MoveReads, Env!Ends, Env!Idle
  <2>3. e_work[w].at \in Env!MoveAt BY <1>8 DEF Env!MoveReads, Env!At, Env!MoveAt
  <2> QED BY <2>1, <2>2, <2>3, <1>7 DEF OneMove
<1>9. ASSUME NEW w \in Workers, e_work[w].at = "move.write"
      PROVE  /\ Env!ProviderWritten(w).via = "provider" => Env!ProviderWritten(w).key
             /\ e_work[w].join => Env!ProviderWritten(w).via = "gateway"
  BY <1>m, <1>9 DEF Env!ProviderWritten, EnvShapes
<1>10. ASSUME NEW w \in Workers, Env!MoveWrites(w) PROVE OneMove'
  <2>1. machine' = Env!ProviderWritten(w) /\ e_work[w].at = "move.write"
    BY <1>10 DEF Env!MoveWrites, Env!At
  <2>2. "key" \notin e_unsure BY <1>10 DEF Env!MoveWrites, Env!Overtakes
  <2>3. Env!Goes(w, [at |-> "move.remove", join |-> e_work[w].join])
    BY <1>10 DEF Env!MoveWrites
  <2>4. e_work[w].at \in Env!MoveAt BY <2>1 DEF Env!MoveAt
  <2> QED BY <2>1, <2>2, <2>3, <2>4, <1>7, <1>9
<1>11. ASSUME NEW w \in Workers, Env!MoveWriteFails(w) PROVE OneMove'
  <2>1. e_work[w].at = "move.write" /\ Env!Goes(w, Env!Idle)
    BY <1>11 DEF Env!MoveWriteFails, Env!At, Env!Ends
  <2>2. "key" \notin e_unsure /\ (machine' = machine \/ machine' = Env!ProviderWritten(w))
    BY <1>11 DEF Env!MoveWriteFails, Env!Overtakes
  <2>3. e_work[w].at \in Env!MoveAt /\ Env!Idle.at # "move.remove"
    BY <2>1 DEF Env!MoveAt, Env!Idle
  <2>4. machine'.via = "provider" => machine'.key BY <2>1, <2>2, <1>9 DEF OneMove
  <2> QED BY <2>1, <2>2, <2>3, <2>4, <1>7
<1>12. ASSUME NEW w \in Workers, Env!MoveRemoves(w) \/ Env!MoveRemoveFails(w)
       PROVE OneMove'
  <2>1. e_work[w].at = "move.remove" /\ Env!Goes(w, Env!Idle) /\ UNCHANGED e_unsure
    BY <1>12 DEF Env!MoveRemoves, Env!MoveRemoveFails, Env!At, Env!Ends
  <2>2. machine' = machine \/ machine' = Env!Removed(w)
    BY <1>12 DEF Env!MoveRemoves, Env!MoveRemoveFails
  <2>3. Env!Removed(w).via = "provider" => Env!Removed(w).key
    BY <2>1, <1>m DEF OneMove, Env!Removed, EnvShapes
  <2>4. e_work[w].at \in Env!MoveAt /\ Env!Idle.at # "move.remove"
    BY <2>1 DEF Env!MoveAt, Env!Idle
  <2>5. machine'.via = "provider" => machine'.key BY <2>1, <2>2, <2>3 DEF OneMove
  <2> QED BY <2>1, <2>4, <2>5, <1>7
<1>13. ASSUME NEW w \in Workers, NEW size \in Sizes, Env!BeginResize(w, size)
       PROVE OneMove'
  <2>1. Env!Goes(w, [at |-> "size.write", size |-> size])
            /\ UNCHANGED <<machine, e_unsure>>
    BY <1>13, EnvBeginsGoes DEF Env!BeginResize
  <2> QED BY <2>1, <1>a DEF Env!MoveAt
<1>14. ASSUME NEW w \in Workers, Env!Resized(w) PROVE OneMove'
  <2>1. e_work[w] \in Sizing BY <1>14, EnvShape DEF Env!Resized, Env!At
  <2>2. [e_work[w] EXCEPT !.at = "size.event"].at \notin Env!MoveAt
    BY <2>1 DEF Sizing, Env!MoveAt
  <2>3. Env!Goes(w, [e_work[w] EXCEPT !.at = "size.event"]) /\ UNCHANGED e_unsure
    BY <1>14 DEF Env!Resized
  <2>4. machine'.via = machine.via /\ machine'.key = machine.key
    BY <1>14, <1>m DEF Env!Resized, EnvShapes
  <2> QED BY <2>2, <2>3, <2>4, <1>a
<1>15. ASSUME NEW w \in Workers, Env!ResizeUnfinished(w) \/ Env!ResizeFails(w)
                  \/ Env!SizeSet(w)
       PROVE OneMove'
  <2>1. Env!Goes(w, Env!Idle)
    BY <1>15 DEF Env!ResizeUnfinished, Env!ResizeFails, Env!SizeSet, Env!ResizeEnds,
       Env!Ends
  <2>2. "key" \notin e_unsure
    BY <1>15 DEF Env!ResizeUnfinished, Env!ResizeFails, Env!SizeSet
  <2>3. machine'.via = machine.via /\ machine'.key = machine.key
    BY <1>15, <1>m DEF Env!ResizeUnfinished, Env!ResizeFails, Env!SizeSet, EnvShapes
  <2> QED BY <2>1, <2>2, <2>3, <1>a, <1>d
<1>16. CASE Else
  <2>1. UNCHANGED e_work /\ "key" \notin e_unsure
    BY <1>16 DEF Else, Env!MeterReads, Env!MeterMarks, Env!HourTurns, Env!GrowsStale,
       Env!ResizedElsewhere, Env!SetDefault, Env!BoxMoves, Env!vars
  <2>2. machine'.via = machine.via /\ machine'.key = machine.key
    BY <1>16, <1>m DEF Else, Env!MeterReads, Env!MeterMarks, Env!HourTurns,
       Env!GrowsStale, Env!ResizedElsewhere, Env!SetDefault, Env!BoxMoves, Env!vars,
       EnvShapes
  <2> QED BY <2>1, <2>2 DEF OneMove
<1>17. CASE Env!Crash
  <2>1. \A w \in Workers : e_work'[w] = Env!Idle BY <1>17 DEF Env!Crash
  <2>2. "key" \notin e_unsure /\ UNCHANGED machine BY <1>17 DEF Env!Crash
  <2>3. Env!Idle.at # "move.remove" BY DEF Env!Idle
  <2> QED BY <2>1, <2>2, <2>3, <1>d DEF OneMove
<1> QED
  BY <1>1, <1>2, <1>3, <1>4, <1>5, <1>6, <1>8, <1>10, <1>11, <1>12, <1>13, <1>14, <1>15,
     <1>16, <1>17 DEF Env!Next, Env!Step, Else

(* Two facts of every step: a box that is gone stays gone, and what is     *)
(* unsure stays so.                                                        *)
LEMMA StaysGone == [Env!Next]_(Env!vars)
    => (Env!Settled' => Env!Settled) /\ e_unsure \subseteq e_unsure'
BY DEF Env!Settled, Env!Next, Env!Step, Env!BeginModelChange, Env!ModelPlanned,
   Env!ModelWritten, Env!ModelUnfinished, Env!ModelFails, Env!ModelRecorded,
   Env!ModelSet, Env!ModelEnds, Env!MoveProvider, Env!MoveReads, Env!MoveWrites,
   Env!MoveWriteFails, Env!MoveRemoves, Env!MoveRemoveFails, Env!Overtakes,
   Env!BeginResize, Env!Resized, Env!ResizeUnfinished, Env!ResizeFails, Env!SizeSet,
   Env!ResizeEnds, Env!MeterReads, Env!MeterMarks, Env!HourTurns, Env!GrowsStale,
   Env!ResizedElsewhere, Env!SetDefault, Env!BoxMoves, Env!Crash, Env!vars

LEMMA ModelFollowsNext ==
    EnvTyped /\ EnvOneEach /\ ModelFollows /\ [Env!Next]_(Env!vars) => ModelFollows'
<1> SUFFICES ASSUME EnvTyped, EnvOneEach, ModelFollows, [Env!Next]_(Env!vars),
                        Env!Settled', "model" \notin e_unsure'
             PROVE ModelFollows'
  BY DEF ModelFollows
<1>s. Env!Settled /\ "model" \notin e_unsure BY StaysGone
<1>m. machine \in EnvShapes BY DEF EnvTyped
<1> DEFINE Late == {"model.row", "model.event"}
<1>a. ASSUME NEW w \in Workers, NEW next, Env!Goes(w, next), e_work[w].at \notin Late,
             next.at \notin Late,
             next.at = "model.write" /\ next.wanted # None => next.wanted = next.model,
             UNCHANGED <<own, given>>, machine'.model = machine.model
      PROVE  ModelFollows'
  <2>1. e_work'[w] = next /\ \A v \in Workers : v # w => e_work'[v] = e_work[v]
    BY <1>a, EnvGoesTo
  <2>2. ~Env!Under(Late)' => ~Env!Under(Late) BY <1>a, <2>1 DEF Env!Under
  <2>3. Env!Recorded' = Env!Recorded BY <1>a DEF Env!Recorded
  <2> QED BY <2>1, <2>2, <2>3, <1>a, <1>s DEF ModelFollows
<1>b. ASSUME UNCHANGED <<e_work, own, given>>, machine'.model = machine.model
PROVE ModelFollows'
  <2>1. Env!Recorded' = Env!Recorded BY <1>b DEF Env!Recorded
  <2> QED BY <2>1, <1>b, <1>s DEF ModelFollows, Env!Under
<1>1. ASSUME NEW w \in Workers, NEW wanted \in Models \cup {None},
                 Env!BeginModelChange(w, wanted)
      PROVE  ModelFollows'
  <2>1. Env!Goes(w, [at |-> "model.plan", wanted |-> wanted])
            /\ UNCHANGED <<own, given, machine>>
        /\ e_work[w] = Env!Idle
    BY <1>1, EnvBeginsGoes DEF Env!BeginModelChange
  <2>2. e_work[w].at \notin Late BY <2>1 DEF Env!Idle
  <2> QED BY <2>1, <2>2, <1>a
<1>2. ASSUME NEW w \in Workers, Env!ModelPlanned(w) PROVE ModelFollows'
  <2>1. PICK next : /\ Env!Goes(w, next) /\ next.at = "model.write"
                    /\ next.wanted # None => next.wanted = next.model
    BY <1>2 DEF Env!ModelPlanned
  <2>2. e_work[w].at \notin Late BY <1>2 DEF Env!ModelPlanned, Env!At
  <2> QED BY <1>2, <2>1, <2>2, <1>a DEF Env!ModelPlanned
<1>c. ASSUME NEW w \in Workers, e_work[w].at \in Env!ModelAt, NEW next, Env!Goes(w, next)
      PROVE  /\ e_work'[w] = next
             /\ \A v \in Workers : v # w
                    => e_work'[v] = e_work[v] /\ e_work[v].at \notin Env!ModelAt
  BY <1>c, EnvGoesTo DEF EnvOneEach
<1>3. ASSUME NEW w \in Workers, Env!ModelWritten(w) PROVE ModelFollows'
  <2>1. e_work[w] \in Changing /\ e_work[w].at = "model.write"
    BY <1>3, EnvShape DEF Env!ModelWritten, Env!At
  <2>2. e_work[w].at \in Env!ModelAt BY <2>1 DEF Env!ModelAt
  <2> DEFINE next == [e_work[w] EXCEPT !.at = "model.row"]
  <2>3. next.at = "model.row" /\ next.model = e_work[w].model
            /\ next.wanted = e_work[w].wanted
    BY <2>1 DEF Changing
  <2>4. Env!Goes(w, next) BY <1>3 DEF Env!ModelWritten
  <2> HIDE DEF next
  <2>5. e_work'[w] = next
        /\ \A v \in Workers : v # w
               => e_work'[v] = e_work[v] /\ e_work[v].at \notin Env!ModelAt
    BY <2>2, <2>4, <1>c
  <2>6. machine'.model = next.model BY <1>3, <1>m, <2>3 DEF Env!ModelWritten, EnvShapes
  <2>7. next.wanted # None => next.wanted = next.model
    BY <2>1, <2>3, <1>s DEF ModelFollows
  <2> QED BY <2>3, <2>5, <2>6, <2>7 DEF ModelFollows, Env!ModelAt, Env!Under
<1>4. ASSUME NEW w \in Workers, Env!ModelUnfinished(w) PROVE ModelFollows'
  BY <1>4, <1>s DEF Env!ModelUnfinished
<1>5. ASSUME NEW w \in Workers, Env!ModelFails(w) PROVE ModelFollows'
  BY <1>5 DEF Env!ModelFails
<1>6. ASSUME NEW w \in Workers, Env!ModelRecorded(w) PROVE ModelFollows'
  <2>1. e_work[w] \in Changing /\ e_work[w].at = "model.row"
    BY <1>6, EnvShape DEF Env!ModelRecorded, Env!At
  <2>2. e_work[w].at \in Env!ModelAt BY <2>1 DEF Env!ModelAt
  <2> DEFINE next == [e_work[w] EXCEPT !.at = "model.event"]
  <2>3. next.at = "model.event" /\ next.model = e_work[w].model
            /\ next.wanted = e_work[w].wanted
    BY <2>1 DEF Changing
  <2>4. Env!Goes(w, next) BY <1>6 DEF Env!ModelRecorded
  <2> HIDE DEF next
  <2>5. e_work'[w] = next
        /\ \A v \in Workers : v # w
               => e_work'[v] = e_work[v] /\ e_work[v].at \notin Env!ModelAt
    BY <2>2, <2>4, <1>c
  <2>6. own' = next.wanted /\ machine'.model = next.model
        /\ (next.wanted # None => next.wanted = next.model)
    BY <1>6, <2>1, <2>3, <1>s DEF Env!ModelRecorded, ModelFollows
  <2> QED BY <2>3, <2>5, <2>6 DEF ModelFollows, Env!ModelAt, Env!Under
<1>7. ASSUME NEW w \in Workers, Env!ModelSet(w) PROVE ModelFollows'
  <2>1. e_work[w] \in Changing /\ e_work[w].at = "model.event"
    BY <1>7, EnvShape DEF Env!ModelSet, Env!At
  <2>2. e_work[w].at \in Env!ModelAt BY <2>1 DEF Env!ModelAt
  <2>3. Env!Goes(w, Env!Idle) /\ own' = own /\ machine' = machine
            /\ given' = e_work[w].model
    BY <1>7 DEF Env!ModelSet, Env!ModelEnds, Env!Ends
  <2>4. e_work'[w] = Env!Idle
        /\ \A v \in Workers : v # w
               => e_work'[v] = e_work[v] /\ e_work[v].at \notin Env!ModelAt
    BY <2>2, <2>3, <1>c
  <2>5. machine.model = e_work[w].model /\ own = e_work[w].wanted
        /\ (e_work[w].wanted # None => e_work[w].wanted = e_work[w].model)
    BY <2>1, <1>s DEF ModelFollows
  <2>6. machine'.model = Env!Recorded' BY <2>3, <2>5 DEF Env!Recorded
  <2> QED BY <2>4, <2>6 DEF ModelFollows, Env!ModelAt, Env!Idle
<1>8. ASSUME NEW w \in Workers, NEW join \in BOOLEAN, Env!MoveProvider(w, join)
      PROVE ModelFollows'
  <2>1. Env!Goes(w, [at |-> "move.read", join |-> join]) /\ e_work[w] = Env!Idle
        /\ UNCHANGED <<own, given, machine>>
    BY <1>8, EnvBeginsGoes DEF Env!MoveProvider
  <2>2. e_work[w].at \notin Late BY <2>1 DEF Env!Idle
  <2> QED BY <2>1, <2>2, <1>a
<1>9. ASSUME NEW w \in Workers, Env!MoveReads(w) PROVE ModelFollows'
  <2>1. PICK next : Env!Goes(w, next) /\ next.at \in {"move.write", "idle"}
    BY <1>9 DEF Env!MoveReads, Env!Ends, Env!Idle
  <2>2. e_work[w].at \notin Late BY <1>9 DEF Env!MoveReads, Env!At
  <2> QED BY <1>9, <2>1, <2>2, <1>a DEF Env!MoveReads
<1>10. ASSUME NEW w \in Workers, e_work[w].at = "move.write", e_unsure' = Env!Overtakes(w)
       PROVE  /\ Env!ProviderWritten(w).model = Env!Recorded
                     /\ machine.model = Env!Recorded
              /\ \A v \in Workers : e_work[v].at \notin Env!ModelAt
  <2>1. e_work[w].model = Env!Recorded /\ ~Env!Under(Env!ModelAt)
    BY <1>10 DEF Env!Overtakes
  <2>2. Env!ProviderWritten(w).model = e_work[w].model
    BY <1>m DEF Env!ProviderWritten, EnvShapes
  <2>3. \A v \in Workers : e_work[v].at \notin Env!ModelAt BY <2>1 DEF Env!Under
  <2>4. machine.model = Env!Recorded
    BY <2>3, <1>s DEF ModelFollows, Env!Under, Env!ModelAt
  <2> QED BY <2>1, <2>2, <2>3, <2>4
<1>11. ASSUME NEW w \in Workers, Env!MoveWrites(w) PROVE ModelFollows'
  <2>1. e_work[w].at = "move.write" /\ e_unsure' = Env!Overtakes(w)
            /\ machine' = Env!ProviderWritten(w)
    BY <1>11 DEF Env!MoveWrites, Env!At
  <2>2. Env!Goes(w, [at |-> "move.remove", join |-> e_work[w].join])
            /\ UNCHANGED <<own, given>>
    BY <1>11 DEF Env!MoveWrites
  <2>3. machine'.model = machine.model BY <2>1, <1>10
  <2> QED BY <2>1, <2>2, <2>3, <1>a
<1>12. ASSUME NEW w \in Workers, Env!MoveWriteFails(w) PROVE ModelFollows'
  <2>1. e_work[w].at = "move.write" /\ Env!Goes(w, Env!Idle) /\ UNCHANGED <<own, given>>
    BY <1>12 DEF Env!MoveWriteFails, Env!At, Env!Ends
  <2>2. machine'.model = machine.model
    <3>1. CASE machine' = machine BY <3>1
    <3>2. CASE machine' = Env!ProviderWritten(w) /\ e_unsure' = Env!Overtakes(w)
      BY <2>1, <3>2, <1>10
    <3> QED BY <3>1, <3>2, <1>12 DEF Env!MoveWriteFails
  <2> QED BY <2>1, <2>2, <1>a DEF Env!Idle
<1>13. ASSUME NEW w \in Workers, Env!MoveRemoves(w) \/ Env!MoveRemoveFails(w)
       PROVE ModelFollows'
  <2>1. e_work[w].at = "move.remove" /\ Env!Goes(w, Env!Idle) /\ UNCHANGED <<own, given>>
    BY <1>13 DEF Env!MoveRemoves, Env!MoveRemoveFails, Env!At, Env!Ends
  <2>2. machine'.model = machine.model
    BY <1>13, <1>m DEF Env!MoveRemoves, Env!MoveRemoveFails, Env!Removed, EnvShapes
  <2> QED BY <2>1, <2>2, <1>a DEF Env!Idle
<1>14. ASSUME NEW w \in Workers, NEW size \in Sizes, Env!BeginResize(w, size)
       PROVE ModelFollows'
  <2>1. Env!Goes(w, [at |-> "size.write", size |-> size]) /\ e_work[w] = Env!Idle
        /\ UNCHANGED <<own, given, machine>>
    BY <1>14, EnvBeginsGoes DEF Env!BeginResize
  <2>2. e_work[w].at \notin Late BY <2>1 DEF Env!Idle
  <2> QED BY <2>1, <2>2, <1>a
<1>15. ASSUME NEW w \in Workers, Env!Resized(w) PROVE ModelFollows'
  <2>1. e_work[w] \in Sizing /\ e_work[w].at = "size.write"
    BY <1>15, EnvShape DEF Env!Resized, Env!At
  <2>2. [e_work[w] EXCEPT !.at = "size.event"].at = "size.event" BY <2>1 DEF Sizing
  <2>3. machine'.model = machine.model BY <1>15, <1>m DEF Env!Resized, EnvShapes
  <2> QED BY <1>15, <2>1, <2>2, <2>3, <1>a DEF Env!Resized
<1>16. ASSUME NEW w \in Workers, Env!ResizeUnfinished(w) \/ Env!ResizeFails(w)
                  \/ Env!SizeSet(w)
       PROVE  ModelFollows'
  <2>1. e_work[w].at \in SizeAt /\ Env!Goes(w, Env!Idle) /\ UNCHANGED <<own, given>>
    BY <1>16 DEF Env!ResizeUnfinished, Env!ResizeFails, Env!SizeSet, Env!ResizeEnds,
       Env!Ends, Env!At, SizeAt
  <2>2. machine'.model = machine.model
    BY <1>16, <1>m DEF Env!ResizeUnfinished, Env!ResizeFails, Env!SizeSet, EnvShapes
  <2>3. e_work[w].at \notin Late BY <2>1 DEF SizeAt
  <2> QED BY <2>1, <2>2, <2>3, <1>a DEF Env!Idle
<1>17. CASE Else
  <2>1. UNCHANGED <<e_work, own, given>>
    BY <1>17 DEF Else, Env!MeterReads, Env!MeterMarks, Env!HourTurns, Env!GrowsStale,
       Env!ResizedElsewhere, Env!SetDefault, Env!BoxMoves, Env!vars
  <2>2. machine'.model = machine.model
    BY <1>17, <1>m DEF Else, Env!MeterReads, Env!MeterMarks, Env!HourTurns,
       Env!GrowsStale, Env!ResizedElsewhere, Env!SetDefault, Env!BoxMoves, Env!vars,
       EnvShapes
  <2> QED BY <2>1, <2>2, <1>b
<1>18. CASE Env!Crash
  <2>1. \A w \in Workers : e_work'[w] = Env!Idle BY <1>18 DEF Env!Crash
  <2>2. ~Env!Under(Late) /\ UNCHANGED <<own, given, machine>> BY <1>18 DEF Env!Crash
  <2>3. machine'.model = Env!Recorded' BY <2>2, <1>s DEF ModelFollows, Env!Recorded
  <2> QED BY <2>1, <2>3 DEF ModelFollows, Env!Idle
<1> QED
  BY <1>1, <1>2, <1>3, <1>4, <1>5, <1>6, <1>7, <1>8, <1>9, <1>11, <1>12, <1>13, <1>14,
     <1>15, <1>16, <1>17, <1>18 DEF Env!Next, Env!Step, Else

LEMMA SizeFollowsNext ==
    EnvTyped /\ EnvOneEach /\ SizeFollows /\ [Env!Next]_(Env!vars) => SizeFollows'
<1> SUFFICES ASSUME EnvTyped, EnvOneEach, SizeFollows, [Env!Next]_(Env!vars), Env!Settled',
                        "size" \notin e_unsure'
             PROVE SizeFollows'
  BY DEF SizeFollows
<1>s. Env!Settled /\ "size" \notin e_unsure BY StaysGone
<1>m. machine \in EnvShapes BY DEF EnvTyped
<1> DEFINE Read == <<sizeSet, label, reading>>
<1>a. ASSUME NEW w \in Workers, NEW next, Env!Goes(w, next), e_work[w].at # "size.event",
             next.at # "size.event", UNCHANGED Read, machine'.size = machine.size
      PROVE  SizeFollows'
  <2>1. e_work'[w] = next /\ \A v \in Workers : v # w => e_work'[v] = e_work[v]
    BY <1>a, EnvGoesTo
  <2>2. ~Env!Under({"size.event"})' => ~Env!Under({"size.event"})
    BY <1>a, <2>1 DEF Env!Under
  <2> QED BY <2>1, <2>2, <1>a, <1>s DEF SizeFollows
<1>1. ASSUME NEW w \in Workers, NEW first, Env!Begins(w, first), first.at # "size.event",
             UNCHANGED Read, UNCHANGED machine
      PROVE  SizeFollows'
  <2>1. Env!Goes(w, first) /\ e_work[w] = Env!Idle BY <1>1, EnvBeginsGoes
  <2>2. e_work[w].at # "size.event" BY <2>1 DEF Env!Idle
  <2> QED BY <1>1, <2>1, <2>2, <1>a
<1>2. ASSUME NEW w \in Workers, NEW wanted \in Models \cup {None},
                 Env!BeginModelChange(w, wanted)
      PROVE  SizeFollows'
  BY <1>2, <1>1 DEF Env!BeginModelChange, Env!metered
<1>3. ASSUME NEW w \in Workers, Env!ModelPlanned(w) \/ Env!ModelWritten(w)
                 \/ Env!ModelRecorded(w)
      PROVE  SizeFollows'
  <2>1. UNCHANGED Read /\ machine'.size = machine.size
    BY <1>3, <1>m DEF Env!ModelPlanned, Env!ModelWritten, Env!ModelRecorded, Env!events,
       Env!metered, EnvShapes
  <2>2. e_work[w].at # "size.event"
    BY <1>3 DEF Env!ModelPlanned, Env!ModelWritten, Env!ModelRecorded, Env!At
  <2>3. PICK next : Env!Goes(w, next) /\ next.at # "size.event"
    <3>1. CASE Env!ModelPlanned(w) BY <3>1 DEF Env!ModelPlanned
    <3>2. CASE Env!ModelWritten(w) \/ Env!ModelRecorded(w)
      <4>1. e_work[w] \in Changing
        BY <3>2, EnvShape DEF Env!ModelWritten, Env!ModelRecorded, Env!At
      <4>2. /\ [e_work[w] EXCEPT !.at = "model.row"].at = "model.row"
            /\ [e_work[w] EXCEPT !.at = "model.event"].at = "model.event"
        BY <4>1 DEF Changing
      <4> QED BY <3>2, <4>2 DEF Env!ModelWritten, Env!ModelRecorded
    <3> QED BY <1>3, <3>1, <3>2
  <2> QED BY <2>1, <2>2, <2>3, <1>a
<1>4. ASSUME NEW w \in Workers, Env!ModelUnfinished(w) \/ Env!ModelFails(w)
                 \/ Env!ModelSet(w)
      PROVE  SizeFollows'
  <2>1. UNCHANGED Read /\ machine'.size = machine.size /\ Env!Goes(w, Env!Idle)
    BY <1>4, <1>m DEF Env!ModelUnfinished, Env!ModelFails, Env!ModelSet, Env!ModelEnds,
       Env!Ends, Env!metered, EnvShapes
  <2>2. e_work[w].at # "size.event"
    BY <1>4 DEF Env!ModelUnfinished, Env!ModelFails, Env!ModelSet, Env!At
  <2> QED BY <2>1, <2>2, <1>a DEF Env!Idle
<1>5. ASSUME NEW w \in Workers, NEW join \in BOOLEAN, Env!MoveProvider(w, join)
      PROVE SizeFollows'
  BY <1>5, <1>1 DEF Env!MoveProvider, Env!events, Env!metered
<1>6. ASSUME NEW w \in Workers, Env!MoveReads(w) PROVE SizeFollows'
  <2>1. PICK next : Env!Goes(w, next) /\ next.at \in {"move.write", "idle"}
    BY <1>6 DEF Env!MoveReads, Env!Ends, Env!Idle
  <2>2. e_work[w].at # "size.event" BY <1>6 DEF Env!MoveReads, Env!At
  <2> QED BY <1>6, <2>1, <2>2, <1>a DEF Env!MoveReads, Env!events, Env!metered
<1>7. ASSUME NEW w \in Workers, Env!MoveWrites(w) \/ Env!MoveWriteFails(w)
      PROVE SizeFollows'
  <2>1. PICK next : Env!Goes(w, next) /\ next.at \in {"move.remove", "idle"}
    BY <1>7 DEF Env!MoveWrites, Env!MoveWriteFails, Env!Ends, Env!Idle
  <2>2. e_work[w].at # "size.event"
    BY <1>7 DEF Env!MoveWrites, Env!MoveWriteFails, Env!At
  <2>3. Env!ProviderWritten(w).size = machine.size
    BY <1>m DEF Env!ProviderWritten, EnvShapes
  <2>4. machine'.size = machine.size
    BY <1>7, <2>3 DEF Env!MoveWrites, Env!MoveWriteFails
  <2>5. UNCHANGED Read
    BY <1>7 DEF Env!MoveWrites, Env!MoveWriteFails, Env!events, Env!metered
  <2> QED BY <2>1, <2>2, <2>4, <2>5, <1>a
<1>8. ASSUME NEW w \in Workers, Env!MoveRemoves(w) \/ Env!MoveRemoveFails(w)
      PROVE SizeFollows'
  <2>1. Env!Goes(w, Env!Idle) /\ UNCHANGED Read
    BY <1>8 DEF Env!MoveRemoves, Env!MoveRemoveFails, Env!Ends, Env!events, Env!metered
  <2>2. e_work[w].at # "size.event"
    BY <1>8 DEF Env!MoveRemoves, Env!MoveRemoveFails, Env!At
  <2>3. machine'.size = machine.size
    BY <1>8, <1>m DEF Env!MoveRemoves, Env!MoveRemoveFails, Env!Removed, EnvShapes
  <2> QED BY <2>1, <2>2, <2>3, <1>a DEF Env!Idle
<1>9. ASSUME NEW w \in Workers, NEW size \in Sizes, Env!BeginResize(w, size)
      PROVE SizeFollows'
  BY <1>9, <1>1 DEF Env!BeginResize, Env!metered
<1>b. ASSUME NEW w \in Workers, e_work[w].at \in SizeAt, NEW next, Env!Goes(w, next)
      PROVE  /\ e_work'[w] = next
             /\ \A v \in Workers : v # w
                    => e_work'[v] = e_work[v] /\ e_work[v].at \notin SizeAt
  BY <1>b, EnvGoesTo DEF EnvOneEach
<1>10. ASSUME NEW w \in Workers, Env!Resized(w) PROVE SizeFollows'
  <2>1. e_work[w] \in Sizing /\ e_work[w].at = "size.write"
    BY <1>10, EnvShape DEF Env!Resized, Env!At
  <2>2. e_work[w].at \in SizeAt BY <2>1 DEF SizeAt
  <2> DEFINE next == [e_work[w] EXCEPT !.at = "size.event"]
  <2>3. next.at = "size.event" /\ next.size = e_work[w].size BY <2>1 DEF Sizing
  <2>4. Env!Goes(w, next) BY <1>10 DEF Env!Resized
  <2> HIDE DEF next
  <2>5. e_work'[w] = next
        /\ \A v \in Workers : v # w
               => e_work'[v] = e_work[v] /\ e_work[v].at \notin SizeAt
    BY <2>2, <2>4, <1>b
  <2>6. machine'.size = next.size BY <1>10, <1>m, <2>3 DEF Env!Resized, EnvShapes
  <2> QED BY <2>3, <2>5, <2>6 DEF SizeFollows, SizeAt, Env!Under
<1>11. ASSUME NEW w \in Workers, Env!ResizeUnfinished(w) PROVE SizeFollows'
  BY <1>11, <1>s DEF Env!ResizeUnfinished
<1>12. ASSUME NEW w \in Workers, Env!ResizeFails(w) PROVE SizeFollows'
  BY <1>12 DEF Env!ResizeFails
<1>13. ASSUME NEW w \in Workers, Env!SizeSet(w) PROVE SizeFollows'
  <2>1. e_work[w].at = "size.event" /\ Env!Goes(w, Env!Idle) /\ machine' = machine
        /\ sizeSet' = e_work[w].size
    BY <1>13 DEF Env!SizeSet, Env!ResizeEnds, Env!Ends, Env!At
  <2>2. e_work[w].at \in SizeAt BY <2>1 DEF SizeAt
  <2>3. e_work'[w] = Env!Idle
        /\ \A v \in Workers : v # w
               => e_work'[v] = e_work[v] /\ e_work[v].at \notin SizeAt
    BY <2>1, <2>2, <1>b
  <2>4. machine.size = e_work[w].size BY <2>1, <1>s DEF SizeFollows
  <2>5. ~label'.newer /\ (reading' # None => ~reading'.newer)
    <3>1. \A l \in EnvLabels : ~[l EXCEPT !.newer = FALSE].newer BY DEF EnvLabels
    <3> QED BY <1>13, <3>1 DEF Env!SizeSet, EnvTyped
  <2>6. \A v \in Workers : e_work'[v].at # "size.event" BY <2>3 DEF SizeAt, Env!Idle
  <2> QED BY <2>1, <2>4, <2>5, <2>6 DEF SizeFollows
<1>14. CASE Env!MeterReads
  <2>1. UNCHANGED <<e_work, machine, label, sizeSet>>
    BY <1>14 DEF Env!MeterReads, Env!events
  <2>2. reading'.size = machine.size BY <1>14 DEF Env!MeterReads
  <2> QED BY <2>1, <2>2, <1>s DEF SizeFollows, Env!Under
<1>15. CASE Env!MeterMarks
  <2>1. UNCHANGED <<e_work, machine, sizeSet>> /\ reading # None /\ label' = reading
        /\ reading' = None
    BY <1>15 DEF Env!MeterMarks, Env!events
  <2> QED BY <2>1, <1>s DEF SizeFollows, Env!Under
<1>c. ASSUME UNCHANGED e_work, UNCHANGED Read, machine'.size = machine.size
PROVE SizeFollows'
  BY <1>c, <1>s DEF SizeFollows, Env!Under
<1>16. CASE Env!HourTurns \/ Env!GrowsStale \/ UNCHANGED Env!vars
  BY <1>16, <1>c DEF Env!HourTurns, Env!GrowsStale, Env!vars, Env!events, Env!metered
<1>17. ASSUME NEW size \in Sizes, Env!ResizedElsewhere(size) PROVE SizeFollows'
  BY <1>17 DEF Env!ResizedElsewhere
<1>18. ASSUME NEW model \in Models, Env!SetDefault(model) PROVE SizeFollows'
  BY <1>18, <1>c DEF Env!SetDefault, Env!events, Env!metered
<1>19. ASSUME NEW to \in {"settled", "paused", "torn_down"}, Env!BoxMoves(to)
       PROVE SizeFollows'
  BY <1>19, <1>c DEF Env!BoxMoves, Env!events, Env!metered
<1>20. CASE Env!Crash
  <2>1. \A w \in Workers : e_work'[w] = Env!Idle BY <1>20 DEF Env!Crash
  <2>2. ~Env!Under({"size.event"}) /\ UNCHANGED <<machine, sizeSet, label>>
            /\ reading' = None
    BY <1>20 DEF Env!Crash, Env!events
  <2> QED BY <2>1, <2>2, <1>s DEF SizeFollows, Env!Idle
<1> QED
  BY <1>2, <1>3, <1>4, <1>5, <1>6, <1>7, <1>8, <1>9, <1>10, <1>11, <1>12, <1>13, <1>14,
     <1>15, <1>16, <1>17, <1>18, <1>19, <1>20 DEF Env!Next, Env!Step

LEMMA EnvInit == Env!Init => EnvInv
<1> SUFFICES ASSUME Env!Init PROVE EnvInv OBVIOUS
<1>1. EnvTyped BY EnvTypedInit
<1>2. \A w \in Workers : e_work[w] = Env!Idle BY DEF Env!Init
<1>3. Env!Idle.at = "idle" BY DEF Env!Idle
<1>4. EnvOneEach BY <1>2, <1>3 DEF EnvOneEach, Env!ModelAt, SizeAt
<1>5. machine.model = First /\ machine.key /\ machine.size = Least /\ ~label.newer
  BY DEF Env!Init
<1>6. Env!Recorded = First BY DEF Env!Init, Env!Recorded
<1>7. ModelFollows BY <1>2, <1>3, <1>5, <1>6 DEF ModelFollows
<1>8. OneMove BY <1>2, <1>3, <1>5 DEF OneMove, Env!MoveAt
<1>9. SizeFollows BY <1>2, <1>3, <1>5 DEF SizeFollows, Env!Init
<1> QED BY <1>1, <1>4, <1>7, <1>8, <1>9 DEF EnvInv

LEMMA EnvNext == EnvInv /\ [Env!Next]_(Env!vars) => EnvInv'
BY EnvTypedNext, EnvOneEachNext, ModelFollowsNext, OneMoveNext, SizeFollowsNext DEF
   EnvInv

LEMMA EnvMeans == EnvInv => Env!ModelIsRecorded /\ Env!AgentCanCall /\ Env!SizeIsKnown
<1> SUFFICES ASSUME EnvInv
    PROVE Env!ModelIsRecorded /\ Env!AgentCanCall /\ Env!SizeIsKnown OBVIOUS
<1>1. Env!ModelIsRecorded
  BY DEF EnvInv, ModelFollows, Env!ModelIsRecorded, Env!Under, Env!ModelAt
<1>2. Env!AgentCanCall BY DEF EnvInv, OneMove, Env!AgentCanCall
<1>3. Env!SizeIsKnown
  BY DEF EnvInv, SizeFollows, Env!SizeIsKnown, Env!Under, Env!BoxSize
<1> QED BY <1>1, <1>2, <1>3

(* The record of the agent's model says what its machine asks for, the     *)
(* machine can pay for its calls, and the size it is billed for is known,  *)
(* unless a change was cut off or overtaken (set_agent_model, resize_box). *)
THEOREM AgentStaysAsRecorded == Env!Spec => []AgentIsAsRecorded
<1>1. EnvInv => AgentIsAsRecorded BY EnvMeans DEF AgentIsAsRecorded
<1> QED BY <1>1, EnvInit, EnvNext, PTL DEF Env!Spec

(***************************************************************************)
(* The machine.  MakeInv: a name is one row's, two agents live in two      *)
(* apps, a shared app holds one machine (until a create could not see the  *)
(* one that is there), and what a creator or a desk carries is its own.    *)
(***************************************************************************)
(* Rows, machines and what is under way, by their shapes.                  *)
BoxRows == [status : {"none", "provisioning", "live", "torn_down"},
         name : Identities \cup {None}, endpoint : Makes!Machines \cup {None}]
Hosts == [app : Makes!Apps, up : BOOLEAN, id : Makes!Boxes, url : Nat]
Seeking == [at : {"look", "app", "import", "run"}, app : Makes!Apps]
Placing == [at : {"apply", "start"}, app : Makes!Apps, on : Makes!Machines]
CreatorSteps == {Makes!Idle} \cup Seeking \cup Placing
Reserving == [at : {"reserve"}, name : Identities, others : SUBSET Makes!Boxes]
Removing == [at : {"destroy", "sweep", "close", "shut", "release"}, box : Makes!Boxes,
             on : Makes!Machines \cup {None}]
Finding == [at : {"find"}, box : Makes!Boxes, app : Makes!Apps]
Mending == [at : {"inspect", "rewrite"}, box : Makes!Boxes, on : Makes!Machines]
Rotating == [at : {"rotate"}, box : Makes!Boxes, on : Makes!Machines, as :
    {"rotated", "repaired"}]
Deeds == {Makes!Idle} \cup Reserving \cup Removing \cup Finding \cup Mending \cup Rotating

MakeTyped ==
    /\ url \in Nat
    /\ row \in [Makes!Boxes -> BoxRows]
           /\ c_machine \in [Makes!Machines -> Hosts \cup {None}]
    /\ secrets \in [Makes!Apps -> Makes!Boxes \cup {None}]
    /\ creator \in [Makes!Boxes -> CreatorSteps] /\ desk \in [Workers -> Deeds]
    /\ told \in [Makes!Boxes -> Makes!Told]

Active(b) == row[b].status \in {"provisioning", "live"}
Home(b) == Makes!AppFor(row[b].name)
Mends == {"inspect", "rewrite", "rotate"}
Acts == {"destroy", "close", "sweep", "shut", "find", "inspect", "rewrite", "rotate"}

(* What was told of a box's identity, as far as its machine goes.          *)
Holds(b, m) ==
    c_machine[m].up =>
        /\ told[b] \notin {"nothing", "skipped"} => secrets[c_machine[m].app] = b
        /\ told[b] = "repaired" => c_machine[m].id = b

(* A name is one row's until a teardown is done, two agents are of two     *)
(* apps, and a shared app has one machine.                                 *)
Apart ==
    /\ \A b \in Makes!Boxes :
         /\ Active(b) => row[b].name # None
         /\ row[b].status = "provisioning" => row[b].endpoint = None
         /\ Makes!Live(b) => row[b].endpoint # None /\ c_machine[row[b].endpoint] # None
         /\ Makes!Alone /\ Makes!Live(b) =>
              c_machine[row[b].endpoint].app = Home(b) /\ Holds(b, row[b].endpoint)
         /\ Makes!Alone /\ row[b].status \in {"none", "provisioning"}
                => told[b] # "repaired"
    /\ \A b, c \in Makes!Boxes : b # c /\ row[b].name = row[c].name => row[b].name = None
    /\ Makes!Alone => \A b, c \in Makes!Boxes : b # c /\ Active(b) /\ Active(c)
           => Home(b) # Home(c)
    /\ Makes!Alone /\ ~prefix => \A m, k \in Makes!In("shared") : m = k

(* A create is for a row that waits for it, in the app of its name.        *)
Creates(b, s) ==
    /\ s.at \in {"apply", "start"}
           => c_machine[s.on] # None /\ c_machine[s.on].app = s.app
    /\ Makes!Alone =>
         /\ s # Makes!Idle => row[b].status = "provisioning" /\ s.app = Home(b)
         /\ ~prefix /\ s.at \in {"app", "import", "run"} => Makes!In("shared") = {}
         /\ s.at = "run" /\ s.app \in apps => secrets[s.app] = b
         /\ s.at = "start" => Holds(b, s.on)

(* Whatever else is under way for a box is for one that is still there.    *)
Deals(s) ==
    /\ s.at = "release" => row[s.box].status = "torn_down"
    /\ s.at \in Mends => c_machine[s.on] # None
    /\ Makes!Alone =>
         /\ s.at \in Acts => Active(s.box)
         /\ s.at = "find" => s.app = Home(s.box)
         /\ s.at \in {"destroy", "sweep"} /\ s.on # None =>
              c_machine[s.on] # None /\ c_machine[s.on].app = Home(s.box)
         /\ s.at \in Mends => Makes!Live(s.box) /\ s.on = row[s.box].endpoint
         /\ ~prefix /\ s.at = "reserve" => s.others = {}
         /\ s.at = "rotate" /\ s.as = "repaired" => c_machine[s.on].id = s.box

MakeInv ==
    /\ MakeTyped /\ Apart
    /\ \A b \in Makes!Boxes : Creates(b, creator[b])
    /\ \A d \in Workers : Deals(desk[d])

-----------------------------------------------------------------------------
LEMMA StepOf ==
    ASSUME MakeTyped, NEW b \in Makes!Boxes
    PROVE  /\ creator[b].at \in {"look", "app", "import", "run"} => creator[b] \in Seeking
           /\ creator[b].at \in {"apply", "start"} => creator[b] \in Placing
           /\ creator[b] # Makes!Idle => creator[b] \in Seeking \cup Placing
<1>1. creator[b] \in CreatorSteps BY DEF MakeTyped
<1> QED BY <1>1 DEF CreatorSteps, Seeking, Placing, Makes!Idle

LEMMA DeedOf ==
    ASSUME MakeTyped, NEW d \in Workers
    PROVE  /\ desk[d].at = "reserve" => desk[d] \in Reserving
           /\ desk[d].at \in {"destroy", "sweep", "close", "shut", "release"}
                  => desk[d] \in Removing
           /\ desk[d].at = "find" => desk[d] \in Finding
           /\ desk[d].at \in {"inspect", "rewrite"} => desk[d] \in Mending
           /\ desk[d].at = "rotate" => desk[d] \in Rotating
           /\ desk[d] # Makes!Idle /\ desk[d].at # "reserve" =>
                desk[d].at \in Acts \cup {"release"} /\ desk[d].box \in Makes!Boxes
<1>1. desk[d] \in Deeds BY DEF MakeTyped
<1> QED
  BY <1>1 DEF Deeds, Reserving, Removing, Finding, Mending, Rotating, Makes!Idle, Acts

(* What a creator, or another operation, has come to.                      *)
Becomes(b, s) == creator' = [creator EXCEPT ![b] = s]
Turns(d, s) == desk' = [desk EXCEPT ![d] = s]

LEMMA BecomesTyped ==
    ASSUME MakeTyped, NEW b \in Makes!Boxes, NEW s \in CreatorSteps, Becomes(b, s)
    PROVE  creator' \in [Makes!Boxes -> CreatorSteps]
BY DEF MakeTyped, Becomes

LEMMA BecomesOne ==
    ASSUME MakeTyped, NEW b \in Makes!Boxes, NEW s, Becomes(b, s)
    PROVE  creator'[b] = s /\ \A c \in Makes!Boxes : c # b => creator'[c] = creator[c]
BY DEF MakeTyped, Becomes

LEMMA TurnsTyped ==
    ASSUME MakeTyped, NEW d \in Workers, NEW s \in Deeds, Turns(d, s)
    PROVE  desk' \in [Workers -> Deeds]
BY DEF MakeTyped, Turns

LEMMA TurnsOne ==
    ASSUME MakeTyped, NEW d \in Workers, NEW s, Turns(d, s)
    PROVE  desk'[d] = s /\ \A e \in Workers : e # d => desk'[e] = desk[e]
BY DEF MakeTyped, Turns

LEMMA SeekerGoes ==
    ASSUME MakeTyped, NEW b \in Makes!Boxes,
               creator[b].at \in {"look", "app", "import", "run"},
           NEW step \in {"look", "app", "import", "run"}, Makes!Goes(b, step)
    PROVE  /\ Becomes(b, [at |-> step, app |-> creator[b].app])
           /\ [at |-> step, app |-> creator[b].app] \in CreatorSteps
<1>1. creator[b] \in Seeking BY StepOf
<1>2. [creator[b] EXCEPT !.at = step] = [at |-> step, app |-> creator[b].app]
  BY <1>1 DEF Seeking
<1>3. creator' = [creator EXCEPT ![b] = [creator[b] EXCEPT !.at = step]]
  BY DEF Makes!Goes, MakeTyped
<1>4. [at |-> step, app |-> creator[b].app] \in CreatorSteps
  BY <1>1 DEF Seeking, CreatorSteps
<1> QED BY <1>2, <1>3, <1>4 DEF Becomes

LEMMA PlacerGoes ==
    ASSUME MakeTyped, NEW b \in Makes!Boxes, creator[b].at = "apply",
               Makes!Goes(b, "start")
    PROVE  /\ Becomes(b, [at |-> "start", app |-> creator[b].app, on |-> creator[b].on])
           /\ [at |-> "start", app |-> creator[b].app,
                  on |-> creator[b].on] \in CreatorSteps
<1> DEFINE s == [at |-> "start", app |-> creator[b].app, on |-> creator[b].on]
<1>1. creator[b] \in Placing BY StepOf
<1>2. [creator[b] EXCEPT !.at = "start"] = s BY <1>1 DEF Placing
<1>3. creator' = [creator EXCEPT ![b] = [creator[b] EXCEPT !.at = "start"]]
  BY DEF Makes!Goes, MakeTyped
<1>4. s \in CreatorSteps BY <1>1 DEF Placing, CreatorSteps
<1> QED BY <1>2, <1>3, <1>4 DEF Becomes

LEMMA RemoverMoves ==
    ASSUME MakeTyped, NEW d \in Workers,
           desk[d].at \in {"destroy", "sweep", "close", "shut", "release"},
           NEW at \in {"destroy", "close", "shut", "release", "idle"}, Makes!Moves(d, at)
    PROVE  \E s \in Deeds :
             /\ Turns(d, s) /\ s.at = at
             /\ at # "idle" => s.box = desk[d].box /\ s.on = desk[d].on
             /\ at = "idle" => s = Makes!Idle
<1>1. desk[d] \in Removing BY DeedOf
<1>2. CASE at = "idle"
  <2>1. Makes!Idle \in Deeds /\ Makes!Idle.at = "idle" BY DEF Deeds, Makes!Idle
  <2> QED BY <1>2, <2>1 DEF Makes!Moves, Turns
<1>3. CASE at # "idle"
  <2> DEFINE s == [desk[d] EXCEPT !.at = at]
  <2>1. s \in Removing /\ s.at = at /\ s.box = desk[d].box /\ s.on = desk[d].on
    BY <1>1, <1>3 DEF Removing
  <2>2. Turns(d, s) BY <1>3 DEF Makes!Moves, Turns, MakeTyped
  <2> HIDE DEF s
  <2>3. s \in Deeds BY <2>1 DEF Deeds
  <2> QED BY <1>3, <2>1, <2>2, <2>3
<1> QED BY <1>2, <1>3

LEMMA HostChanges ==
    ASSUME NEW k \in Hosts
    PROVE  /\ [k EXCEPT !.up = FALSE] \in Hosts
           /\ \A b \in Makes!Boxes, u \in Nat : [k EXCEPT !.id = b, !.url = u] \in Hosts
           /\ k # None
BY MakesAssumption DEF Makes!NoneAssumption, Hosts
-----------------------------------------------------------------------------
(* What has gone astray or was crowded stays so, and one app is one's own. *)
LEMMA AloneBefore == Makes!Next => (Makes!Alone' => Makes!Alone) /\ UNCHANGED prefix
<1>1. ASSUME NEW d \in Workers,
             \/ Makes!Find(d) \/ Makes!Destroy(d) \/ Makes!Release(d) \/ Makes!Rotate(d)
                    \/ Makes!Inspect(d) \/ Makes!Rewrite(d)
             \/ \E b \in Makes!Boxes : Makes!Teardown(d, b) \/ Makes!Sweep(d, b)
                    \/ Makes!AsksIdentity(d, b) \/ Makes!AsksRepair(d, b)
      PROVE  UNCHANGED <<strayed, crowded, prefix>>
  BY <1>1 DEF Makes!Find, Makes!Destroy, Makes!Release, Makes!Rotate, Makes!Inspect,
     Makes!Rewrite, Makes!Teardown, Makes!Sweep, Makes!AsksIdentity, Makes!AsksRepair,
     Makes!history
<1>2. ASSUME NEW d \in Workers, (\E n \in Identities : Makes!Probe(d, n))
                 \/ Makes!Reserve(d) \/ Makes!Close(d)
      PROVE  (strayed => strayed') /\ (crowded => crowded') /\ UNCHANGED prefix
  <2>1. CASE \E n \in Identities : Makes!Probe(d, n)
    <3>1. (UNCHANGED <<faults, crowded>>) \/ crowded' = (crowded \/ ~prefix)
      BY <2>1, Zenon DEF Makes!Probe
    <3>2. (UNCHANGED <<faults, crowded>>) => UNCHANGED crowded OBVIOUS
    <3>3. crowded' = (crowded \/ ~prefix) => (crowded => crowded') BY Zenon
    <3>4. UNCHANGED <<prefix, strayed>> BY <2>1 DEF Makes!Probe
    <3> QED BY <3>1, <3>2, <3>3, <3>4
  <2>2. CASE Makes!Reserve(d) BY <2>2, Zenon DEF Makes!Reserve
  <2>3. CASE Makes!Close(d) BY <2>3, Zenon DEF Makes!Close
  <2> QED BY <1>2, <2>1, <2>2, <2>3
<1>3. ASSUME NEW b \in Makes!Boxes,
             \/ Makes!Look(b) \/ Makes!CreateApp(b) \/ Makes!Import(b) \/ Makes!Run(b)
                    \/ Makes!Apply(b) \/ Makes!Settle(b)
             \/ \E step \in {"look", "app", "import", "run"} : Makes!FailsAt(b, step)
             \/ Makes!RunIsLost(b)
      PROVE  (strayed => strayed') /\ (crowded => crowded') /\ UNCHANGED prefix
  <2>1. Makes!Abandons(b) => (strayed => strayed') /\ (crowded => crowded')
    <3>1. Makes!Abandons(b) => (strayed => strayed') BY Zenon DEF Makes!Abandons
    <3>2. Makes!Abandons(b) => UNCHANGED crowded BY DEF Makes!Abandons
    <3> QED BY <3>1, <3>2
  <2>2. CASE Makes!Look(b)
    <3>1. (UNCHANGED <<faults, crowded>>) \/ crowded' = (crowded \/ ~prefix)
      BY <2>2, Zenon DEF Makes!Look
    <3>2. (UNCHANGED <<faults, crowded>>) => UNCHANGED crowded OBVIOUS
    <3>3. crowded' = (crowded \/ ~prefix) => (crowded => crowded') BY Zenon
    <3>4. UNCHANGED <<prefix, strayed>> BY <2>2 DEF Makes!Look
    <3> QED BY <3>1, <3>2, <3>3, <3>4
  <2>3. CASE Makes!CreateApp(b) \/ Makes!Apply(b) \/ Makes!Settle(b)
    BY <2>3 DEF Makes!CreateApp, Makes!Apply, Makes!Settle, Makes!history
  <2>4. CASE Makes!Import(b)
    <3>1. Makes!Fails(b) \/ UNCHANGED <<strayed, crowded>>
      BY <2>4 DEF Makes!Import, Makes!history
    <3> QED BY <2>1, <2>4, <3>1 DEF Makes!Import, Makes!Fails
  <2>5. CASE Makes!Run(b)
    <3>1. Makes!Fails(b) \/ UNCHANGED <<strayed, crowded>>
      BY <2>5 DEF Makes!Run, Makes!history
    <3> QED BY <2>1, <2>5, <3>1 DEF Makes!Run, Makes!Fails
  <2>6. CASE \E step \in {"look", "app", "import", "run"} : Makes!FailsAt(b, step)
    BY <2>1, <2>6 DEF Makes!FailsAt, Makes!Fails
  <2>7. CASE Makes!RunIsLost(b) BY <2>1, <2>7 DEF Makes!RunIsLost
  <2> QED BY <1>3, <2>2, <2>3, <2>4, <2>5, <2>6, <2>7
<1>4. Makes!Crash => UNCHANGED <<strayed, crowded, prefix>>
  BY DEF Makes!Crash, Makes!history
<1> QED BY <1>1, <1>2, <1>3, <1>4 DEF Makes!Next, Makes!Alone

LEMMA IdleFits == Makes!Idle \in CreatorSteps /\ Makes!Idle \in Deeds
    /\ (\A b \in Makes!Boxes : Creates(b, Makes!Idle)) /\ Deals(Makes!Idle)
BY DEF Makes!Idle, CreatorSteps, Deeds, Creates, Deals, Acts, Mends

(* Where neither rows nor machines nor what was told change, nothing is    *)
(* less right than it was.                                                 *)
LEMMA Still ==
    ASSUME Makes!Alone'
               => Makes!Alone, UNCHANGED <<prefix, row, c_machine, apps, secrets, told>>
    PROVE  /\ Apart => Apart'
           /\ \A b, s : Creates(b, s) => Creates(b, s)'
           /\ \A s : Deals(s) => Deals(s)'
<1>1. UNCHANGED Makes!In("shared") BY DEF Makes!In
<1>2. Apart => Apart' BY <1>1 DEF Apart, Active, Makes!Live, Home, Makes!AppFor, Holds
<1>3. \A b, s : Creates(b, s) => Creates(b, s)'
  BY <1>1 DEF Creates, Home, Makes!AppFor, Holds
<1>4. \A s : Deals(s) => Deals(s)' BY DEF Deals, Active, Makes!Live, Home, Makes!AppFor
<1> QED BY <1>2, <1>3, <1>4

LEMMA DeskTurns ==
    ASSUME MakeInv, NEW d \in Workers, NEW s \in Deeds, Turns(d, s), Deals(s)',
           Makes!Alone'
               => Makes!Alone, UNCHANGED <<url, prefix, row, Makes!fly, creator, told>>
    PROVE  MakeInv'
<1>1. desk' \in [Workers -> Deeds] /\ desk'[d] = s /\ \A e \in Workers : e # d
          => desk'[e] = desk[e]
  BY TurnsTyped, TurnsOne DEF MakeInv
<1>2. UNCHANGED <<row, c_machine, apps, secrets, told>> BY DEF Makes!fly
<1>3. MakeTyped' BY <1>1, <1>2 DEF MakeInv, MakeTyped
<1>4. \A b \in Makes!Boxes : Creates(b, creator[b])' BY <1>2, Still DEF MakeInv
<1>5. \A e \in Workers : Deals(desk[e])' BY <1>1, <1>2, Still DEF MakeInv
<1>6. Apart' BY <1>2, Still DEF MakeInv
<1> QED BY <1>3, <1>4, <1>5, <1>6 DEF MakeInv

LEMMA CreatorTurns ==
    ASSUME MakeInv, NEW b \in Makes!Boxes, NEW s \in CreatorSteps, Becomes(b, s),
               Creates(b, s)',
           Makes!Alone'
               => Makes!Alone, UNCHANGED <<url, prefix, row, Makes!fly, desk, told>>
    PROVE  MakeInv'
<1>1. creator' \in [Makes!Boxes -> CreatorSteps] /\ creator'[b] = s
      /\ \A c \in Makes!Boxes : c # b => creator'[c] = creator[c]
  BY BecomesTyped, BecomesOne DEF MakeInv
<1>2. UNCHANGED <<row, c_machine, apps, secrets, told>> BY DEF Makes!fly
<1>3. MakeTyped' BY <1>1, <1>2 DEF MakeInv, MakeTyped
<1>4. \A c \in Makes!Boxes : Creates(c, creator[c])' BY <1>1, <1>2, Still DEF MakeInv
<1>5. \A e \in Workers : Deals(desk[e])' BY <1>2, Still DEF MakeInv
<1>6. Apart' BY <1>2, Still DEF MakeInv
<1> QED BY <1>3, <1>4, <1>5, <1>6 DEF MakeInv

LEMMA ProbeKeeps ==
    ASSUME MakeInv, NEW d \in Workers, NEW n \in Identities, Makes!Probe(d, n),
               Makes!Alone' => Makes!Alone
    PROVE  MakeInv'
<1>s. PICK s : s = [at |-> "reserve", name |-> n, others |-> Makes!Hosted] OBVIOUS
<1>1. Makes!Hosted \in SUBSET Makes!Boxes BY DEF Makes!Hosted
<1>2. s \in Deeds /\ Turns(d, s)
          /\ UNCHANGED <<url, prefix, row, Makes!fly, creator, told>>
  BY <1>s, <1>1 DEF Makes!Probe, Deeds, Reserving, Turns
<1>3. ASSUME Makes!Alone', ~prefix PROVE Makes!Hosted = {}
  <2>1. Makes!AppFor(n) = "shared" /\ \A b \in Makes!Boxes : Home(b) = "shared"
    BY <1>3 DEF Makes!AppFor, Home
  <2>2. Makes!In("shared") = {} \/ \E m \in Makes!In("shared") : ~Makes!Occupied(m)
    BY <1>3, <2>1 DEF Makes!Probe, Makes!Alone
  <2>3. \A m, k \in Makes!In("shared") : m = k BY <1>3 DEF MakeInv, Apart
  <2>4. ASSUME NEW b \in Makes!Boxes, Makes!Live(b), c_machine[row[b].endpoint].up
        PROVE FALSE
    <3>1. row[b] \in BoxRows BY DEF MakeInv, MakeTyped
    <3>2. row[b].endpoint \in Makes!Machines /\ c_machine[row[b].endpoint] # None
          /\ c_machine[row[b].endpoint].app = "shared"
      BY <1>3, <2>1, <2>4, <3>1 DEF MakeInv, Apart, BoxRows
    <3>3. row[b].endpoint \in Makes!In("shared") /\ Makes!Occupied(row[b].endpoint)
      BY <2>4, <3>2 DEF Makes!In, Makes!Occupied, Makes!Live
    <3> QED BY <2>2, <2>3, <3>3
  <2> QED BY <2>4 DEF Makes!Hosted
<1>4. Deals(s)'
  <2>1. s.at = "reserve" /\ s.others = Makes!Hosted BY <1>s
  <2> QED BY <1>2, <1>3, <2>1 DEF Deals, Mends, Acts
<1> QED BY <1>2, <1>4, DeskTurns

LEMMA TeardownKeeps ==
    ASSUME MakeInv, NEW d \in Workers, NEW b \in Makes!Boxes, Makes!Teardown(d, b),
               Makes!Alone' => Makes!Alone
    PROVE  MakeInv'
<1>s. PICK s :
    s = [at |-> IF row[b].status = "torn_down" THEN "release" ELSE Makes!Then["read"],
                    box |-> b, on |-> row[b].endpoint]
  OBVIOUS
<1>1. row[b] \in BoxRows /\ Makes!Then["read"] = "destroy"
  BY DEF MakeInv, MakeTyped, Makes!Then
<1>2. s \in Removing /\ s.box = b /\ s.on = row[b].endpoint
      /\ s.at = IF row[b].status = "torn_down" THEN "release" ELSE "destroy"
  BY <1>s, <1>1 DEF Removing, BoxRows
<1>3. Turns(d, s) /\ row[b].status # "none"
          /\ UNCHANGED <<url, prefix, row, Makes!fly, creator, told>>
  BY <1>s DEF Makes!Teardown, Turns
<1>4. row[b].status # "torn_down" => Active(b) BY <1>1, <1>3 DEF BoxRows, Active
<1>5. Deals(s)
  BY <1>2, <1>4 DEF MakeInv, Apart, Deals, Mends, Acts, Active, Makes!Live
<1>6. UNCHANGED <<row, c_machine, apps, secrets, told, prefix>> BY <1>3 DEF Makes!fly
<1>7. Deals(s)' BY <1>5, <1>6, Still
<1>8. s \in Deeds BY <1>2 DEF Deeds
<1> QED BY <1>3, <1>7, <1>8, DeskTurns

LEMMA SweepKeeps ==
    ASSUME MakeInv, NEW d \in Workers, NEW b \in Makes!Boxes, Makes!Sweep(d, b),
               Makes!Alone' => Makes!Alone
    PROVE  MakeInv'
<1>s. PICK s : s = [at |-> "find", box |-> b, app |-> Makes!AppFor(row[b].name)] OBVIOUS
<1>1. Turns(d, s) /\ row[b].status = "provisioning"
      /\ UNCHANGED <<url, prefix, row, Makes!fly, creator, told>>
  BY <1>s DEF Makes!Sweep, Turns
<1>2. row[b] \in BoxRows /\ row[b].name # None
  BY <1>1 DEF MakeInv, MakeTyped, Apart, Active
<1>3. Makes!AppFor(row[b].name) \in Makes!Apps
  BY <1>2 DEF BoxRows, Makes!AppFor, Makes!Apps
<1>4. s \in Deeds BY <1>s, <1>3 DEF Deeds, Finding
<1>5. Deals(s) BY <1>s, <1>1 DEF Deals, Mends, Acts, Active, Home
<1>6. UNCHANGED <<row, c_machine, apps, secrets, told, prefix>> BY <1>1 DEF Makes!fly
<1>7. Deals(s)' BY <1>5, <1>6, Still
<1> QED BY <1>1, <1>4, <1>7, DeskTurns

LEMMA FindKeeps ==
    ASSUME MakeInv, NEW d \in Workers, Makes!Find(d), Makes!Alone' => Makes!Alone
    PROVE  MakeInv'
<1>1. desk[d] \in Finding /\ Deals(desk[d]) /\ desk[d].at = "find"
      /\ UNCHANGED <<url, prefix, row, Makes!fly, creator, told>>
  BY DeedOf DEF MakeInv, Makes!Find
<1>2. PICK m \in Makes!In(desk[d].app) \cup {None} :
               Turns(d, [at |-> "sweep", box |-> desk[d].box, on |-> m])
  BY DEF Makes!Find, Turns
<1>s. PICK s : s = [at |-> "sweep", box |-> desk[d].box, on |-> m] OBVIOUS
<1>3. m # None => m \in Makes!Machines /\ c_machine[m] # None
          /\ c_machine[m].app = desk[d].app
  BY <1>2 DEF Makes!In
<1>4. s \in Deeds BY <1>s, <1>1, <1>3 DEF Deeds, Removing, Finding
<1>5. Deals(s) BY <1>s, <1>1, <1>3 DEF Deals, Mends, Acts
<1>6. UNCHANGED <<row, c_machine, apps, secrets, told, prefix>> BY <1>1 DEF Makes!fly
<1>7. Deals(s)' BY <1>5, <1>6, Still
<1> QED BY <1>s, <1>1, <1>2, <1>4, <1>7, DeskTurns

LEMMA AsksKeeps ==
    ASSUME MakeInv, NEW d \in Workers, NEW b \in Makes!Boxes, Makes!AsksIdentity(d, b)
               \/ Makes!AsksRepair(d, b),
           Makes!Alone' => Makes!Alone
    PROVE  MakeInv'
<1>1. row[b] \in BoxRows /\ Makes!Live(b) /\ row[b].endpoint # None
          /\ c_machine[row[b].endpoint] # None
      /\ UNCHANGED <<url, prefix, row, Makes!fly, creator, told>>
  BY DEF Makes!AsksIdentity, Makes!AsksRepair, MakeInv, MakeTyped, Apart
<1>2. row[b].endpoint \in Makes!Machines /\ Active(b)
  BY <1>1 DEF BoxRows, Makes!Live, Active
<1>3. PICK s \in Mending \cup Rotating :
        /\ Turns(d, s) /\ s.at \in {"inspect", "rotate"} /\ s.box = b
               /\ s.on = row[b].endpoint
        /\ s.at = "rotate" => s.as = "rotated"
  <2>1. CASE Makes!AsksIdentity(d, b)
    <3>1. [at |-> "rotate", box |-> b, on |-> row[b].endpoint,
              as |-> "rotated"] \in Rotating
      BY <1>2 DEF Rotating
    <3>2. Turns(d, [at |-> "rotate", box |-> b, on |-> row[b].endpoint, as |-> "rotated"])
      BY <2>1 DEF Makes!AsksIdentity, Turns
    <3> QED BY <3>1, <3>2
  <2>2. CASE Makes!AsksRepair(d, b)
    <3>1. [at |-> "inspect", box |-> b, on |-> row[b].endpoint] \in Mending
      BY <1>2 DEF Mending
    <3>2. Turns(d, [at |-> "inspect", box |-> b, on |-> row[b].endpoint])
      BY <2>2 DEF Makes!AsksRepair, Turns
    <3> QED BY <3>1, <3>2
  <2> QED BY <2>1, <2>2
<1>4. s \in Deeds BY DEF Deeds
<1>5. Deals(s) BY <1>1, <1>2, <1>3 DEF Deals, Mends, Acts
<1>6. UNCHANGED <<row, c_machine, apps, secrets, told, prefix>> BY <1>1 DEF Makes!fly
<1>7. Deals(s)' BY <1>5, <1>6, Still
<1> QED BY <1>1, <1>3, <1>4, <1>7, DeskTurns
-----------------------------------------------------------------------------
(* A create that looks.                                                    *)
LEMMA LookKeeps ==
    ASSUME MakeInv, NEW b \in Makes!Boxes, Makes!Look(b), Makes!Alone' => Makes!Alone
    PROVE  MakeInv'
<1>1. creator[b] \in Seeking /\ Creates(b, creator[b]) /\ creator[b].at = "look"
          /\ creator[b] # Makes!Idle
      /\ UNCHANGED <<url, prefix, row, Makes!fly, desk, told>>
  BY StepOf DEF MakeInv, Makes!Look, Makes!At, Makes!Idle
<1>2. UNCHANGED <<row, c_machine, apps, secrets, told, prefix>> BY <1>1 DEF Makes!fly
<1>3. Makes!Alone => row[b].status = "provisioning" /\ creator[b].app = Home(b)
  BY <1>1 DEF Creates
<1>4. ASSUME NEW m \in Makes!In(creator[b].app),
             creator' = [creator EXCEPT ![b] = [at |-> "apply", app |-> @.app, on |-> m]]
      PROVE  MakeInv'
  <2>s. PICK s : s = [at |-> "apply", app |-> creator[b].app, on |-> m] OBVIOUS
  <2>1. Becomes(b, s) BY <1>4, <2>s DEF Becomes, MakeInv, MakeTyped
  <2>2. s \in CreatorSteps
    BY <1>1, <1>4, <2>s DEF CreatorSteps, Placing, Seeking, Makes!In
  <2>3. Creates(b, s) BY <1>3, <1>4, <2>s DEF Creates, Makes!In
  <2>4. Creates(b, s)' BY <1>2, <2>3, Still
  <2> QED BY <1>1, <2>1, <2>2, <2>4, CreatorTurns
<1>5. ASSUME Makes!Goes(b, "app"), Makes!In(creator[b].app) = {}
                 \/ crowded' = (crowded \/ ~prefix)
      PROVE  MakeInv'
  <2>s. PICK s : s = [at |-> "app", app |-> creator[b].app] OBVIOUS
  <2>1. Becomes(b, s) /\ s \in CreatorSteps BY <1>1, <1>5, <2>s, SeekerGoes DEF MakeInv
  <2>2. Makes!Alone' /\ ~prefix => Makes!In(creator[b].app) = {}
    <3>1. crowded' = (crowded \/ ~prefix) /\ ~prefix => crowded' BY Zenon
    <3> QED BY <1>5, <3>1 DEF Makes!Alone
  <2>3. Makes!Alone' /\ ~prefix => Makes!In("shared") = {}
    BY <1>3, <2>2 DEF Home, Makes!AppFor
  <2>4. UNCHANGED Makes!In("shared") BY <1>2 DEF Makes!In
  <2>5. Creates(b, s)' BY <1>2, <1>3, <2>s, <2>3, <2>4 DEF Creates, Home, Makes!AppFor
  <2> QED BY <1>1, <2>1, <2>5, CreatorTurns
<1>6. \/ \E m \in Makes!In(creator[b].app) :
           creator' = [creator EXCEPT ![b] = [at |-> "apply", app |-> @.app, on |-> m]]
      \/ Makes!Goes(b, "app")
             /\ (Makes!In(creator[b].app) = {} \/ crowded' = (crowded \/ ~prefix))
  BY Zenon DEF Makes!Look
<1> QED BY <1>4, <1>5, <1>6

(* Two active agents are of two apps.                                      *)
LEMMA ApartHome ==
    ASSUME MakeInv, Makes!Alone, NEW b \in Makes!Boxes, NEW c \in Makes!Boxes, Active(b),
               Active(c), Home(b) = Home(c)
    PROVE  b = c
BY DEF MakeInv, Apart

LEMMA CreateAppKeeps ==
    ASSUME MakeInv, NEW b \in Makes!Boxes, Makes!CreateApp(b), Makes!Alone' => Makes!Alone
    PROVE  MakeInv'
<1>1. creator[b] \in Seeking /\ Creates(b, creator[b]) /\ creator[b].at = "app"
          /\ creator[b] # Makes!Idle
      /\ apps' = apps \cup {creator[b].app} /\ Makes!Goes(b, "import")
      /\ UNCHANGED <<url, prefix, row, secrets, c_machine, desk, told>>
  BY StepOf DEF MakeInv, Makes!CreateApp, Makes!At, Makes!Idle
<1>s. PICK s : s = [at |-> "import", app |-> creator[b].app] OBVIOUS
<1>2. Becomes(b, s) /\ s \in CreatorSteps BY <1>1, <1>s, SeekerGoes DEF MakeInv
<1>3. creator' \in [Makes!Boxes -> CreatorSteps] /\ creator'[b] = s
      /\ \A c \in Makes!Boxes : c # b => creator'[c] = creator[c]
  BY <1>2, BecomesTyped, BecomesOne DEF MakeInv
<1>4. UNCHANGED Makes!In("shared") BY <1>1 DEF Makes!In
<1>5. Apart'
  BY <1>1, <1>4 DEF MakeInv, Apart, Active, Makes!Live, Home, Makes!AppFor, Holds
<1>6. \A e \in Workers : Deals(desk[e])'
  BY <1>1 DEF MakeInv, Deals, Active, Makes!Live, Home, Makes!AppFor
<1>7. Creates(b, s)' BY <1>1, <1>s, <1>4 DEF Creates, Home, Makes!AppFor
<1>8. ASSUME NEW c \in Makes!Boxes, c # b PROVE Creates(c, creator[c])'
  <2>1. Creates(c, creator[c]) /\ creator'[c] = creator[c] BY <1>3, <1>8 DEF MakeInv
  <2>2. ASSUME Makes!Alone, creator[c].at = "run" PROVE creator[c].app # creator[b].app
    <3>1. creator[c] # Makes!Idle BY <2>2 DEF Makes!Idle
    <3>2. Active(c) /\ Active(b) /\ creator[c].app = Home(c) /\ creator[b].app = Home(b)
      BY <1>1, <2>1, <2>2, <3>1 DEF Creates, Active
    <3> QED BY <1>8, <2>2, <3>2, ApartHome
  <2> QED BY <1>1, <1>4, <2>1, <2>2 DEF Creates, Home, Makes!AppFor, Holds
<1>9. \A c \in Makes!Boxes : Creates(c, creator[c])' BY <1>3, <1>7, <1>8
<1>10. MakeTyped' BY <1>1, <1>3 DEF MakeInv, MakeTyped
<1> QED BY <1>5, <1>6, <1>9, <1>10 DEF MakeInv

(* A box's secrets set, or what its timeline says changed.                 *)
LEMMA Tells ==
    ASSUME MakeInv, Makes!Alone'
               => Makes!Alone, NEW b \in Makes!Boxes, NEW a \in Makes!Apps,
           Makes!Imports(a, b) \/ UNCHANGED Makes!fly, UNCHANGED <<row, prefix>>,
           \A c \in Makes!Boxes : c # b => told'[c] = told[c],
           Makes!Alone' => Active(b) /\ a = Home(b),
           Makes!Alone' /\ Makes!Live(b) => Holds(b, row[b].endpoint)',
           Makes!Alone' /\ row[b].status = "provisioning" => told'[b] # "repaired"
    PROVE  /\ Apart' /\ secrets' \in [Makes!Apps -> Makes!Boxes \cup {None}]
           /\ \A c \in Makes!Boxes : c # b => \A s : Creates(c, s) => Creates(c, s)'
           /\ \A s : Deals(s) => Deals(s)'
<1>1. /\ UNCHANGED <<c_machine, apps>>
             /\ secrets' \in [Makes!Apps -> Makes!Boxes \cup {None}]
      /\ \A x \in Makes!Apps : x # a => secrets'[x] = secrets[x]
  BY DEF Makes!Imports, Makes!Secrets, Makes!fly, MakeInv, MakeTyped
<1>2. UNCHANGED Makes!In("shared") BY <1>1 DEF Makes!In
<1>3. ASSUME Makes!Alone', NEW c \in Makes!Boxes, c # b, Active(c), NEW m,
             c_machine[m].app = Home(c), Holds(c, m)
      PROVE  Holds(c, m)'
  <2>1. Home(c) # a BY <1>3, ApartHome
  <2>2. row[c] \in BoxRows /\ row[c].name # None BY <1>3 DEF MakeInv, MakeTyped, Apart
  <2>3. Home(c) \in Makes!Apps BY <2>2 DEF BoxRows, Home, Makes!AppFor, Makes!Apps
  <2> QED BY <1>1, <1>3, <2>1, <2>3 DEF Holds
<1>4. Apart'
  <2>1. ASSUME NEW c \in Makes!Boxes, Makes!Alone', Makes!Live(c)
        PROVE Holds(c, row[c].endpoint)'
    <3>1. CASE c = b BY <2>1, <3>1
    <3>2. CASE c # b
      <4>1. Active(c) BY <2>1 DEF Makes!Live, Active
      <4>2. c_machine[row[c].endpoint].app = Home(c) /\ Holds(c, row[c].endpoint)
        BY <2>1 DEF MakeInv, Apart
      <4>3. \A m : c_machine[m].app = Home(c) /\ Holds(c, m) => Holds(c, m)'
        BY <1>3, <2>1, <3>2, <4>1
      <4>4. row'[c].endpoint = row[c].endpoint OBVIOUS
      <4> QED BY <4>2, <4>3, <4>4 DEF Holds
    <3> QED BY <3>1, <3>2
  <2> QED BY <1>1, <1>2, <2>1 DEF MakeInv, Apart, Active, Makes!Live, Home, Makes!AppFor
<1>5. ASSUME NEW c \in Makes!Boxes, c # b, NEW s, Creates(c, s) PROVE Creates(c, s)'
  <2>1. ASSUME Makes!Alone', s # Makes!Idle
        PROVE  Active(c) /\ s.app = Home(c) /\ Home(c) # a /\ Home(c) \in Makes!Apps
    <3>1. Active(c) /\ s.app = Home(c) BY <1>5, <2>1 DEF Creates, Active
    <3>2. Home(c) # a BY <1>5, <2>1, <3>1, ApartHome
    <3>3. row[c] \in BoxRows /\ row[c].name # None BY <3>1 DEF MakeInv, MakeTyped, Apart
    <3> QED BY <3>1, <3>2, <3>3 DEF BoxRows, Home, Makes!AppFor, Makes!Apps
  <2>2. ASSUME Makes!Alone', s.at = "start" PROVE Holds(c, s.on)'
    <3>1. s # Makes!Idle BY <2>2 DEF Makes!Idle
    <3>2. c_machine[s.on].app = Home(c) /\ Holds(c, s.on) /\ Active(c)
      BY <1>5, <2>1, <2>2, <3>1 DEF Creates
    <3> QED BY <1>3, <1>5, <2>2, <3>2
  <2>3. ASSUME Makes!Alone', s.at = "run", s.app \in apps PROVE secrets'[s.app] = c
    <3>1. s # Makes!Idle BY <2>3 DEF Makes!Idle
    <3> QED BY <1>1, <1>5, <2>1, <2>3, <3>1 DEF Creates
  <2> QED BY <1>1, <1>2, <1>5, <2>2, <2>3 DEF Creates, Home, Makes!AppFor
<1>6. \A s : Deals(s) => Deals(s)'
  BY <1>1 DEF Deals, Active, Makes!Live, Home, Makes!AppFor
<1> QED BY <1>1, <1>4, <1>5, <1>6

LEMMA ApplyKeeps ==
    ASSUME MakeInv, NEW b \in Makes!Boxes, Makes!Apply(b), Makes!Alone' => Makes!Alone
    PROVE  MakeInv'
<1>1. creator[b] \in Placing /\ Creates(b, creator[b]) /\ creator[b].at = "apply"
          /\ creator[b] # Makes!Idle
      /\ Makes!Goes(b, "start") /\ UNCHANGED <<url, prefix, row, desk>>
  BY StepOf DEF MakeInv, Makes!Apply, Makes!At, Makes!Idle
<1>s. PICK s : s = [at |-> "start", app |-> creator[b].app, on |-> creator[b].on] OBVIOUS
<1>a. PICK a \in Makes!Apps : a = creator[b].app BY <1>1 DEF Placing
<1>2. Becomes(b, s) /\ s \in CreatorSteps BY <1>1, <1>s, PlacerGoes DEF MakeInv
<1>3. creator' \in [Makes!Boxes -> CreatorSteps] /\ creator'[b] = s
      /\ \A c \in Makes!Boxes : c # b => creator'[c] = creator[c]
  BY <1>2, BecomesTyped, BecomesOne DEF MakeInv
<1>4. PICK say \in {"minted", "skipped"} :
        /\ told' = [told EXCEPT ![b] = say]
        /\ (say = "minted" /\ Makes!Imports(a, b))
               \/ (say = "skipped" /\ UNCHANGED Makes!fly)
  BY <1>a DEF Makes!Apply
<1>5. told' \in [Makes!Boxes -> Makes!Told] /\ told'[b] = say
          /\ \A c \in Makes!Boxes : c # b => told'[c] = told[c]
  BY <1>4 DEF MakeInv, MakeTyped, Makes!Told
<1>6. Makes!Alone' => row[b].status = "provisioning" /\ a = Home(b)
  BY <1>1, <1>a DEF Creates
<1>7. Makes!Alone' => Active(b) /\ ~Makes!Live(b) BY <1>6 DEF Active, Makes!Live
<1>8. /\ Apart' /\ secrets' \in [Makes!Apps -> Makes!Boxes \cup {None}]
      /\ \A c \in Makes!Boxes : c # b => \A t : Creates(c, t) => Creates(c, t)'
      /\ \A t : Deals(t) => Deals(t)'
  BY <1>1, <1>4, <1>5, <1>6, <1>7, Tells
<1>9. UNCHANGED <<c_machine, apps>> BY <1>4 DEF Makes!Imports, Makes!fly
<1>10. MakeTyped' BY <1>1, <1>3, <1>5, <1>8, <1>9 DEF MakeInv, MakeTyped
<1>11. Creates(b, s)'
  <2>1. c_machine[s.on] # None /\ c_machine[s.on].app = a
    BY <1>1, <1>s, <1>a DEF Creates
  <2>2. say = "minted" => secrets'[a] = b
    BY <1>4, <1>a DEF Makes!Imports, Makes!Secrets, MakeInv, MakeTyped
  <2>3. Holds(b, s.on)' BY <1>5, <1>9, <2>1, <2>2 DEF Holds
  <2> QED BY <1>1, <1>s, <1>a, <1>6, <1>9, <2>1, <2>3 DEF Creates, Home, Makes!AppFor
<1>12. \A c \in Makes!Boxes : Creates(c, creator[c])' BY <1>3, <1>8, <1>11 DEF MakeInv
<1>13. \A e \in Workers : Deals(desk[e])' BY <1>1, <1>8 DEF MakeInv
<1> QED BY <1>8, <1>10, <1>12, <1>13 DEF MakeInv

LEMMA RotateKeeps ==
    ASSUME MakeInv, NEW d \in Workers, Makes!Rotate(d), Makes!Alone' => Makes!Alone
    PROVE  MakeInv'
<1>1. desk[d] \in Rotating /\ Deals(desk[d]) /\ desk[d].at = "rotate"
      /\ Makes!Moves(d, "idle") /\ UNCHANGED <<url, prefix, row, creator>>
  BY DeedOf DEF MakeInv, Makes!Rotate
<1>b. PICK b \in Makes!Boxes : b = desk[d].box BY <1>1 DEF Rotating
<1>m. PICK m \in Makes!Machines : m = desk[d].on BY <1>1 DEF Rotating
<1>2. c_machine[m] \in Hosts BY <1>1, <1>m DEF Deals, Mends, MakeInv, MakeTyped
<1>a. PICK a \in Makes!Apps : a = c_machine[m].app BY <1>2 DEF Hosts
<1>3. Turns(d, Makes!Idle) BY <1>1 DEF Makes!Moves, Turns
<1>4. desk' \in [Workers -> Deeds] /\ desk'[d] = Makes!Idle /\ \A e \in Workers : e # d
          => desk'[e] = desk[e]
  BY <1>3, TurnsTyped, TurnsOne, IdleFits DEF MakeInv
<1>5. CASE UNCHANGED <<Makes!fly, told>>
  <2>1. UNCHANGED <<row, c_machine, apps, secrets, told, prefix>>
    BY <1>1, <1>5 DEF Makes!fly
  <2>2. Deals(Makes!Idle)' BY <2>1, IdleFits, Still
  <2> QED BY <1>1, <1>3, <1>5, <2>2, IdleFits, DeskTurns
<1>6. CASE Makes!Imports(a, b) /\ told' = [told EXCEPT ![b] = desk[d].as]
  <2>1. told' \in [Makes!Boxes -> Makes!Told] /\ told'[b] = desk[d].as
        /\ \A c \in Makes!Boxes : c # b => told'[c] = told[c]
    BY <1>1, <1>6 DEF MakeInv, MakeTyped, Makes!Told, Rotating
  <2>2. Makes!Alone' => Makes!Live(b) /\ m = row[b].endpoint
    BY <1>1, <1>b, <1>m DEF Deals, Mends
  <2>3. Makes!Alone' => Active(b) /\ a = Home(b) /\ row[b].status # "provisioning"
    BY <1>a, <2>2 DEF MakeInv, Apart, Active, Makes!Live
  <2>4. UNCHANGED <<c_machine, apps>> /\ secrets'[a] = b
    BY <1>6 DEF Makes!Imports, Makes!Secrets, MakeInv, MakeTyped
  <2>5. Makes!Alone' => Holds(b, m)'
    BY <1>1, <1>a, <1>b, <1>m, <2>1, <2>4 DEF Holds, Deals
  <2>6. Makes!Alone' /\ Makes!Live(b) => Holds(b, row[b].endpoint)' BY <1>1, <2>2, <2>5
  <2>7. /\ Apart' /\ secrets' \in [Makes!Apps -> Makes!Boxes \cup {None}]
        /\ \A c \in Makes!Boxes : c # b => \A t : Creates(c, t) => Creates(c, t)'
        /\ \A t : Deals(t) => Deals(t)'
    BY <1>1, <1>6, <2>1, <2>3, <2>6, Tells
  <2>8. MakeTyped' BY <1>1, <1>4, <2>1, <2>4, <2>7 DEF MakeInv, MakeTyped
  <2>9. ASSUME NEW c \in Makes!Boxes PROVE Creates(c, creator[c])'
    <3>1. Creates(c, creator[c]) /\ UNCHANGED creator BY <1>1 DEF MakeInv
    <3>2. CASE c # b BY <2>7, <3>1, <3>2
    <3>3. CASE c = b
      <4>1. Makes!Alone' => creator[b] = Makes!Idle BY <2>3, <3>1, <3>3 DEF Creates
      <4>2. creator[b].at \in {"apply", "start"} => c_machine[creator[b].on] # None
              /\ c_machine[creator[b].on].app = creator[b].app
        BY <3>1, <3>3 DEF Creates
      <4> QED BY <3>1, <3>3, <4>1, <4>2, <2>4 DEF Creates, Makes!Idle
    <3> QED BY <3>2, <3>3
  <2>10. \A e \in Workers : Deals(desk[e])' BY <1>4, <2>7, IdleFits DEF MakeInv
  <2> QED BY <2>7, <2>8, <2>9, <2>10 DEF MakeInv
<1>7. (Makes!Imports(a, b) /\ told' = [told EXCEPT ![b] = desk[d].as])
          \/ UNCHANGED <<Makes!fly, told>>
  BY <1>a, <1>b, <1>m DEF Makes!Rotate
<1> QED BY <1>5, <1>6, <1>7
-----------------------------------------------------------------------------
(* A row is closed for which nothing else is under way.                    *)
LEMMA Closes ==
    ASSUME MakeInv, Makes!Alone' => Makes!Alone, NEW b \in Makes!Boxes,
           row' = [row EXCEPT ![b].status = "torn_down"],
           UNCHANGED <<prefix, c_machine, apps, secrets, told>>
    PROVE  /\ Apart' /\ row' \in [Makes!Boxes -> BoxRows]
           /\ \A c \in Makes!Boxes : c # b => \A s : Creates(c, s) => Creates(c, s)'
           /\ \A s : Creates(b, s) /\ (Makes!Alone' => s = Makes!Idle) => Creates(b, s)'
           /\ \A s : /\ Deals(s) /\ (s.at \in Acts \cup {"release"} => s.box \in Makes!Boxes)
                     /\ (Makes!Alone' => s.at \notin Acts \/ s.box # b)
                     => Deals(s)'
<1>1. row[b] \in BoxRows /\ row \in [Makes!Boxes -> BoxRows] BY DEF MakeInv, MakeTyped
<1>2. /\ row'[b] = [row[b] EXCEPT !.status = "torn_down"]
      /\ \A c \in Makes!Boxes : c # b => row'[c] = row[c]
      /\ row' \in [Makes!Boxes -> BoxRows]
  BY <1>1 DEF BoxRows
<1>3. /\ row'[b].status = "torn_down" /\ row'[b].name = row[b].name
      /\ row'[b].endpoint = row[b].endpoint
  BY <1>1, <1>2 DEF BoxRows
<1>4. UNCHANGED Makes!In("shared") BY DEF Makes!In
<1>5. \A c \in Makes!Boxes : Home(c)' = Home(c) BY <1>2, <1>3 DEF Home, Makes!AppFor
<1>6. \A c \in Makes!Boxes : (Active(c)' => Active(c) /\ c # b)
          /\ (Makes!Live(c)' => Makes!Live(c) /\ c # b)
  BY <1>2, <1>3 DEF Active, Makes!Live
<1>7. Apart'
  <2>1. ASSUME NEW c \in Makes!Boxes
        PROVE  /\ Active(c)' => row'[c].name # None
               /\ row'[c].status = "provisioning" => row'[c].endpoint = None
               /\ Makes!Live(c)'
                      => row'[c].endpoint # None /\ c_machine[row'[c].endpoint] # None
               /\ Makes!Alone' /\ Makes!Live(c)' =>
                    c_machine[row'[c].endpoint].app = Home(c)
                        /\ Holds(c, row'[c].endpoint)
               /\ Makes!Alone' /\ row'[c].status \in {"none", "provisioning"}
                      => told[c] # "repaired"
    <3>1. CASE c = b BY <1>3, <1>6, <3>1
    <3>2. CASE c # b BY <1>2, <1>6, <3>2 DEF MakeInv, Apart
    <3> QED BY <3>1, <3>2
  <2>2. \A c, e \in Makes!Boxes : c # e /\ row'[c].name = row'[e].name
            => row'[c].name = None
    BY <1>2, <1>3 DEF MakeInv, Apart
  <2>3. Makes!Alone' => \A c, e \in Makes!Boxes : c # e /\ Active(c)' /\ Active(e)'
            => Home(c) # Home(e)
    BY <1>6 DEF MakeInv, Apart
  <2>4. Makes!Alone' /\ ~prefix => \A m, k \in Makes!In("shared") : m = k
    BY DEF MakeInv, Apart
  <2>5. \A c, m : Holds(c, m)' = Holds(c, m) BY DEF Holds
  <2> QED BY <1>4, <1>5, <2>1, <2>2, <2>3, <2>4, <2>5 DEF Apart
<1>8. \A c \in Makes!Boxes : c # b => \A s : Creates(c, s) => Creates(c, s)'
  BY <1>2, <1>4 DEF Creates, Home, Makes!AppFor, Holds
<1>9. \A s : Creates(b, s) /\ (Makes!Alone' => s = Makes!Idle) => Creates(b, s)'
  BY <1>4 DEF Creates, Makes!Idle
<1>10. ASSUME NEW s, Deals(s), s.at \in Acts \cup {"release"} => s.box \in Makes!Boxes,
              Makes!Alone' => s.at \notin Acts \/ s.box # b
       PROVE  Deals(s)'
  <2>1. CASE s.at \in Acts \cup {"release"}
    <3>1. s.box \in Makes!Boxes BY <1>10, <2>1
    <3>2. CASE s.box = b BY <1>3, <1>10, <3>2 DEF Deals, Acts, Mends
    <3>3. CASE s.box # b
      <4>1. row'[s.box] = row[s.box] BY <1>2, <3>1, <3>3
      <4> QED BY <1>10, <4>1 DEF Deals, Active, Makes!Live, Home, Makes!AppFor
    <3> QED BY <3>2, <3>3
  <2>2. CASE s.at \notin Acts \cup {"release"} BY <1>10, <2>2 DEF Deals, Acts, Mends
  <2> QED BY <2>1, <2>2
<1> QED BY <1>2, <1>7, <1>8, <1>9, <1>10

LEMMA FailsKeeps ==
    ASSUME MakeInv, NEW b \in Makes!Boxes, Makes!Fails(b), UNCHANGED <<url, prefix, desk>>,
               Makes!Alone' => Makes!Alone
    PROVE  MakeInv'
<1>1. Becomes(b, Makes!Idle) /\ UNCHANGED <<c_machine, apps, secrets, told>>
  BY DEF Makes!Fails, Makes!Abandons, Becomes, Makes!fly
<1>2. creator' \in [Makes!Boxes -> CreatorSteps] /\ creator'[b] = Makes!Idle
      /\ \A c \in Makes!Boxes : c # b => creator'[c] = creator[c]
  BY <1>1, BecomesTyped, BecomesOne, IdleFits DEF MakeInv
<1>3. CASE row' = row
  <2>1. Creates(b, Makes!Idle)' BY <1>1, <1>3, IdleFits, Still
  <2> QED BY <1>1, <1>3, <2>1, IdleFits, CreatorTurns DEF Makes!fly
<1>4. CASE row' = [row EXCEPT ![b].status = "torn_down"]
  <2>1. /\ Apart' /\ row' \in [Makes!Boxes -> BoxRows]
        /\ \A c \in Makes!Boxes : c # b => \A s : Creates(c, s) => Creates(c, s)'
        /\ \A s : Creates(b, s) /\ (Makes!Alone' => s = Makes!Idle) => Creates(b, s)'
        /\ \A s : /\ Deals(s) /\ (s.at \in Acts \cup {"release"} => s.box \in Makes!Boxes)
                  /\ (Makes!Alone' => s.at \notin Acts \/ s.box # b)
                  => Deals(s)'
    BY <1>1, <1>4, Closes
  <2>2. MakeTyped' BY <1>1, <1>2, <2>1 DEF MakeInv, MakeTyped
  <2>3. Creates(b, Makes!Idle)' BY <2>1, IdleFits
  <2>4. \A c \in Makes!Boxes : Creates(c, creator[c])' BY <1>2, <2>1, <2>3 DEF MakeInv
  <2>5. ASSUME NEW e \in Workers PROVE Deals(desk[e])'
    <3>1. desk[e].at \in Acts \cup {"release"}
              => desk[e] # Makes!Idle /\ desk[e].at # "reserve"
      BY DEF Acts, Makes!Idle
    <3>2. desk[e].at \in Acts \cup {"release"} => desk[e].box \in Makes!Boxes
      BY <3>1, DeedOf DEF MakeInv
    <3>3. Makes!Alone' => Makes!UnderWay(b) = {}
      <4>1. strayed' = (strayed \/ Makes!UnderWay(b) # {})
        BY Zenon DEF Makes!Fails, Makes!Abandons
      <4> QED BY <4>1, Zenon DEF Makes!Alone
    <3>4. Makes!Alone' => desk[e].at \notin Acts \/ desk[e].box # b
      BY <3>1, <3>3 DEF Makes!UnderWay
    <3>5. Deals(desk[e]) BY DEF MakeInv
    <3>6. PICK s : s = desk[e] OBVIOUS
    <3>7. Deals(s)' BY <2>1, <3>2, <3>4, <3>5, <3>6
    <3> QED BY <3>6, <3>7
  <2> QED BY <2>1, <2>2, <2>4, <2>5 DEF MakeInv
<1> QED BY <1>3, <1>4 DEF Makes!Fails, Makes!Abandons

LEMMA ImportKeeps ==
    ASSUME MakeInv, NEW b \in Makes!Boxes, Makes!Import(b), Makes!Alone' => Makes!Alone
    PROVE  MakeInv'
<1>1. creator[b] \in Seeking /\ Creates(b, creator[b]) /\ creator[b].at = "import"
          /\ creator[b] # Makes!Idle
      /\ UNCHANGED <<url, prefix, desk>>
  BY StepOf DEF MakeInv, Makes!Import, Makes!At, Makes!Idle
<1>a. PICK a \in Makes!Apps : a = creator[b].app BY <1>1 DEF Seeking
<1>2. CASE Makes!Fails(b) BY <1>1, <1>2, FailsKeeps
<1>3. CASE Makes!Imports(a, b) /\ Makes!Goes(b, "run") /\ UNCHANGED <<row, told>>
  <2>s. PICK s : s = [at |-> "run", app |-> a] OBVIOUS
  <2>1. Becomes(b, s) /\ s \in CreatorSteps
    BY <1>1, <1>a, <1>3, <2>s, SeekerGoes DEF MakeInv
  <2>2. creator' \in [Makes!Boxes -> CreatorSteps] /\ creator'[b] = s
        /\ \A c \in Makes!Boxes : c # b => creator'[c] = creator[c]
    BY <2>1, BecomesTyped, BecomesOne DEF MakeInv
  <2>3. Makes!Alone' => row[b].status = "provisioning" /\ a = Home(b)
    BY <1>1, <1>a DEF Creates
  <2>4. Makes!Alone' => Active(b) /\ ~Makes!Live(b) /\ told[b] # "repaired"
    BY <2>3 DEF Active, Makes!Live, MakeInv, Apart
  <2>5. /\ Apart' /\ secrets' \in [Makes!Apps -> Makes!Boxes \cup {None}]
        /\ \A c \in Makes!Boxes : c # b => \A t : Creates(c, t) => Creates(c, t)'
        /\ \A t : Deals(t) => Deals(t)'
    BY <1>1, <1>3, <2>3, <2>4, Tells
  <2>6. UNCHANGED <<c_machine, apps>> /\ secrets'[a] = b
    BY <1>3 DEF Makes!Imports, Makes!Secrets, MakeInv, MakeTyped
  <2>7. UNCHANGED Makes!In("shared") BY <2>6 DEF Makes!In
  <2>8. Creates(b, s)'
    BY <1>1, <1>3, <2>s, <2>3, <2>6, <2>7 DEF Creates, Home, Makes!AppFor
  <2>9. \A c \in Makes!Boxes : Creates(c, creator[c])' BY <2>2, <2>5, <2>8 DEF MakeInv
  <2>10. \A e \in Workers : Deals(desk[e])' BY <1>1, <2>5 DEF MakeInv
  <2>11. MakeTyped' BY <1>1, <1>3, <2>2, <2>5, <2>6 DEF MakeInv, MakeTyped
  <2> QED BY <2>5, <2>9, <2>10, <2>11 DEF MakeInv
<1> QED BY <1>a, <1>2, <1>3 DEF Makes!Import

LEMMA SettleKeeps ==
    ASSUME MakeInv, NEW b \in Makes!Boxes, Makes!Settle(b), Makes!Alone' => Makes!Alone
    PROVE  MakeInv'
<1>1. creator[b] \in Placing /\ Creates(b, creator[b]) /\ creator[b].at = "start"
          /\ creator[b] # Makes!Idle
      /\ UNCHANGED <<url, prefix, Makes!fly, desk, told>>
  BY StepOf DEF MakeInv, Makes!Settle, Makes!At, Makes!Idle
<1>2. Becomes(b, Makes!Idle) BY DEF Makes!Settle, Becomes
<1>3. creator' \in [Makes!Boxes -> CreatorSteps] /\ creator'[b] = Makes!Idle
      /\ \A c \in Makes!Boxes : c # b => creator'[c] = creator[c]
  BY <1>2, BecomesTyped, BecomesOne, IdleFits DEF MakeInv
<1>4. UNCHANGED <<c_machine, apps, secrets>> BY <1>1 DEF Makes!fly
<1>m. PICK m \in Makes!Machines : m = creator[b].on BY <1>1 DEF Placing
<1>5. CASE row' = row
  <2>1. Creates(b, Makes!Idle)' BY <1>1, <1>4, <1>5, IdleFits, Still
  <2> QED BY <1>1, <1>2, <1>5, <2>1, IdleFits, CreatorTurns
<1>6. CASE row[b].status = "provisioning"
           /\ row' = [row EXCEPT ![b].status = "live", ![b].endpoint = m]
  <2>1. row[b] \in BoxRows /\ row \in [Makes!Boxes -> BoxRows] BY DEF MakeInv, MakeTyped
  <2>2. /\ row'[b].status = "live" /\ row'[b].endpoint = m /\ row'[b].name = row[b].name
        /\ \A c \in Makes!Boxes : c # b => row'[c] = row[c]
        /\ row' \in [Makes!Boxes -> BoxRows]
    BY <1>6, <2>1 DEF BoxRows
  <2>3. c_machine[m] # None /\ (Makes!Alone => c_machine[m].app = Home(b) /\ Holds(b, m))
    BY <1>1, <1>m DEF Creates
  <2>4. \A c \in Makes!Boxes : Home(c)' = Home(c) /\ Active(c)' = Active(c)
    BY <1>1, <1>6, <2>2 DEF Home, Makes!AppFor, Active
  <2>5. UNCHANGED Makes!In("shared") /\ \A c, k : Holds(c, k)' = Holds(c, k)
    BY <1>1, <1>4 DEF Makes!In, Holds
  <2>6. m # None BY MakesAssumption DEF Makes!NoneAssumption
  <2>7. Apart'
    <3>1. ASSUME NEW c \in Makes!Boxes
          PROVE  /\ Active(c)' => row'[c].name # None
                 /\ row'[c].status = "provisioning" => row'[c].endpoint = None
                 /\ row'[c].status = "live"
                        => row'[c].endpoint # None /\ c_machine[row'[c].endpoint] # None
                 /\ Makes!Alone' /\ row'[c].status = "live" =>
                      c_machine[row'[c].endpoint].app = Home(c)
                          /\ Holds(c, row'[c].endpoint)
                 /\ Makes!Alone' /\ row'[c].status \in {"none", "provisioning"}
                        => told[c] # "repaired"
      <4>1. CASE c = b BY <1>6, <2>2, <2>3, <2>4, <2>6, <4>1 DEF MakeInv, Apart, Active
      <4>2. CASE c # b BY <2>2, <2>4, <4>2 DEF MakeInv, Apart, Makes!Live
      <4> QED BY <4>1, <4>2
    <3>2. \A c, e \in Makes!Boxes : c # e /\ row'[c].name = row'[e].name
              => row'[c].name = None
      BY <2>2 DEF MakeInv, Apart
    <3>3. Makes!Alone' => \A c, e \in Makes!Boxes : c # e /\ Active(c)' /\ Active(e)'
              => Home(c)' # Home(e)'
      BY <2>4 DEF MakeInv, Apart
    <3>4. Makes!Alone' /\ ~prefix' => \A k, n \in Makes!In("shared")' : k = n
      BY <1>1, <2>5 DEF MakeInv, Apart
    <3> QED BY <1>1, <1>4, <2>4, <2>5, <3>1, <3>2, <3>3, <3>4 DEF Apart, Makes!Live
  <2>8. Creates(b, Makes!Idle)' BY DEF Creates, Makes!Idle
  <2>9. ASSUME NEW c \in Makes!Boxes, c # b PROVE Creates(c, creator[c])'
    <3>1. Creates(c, creator[c]) /\ creator'[c] = creator[c] /\ row'[c] = row[c]
      BY <1>3, <2>2, <2>9 DEF MakeInv
    <3> QED BY <1>1, <1>4, <2>4, <2>5, <3>1 DEF Creates
  <2>10. ASSUME NEW e \in Workers PROVE Deals(desk[e])'
    <3>1. Deals(desk[e]) /\ UNCHANGED desk BY <1>1 DEF MakeInv
    <3>2. CASE desk[e].at \in Acts \cup {"release"}
      <4>1. desk[e] # Makes!Idle /\ desk[e].at # "reserve" BY <3>2 DEF Acts, Makes!Idle
      <4>2. PICK c \in Makes!Boxes : c = desk[e].box BY <4>1, DeedOf DEF MakeInv
      <4>3. row'[c].status = "torn_down" <=> row[c].status = "torn_down" BY <1>6, <2>2
      <4>4. Makes!Live(c) => c # b /\ row'[c] = row[c] BY <1>6, <2>2 DEF Makes!Live
      <4> QED BY <1>1, <1>4, <2>4, <3>1, <4>2, <4>3, <4>4 DEF Deals, Makes!Live, Mends
    <3>3. CASE desk[e].at \notin Acts \cup {"release"}
      BY <1>1, <3>1, <3>3 DEF Deals, Acts, Mends
    <3> QED BY <3>2, <3>3
  <2>11. MakeTyped' BY <1>1, <1>3, <1>4, <2>2 DEF MakeInv, MakeTyped
  <2> QED BY <1>3, <2>7, <2>8, <2>9, <2>10, <2>11 DEF MakeInv
<1>7. row' = row \/ (row[b].status = "provisioning"
                      /\ row' = [row EXCEPT ![b].status = "live", ![b].endpoint = m])
  BY <1>m DEF Makes!Settle
<1> QED BY <1>5, <1>6, <1>7

LEMMA RunKeeps ==
    ASSUME MakeInv, NEW b \in Makes!Boxes, Makes!Run(b), Makes!Alone' => Makes!Alone
    PROVE  MakeInv'
<1>1. creator[b] \in Seeking /\ Creates(b, creator[b]) /\ creator[b].at = "run"
          /\ creator[b] # Makes!Idle
      /\ UNCHANGED <<url, prefix, desk>>
  BY StepOf DEF MakeInv, Makes!Run, Makes!At, Makes!Idle
<1>a. PICK a \in Makes!Apps : a = creator[b].app BY <1>1 DEF Seeking
<1>2. CASE Makes!Fails(b) BY <1>1, <1>2, FailsKeeps
<1>n. PICK new : new = CHOOSE m \in Makes!Machines : c_machine[m] = None OBVIOUS
<1>h. PICK h : h = [app |-> a, up |-> TRUE, id |-> b, url |-> url] OBVIOUS
<1>3. CASE /\ a \in apps /\ \E m \in Makes!Machines : c_machine[m] = None
           /\ c_machine' = [c_machine EXCEPT ![new] = h]
           /\ \E m \in Makes!In(a) \cup {new} :
                creator' = [creator EXCEPT ![b] = [at |-> "start", app |-> a, on |-> m]]
           /\ told' = [told EXCEPT ![b] = "minted"]
           /\ UNCHANGED <<row, apps, secrets>>
  <2>1. new \in Makes!Machines /\ c_machine[new] = None BY <1>3, <1>n
  <2>2. h \in Hosts BY <1>h DEF Hosts, MakeInv, MakeTyped
  <2>3. h # None BY <2>2, HostChanges
  <2>4. /\ c_machine' \in [Makes!Machines -> Hosts \cup {None}] /\ c_machine'[new] = h
        /\ \A m : c_machine[m] # None /\ m \in Makes!Machines
               => c_machine'[m] = c_machine[m]
        /\ \A m \in Makes!Machines : m # new => c_machine'[m] = c_machine[m]
    BY <1>3, <2>1, <2>2 DEF MakeInv, MakeTyped
  <2>5. PICK m \in Makes!In(a) \cup {new} :
          creator' = [creator EXCEPT ![b] = [at |-> "start", app |-> a, on |-> m]]
    BY <1>3
  <2>s. PICK s : s = [at |-> "start", app |-> a, on |-> m] OBVIOUS
  <2>6. m \in Makes!Machines /\ c_machine'[m] # None /\ c_machine'[m].app = a
    BY <2>1, <2>3, <2>4, <1>h DEF Makes!In
  <2>7. Becomes(b, s) /\ s \in CreatorSteps
    BY <2>5, <2>s, <2>6 DEF Becomes, CreatorSteps, Placing
  <2>8. creator' \in [Makes!Boxes -> CreatorSteps] /\ creator'[b] = s
        /\ \A c \in Makes!Boxes : c # b => creator'[c] = creator[c]
    BY <2>7, BecomesTyped, BecomesOne DEF MakeInv
  <2>9. told' \in [Makes!Boxes -> Makes!Told] /\ told'[b] = "minted"
            /\ \A c \in Makes!Boxes : c # b => told'[c] = told[c]
    BY <1>3 DEF MakeInv, MakeTyped, Makes!Told
  <2>10. Makes!Alone'
             => row[b].status = "provisioning" /\ a = Home(b) /\ secrets[a] = b
                 /\ Active(b)
                   /\ ~Makes!Live(b) /\ (~prefix => Makes!In("shared") = {})
    BY <1>1, <1>3, <1>a DEF Creates, Active, Makes!Live
  <2>11. Makes!Alone' => Holds(b, m)' BY <1>3, <2>6, <2>9, <2>10 DEF Holds
  <2>12. Makes!Alone' /\ ~prefix => Makes!In("shared")' \subseteq {new}
    BY <2>4, <2>10 DEF Makes!In
  <2>13. Apart'
    <3>1. ASSUME NEW c \in Makes!Boxes
          PROVE  /\ Makes!Live(c)
                        => row[c].endpoint # None /\ c_machine'[row[c].endpoint] # None
                 /\ Makes!Alone' /\ Makes!Live(c) =>
                      c_machine'[row[c].endpoint].app = Home(c)
                          /\ Holds(c, row[c].endpoint)'
                 /\ Makes!Alone' /\ row[c].status \in {"none", "provisioning"}
                        => told'[c] # "repaired"
      <4>1. row[c] \in BoxRows BY DEF MakeInv, MakeTyped
      <4>2. Makes!Live(c) => /\ row[c].endpoint \in Makes!Machines /\ row[c].endpoint # None
                             /\ c_machine[row[c].endpoint] # None
        BY <4>1 DEF MakeInv, Apart, BoxRows
      <4>3. Makes!Live(c) => c_machine'[row[c].endpoint] = c_machine[row[c].endpoint]
        BY <2>4, <4>2
      <4>4. Makes!Alone' /\ Makes!Live(c) => c # b BY <2>10
      <4>5. Makes!Alone' /\ Makes!Live(c) =>
              c_machine[row[c].endpoint].app = Home(c) /\ Holds(c, row[c].endpoint)
        BY DEF MakeInv, Apart
      <4>6. Makes!Alone' /\ Makes!Live(c) => Holds(c, row[c].endpoint)'
        BY <1>3, <2>9, <4>3, <4>4, <4>5 DEF Holds
      <4>7. Makes!Alone' /\ row[c].status \in {"none", "provisioning"}
                => told'[c] # "repaired"
        BY <2>9 DEF MakeInv, Apart
      <4> QED BY <4>2, <4>3, <4>5, <4>6, <4>7
    <3>2. UNCHANGED <<row, prefix>> BY <1>1, <1>3
    <3>3. \A c \in Makes!Boxes : Active(c)' = Active(c) /\ Home(c)' = Home(c)
              /\ Makes!Live(c)' = Makes!Live(c)
      BY <3>2 DEF Active, Home, Makes!AppFor, Makes!Live
    <3>4. \A c \in Makes!Boxes : (Active(c) => row[c].name # None)
            /\ (row[c].status = "provisioning" => row[c].endpoint = None)
      BY DEF MakeInv, Apart
    <3>5. /\ \A c, e \in Makes!Boxes : c # e /\ row[c].name = row[e].name
                 => row[c].name = None
          /\ Makes!Alone' => \A c, e \in Makes!Boxes : c # e /\ Active(c) /\ Active(e)
                 => Home(c) # Home(e)
      BY DEF MakeInv, Apart
    <3> QED BY <2>12, <3>1, <3>2, <3>3, <3>4, <3>5 DEF Apart
  <2>14. Creates(b, s)'
    BY <1>1, <1>3, <2>s, <2>6, <2>10, <2>11 DEF Creates, Home, Makes!AppFor, Makes!Idle
  <2>15. ASSUME NEW c \in Makes!Boxes, c # b PROVE Creates(c, creator[c])'
    <3>1. Creates(c, creator[c]) /\ creator'[c] = creator[c] BY <2>8, <2>15 DEF MakeInv
    <3>2. creator[c].at \in {"apply", "start"} =>
            c_machine[creator[c].on] # None
                /\ c_machine'[creator[c].on] = c_machine[creator[c].on]
      <4>1. creator[c].at \in {"apply", "start"} => creator[c].on \in Makes!Machines
        BY StepOf DEF MakeInv, Placing
      <4> QED BY <2>4, <3>1, <4>1 DEF Creates
    <3>3. ASSUME Makes!Alone', ~prefix PROVE creator[c].at \notin {"app", "import", "run"}
      <4>1. ASSUME creator[c].at \in {"app", "import", "run"} PROVE FALSE
        <5>1. creator[c] # Makes!Idle BY <4>1 DEF Makes!Idle
        <5>2. Active(c) BY <3>1, <3>3, <5>1 DEF Creates, Active
        <5>3. Home(c) = Home(b) BY <3>3 DEF Home, Makes!AppFor
        <5> QED BY <2>10, <2>15, <3>3, <5>2, <5>3, ApartHome
      <4> QED BY <4>1
    <3>4. Makes!Alone' /\ creator[c].at = "start" => Holds(c, creator[c].on)'
      BY <1>3, <2>9, <2>15, <3>1, <3>2 DEF Holds, Creates
    <3> QED BY <1>1, <1>3, <3>1, <3>2, <3>3, <3>4 DEF Creates, Home, Makes!AppFor
  <2>16. ASSUME NEW e \in Workers PROVE Deals(desk[e])'
    <3>1. Deals(desk[e]) /\ UNCHANGED desk BY <1>1 DEF MakeInv
    <3>2. desk[e].at \in Mends => c_machine'[desk[e].on] = c_machine[desk[e].on]
      <4>1. desk[e].at \in Mends => desk[e].on \in Makes!Machines
        BY DeedOf DEF MakeInv, Mends, Mending, Rotating
      <4> QED BY <2>4, <3>1, <4>1 DEF Deals
    <3>3. desk[e].at \in {"destroy", "sweep"} /\ desk[e].on # None
              /\ c_machine[desk[e].on] # None =>
            c_machine'[desk[e].on] = c_machine[desk[e].on]
      <4>1. desk[e].at \in {"destroy", "sweep"} /\ desk[e].on # None
                => desk[e].on \in Makes!Machines
        BY DeedOf DEF MakeInv, Removing
      <4> QED BY <2>4, <4>1
    <3> QED
      BY <1>1, <1>3, <3>1, <3>2, <3>3 DEF Deals, Active, Makes!Live, Home, Makes!AppFor,
         Mends
  <2>17. MakeTyped' BY <1>1, <1>3, <2>4, <2>8, <2>9 DEF MakeInv, MakeTyped
  <2>18. \A c \in Makes!Boxes : Creates(c, creator[c])' BY <2>8, <2>14, <2>15
  <2> QED BY <2>13, <2>16, <2>17, <2>18 DEF MakeInv
<1>4. \/ Makes!Fails(b)
      \/ /\ a \in apps /\ \E m \in Makes!Machines : c_machine[m] = None
         /\ c_machine' = [c_machine EXCEPT ![new] = h]
         /\ \E m \in Makes!In(a) \cup {new} :
              creator' = [creator EXCEPT ![b] = [at |-> "start", app |-> a, on |-> m]]
         /\ told' = [told EXCEPT ![b] = "minted"]
         /\ UNCHANGED <<row, apps, secrets>>
  BY <1>a, <1>n, <1>h DEF Makes!Run, Makes!Runs, Makes!New, Makes!Identity
<1> QED BY <1>2, <1>3, <1>4

(* A machine that was made for a row that closes: nobody has it.           *)
LEMMA RunIsLostKeeps ==
    ASSUME MakeInv, NEW b \in Makes!Boxes, Makes!RunIsLost(b), Makes!Alone' => Makes!Alone
    PROVE  MakeInv'
<1>1. creator[b] \in Seeking /\ Creates(b, creator[b]) /\ creator[b].at = "run"
          /\ creator[b] # Makes!Idle
      /\ UNCHANGED <<url, prefix, desk, apps, secrets, told>>
  BY StepOf DEF MakeInv, Makes!RunIsLost, Makes!Runs, Makes!Abandons, Makes!At, Makes!Idle
<1>a. PICK a \in Makes!Apps : a = creator[b].app BY <1>1 DEF Seeking
<1>n. PICK new : new = CHOOSE m \in Makes!Machines : c_machine[m] = None OBVIOUS
<1>h. PICK h : h = [app |-> a, up |-> TRUE, id |-> b, url |-> url] OBVIOUS
<1>2. /\ \E m \in Makes!Machines : c_machine[m] = None
      /\ c_machine' = [c_machine EXCEPT ![new] = h]
  BY <1>a, <1>n, <1>h DEF Makes!RunIsLost, Makes!Runs, Makes!New, Makes!Identity
<1>3. new \in Makes!Machines /\ c_machine[new] = None BY <1>2, <1>n
<1>4. h \in Hosts /\ h # None
  <2>1. h \in Hosts BY <1>h DEF Hosts, MakeInv, MakeTyped
  <2> QED BY <2>1, HostChanges
<1>5. /\ c_machine' \in [Makes!Machines -> Hosts \cup {None}] /\ c_machine'[new] = h
      /\ \A m : c_machine[m] # None /\ m \in Makes!Machines
             => c_machine'[m] = c_machine[m]
      /\ \A m \in Makes!Machines : m # new => c_machine'[m] = c_machine[m]
  BY <1>2, <1>3, <1>4 DEF MakeInv, MakeTyped
<1>6. row[b] \in BoxRows /\ row \in [Makes!Boxes -> BoxRows] BY DEF MakeInv, MakeTyped
<1>7. row' = IF row[b].status = "provisioning"
             THEN [row EXCEPT ![b].status = "torn_down"] ELSE row
  BY DEF Makes!RunIsLost, Makes!Abandons
<1>8. /\ row' \in [Makes!Boxes -> BoxRows]
      /\ \A c \in Makes!Boxes : c # b => row'[c] = row[c]
      /\ row'[b].name = row[b].name /\ row'[b].endpoint = row[b].endpoint
      /\ row[b].status = "provisioning" => row'[b].status = "torn_down"
      /\ row[b].status # "provisioning" => row'[b].status = row[b].status
  BY <1>6, <1>7 DEF BoxRows
<1>9. Becomes(b, Makes!Idle) BY DEF Makes!RunIsLost, Makes!Abandons, Becomes
<1>10. creator' \in [Makes!Boxes -> CreatorSteps] /\ creator'[b] = Makes!Idle
      /\ \A c \in Makes!Boxes : c # b => creator'[c] = creator[c]
  BY <1>9, BecomesTyped, BecomesOne, IdleFits DEF MakeInv
<1>11. Makes!Alone' => /\ row[b].status = "provisioning" /\ Active(b)
                       /\ ~prefix => Makes!In("shared") = {}
  BY <1>1 DEF Creates, Active
<1>12. Makes!Alone' => Makes!UnderWay(b) = {}
  <2>1. strayed' = (strayed \/ Makes!UnderWay(b) # {})
    BY Zenon DEF Makes!RunIsLost, Makes!Abandons
  <2> QED BY <2>1, Zenon DEF Makes!Alone
<1>13. \A c \in Makes!Boxes :
         /\ Home(c)' = Home(c) /\ Makes!Live(c)' = Makes!Live(c)
         /\ Active(c)' => Active(c)
         /\ row'[c].name = row[c].name /\ row'[c].endpoint = row[c].endpoint
         /\ row'[c].status = "provisioning" => row[c].status = "provisioning"
         /\ row'[c].status = "none" => row[c].status = "none"
  BY <1>1, <1>8 DEF Home, Makes!AppFor, Makes!Live, Active
<1>14. Makes!Alone' /\ ~prefix => Makes!In("shared")' \subseteq {new}
  BY <1>5, <1>11 DEF Makes!In
<1>15. \A c, m : m \in Makes!Machines /\ c_machine[m] # None => Holds(c, m)' = Holds(c, m)
  BY <1>1, <1>5 DEF Holds
<1>16. Apart'
  <2>1. ASSUME NEW c \in Makes!Boxes
        PROVE  /\ Makes!Live(c)'
                      => row'[c].endpoint # None /\ c_machine'[row'[c].endpoint] # None
               /\ Makes!Alone' /\ Makes!Live(c)' =>
                    c_machine'[row'[c].endpoint].app = Home(c)'
                        /\ Holds(c, row[c].endpoint)'
    <3>1. row[c] \in BoxRows BY DEF MakeInv, MakeTyped
    <3>2. Makes!Live(c) => /\ row[c].endpoint \in Makes!Machines /\ row[c].endpoint # None
                           /\ c_machine[row[c].endpoint] # None
      BY <3>1 DEF MakeInv, Apart, BoxRows
    <3>3. Makes!Live(c) => c_machine'[row[c].endpoint] = c_machine[row[c].endpoint]
      BY <1>5, <3>2
    <3>4. Makes!Alone' /\ Makes!Live(c) =>
            c_machine[row[c].endpoint].app = Home(c) /\ Holds(c, row[c].endpoint)
      BY DEF MakeInv, Apart
    <3>6. UNCHANGED <<row[c].endpoint, Home(c), Makes!Live(c)>> BY <1>13
    <3>7. PICK m : m = row[c].endpoint OBVIOUS
    <3>8. Makes!Live(c) => Holds(c, m)' = Holds(c, m) BY <1>15, <3>2, <3>7
    <3>9. row'[c].endpoint = m BY <3>6, <3>7
    <3>10. Makes!Alone' /\ Makes!Live(c) => Holds(c, m)' BY <3>4, <3>7, <3>8
    <3>11. Makes!Alone' /\ Makes!Live(c) => c_machine'[m].app = Home(c)
      BY <3>3, <3>4, <3>7
    <3>12. Makes!Alone' /\ Makes!Live(c) => Holds(c, row[c].endpoint)'
      BY <3>9, <3>10 DEF Holds
    <3> QED BY <3>2, <3>3, <3>6, <3>7, <3>9, <3>11, <3>12
  <2>2. \A c \in Makes!Boxes :
          /\ Active(c)' => row'[c].name # None
          /\ row'[c].status = "provisioning" => row'[c].endpoint = None
          /\ Makes!Alone' /\ row'[c].status \in {"none", "provisioning"}
                 => told'[c] # "repaired"
    BY <1>1, <1>13 DEF MakeInv, Apart
  <2>3. /\ \A c, e \in Makes!Boxes : c # e /\ row'[c].name = row'[e].name
               => row'[c].name = None
        /\ Makes!Alone' => \A c, e \in Makes!Boxes : c # e /\ Active(c)' /\ Active(e)'
               => Home(c)' # Home(e)'
    BY <1>13 DEF MakeInv, Apart
  <2>4. Makes!Alone' /\ ~prefix' => \A m, k \in Makes!In("shared")' : m = k
    BY <1>1, <1>14
  <2> QED BY <2>1, <2>2, <2>3, <2>4 DEF Apart
<1>17. Creates(b, Makes!Idle)' BY DEF Creates, Makes!Idle
<1>18. ASSUME NEW c \in Makes!Boxes, c # b PROVE Creates(c, creator[c])'
  <2>1. Creates(c, creator[c]) /\ creator'[c] = creator[c] /\ row'[c] = row[c]
    BY <1>8, <1>10, <1>18 DEF MakeInv
  <2>2. creator[c].at \in {"apply", "start"} =>
          /\ c_machine[creator[c].on] # None
          /\ c_machine'[creator[c].on] = c_machine[creator[c].on]
          /\ creator[c].on \in Makes!Machines
    <3>1. creator[c].at \in {"apply", "start"} => creator[c].on \in Makes!Machines
      BY StepOf DEF MakeInv, Placing
    <3> QED BY <1>5, <2>1, <3>1 DEF Creates
  <2>3. ASSUME Makes!Alone', ~prefix PROVE creator[c].at \notin {"app", "import", "run"}
    <3>1. ASSUME creator[c].at \in {"app", "import", "run"} PROVE FALSE
      <4>1. creator[c] # Makes!Idle BY <3>1 DEF Makes!Idle
      <4>2. Active(c) BY <2>1, <2>3, <4>1 DEF Creates, Active
      <4>3. Home(c) = Home(b) BY <2>3 DEF Home, Makes!AppFor
      <4> QED BY <1>11, <1>18, <2>3, <4>2, <4>3, ApartHome
    <3> QED BY <3>1
  <2>4. Makes!Alone' /\ creator[c].at = "start" => Holds(c, creator[c].on)'
    BY <1>15, <2>1, <2>2 DEF Creates
  <2> QED BY <1>1, <1>13, <2>1, <2>2, <2>3, <2>4 DEF Creates
<1>19. ASSUME NEW e \in Workers PROVE Deals(desk[e])'
  <2>1. Deals(desk[e]) /\ UNCHANGED desk BY <1>1 DEF MakeInv
  <2>2. desk[e].at \in Mends => c_machine'[desk[e].on] = c_machine[desk[e].on]
    <3>1. desk[e].at \in Mends => desk[e].on \in Makes!Machines
      BY DeedOf DEF MakeInv, Mends, Mending, Rotating
    <3> QED BY <1>5, <2>1, <3>1 DEF Deals
  <2>3. desk[e].at \in {"destroy", "sweep"} /\ desk[e].on # None
            /\ c_machine[desk[e].on] # None =>
          c_machine'[desk[e].on] = c_machine[desk[e].on]
    <3>1. desk[e].at \in {"destroy", "sweep"} /\ desk[e].on # None
              => desk[e].on \in Makes!Machines
      BY DeedOf DEF MakeInv, Removing
    <3> QED BY <1>5, <3>1
  <2>4. CASE desk[e].at \in Acts \cup {"release"}
    <3>1. desk[e] # Makes!Idle /\ desk[e].at # "reserve" BY <2>4 DEF Acts, Makes!Idle
    <3>2. PICK c \in Makes!Boxes : c = desk[e].box BY <3>1, DeedOf DEF MakeInv
    <3>3. Makes!Alone' => c # b BY <1>12, <3>1, <3>2 DEF Makes!UnderWay
    <3>4. c # b => row'[c] = row[c] BY <1>8
    <3>5. row[c].status = "torn_down" => row'[c].status = "torn_down" BY <1>8
    <3> QED
      BY <1>1, <1>13, <2>1, <2>2, <2>3, <3>2, <3>3, <3>4, <3>5
      DEF Deals, Active, Makes!Live, Mends, Acts
  <2>5. CASE desk[e].at \notin Acts \cup {"release"}
    BY <1>1, <2>1, <2>5 DEF Deals, Acts, Mends
  <2> QED BY <2>4, <2>5
<1>20. MakeTyped' BY <1>1, <1>5, <1>8, <1>10 DEF MakeInv, MakeTyped
<1>21. \A c \in Makes!Boxes : Creates(c, creator[c])' BY <1>10, <1>17, <1>18
<1> QED BY <1>16, <1>19, <1>20, <1>21 DEF MakeInv
-----------------------------------------------------------------------------
(* Requests that end.                                                      *)
LEMMA ReserveKeeps ==
    ASSUME MakeInv, NEW d \in Workers, Makes!Reserve(d), Makes!Alone' => Makes!Alone
    PROVE  MakeInv'
<1>1. desk[d] \in Reserving /\ Deals(desk[d]) /\ desk[d].at = "reserve"
          /\ Turns(d, Makes!Idle)
      /\ UNCHANGED <<prefix, url, Makes!fly, told>>
  BY DeedOf DEF MakeInv, Makes!Reserve, Turns
<1>2. UNCHANGED <<c_machine, apps, secrets>> BY <1>1 DEF Makes!fly
<1>3. desk' \in [Workers -> Deeds] /\ desk'[d] = Makes!Idle /\ \A e \in Workers : e # d
          => desk'[e] = desk[e]
  BY <1>1, TurnsTyped, TurnsOne, IdleFits DEF MakeInv
<1>n. PICK n \in Identities : n = desk[d].name BY <1>1 DEF Reserving
<1>f. PICK fresh : fresh = {c \in Makes!Boxes : row[c].status = "none"} OBVIOUS
<1>b. PICK b : b = CHOOSE c \in fresh : TRUE OBVIOUS
<1>4. CASE UNCHANGED <<row, creator>>
  <2>1. Deals(Makes!Idle)' BY <1>1, <1>2, <1>4, IdleFits, Still
  <2> QED BY <1>1, <1>4, <2>1, IdleFits, DeskTurns
<1>5. CASE /\ \A c \in Makes!Boxes : row[c].name # n
           /\ fresh # {}
           /\ row' = [row EXCEPT ![b] = [status |-> "provisioning", name |-> n,
                  endpoint |-> None]]
           /\ creator' = [creator EXCEPT ![b] = [at |-> "look", app |-> Makes!AppFor(n)]]
           /\ crowded' = (crowded \/ (~prefix /\ \E c \in Makes!Boxes \ desk[d].others :
                                          row[c].status \in {"provisioning", "live"}))
  <2>1. b \in Makes!Boxes /\ row[b].status = "none" BY <1>5, <1>b, <1>f
  <2>2. n # None BY MakesAssumption DEF Makes!NoneAssumption
  <2>3. /\ row' \in [Makes!Boxes -> BoxRows] /\ row'[b].status = "provisioning"
               /\ row'[b].name = n
        /\ row'[b].endpoint = None
        /\ \A c \in Makes!Boxes : c # b => row'[c] = row[c]
    <3>1. [status |-> "provisioning", name |-> n, endpoint |-> None] \in BoxRows
      BY DEF BoxRows
    <3> QED BY <1>5, <2>1, <3>1 DEF MakeInv, MakeTyped
  <2>s. PICK s : s = [at |-> "look", app |-> Makes!AppFor(n)] OBVIOUS
  <2>4. Becomes(b, s) /\ s \in CreatorSteps
    BY <1>5, <2>s DEF Becomes, CreatorSteps, Seeking, Makes!AppFor, Makes!Apps
  <2>5. creator' \in [Makes!Boxes -> CreatorSteps] /\ creator'[b] = s
        /\ \A c \in Makes!Boxes : c # b => creator'[c] = creator[c]
    BY <2>1, <2>4, BecomesTyped, BecomesOne DEF MakeInv
  <2>6. \A c \in Makes!Boxes : c # b =>
          /\ Home(c)' = Home(c) /\ Active(c)' = Active(c)
                 /\ Makes!Live(c)' = Makes!Live(c)
    BY <1>1, <2>3 DEF Home, Makes!AppFor, Active, Makes!Live
  <2>7. UNCHANGED Makes!In("shared") /\ \A c, k : Holds(c, k)' = Holds(c, k)
    BY <1>1, <1>2 DEF Makes!In, Holds
  <2>8. ASSUME Makes!Alone', ~prefix, NEW c \in Makes!Boxes PROVE ~Active(c)
    <3>1. desk[d].others = {} BY <1>1, <2>8 DEF Deals
    <3>2. ~crowded' BY <2>8 DEF Makes!Alone
    <3>3. ~\E e \in Makes!Boxes \ desk[d].others :
              row[e].status \in {"provisioning", "live"}
      BY <1>5, <2>8, <3>2, Zenon
    <3> QED BY <3>1, <3>3 DEF Active
  <2>9. Apart'
    <3>1. ASSUME NEW c \in Makes!Boxes
          PROVE  /\ Active(c)' => row'[c].name # None
                 /\ row'[c].status = "provisioning" => row'[c].endpoint = None
                 /\ row'[c].status = "live"
                        => row'[c].endpoint # None /\ c_machine[row'[c].endpoint] # None
                 /\ Makes!Alone' /\ row'[c].status = "live" =>
                      c_machine[row'[c].endpoint].app = Home(c)'
                          /\ Holds(c, row'[c].endpoint)
                 /\ Makes!Alone' /\ row'[c].status \in {"none", "provisioning"}
                        => told[c] # "repaired"
      <4>1. CASE c = b BY <2>1, <2>2, <2>3, <4>1 DEF MakeInv, Apart
      <4>2. CASE c # b BY <2>3, <2>6, <4>2 DEF MakeInv, Apart, Makes!Live
      <4> QED BY <4>1, <4>2
    <3>2. \A c, e \in Makes!Boxes : c # e /\ row'[c].name = row'[e].name
              => row'[c].name = None
      BY <1>5, <2>3 DEF MakeInv, Apart
    <3>3. ASSUME Makes!Alone', NEW c \in Makes!Boxes, NEW e \in Makes!Boxes, c # e,
                     Active(c)', Active(e)'
          PROVE  Home(c)' # Home(e)'
      <4>1. CASE c # b /\ e # b BY <2>6, <3>3, <4>1 DEF MakeInv, Apart
      <4>2. CASE prefix
        <5>1. Home(c)' = row'[c].name /\ Home(e)' = row'[e].name
          BY <1>1, <4>2 DEF Home, Makes!AppFor
        <5>2. row'[c].name # None BY <3>1, <3>3
        <5> QED BY <3>2, <3>3, <5>1, <5>2
      <4>3. CASE ~prefix /\ (c = b \/ e = b)
        <5>1. ~Active(c) /\ ~Active(e) BY <2>8, <3>3, <4>3
        <5> QED BY <2>6, <3>3, <4>3, <5>1
      <4> QED BY <4>1, <4>2, <4>3
    <3>4. Makes!Alone' /\ ~prefix' => \A k, m \in Makes!In("shared")' : k = m
      BY <1>1, <2>7 DEF MakeInv, Apart
    <3> QED BY <1>1, <1>2, <2>7, <3>1, <3>2, <3>3, <3>4 DEF Apart, Makes!Live
  <2>10. Creates(b, s)'
    BY <1>1, <2>s, <2>3 DEF Creates, Home, Makes!AppFor, Makes!Idle
  <2>11. ASSUME NEW c \in Makes!Boxes, c # b PROVE Creates(c, creator[c])'
    <3>1. Creates(c, creator[c]) /\ creator'[c] = creator[c] /\ row'[c] = row[c]
      BY <2>3, <2>5, <2>11 DEF MakeInv
    <3> QED BY <1>1, <1>2, <2>6, <2>7, <2>11, <3>1 DEF Creates
  <2>12. ASSUME NEW e \in Workers, e # d PROVE Deals(desk[e])'
    <3>1. Deals(desk[e]) /\ desk'[e] = desk[e] BY <1>3, <2>12 DEF MakeInv
    <3>2. CASE desk[e].at \in Acts \cup {"release"}
      <4>1. desk[e] # Makes!Idle /\ desk[e].at # "reserve" BY <3>2 DEF Acts, Makes!Idle
      <4>2. PICK c \in Makes!Boxes : c = desk[e].box BY <4>1, DeedOf DEF MakeInv
      <4>3. CASE c = b
        <5>1. desk[e].at # "release" BY <2>1, <3>1, <4>2, <4>3 DEF Deals
        <5>2. ~Active(b) /\ desk[e].at \in Acts BY <2>1, <3>2, <5>1 DEF Active
        <5>3. ~Makes!Alone' BY <3>1, <4>2, <4>3, <5>2 DEF Deals
        <5> QED BY <1>2, <3>1, <5>1, <5>3 DEF Deals
      <4>4. CASE c # b
        <5>1. row'[c] = row[c] BY <2>3, <4>4
        <5> QED BY <1>1, <1>2, <2>6, <3>1, <4>2, <4>4, <5>1 DEF Deals
      <4> QED BY <4>3, <4>4
    <3>3. CASE desk[e].at \notin Acts \cup {"release"}
      BY <1>1, <3>1, <3>3 DEF Deals, Acts, Mends
    <3> QED BY <3>2, <3>3
  <2>13. Deals(Makes!Idle)' BY DEF Deals, Makes!Idle, Acts, Mends
  <2>14. \A e \in Workers : Deals(desk[e])' BY <1>3, <2>12, <2>13
  <2>15. \A c \in Makes!Boxes : Creates(c, creator[c])' BY <2>5, <2>10, <2>11
  <2>16. MakeTyped' BY <1>1, <1>2, <1>3, <2>3, <2>5 DEF MakeInv, MakeTyped
  <2> QED BY <2>9, <2>14, <2>15, <2>16 DEF MakeInv
<1>6. \/ UNCHANGED <<row, creator>>
      \/ /\ \A c \in Makes!Boxes : row[c].name # n
         /\ fresh # {}
         /\ row' = [row EXCEPT ![b] = [status |-> "provisioning", name |-> n,
                endpoint |-> None]]
         /\ creator' = [creator EXCEPT ![b] = [at |-> "look", app |-> Makes!AppFor(n)]]
         /\ crowded' = (crowded \/ (~prefix /\ \E c \in Makes!Boxes \ desk[d].others :
                                        row[c].status \in {"provisioning", "live"}))
  <2>1. CASE (\E c \in Makes!Boxes : row[c].name = n) \/ fresh = {}
    <3>1. UNCHANGED <<row, creator, crowded>>
      BY <1>n, <1>f, <2>1, Zenon DEF Makes!Reserve
    <3> QED BY <3>1
  <2>2. CASE ~((\E c \in Makes!Boxes : row[c].name = n) \/ fresh = {})
    BY <1>n, <1>f, <1>b, <2>2, Zenon DEF Makes!Reserve
  <2> QED BY <2>1, <2>2
<1> QED BY <1>4, <1>5, <1>6

LEMMA DestroyKeeps ==
    ASSUME MakeInv, NEW d \in Workers, Makes!Destroy(d), Makes!Alone' => Makes!Alone
    PROVE  MakeInv'
<1>1. desk[d] \in Removing /\ Deals(desk[d]) /\ desk[d].at \in {"destroy", "sweep"}
      /\ UNCHANGED <<url, prefix, row, creator, told>>
  BY DeedOf DEF MakeInv, Makes!Destroy
<1>2. PICK at \in {"shut", "close"} : Makes!Moves(d, at)
  BY DEF Makes!Destroy, Makes!Then
<1>3. PICK s \in Deeds : Turns(d, s) /\ s.at = at /\ s.box = desk[d].box
               /\ s.on = desk[d].on
  BY <1>1, <1>2, RemoverMoves DEF MakeInv
<1>4. Deals(s) BY <1>1, <1>3 DEF Deals, Acts, Mends
<1>5. CASE UNCHANGED Makes!fly
  <2>1. UNCHANGED <<row, c_machine, apps, secrets, told, prefix>>
    BY <1>1, <1>5 DEF Makes!fly
  <2>2. Deals(s)' BY <1>4, <2>1, Still
  <2> QED BY <1>1, <1>3, <1>5, <2>2, DeskTurns
<1>a. PICK a : a = c_machine[desk[d].on].app OBVIOUS
<1>6. CASE Makes!Destroyed(a)
  <2>1. /\ apps' = apps \ {a} /\ secrets' \in [Makes!Apps -> Makes!Boxes \cup {None}]
        /\ \A x \in Makes!Apps : x # a => secrets'[x] = secrets[x]
    BY <1>6 DEF Makes!Destroyed, MakeInv, MakeTyped
  <2>2. ASSUME NEW m \in Makes!Machines
        PROVE  /\ c_machine'[m] \in Hosts \cup {None}
               /\ c_machine[m] # None => /\ c_machine'[m] # None /\ c_machine'[m].app = c_machine[m].app
                                         /\ c_machine'[m].id = c_machine[m].id
                                         /\ c_machine'[m].up
                                                => c_machine[m].up /\ c_machine[m].app # a
               /\ c_machine[m] = None => c_machine'[m] = None
    <3>1. c_machine'[m] = IF m \in Makes!In(a) THEN [c_machine[m] EXCEPT !.up = FALSE] ELSE c_machine[m]
      BY <1>6 DEF Makes!Destroyed
    <3>2. c_machine[m] \in Hosts \cup {None} BY DEF MakeInv, MakeTyped
    <3>3. CASE m \in Makes!In(a)
      <4>1. c_machine[m] \in Hosts BY <3>2, <3>3 DEF Makes!In
      <4>2. c_machine'[m] = [c_machine[m] EXCEPT !.up = FALSE] BY <3>1, <3>3
      <4>3. c_machine'[m] \in Hosts /\ c_machine'[m] # None BY <4>1, <4>2, HostChanges
      <4>4. c_machine'[m].app = c_machine[m].app /\ c_machine'[m].id = c_machine[m].id
                /\ ~c_machine'[m].up
        BY <4>1, <4>2 DEF Hosts
      <4> QED BY <3>3, <4>3, <4>4 DEF Makes!In
    <3>4. CASE m \notin Makes!In(a) BY <3>1, <3>2, <3>4 DEF Makes!In
    <3> QED BY <3>3, <3>4
  <2>3. c_machine' \in [Makes!Machines -> Hosts \cup {None}]
    BY <1>6, <2>2 DEF Makes!Destroyed
  <2>4. Makes!In("shared")' \subseteq Makes!In("shared") BY <2>2 DEF Makes!In
  <2>5. ASSUME NEW c, NEW m \in Makes!Machines, c_machine[m] # None,
                   c_machine[m].app \in Makes!Apps, Holds(c, m)
        PROVE  Holds(c, m)'
    BY <1>1, <2>1, <2>2, <2>5 DEF Holds
  <2>6. \A m \in Makes!Machines : c_machine[m] # None => c_machine[m].app \in Makes!Apps
    BY DEF MakeInv, MakeTyped, Hosts
  <2>7. \A c \in Makes!Boxes : Home(c)' = Home(c) /\ Active(c)' = Active(c)
            /\ Makes!Live(c)' = Makes!Live(c)
    BY <1>1 DEF Home, Makes!AppFor, Active, Makes!Live
  <2>8. Apart'
    <3>1. ASSUME NEW c \in Makes!Boxes
          PROVE  /\ Makes!Live(c)
                        => row[c].endpoint # None /\ c_machine'[row[c].endpoint] # None
                 /\ Makes!Alone' /\ Makes!Live(c) =>
                      c_machine'[row[c].endpoint].app = Home(c)
                          /\ Holds(c, row[c].endpoint)'
      <4>1. row[c] \in BoxRows BY DEF MakeInv, MakeTyped
      <4>2. Makes!Live(c) => /\ row[c].endpoint \in Makes!Machines /\ row[c].endpoint # None
                             /\ c_machine[row[c].endpoint] # None
        BY <4>1 DEF MakeInv, Apart, BoxRows
      <4>3. Makes!Alone' /\ Makes!Live(c) =>
              c_machine[row[c].endpoint].app = Home(c) /\ Holds(c, row[c].endpoint)
        BY DEF MakeInv, Apart
      <4>4. \A m \in Makes!Machines : c_machine[m] # None /\ Holds(c, m) => Holds(c, m)'
        BY <2>5, <2>6
      <4>5. row'[c].endpoint = row[c].endpoint BY <1>1
      <4>6. Makes!Alone' /\ Makes!Live(c) => Holds(c, row[c].endpoint)'
        BY <4>2, <4>3, <4>4, <4>5 DEF Holds
      <4> QED BY <2>2, <4>2, <4>3, <4>6
    <3>2. \A c \in Makes!Boxes :
            /\ Active(c) => row[c].name # None
            /\ row[c].status = "provisioning" => row[c].endpoint = None
            /\ Makes!Alone' /\ row[c].status \in {"none", "provisioning"}
                   => told[c] # "repaired"
      BY DEF MakeInv, Apart
    <3>3. /\ \A c, e \in Makes!Boxes : c # e /\ row[c].name = row[e].name
                 => row[c].name = None
          /\ Makes!Alone' => \A c, e \in Makes!Boxes : c # e /\ Active(c) /\ Active(e)
                 => Home(c) # Home(e)
          /\ Makes!Alone' /\ ~prefix => \A m, k \in Makes!In("shared") : m = k
      BY DEF MakeInv, Apart
    <3>4. UNCHANGED <<row, prefix, told>> BY <1>1
    <3>5. Makes!Alone' /\ ~prefix' => \A m, k \in Makes!In("shared")' : m = k
      BY <2>4, <3>3, <3>4
    <3>6. Makes!Alone' => \A c, e \in Makes!Boxes : c # e /\ Active(c)' /\ Active(e)'
              => Home(c)' # Home(e)'
      BY <2>7, <3>3
    <3>7. ASSUME NEW c \in Makes!Boxes
          PROVE  /\ Active(c)' => row'[c].name # None
                 /\ row'[c].status = "provisioning" => row'[c].endpoint = None
                 /\ Makes!Live(c)'
                        => row'[c].endpoint # None /\ c_machine'[row'[c].endpoint] # None
                 /\ Makes!Alone' /\ Makes!Live(c)' =>
                      c_machine'[row'[c].endpoint].app = Home(c)'
                          /\ Holds(c, row[c].endpoint)'
                 /\ Makes!Alone' /\ row'[c].status \in {"none", "provisioning"}
                        => told'[c] # "repaired"
      <4>1. Home(c)' = Home(c) /\ Active(c)' = Active(c) /\ Makes!Live(c)' = Makes!Live(c)
        BY <2>7
      <4>2. row'[c] = row[c] /\ told'[c] = told[c] BY <3>4
      <4>3. Makes!Alone' /\ Makes!Live(c)' => Holds(c, row[c].endpoint)' BY <3>1, <4>1
      <4>4. Makes!Alone' /\ Makes!Live(c)' => c_machine'[row'[c].endpoint].app = Home(c)'
        BY <3>1, <4>1, <4>2
      <4>5. Makes!Live(c)'
                => row'[c].endpoint # None /\ c_machine'[row'[c].endpoint] # None
        BY <3>1, <4>1, <4>2
      <4>6. Makes!Alone' /\ row'[c].status \in {"none", "provisioning"}
                => told'[c] # "repaired"
        BY <3>2, <4>2
      <4>7. (Active(c)' => row'[c].name # None)
            /\ (row'[c].status = "provisioning" => row'[c].endpoint = None)
        BY <3>2, <4>1, <4>2
      <4> QED BY <4>3, <4>4, <4>5, <4>6, <4>7
    <3>8. \A c, e \in Makes!Boxes : c # e /\ row'[c].name = row'[e].name
              => row'[c].name = None
      BY <3>3, <3>4
    <3> QED BY <3>5, <3>6, <3>7, <3>8 DEF Apart
  <2>9. ASSUME NEW c \in Makes!Boxes PROVE Creates(c, creator[c])'
    <3>1. Creates(c, creator[c]) /\ UNCHANGED creator BY <1>1 DEF MakeInv
    <3>2. creator[c].at \in {"apply", "start"} => creator[c].on \in Makes!Machines
      BY StepOf DEF MakeInv, Placing
    <3>3. creator[c].at \in {"run"} => creator[c].app \in Makes!Apps
      BY StepOf DEF MakeInv, Seeking
    <3>4. creator[c].at \in {"apply", "start"} =>
            c_machine'[creator[c].on] # None
                /\ c_machine'[creator[c].on].app = creator[c].app
      BY <2>2, <3>1, <3>2 DEF Creates
    <3>5. Makes!Alone' /\ creator[c].at = "run" /\ creator[c].app \in apps'
              => secrets'[creator[c].app] = c
      BY <2>1, <3>1, <3>3 DEF Creates
    <3>6. Makes!Alone' /\ creator[c].at = "start" => Holds(c, creator[c].on)'
      <4>1. ASSUME Makes!Alone', creator[c].at = "start" PROVE Holds(c, creator[c].on)'
        <5>1. PICK m \in Makes!Machines : m = creator[c].on BY <3>2, <4>1
        <5>2. c_machine[m] # None /\ Holds(c, m) BY <3>1, <4>1, <5>1 DEF Creates
        <5>3. Holds(c, m)' BY <2>5, <2>6, <5>2
        <5> QED BY <3>1, <5>1, <5>3
      <4> QED BY <4>1
    <3> QED BY <1>1, <2>4, <2>7, <3>1, <3>4, <3>5, <3>6 DEF Creates
  <2>10. ASSUME NEW t \in Deeds, Deals(t), t.at \in Acts \cup {"release"}
                    => t.box \in Makes!Boxes
         PROVE  Deals(t)'
    <3>1. t.at \in Mends \/ (t.at \in {"destroy", "sweep"} /\ t.on # None)
              => t.on \in Makes!Machines
      BY <2>10 DEF Deeds, Mends, Removing, Mending, Rotating, Makes!Idle, Reserving,
         Finding
    <3>2. \A m \in Makes!Machines : c_machine[m] # None =>
             c_machine'[m] # None /\ c_machine'[m].app = c_machine[m].app
                 /\ c_machine'[m].id = c_machine[m].id
      BY <2>2
    <3>3. "rotate" \in Mends BY DEF Mends
    <3>4. t.at \in Acts \cup {"release"} =>
             /\ Home(t.box)' = Home(t.box) /\ Active(t.box)' = Active(t.box)
             /\ Makes!Live(t.box)' = Makes!Live(t.box)
      BY <2>7, <2>10
    <3>5. t.at \in Mends \cup {"find", "destroy", "sweep"} => t.at \in Acts
      BY DEF Mends, Acts
    <3> QED BY <1>1, <2>10, <3>1, <3>2, <3>3, <3>4, <3>5 DEF Deals
  <2>11. desk' \in [Workers -> Deeds] /\ desk'[d] = s /\ \A e \in Workers : e # d
             => desk'[e] = desk[e]
    BY <1>3, TurnsTyped, TurnsOne DEF MakeInv
  <2>12. ASSUME NEW e \in Workers PROVE Deals(desk[e])'
    <3>1. PICK t \in Deeds : t = desk'[e] BY <2>11
    <3>2. Deals(t) BY <1>4, <2>11, <3>1 DEF MakeInv
    <3>3. t.at \in Acts \cup {"release"} => t.box \in Makes!Boxes
      BY <3>1 DEF Deeds, Acts, Removing, Mending, Rotating, Makes!Idle, Reserving,
         Finding
    <3>4. Deals(t)' BY <2>10, <3>2, <3>3
    <3> QED BY <3>1, <3>4
  <2>13. MakeTyped' BY <1>1, <2>1, <2>3, <2>11 DEF MakeInv, MakeTyped
  <2> QED BY <2>8, <2>9, <2>12, <2>13 DEF MakeInv
<1>7. UNCHANGED Makes!fly \/ Makes!Destroyed(a) BY <1>a DEF Makes!Destroy
<1> QED BY <1>5, <1>6, <1>7

LEMMA CloseKeeps ==
    ASSUME MakeInv, NEW d \in Workers, Makes!Close(d), Makes!Alone' => Makes!Alone
    PROVE  MakeInv'
<1>1. desk[d] \in Removing /\ Deals(desk[d]) /\ desk[d].at \in {"close", "shut"}
          /\ desk[d] # Makes!Idle
      /\ UNCHANGED <<prefix, url, Makes!fly, creator, told>>
  BY DeedOf DEF MakeInv, Makes!Close, Makes!Idle
<1>2. UNCHANGED <<c_machine, apps, secrets>> BY <1>1 DEF Makes!fly
<1>b. PICK b \in Makes!Boxes : b = desk[d].box BY <1>1 DEF Removing
<1>3. CASE desk' = [desk EXCEPT ![d] = Makes!Idle] /\ UNCHANGED row
  <2>1. Turns(d, Makes!Idle) BY <1>3 DEF Turns
  <2>2. Deals(Makes!Idle)' BY <1>1, <1>2, <1>3, IdleFits, Still
  <2> QED BY <1>1, <1>3, <2>1, <2>2, IdleFits, DeskTurns
<1>4. CASE row' = [row EXCEPT ![b].status = "torn_down"]
               /\ (Makes!Moves(d, "idle") \/ Makes!Moves(d, "release"))
  <2>1. /\ Apart' /\ row' \in [Makes!Boxes -> BoxRows]
        /\ \A c \in Makes!Boxes : c # b => \A s : Creates(c, s) => Creates(c, s)'
        /\ \A s : Creates(b, s) /\ (Makes!Alone' => s = Makes!Idle) => Creates(b, s)'
        /\ \A s : /\ Deals(s) /\ (s.at \in Acts \cup {"release"} => s.box \in Makes!Boxes)
                  /\ (Makes!Alone' => s.at \notin Acts \/ s.box # b)
                  => Deals(s)'
    BY <1>1, <1>2, <1>4, Closes
  <2>2. Makes!Alone' => creator[b] = Makes!Idle /\ Makes!UnderWay(b) = {d}
    <3>1. strayed' = (strayed \/ creator[b] # Makes!Idle \/ Makes!UnderWay(b) # {d})
      BY <1>b, Zenon DEF Makes!Close
    <3> QED BY <3>1, Zenon DEF Makes!Alone
  <2>3. PICK s \in Deeds : Turns(d, s)
                 /\ (s = Makes!Idle \/ (s.at = "release" /\ s.box = b))
    <3>1. CASE Makes!Moves(d, "idle") BY <1>1, <3>1, RemoverMoves DEF MakeInv
    <3>2. CASE Makes!Moves(d, "release")
      <4>1. desk[d].at \in {"destroy", "sweep", "close", "shut", "release"} BY <1>1
      <4>2. MakeTyped BY DEF MakeInv
      <4>3. PICK s \in Deeds : /\ Turns(d, s) /\ s.at = "release"
                               /\ ("release" # "idle"
                                      => s.box = desk[d].box /\ s.on = desk[d].on)
        BY <3>2, <4>1, <4>2, RemoverMoves
      <4> QED BY <1>b, <4>3
    <3> QED BY <1>4, <3>1, <3>2
  <2>4. desk' \in [Workers -> Deeds] /\ desk'[d] = s /\ \A e \in Workers : e # d
            => desk'[e] = desk[e]
    BY <2>3, TurnsTyped, TurnsOne DEF MakeInv
  <2>5. Deals(s)'
    <3>1. row'[b].status = "torn_down" BY <1>4 DEF MakeInv, MakeTyped, BoxRows
    <3> QED BY <2>3, <3>1 DEF Deals, Acts, Mends, Makes!Idle
  <2>6. ASSUME NEW e \in Workers, e # d PROVE Deals(desk[e])'
    <3>1. desk[e].at \in Acts \cup {"release"}
              => desk[e] # Makes!Idle /\ desk[e].at # "reserve"
      BY DEF Acts, Makes!Idle
    <3>2. desk[e].at \in Acts \cup {"release"} => desk[e].box \in Makes!Boxes
      BY <3>1, DeedOf DEF MakeInv
    <3>3. Makes!Alone' => e \notin Makes!UnderWay(b) BY <2>2, <2>6
    <3>4. Makes!Alone' => desk[e].at \notin Acts \/ desk[e].box # b
      BY <3>1, <3>3 DEF Makes!UnderWay
    <3>5. Deals(desk[e]) BY DEF MakeInv
    <3>6. PICK t : t = desk[e] OBVIOUS
    <3>7. Deals(t)' BY <2>1, <3>2, <3>4, <3>5, <3>6
    <3>8. desk'[e] = t BY <2>4, <2>6, <3>6
    <3> QED BY <3>7, <3>8
  <2>7. \A e \in Workers : Deals(desk[e])' BY <2>4, <2>5, <2>6
  <2>8. ASSUME NEW c \in Makes!Boxes PROVE Creates(c, creator[c])'
    <3>1. PICK t : t = creator[c] OBVIOUS
    <3>2. Creates(c, t) /\ creator'[c] = t /\ (c = b => (Makes!Alone' => t = Makes!Idle))
      BY <1>1, <2>2, <3>1 DEF MakeInv
    <3>3. Creates(c, t)' BY <2>1, <3>2
    <3> QED BY <3>2, <3>3
  <2>9. MakeTyped' BY <1>1, <1>2, <2>1, <2>4 DEF MakeInv, MakeTyped
  <2> QED BY <2>1, <2>7, <2>8, <2>9 DEF MakeInv
<1>5. \/ desk' = [desk EXCEPT ![d] = Makes!Idle] /\ UNCHANGED row
      \/ row' = [row EXCEPT ![b].status = "torn_down"]
             /\ (Makes!Moves(d, "idle") \/ Makes!Moves(d, "release"))
  BY <1>b DEF Makes!Close, Makes!Then
<1> QED BY <1>3, <1>4, <1>5

LEMMA ReleaseKeeps ==
    ASSUME MakeInv, NEW d \in Workers, Makes!Release(d), Makes!Alone' => Makes!Alone
    PROVE  MakeInv'
<1>1. desk[d] \in Removing /\ Deals(desk[d]) /\ desk[d].at = "release"
      /\ UNCHANGED <<prefix, url, Makes!fly, creator, told>>
  BY DeedOf DEF MakeInv, Makes!Release
<1>2. UNCHANGED <<c_machine, apps, secrets>> BY <1>1 DEF Makes!fly
<1>b. PICK b \in Makes!Boxes : b = desk[d].box BY <1>1 DEF Removing
<1>3. row[b].status = "torn_down" /\ row[b] \in BoxRows
  BY <1>1, <1>b DEF Deals, MakeInv, MakeTyped
<1>4. /\ row' \in [Makes!Boxes -> BoxRows] /\ row'[b].status = "torn_down"
             /\ row'[b].name = None
      /\ \A c \in Makes!Boxes : c # b => row'[c] = row[c]
  <2>1. [row[b] EXCEPT !.name = None] \in BoxRows
            /\ [row[b] EXCEPT !.name = None].name = None
        /\ [row[b] EXCEPT !.name = None].status = row[b].status
    BY <1>3 DEF BoxRows
  <2>2. row' = [row EXCEPT ![b] = [row[b] EXCEPT !.name = None]]
    BY <1>b DEF Makes!Release, MakeInv, MakeTyped
  <2> QED BY <1>3, <2>1, <2>2 DEF MakeInv, MakeTyped
<1>5. desk' \in [Workers -> Deeds] /\ desk'[d] = Makes!Idle /\ \A e \in Workers : e # d
          => desk'[e] = desk[e]
  <2>1. Turns(d, Makes!Idle) BY DEF Makes!Release, Makes!Then, Makes!Moves, Turns
  <2> QED BY <2>1, TurnsTyped, TurnsOne, IdleFits DEF MakeInv
<1>6. ~Active(b) /\ ~Active(b)' /\ ~Makes!Live(b) /\ ~Makes!Live(b)'
  BY <1>3, <1>4 DEF Active, Makes!Live
<1>7. \A c \in Makes!Boxes : c # b => Home(c)' = Home(c)
  BY <1>1, <1>4 DEF Home, Makes!AppFor
<1>8. \A c \in Makes!Boxes : Active(c)' = Active(c) /\ Makes!Live(c)' = Makes!Live(c)
  BY <1>4, <1>6 DEF Active, Makes!Live
<1>9. UNCHANGED Makes!In("shared") /\ \A c, k : Holds(c, k)' = Holds(c, k)
  BY <1>1, <1>2 DEF Makes!In, Holds
<1>10. Apart'
  <2>1. ASSUME NEW c \in Makes!Boxes
        PROVE  /\ Active(c)' => row'[c].name # None
               /\ row'[c].status = "provisioning" => row'[c].endpoint = None
               /\ row'[c].status = "live"
                      => row'[c].endpoint # None /\ c_machine[row'[c].endpoint] # None
               /\ Makes!Alone' /\ row'[c].status = "live" =>
                    c_machine[row'[c].endpoint].app = Home(c)'
                        /\ Holds(c, row'[c].endpoint)
               /\ Makes!Alone' /\ row'[c].status \in {"none", "provisioning"}
                      => told[c] # "repaired"
    <3>1. CASE c = b BY <1>4, <1>6, <3>1
    <3>2. CASE c # b BY <1>4, <1>7, <1>8, <3>2 DEF MakeInv, Apart, Makes!Live
    <3> QED BY <3>1, <3>2
  <2>2. \A c, e \in Makes!Boxes : c # e /\ row'[c].name = row'[e].name
            => row'[c].name = None
    BY <1>4 DEF MakeInv, Apart
  <2>3. Makes!Alone' => \A c, e \in Makes!Boxes : c # e /\ Active(c)' /\ Active(e)'
            => Home(c)' # Home(e)'
    BY <1>6, <1>7, <1>8 DEF MakeInv, Apart
  <2>4. Makes!Alone' /\ ~prefix' => \A k, m \in Makes!In("shared")' : k = m
    BY <1>1, <1>9 DEF MakeInv, Apart
  <2> QED BY <1>1, <1>2, <1>9, <2>1, <2>2, <2>3, <2>4 DEF Apart, Makes!Live
<1>11. ASSUME NEW c \in Makes!Boxes PROVE Creates(c, creator[c])'
  <2>1. Creates(c, creator[c]) /\ UNCHANGED creator BY <1>1 DEF MakeInv
  <2>2. CASE c = b
    <3>1. Makes!Alone' => creator[c] = Makes!Idle BY <1>3, <2>1, <2>2 DEF Creates
    <3> QED BY <1>2, <2>1, <3>1 DEF Creates, Makes!Idle
  <2>3. CASE c # b
    <3>1. row'[c] = row[c] /\ Home(c)' = Home(c) BY <1>4, <1>7, <2>3
    <3> QED BY <1>1, <1>2, <1>9, <2>1, <3>1 DEF Creates
  <2> QED BY <2>2, <2>3
<1>12. ASSUME NEW e \in Workers, e # d PROVE Deals(desk[e])'
  <2>1. Deals(desk[e]) /\ desk'[e] = desk[e] BY <1>5, <1>12 DEF MakeInv
  <2>2. CASE desk[e].at \in Acts \cup {"release"}
    <3>1. desk[e] # Makes!Idle /\ desk[e].at # "reserve" BY <2>2 DEF Acts, Makes!Idle
    <3>2. PICK c \in Makes!Boxes : c = desk[e].box BY <3>1, DeedOf DEF MakeInv
    <3>3. CASE c = b
      <4>1. Makes!Alone' => desk[e].at \notin Acts BY <1>6, <2>1, <3>2, <3>3 DEF Deals
      <4> QED BY <1>2, <1>4, <2>1, <2>2, <3>2, <3>3, <4>1 DEF Deals, Acts, Mends
    <3>4. CASE c # b
      <4>1. row'[c] = row[c] BY <1>4, <3>4
      <4> QED BY <1>1, <1>2, <1>7, <1>8, <2>1, <3>2, <3>4, <4>1 DEF Deals
    <3> QED BY <3>3, <3>4
  <2>3. CASE desk[e].at \notin Acts \cup {"release"}
    BY <1>1, <2>1, <2>3 DEF Deals, Acts, Mends
  <2> QED BY <2>2, <2>3
<1>13. Deals(Makes!Idle)' BY DEF Deals, Makes!Idle, Acts, Mends
<1>14. \A e \in Workers : Deals(desk[e])' BY <1>5, <1>12, <1>13
<1>15. MakeTyped' BY <1>1, <1>2, <1>4, <1>5 DEF MakeInv, MakeTyped
<1> QED BY <1>10, <1>11, <1>14, <1>15 DEF MakeInv

(* A repair whose machine calls as its box goes on to its identity.        *)
LEMMA MenderMoves ==
    ASSUME MakeInv, NEW d \in Workers, desk[d].at \in {"inspect", "rewrite"}
    PROVE  /\ Makes!Moves(d, "rewrite") => \E s \in Mending :
                Turns(d, s) /\ s.at = "rewrite" /\ s.box = desk[d].box
                    /\ s.on = desk[d].on
           /\ Makes!Moves(d, "idle") => Turns(d, Makes!Idle)
           /\ Makes!RotatesToo(d) => \E s \in {Makes!Idle} \cup Rotating :
                Turns(d, s) /\ (s = Makes!Idle \/ (/\ s.at = "rotate" /\ s.as = "repaired" /\ Makes!Live(s.box)
                                                   /\ s.box = desk[d].box
                                                          /\ s.on = desk[d].on))
<1>1. desk[d] \in Mending BY DeedOf DEF MakeInv
<1>2. ASSUME Makes!Moves(d, "rewrite")
      PROVE  \E s \in Mending :
                Turns(d, s) /\ s.at = "rewrite" /\ s.box = desk[d].box
                    /\ s.on = desk[d].on
  <2> DEFINE s == [desk[d] EXCEPT !.at = "rewrite"]
  <2>1. s \in Mending /\ s.at = "rewrite" /\ s.box = desk[d].box /\ s.on = desk[d].on
    BY <1>1 DEF Mending
  <2>2. Turns(d, s) BY <1>2 DEF Makes!Moves, Turns, MakeInv, MakeTyped
  <2> HIDE DEF s
  <2> QED BY <2>1, <2>2
<1>3. Makes!Moves(d, "idle") => Turns(d, Makes!Idle) BY DEF Makes!Moves, Turns
<1>4. ASSUME Makes!RotatesToo(d)
      PROVE  \E s \in {Makes!Idle} \cup Rotating :
                Turns(d, s) /\ (s = Makes!Idle \/ (/\ s.at = "rotate" /\ s.as = "repaired" /\ Makes!Live(s.box)
                                                   /\ s.box = desk[d].box
                                                          /\ s.on = desk[d].on))
  <2>1. CASE ~Makes!Live(desk[d].box)
    <3>1. Turns(d, Makes!Idle) BY <1>4, <2>1 DEF Makes!RotatesToo, Turns
    <3> QED BY <3>1
  <2>2. CASE Makes!Live(desk[d].box)
    <3> DEFINE s == [at |-> "rotate", box |-> desk[d].box, on |-> desk[d].on,
            as |-> "repaired"]
    <3>1. s \in Rotating BY <1>1 DEF Mending, Rotating
    <3>2. Turns(d, s) BY <1>4, <2>2 DEF Makes!RotatesToo, Turns
    <3> QED BY <2>2, <3>1, <3>2
  <2> QED BY <2>1, <2>2
<1> QED BY <1>2, <1>3, <1>4

LEMMA InspectKeeps ==
    ASSUME MakeInv, NEW d \in Workers, Makes!Inspect(d), Makes!Alone' => Makes!Alone
    PROVE  MakeInv'
<1>1. desk[d] \in Mending /\ Deals(desk[d]) /\ desk[d].at = "inspect"
      /\ UNCHANGED <<url, prefix, row, Makes!fly, creator, told>>
  BY DeedOf DEF MakeInv, Makes!Inspect
<1>2. UNCHANGED <<row, c_machine, apps, secrets, told, prefix>> BY <1>1 DEF Makes!fly
<1>3. PICK s \in Deeds : Turns(d, s) /\ Deals(s)
  <2>1. CASE Makes!Moves(d, "rewrite")
    <3>1. PICK s \in Mending :
             Turns(d, s) /\ s.at = "rewrite" /\ s.box = desk[d].box /\ s.on = desk[d].on
      BY <1>1, <2>1, MenderMoves
    <3>2. Deals(s) BY <1>1, <3>1 DEF Deals, Mends, Acts
    <3> QED BY <3>1, <3>2 DEF Deeds
  <2>2. CASE Makes!RotatesToo(d) /\ Makes!Connected(desk[d].box, desk[d].on)
    <3>1. PICK s \in {Makes!Idle} \cup Rotating :
            Turns(d, s) /\ (s = Makes!Idle \/ (/\ s.at = "rotate" /\ s.as = "repaired" /\ Makes!Live(s.box)
                                               /\ s.box = desk[d].box
                                                      /\ s.on = desk[d].on))
      BY <1>1, <2>2, MenderMoves
    <3>2. Deals(s)
      <4>1. CASE s = Makes!Idle BY <4>1, IdleFits
      <4>2. CASE s # Makes!Idle
        BY <1>1, <2>2, <3>1, <4>2 DEF Deals, Mends, Acts, Makes!Connected, Active,
           Makes!Live
      <4> QED BY <4>1, <4>2
    <3> QED BY <3>1, <3>2 DEF Deeds
  <2> QED BY <2>1, <2>2 DEF Makes!Inspect
<1>4. Deals(s)' BY <1>2, <1>3, Still
<1> QED BY <1>1, <1>3, <1>4, DeskTurns

LEMMA RewriteKeeps ==
    ASSUME MakeInv, NEW d \in Workers, Makes!Rewrite(d), Makes!Alone' => Makes!Alone
    PROVE  MakeInv'
<1>1. desk[d] \in Mending /\ Deals(desk[d]) /\ desk[d].at = "rewrite"
      /\ UNCHANGED <<prefix, url, row, apps, secrets, creator, told>>
  BY DeedOf DEF MakeInv, Makes!Rewrite
<1>b. PICK b \in Makes!Boxes : b = desk[d].box BY <1>1 DEF Mending
<1>m. PICK m \in Makes!Machines : m = desk[d].on BY <1>1 DEF Mending
<1>2. CASE Makes!Moves(d, "idle") /\ UNCHANGED c_machine
  <2>1. Turns(d, Makes!Idle) BY <1>1, <1>2, MenderMoves
  <2>2. UNCHANGED <<row, c_machine, apps, secrets, told, prefix>> BY <1>1, <1>2
  <2>3. Deals(Makes!Idle)' BY <2>2, IdleFits, Still
  <2>4. UNCHANGED Makes!fly BY <2>2 DEF Makes!fly
  <2> QED BY <1>1, <2>1, <2>3, <2>4, IdleFits, DeskTurns
<1>3. CASE /\ c_machine' = [c_machine EXCEPT ![m].id = b, ![m].url = url]
           /\ Makes!RotatesToo(d)
  <2>1. PICK s \in {Makes!Idle} \cup Rotating :
          Turns(d, s) /\ (s = Makes!Idle \/ (/\ s.at = "rotate" /\ s.as = "repaired" /\ Makes!Live(s.box)
                                             /\ s.box = b /\ s.on = m))
    BY <1>1, <1>b, <1>m, <1>3, MenderMoves
  <2>2. c_machine[m] \in Hosts BY <1>1, <1>m DEF Deals, Mends, MakeInv, MakeTyped
  <2>3. /\ c_machine'[m] \in Hosts /\ c_machine'[m] # None
        /\ c_machine'[m].app = c_machine[m].app /\ c_machine'[m].up = c_machine[m].up
               /\ c_machine'[m].id = b
    <3>1. c_machine'[m] = [c_machine[m] EXCEPT !.id = b, !.url = url]
      BY <1>3 DEF MakeInv, MakeTyped
    <3>2. url \in Nat BY DEF MakeInv, MakeTyped
    <3>3. c_machine'[m] \in Hosts /\ c_machine'[m] # None
      <4>1. PICK k \in Hosts : k = c_machine[m] BY <2>2
      <4>2. PICK u \in Nat : u = url BY <3>2
      <4>3. [k EXCEPT !.id = b, !.url = u] \in Hosts BY HostChanges
      <4>4. c_machine'[m] \in Hosts BY <3>1, <4>1, <4>2, <4>3
      <4> QED BY <4>4, HostChanges
    <3> QED BY <2>2, <3>1, <3>3 DEF Hosts
  <2>4. \A k \in Makes!Machines : k # m => c_machine'[k] = c_machine[k]
    BY <1>3 DEF MakeInv, MakeTyped
  <2>5. c_machine' \in [Makes!Machines -> Hosts \cup {None}]
    BY <1>3, <2>3, <2>4 DEF MakeInv, MakeTyped
  <2>6. \A k \in Makes!Machines : c_machine[k] # None =>
           c_machine'[k] # None /\ c_machine'[k].app = c_machine[k].app
               /\ c_machine'[k].up = c_machine[k].up
    BY <2>3, <2>4
  <2>7. m # None /\ c_machine[m] # None
    BY <2>2, HostChanges, MakesAssumption DEF Makes!NoneAssumption
  <2>8. Makes!In("shared")' = Makes!In("shared") BY <2>3, <2>4, <2>7 DEF Makes!In
  <2>9. Makes!Alone'
            => Makes!Live(b) /\ Active(b) /\ row[b].endpoint = m
                /\ c_machine[m].app = Home(b)
    <3>1. Makes!Alone => Makes!Live(b) /\ row[b].endpoint = m
      BY <1>1, <1>b, <1>m DEF Deals, Mends
    <3> QED BY <3>1 DEF MakeInv, Apart, Makes!Live, Active
  <2>10. \A c \in Makes!Boxes : Home(c)' = Home(c) /\ Active(c)' = Active(c)
             /\ Makes!Live(c)' = Makes!Live(c)
    BY <1>1 DEF Home, Makes!AppFor, Active, Makes!Live
  <2>11. ASSUME Makes!Alone', NEW c \in Makes!Boxes, Active(c), NEW k \in Makes!Machines,
                    c_machine[k] # None,
                c_machine[k].app = Home(c), Holds(c, k)
         PROVE  Holds(c, k)'
    <3>1. CASE k # m BY <1>1, <2>4, <2>11, <3>1 DEF Holds
    <3>2. CASE k = m
      <4>1. c = b BY <2>9, <2>11, <3>2, ApartHome
      <4> QED BY <1>1, <2>3, <2>11, <3>2, <4>1 DEF Holds
    <3> QED BY <3>1, <3>2
  <2>12. Apart'
    <3>1. ASSUME NEW c \in Makes!Boxes
          PROVE  /\ Makes!Live(c)
                        => row[c].endpoint # None /\ c_machine'[row[c].endpoint] # None
                 /\ Makes!Alone' /\ Makes!Live(c) =>
                      c_machine'[row[c].endpoint].app = Home(c)
                          /\ Holds(c, row[c].endpoint)'
      <4>1. row[c] \in BoxRows BY DEF MakeInv, MakeTyped
      <4>2. Makes!Live(c) => /\ row[c].endpoint \in Makes!Machines /\ row[c].endpoint # None
                             /\ c_machine[row[c].endpoint] # None
        BY <4>1 DEF MakeInv, Apart, BoxRows
      <4>3. Makes!Alone' /\ Makes!Live(c) =>
              c_machine[row[c].endpoint].app = Home(c) /\ Holds(c, row[c].endpoint)
        BY DEF MakeInv, Apart
      <4>4. Makes!Alone' /\ Makes!Live(c) => Holds(c, row[c].endpoint)'
        <5>1. ASSUME Makes!Alone', Makes!Live(c) PROVE Holds(c, row[c].endpoint)'
          <6>1. PICK k \in Makes!Machines : k = row[c].endpoint BY <4>2, <5>1
          <6>2. Active(c) /\ c_machine[k] # None /\ c_machine[k].app = Home(c)
                    /\ Holds(c, k)
            BY <4>2, <4>3, <5>1, <6>1 DEF Makes!Live, Active
          <6>3. Holds(c, k)' BY <2>11, <5>1, <6>2
          <6>4. row'[c].endpoint = k BY <1>1, <6>1
          <6> QED BY <6>3, <6>4
        <5> QED BY <5>1
      <4> QED BY <2>6, <4>2, <4>3, <4>4
    <3>2. \A c \in Makes!Boxes :
            /\ Active(c) => row[c].name # None
            /\ row[c].status = "provisioning" => row[c].endpoint = None
            /\ Makes!Alone' /\ row[c].status \in {"none", "provisioning"}
                   => told[c] # "repaired"
      BY DEF MakeInv, Apart
    <3>3. /\ \A c, e \in Makes!Boxes : c # e /\ row[c].name = row[e].name
                 => row[c].name = None
          /\ Makes!Alone' => \A c, e \in Makes!Boxes : c # e /\ Active(c) /\ Active(e)
                 => Home(c) # Home(e)
          /\ Makes!Alone' /\ ~prefix => \A n, k \in Makes!In("shared") : n = k
      BY DEF MakeInv, Apart
    <3>4. UNCHANGED <<row, prefix, told>> BY <1>1
    <3>5. Makes!Alone' /\ ~prefix' => \A n, k \in Makes!In("shared")' : n = k
      BY <2>8, <3>3, <3>4
    <3>6. Makes!Alone' => \A c, e \in Makes!Boxes : c # e /\ Active(c)' /\ Active(e)'
              => Home(c)' # Home(e)'
      BY <2>10, <3>3
    <3>7. ASSUME NEW c \in Makes!Boxes
          PROVE  /\ Active(c)' => row'[c].name # None
                 /\ row'[c].status = "provisioning" => row'[c].endpoint = None
                 /\ Makes!Live(c)'
                        => row'[c].endpoint # None /\ c_machine'[row'[c].endpoint] # None
                 /\ Makes!Alone' /\ Makes!Live(c)' =>
                      c_machine'[row'[c].endpoint].app = Home(c)'
                          /\ Holds(c, row[c].endpoint)'
                 /\ Makes!Alone' /\ row'[c].status \in {"none", "provisioning"}
                        => told'[c] # "repaired"
      <4>1. Home(c)' = Home(c) /\ Active(c)' = Active(c) /\ Makes!Live(c)' = Makes!Live(c)
        BY <2>10
      <4>2. row'[c] = row[c] /\ told'[c] = told[c] BY <3>4
      <4>3. Makes!Alone' /\ Makes!Live(c)' => Holds(c, row[c].endpoint)' BY <3>1, <4>1
      <4>4. Makes!Alone' /\ Makes!Live(c)' => c_machine'[row'[c].endpoint].app = Home(c)'
        BY <3>1, <4>1, <4>2
      <4>5. Makes!Live(c)'
                => row'[c].endpoint # None /\ c_machine'[row'[c].endpoint] # None
        BY <3>1, <4>1, <4>2
      <4>6. Makes!Alone' /\ row'[c].status \in {"none", "provisioning"}
                => told'[c] # "repaired"
        BY <3>2, <4>2
      <4>7. (Active(c)' => row'[c].name # None)
            /\ (row'[c].status = "provisioning" => row'[c].endpoint = None)
        BY <3>2, <4>1, <4>2
      <4> QED BY <4>3, <4>4, <4>5, <4>6, <4>7
    <3>8. \A c, e \in Makes!Boxes : c # e /\ row'[c].name = row'[e].name
              => row'[c].name = None
      BY <3>3, <3>4
    <3> QED BY <3>5, <3>6, <3>7, <3>8 DEF Apart
  <2>13. ASSUME NEW c \in Makes!Boxes PROVE Creates(c, creator[c])'
    <3>1. Creates(c, creator[c]) /\ UNCHANGED creator BY <1>1 DEF MakeInv
    <3>2. creator[c].at \in {"apply", "start"} => creator[c].on \in Makes!Machines
      BY StepOf DEF MakeInv, Placing
    <3>3. creator[c].at \in {"apply", "start"} =>
            c_machine'[creator[c].on] # None
                /\ c_machine'[creator[c].on].app = creator[c].app
      BY <2>6, <3>1, <3>2 DEF Creates
    <3>4. Makes!Alone' /\ creator[c].at = "start" => Holds(c, creator[c].on)'
      <4>1. ASSUME Makes!Alone', creator[c].at = "start" PROVE Holds(c, creator[c].on)'
        <5>1. PICK k \in Makes!Machines : k = creator[c].on BY <3>2, <4>1
        <5>2. creator[c] # Makes!Idle BY <4>1 DEF Makes!Idle
        <5>3. Active(c) /\ c_machine[k] # None /\ c_machine[k].app = Home(c)
                  /\ Holds(c, k)
          BY <3>1, <4>1, <5>1, <5>2 DEF Creates, Active
        <5>4. Holds(c, k)' BY <2>11, <4>1, <5>3
        <5> QED BY <3>1, <5>1, <5>4
      <4> QED BY <4>1
    <3> QED BY <1>1, <2>8, <2>10, <3>1, <3>3, <3>4 DEF Creates
  <2>14. ASSUME NEW t \in Deeds, Deals(t), t.at \in Acts \cup {"release"}
                    => t.box \in Makes!Boxes
         PROVE  Deals(t)'
    <3>1. t.at \in Mends \/ (t.at \in {"destroy", "sweep"} /\ t.on # None)
              => t.on \in Makes!Machines
      BY <2>14 DEF Deeds, Mends, Removing, Mending, Rotating, Makes!Idle, Reserving,
         Finding
    <3>2. "rotate" \in Mends BY DEF Mends
    <3>3. t.at \in Acts \cup {"release"} =>
             /\ Home(t.box)' = Home(t.box) /\ Active(t.box)' = Active(t.box)
             /\ Makes!Live(t.box)' = Makes!Live(t.box)
      BY <2>10, <2>14
    <3>4. t.at \in Mends \cup {"find", "destroy", "sweep"} => t.at \in Acts
      BY DEF Mends, Acts
    <3>5. Makes!Alone' /\ t.at = "rotate" /\ t.as = "repaired"
              => c_machine'[t.on].id = t.box
      <4>1. ASSUME Makes!Alone', t.at = "rotate", t.as = "repaired"
            PROVE c_machine'[t.on].id = t.box
        <5>1. t.on \in Makes!Machines /\ t.box \in Makes!Boxes
          BY <2>14, <3>1, <3>2, <3>4, <4>1
        <5>2. Makes!Live(t.box) /\ t.on = row[t.box].endpoint
                  /\ c_machine[t.on].id = t.box
          BY <2>14, <3>2, <4>1 DEF Deals
        <5>3. CASE t.on # m BY <2>4, <5>1, <5>2, <5>3
        <5>4. CASE t.on = m
          <6>1. Active(t.box) /\ Home(t.box) = c_machine[m].app
            BY <4>1, <5>1, <5>2, <5>4 DEF MakeInv, Apart, Makes!Live, Active
          <6>2. t.box = b BY <2>9, <4>1, <5>1, <6>1, ApartHome
          <6> QED BY <2>3, <5>4, <6>2
        <5> QED BY <5>3, <5>4
      <4> QED BY <4>1
    <3> QED BY <1>1, <2>6, <2>14, <3>1, <3>2, <3>3, <3>4, <3>5 DEF Deals
  <2>15. Deals(s)'
    <3>1. CASE s = Makes!Idle BY <3>1 DEF Deals, Makes!Idle, Acts, Mends
    <3>2. CASE s # Makes!Idle
      <4>1. s.at = "rotate" /\ s.box = b /\ s.on = m /\ Makes!Live(b)'
        BY <2>1, <2>10, <3>2
      <4>2. Makes!Alone' => m = row'[b].endpoint BY <1>1, <2>9
      <4> QED BY <2>3, <2>9, <2>10, <4>1, <4>2 DEF Deals, Acts, Mends
    <3> QED BY <3>1, <3>2
  <2>16. s \in Deeds BY <2>1 DEF Deeds
  <2>17. desk' \in [Workers -> Deeds] /\ desk'[d] = s /\ \A e \in Workers : e # d
             => desk'[e] = desk[e]
    BY <2>1, <2>16, TurnsTyped, TurnsOne DEF MakeInv
  <2>18. ASSUME NEW e \in Workers, e # d PROVE Deals(desk[e])'
    <3>1. PICK t \in Deeds : t = desk[e] BY DEF MakeInv, MakeTyped
    <3>2. Deals(t) /\ desk'[e] = t BY <2>17, <2>18, <3>1 DEF MakeInv
    <3>3. t.at \in Acts \cup {"release"} => t.box \in Makes!Boxes
      BY <3>1 DEF Deeds, Acts, Removing, Mending, Rotating, Makes!Idle, Reserving,
         Finding
    <3>4. Deals(t)' BY <2>14, <3>2, <3>3
    <3> QED BY <3>2, <3>4
  <2>19. \A e \in Workers : Deals(desk[e])' BY <2>15, <2>17, <2>18
  <2>20. MakeTyped' BY <1>1, <2>5, <2>17 DEF MakeInv, MakeTyped
  <2> QED BY <2>12, <2>13, <2>19, <2>20 DEF MakeInv
<1>4. \/ Makes!Moves(d, "idle") /\ UNCHANGED c_machine
      \/ c_machine' = [c_machine EXCEPT ![m].id = b, ![m].url = url]
             /\ Makes!RotatesToo(d)
  BY <1>b, <1>m DEF Makes!Rewrite, Makes!Identity
<1> QED BY <1>2, <1>3, <1>4

LEMMA CrashKeeps ==
    ASSUME MakeInv, Makes!Crash, Makes!Alone' => Makes!Alone
    PROVE  MakeInv'
<1>1. /\ desk' = [d \in Workers |-> Makes!Idle]
             /\ creator' = [b \in Makes!Boxes |-> Makes!Idle]
      /\ UNCHANGED <<prefix, row, c_machine, apps, secrets, told>>
  BY DEF Makes!Crash, Makes!fly
<1>2. (\A b \in Makes!Boxes : Creates(b, Makes!Idle)') /\ Deals(Makes!Idle)' /\ Apart'
  BY <1>1, IdleFits, Still DEF MakeInv
<1>3. url' \in Nat BY DEF Makes!Crash, MakeInv, MakeTyped
<1>4. MakeTyped' BY <1>1, <1>3, IdleFits DEF MakeInv, MakeTyped
<1>5. \A b \in Makes!Boxes : creator'[b] = Makes!Idle BY <1>1
<1>6. \A d \in Workers : desk'[d] = Makes!Idle BY <1>1
<1> QED BY <1>2, <1>4, <1>5, <1>6 DEF MakeInv
-----------------------------------------------------------------------------
LEMMA MakeInit == Makes!Init => MakeInv
<1> SUFFICES ASSUME Makes!Init PROVE MakeInv OBVIOUS
<1>1. MakeTyped
  <2>1. [status |-> "none", name |-> None, endpoint |-> None] \in BoxRows BY DEF BoxRows
  <2> QED BY <2>1, IdleFits DEF Makes!Init, MakeTyped, Makes!Told
<1>2. \A b \in Makes!Boxes : row[b].status = "none" /\ row[b].name = None
          /\ told[b] = "nothing"
  BY DEF Makes!Init
<1>3. \A b \in Makes!Boxes : ~Active(b) /\ ~Makes!Live(b) BY <1>2 DEF Active, Makes!Live
<1>4. Makes!In("shared") = {} BY DEF Makes!In, Makes!Init
<1>5. Apart BY <1>2, <1>3, <1>4 DEF Apart
<1>6. (\A b \in Makes!Boxes : creator[b] = Makes!Idle)
          /\ (\A d \in Workers : desk[d] = Makes!Idle)
  BY DEF Makes!Init
<1> QED BY <1>1, <1>5, <1>6, IdleFits DEF MakeInv

LEMMA MakeNext == MakeInv /\ [Makes!Next]_(Makes!vars) => MakeInv'
<1> SUFFICES ASSUME MakeInv, [Makes!Next]_(Makes!vars) PROVE MakeInv' OBVIOUS
<1>1. CASE UNCHANGED Makes!vars
  <2>1. UNCHANGED <<prefix, url, row, apps, secrets, c_machine, creator, desk, told,
                      strayed, crowded>>
    BY <1>1 DEF Makes!vars, Makes!fly, Makes!history
  <2>2. Makes!Alone' => Makes!Alone BY <2>1 DEF Makes!Alone
  <2>3. /\ Apart' /\ \A b, s : Creates(b, s) => Creates(b, s)'
        /\ \A s : Deals(s) => Deals(s)'
    BY <2>1, <2>2, Still DEF MakeInv
  <2>4. \A b \in Makes!Boxes : Creates(b, creator[b])' BY <2>1, <2>3 DEF MakeInv
  <2>5. \A d \in Workers : Deals(desk[d])' BY <2>1, <2>3 DEF MakeInv
  <2>6. MakeTyped' BY <2>1 DEF MakeInv, MakeTyped
  <2> QED BY <2>3, <2>4, <2>5, <2>6 DEF MakeInv
<1>2. CASE Makes!Next
  <2>1. Makes!Alone' => Makes!Alone BY <1>2, AloneBefore
  <2>2. ASSUME NEW d \in Workers, \E n \in Identities : Makes!Probe(d, n) PROVE MakeInv'
    BY <2>1, <2>2, ProbeKeeps
  <2>3. ASSUME NEW d \in Workers, Makes!Reserve(d) \/ Makes!Find(d) \/ Makes!Destroy(d)
                   \/ Makes!Close(d)
        PROVE MakeInv'
    BY <2>1, <2>3, ReserveKeeps, FindKeeps, DestroyKeeps, CloseKeeps
  <2>4. ASSUME NEW d \in Workers, Makes!Release(d) \/ Makes!Rotate(d) \/ Makes!Inspect(d)
                   \/ Makes!Rewrite(d)
        PROVE MakeInv'
    BY <2>1, <2>4, ReleaseKeeps, RotateKeeps, InspectKeeps, RewriteKeeps
  <2>5. ASSUME NEW d \in Workers, NEW b \in Makes!Boxes,
               Makes!Teardown(d, b) \/ Makes!Sweep(d, b) \/ Makes!AsksIdentity(d, b)
                   \/ Makes!AsksRepair(d, b)
        PROVE  MakeInv'
    BY <2>1, <2>5, TeardownKeeps, SweepKeeps, AsksKeeps
  <2>6. ASSUME NEW b \in Makes!Boxes, Makes!Look(b) \/ Makes!CreateApp(b)
                   \/ Makes!Import(b)
        PROVE MakeInv'
    BY <2>1, <2>6, LookKeeps, CreateAppKeeps, ImportKeeps
  <2>7. ASSUME NEW b \in Makes!Boxes, Makes!Run(b) \/ Makes!Apply(b) \/ Makes!Settle(b)
        PROVE MakeInv'
    BY <2>1, <2>7, RunKeeps, ApplyKeeps, SettleKeeps
  <2>8. ASSUME NEW b \in Makes!Boxes, \E step \in {"look", "app", "import", "run"} :
                   Makes!FailsAt(b, step)
        PROVE  MakeInv'
    <3>1. Makes!Fails(b) /\ UNCHANGED <<url, prefix, desk>> BY <2>8 DEF Makes!FailsAt
    <3> QED BY <2>1, <3>1, FailsKeeps
  <2>9. ASSUME NEW b \in Makes!Boxes, Makes!RunIsLost(b) PROVE MakeInv'
    BY <2>1, <2>9, RunIsLostKeeps
  <2>10. Makes!Crash => MakeInv' BY <2>1, CrashKeeps
  <2> QED
    BY <1>2, <2>2, <2>3, <2>4, <2>5, <2>6, <2>7, <2>8, <2>9, <2>10 DEF Makes!Next
<1> QED BY <1>1, <1>2

LEMMA MakeMeans == MakeInv => Makes!HoldsItsIdentity /\ Makes!OneBoxPerMachine
<1> SUFFICES ASSUME MakeInv PROVE Makes!HoldsItsIdentity /\ Makes!OneBoxPerMachine OBVIOUS
<1>1. ASSUME NEW b \in Makes!Boxes, Makes!Alone, Makes!Live(b)
      PROVE  c_machine[row[b].endpoint].app = Home(b) /\ Holds(b, row[b].endpoint)
                 /\ Active(b)
  BY <1>1 DEF MakeInv, Apart, Makes!Live, Active
<1>2. Makes!HoldsItsIdentity BY <1>1 DEF Makes!HoldsItsIdentity, Holds, Makes!Secrets
<1>3. Makes!OneBoxPerMachine BY <1>1, ApartHome DEF Makes!OneBoxPerMachine
<1> QED BY <1>2, <1>3

(***************************************************************************)
(* What a destroy takes.  OwnInv: an agent, and a create for a row that     *)
(* waits for it, are in the app of the row's name; and whoever goes to      *)
(* destroy for a box nothing else closed has a machine of that app.         *)
(***************************************************************************)
Ruining == {"find", "sweep", "destroy"}

Known(b) ==
    /\ row[b].status = "provisioning" /\ creator[b] # Makes!Idle
           => creator[b].app = Home(b)
    /\ Makes!Live(b) => c_machine[row[b].endpoint].app = Home(b)

Ruins(d) ==
    desk[d].at \in Ruining /\ d \notin outrun =>
        /\ Active(desk[d].box)
        /\ desk[d].at = "find" => desk[d].app = Home(desk[d].box)
        /\ desk[d].at # "find" /\ desk[d].on # None =>
             /\ c_machine[desk[d].on] # None
             /\ c_machine[desk[d].on].app = Home(desk[d].box)

OwnInv ==
    /\ MakeInv
    /\ \A b \in Makes!Boxes : Known(b)
    /\ \A d \in Workers : Ruins(d)

(* A machine stays in the app it was made in.                              *)
LEMMA MachinesStay ==
    ASSUME MakeInv, [Makes!Next]_(Makes!vars), NEW m \in Makes!Machines, c_machine[m] # None
    PROVE  c_machine'[m] # None /\ c_machine'[m].app = c_machine[m].app
<1>1. c_machine \in [Makes!Machines -> Hosts \cup {None}] /\ c_machine[m] \in Hosts
  BY DEF MakeInv, MakeTyped
<1>2. CASE UNCHANGED c_machine BY <1>2
<1>3. CASE \E b \in Makes!Boxes : Makes!Runs(creator[b].app, b)
  <2>1. PICK h, new : /\ new = CHOOSE k \in Makes!Machines : c_machine[k] = None
                      /\ \E k \in Makes!Machines : c_machine[k] = None
                      /\ c_machine' = [c_machine EXCEPT ![new] = h]
    BY <1>3 DEF Makes!Runs, Makes!New
  <2>2. c_machine[new] = None BY <2>1
  <2> QED BY <1>1, <2>1, <2>2
<1>4. CASE \E a : Makes!Destroyed(a)
  <2>1. c_machine'[m] \in {c_machine[m], [c_machine[m] EXCEPT !.up = FALSE]}
    BY <1>4 DEF Makes!Destroyed
  <2>2. PICK k \in Hosts : k = c_machine[m] BY <1>1
  <2>3. [k EXCEPT !.up = FALSE] # None BY HostChanges
  <2>4. [k EXCEPT !.up = FALSE].app = k.app BY DEF Hosts
  <2> QED BY <2>1, <2>2, <2>3, <2>4
<1>5. CASE \E d \in Workers : Makes!Rewrite(d)
  <2>1. PICK d \in Workers : Makes!Rewrite(d) BY <1>5
  <2>2. CASE c_machine' = [c_machine EXCEPT ![desk[d].on].id = Makes!Identity(desk[d].box).id,
                                            ![desk[d].on].url = Makes!Identity(desk[d].box).url]
    <3>1. PICK b \in Makes!Boxes : b = desk[d].box
      BY <2>1, DeedOf DEF MakeInv, Makes!Rewrite, Mending
    <3>2. PICK u \in Nat : u = url BY DEF MakeInv, MakeTyped
    <3>3. c_machine'[m] \in {c_machine[m], [c_machine[m] EXCEPT !.id = b, !.url = u]}
      BY <1>1, <2>2, <3>1, <3>2 DEF Makes!Identity
    <3>4. PICK k \in Hosts : k = c_machine[m] BY <1>1
    <3>5. [k EXCEPT !.id = b, !.url = u] # None
      <4>1. [k EXCEPT !.id = b, !.url = u] \in Hosts BY HostChanges
      <4> QED BY <4>1, HostChanges
    <3>6. [k EXCEPT !.id = b, !.url = u].app = k.app BY DEF Hosts
    <3> QED BY <3>3, <3>4, <3>5, <3>6
  <2> QED BY <1>2, <2>1, <2>2 DEF Makes!Rewrite
<1>6. CASE \E d \in Workers :
             \/ \E n \in Identities : Makes!Probe(d, n)
             \/ Makes!Reserve(d) \/ Makes!Find(d) \/ Makes!Destroy(d) \/ Makes!Close(d)
             \/ Makes!Release(d) \/ Makes!Rotate(d) \/ Makes!Inspect(d)
             \/ \E b \in Makes!Boxes : Makes!Teardown(d, b) \/ Makes!Sweep(d, b)
                    \/ Makes!AsksIdentity(d, b) \/ Makes!AsksRepair(d, b)
  <2>1. PICK d \in Workers :
             \/ \E n \in Identities : Makes!Probe(d, n)
             \/ Makes!Reserve(d) \/ Makes!Find(d) \/ Makes!Destroy(d) \/ Makes!Close(d)
             \/ Makes!Release(d) \/ Makes!Rotate(d) \/ Makes!Inspect(d)
             \/ \E b \in Makes!Boxes : Makes!Teardown(d, b) \/ Makes!Sweep(d, b)
                    \/ Makes!AsksIdentity(d, b) \/ Makes!AsksRepair(d, b)
    BY <1>6
  <2>2. CASE Makes!Destroy(d)
    <3>1. UNCHANGED c_machine \/ Makes!Destroyed(c_machine[desk[d].on].app)
      BY <2>2 DEF Makes!Destroy, Makes!fly
    <3> QED BY <1>2, <1>4, <3>1
  <2>3. CASE Makes!Rotate(d)
    BY <1>2, <2>3 DEF Makes!Rotate, Makes!Imports, Makes!fly
  <2>4. CASE \/ \E n \in Identities : Makes!Probe(d, n)
             \/ Makes!Reserve(d) \/ Makes!Find(d) \/ Makes!Close(d)
             \/ Makes!Release(d) \/ Makes!Inspect(d)
             \/ \E b \in Makes!Boxes : Makes!Teardown(d, b) \/ Makes!Sweep(d, b)
                    \/ Makes!AsksIdentity(d, b) \/ Makes!AsksRepair(d, b)
    <3>1. UNCHANGED c_machine
      BY <2>4 DEF Makes!Probe, Makes!Reserve, Makes!Find, Makes!Close, Makes!Release,
         Makes!Inspect, Makes!Teardown, Makes!Sweep, Makes!AsksIdentity,
         Makes!AsksRepair, Makes!fly
    <3> QED BY <1>2, <3>1
  <2> QED BY <2>1, <2>2, <2>3, <2>4
<1>7. CASE \E b \in Makes!Boxes :
             \/ Makes!Look(b) \/ Makes!CreateApp(b) \/ Makes!Import(b) \/ Makes!Apply(b)
             \/ Makes!Settle(b)
             \/ \E step \in {"look", "app", "import", "run"} : Makes!FailsAt(b, step)
  <2>1. UNCHANGED c_machine
    BY <1>7 DEF Makes!Look, Makes!CreateApp, Makes!Import, Makes!Apply, Makes!Settle,
       Makes!FailsAt, Makes!Fails, Makes!Imports, Makes!fly
  <2> QED BY <1>2, <2>1
<1>8. CASE \E b \in Makes!Boxes : Makes!Run(b) \/ Makes!RunIsLost(b)
  <2>1. UNCHANGED c_machine \/ \E b \in Makes!Boxes : Makes!Runs(creator[b].app, b)
    BY <1>8 DEF Makes!Run, Makes!RunIsLost, Makes!Fails, Makes!fly
  <2> QED BY <1>2, <1>3, <2>1
<1>9. CASE UNCHANGED Makes!vars BY <1>2, <1>9 DEF Makes!vars, Makes!fly
<1>10. CASE Makes!Crash BY <1>2, <1>10 DEF Makes!Crash, Makes!fly
<1> QED BY <1>5, <1>6, <1>7, <1>8, <1>9, <1>10 DEF Makes!Next

(* What becomes of a row.                                                  *)
Born(b) == /\ row[b].status = "none" /\ row'[b].status = "provisioning"
           /\ creator'[b] = [at |-> "look", app |-> Makes!AppFor(row'[b].name)]
Settled(b) == /\ row[b].status = "provisioning" /\ creator[b].at = "start"
              /\ row'[b].status = "live" /\ row'[b].name = row[b].name
              /\ row'[b].endpoint = creator[b].on
Shut(b) == row'[b].status = "torn_down" /\ Makes!Destroyers(b) \subseteq outrun'
Freed(b) == ~Active(b) /\ row'[b].status = row[b].status

LEMMA RowGoes ==
    ASSUME MakeInv, [Makes!Next]_(Makes!vars), NEW b \in Makes!Boxes
    PROVE  row'[b] = row[b] \/ Born(b) \/ Settled(b) \/ Shut(b) \/ Freed(b)
<1>1. row \in [Makes!Boxes -> BoxRows] /\ row[b] \in BoxRows
      /\ creator \in [Makes!Boxes -> CreatorSteps]
  BY DEF MakeInv, MakeTyped
<1>2. CASE UNCHANGED row BY <1>2
<1>3. ASSUME NEW c \in Makes!Boxes, Makes!Abandons(c)
      PROVE  row'[b] = row[b] \/ Shut(b)
  <2>1. CASE row[c].status = "provisioning"
    <3>1. row' = [row EXCEPT ![c].status = "torn_down"]
          /\ outrun' = outrun \cup Makes!Destroyers(c)
      BY <1>3, <2>1 DEF Makes!Abandons
    <3>2. c = b => row'[b] = [row[b] EXCEPT !.status = "torn_down"] BY <1>1, <3>1
    <3>3. c = b => Shut(b) BY <1>1, <3>1, <3>2 DEF Shut, BoxRows
    <3>4. c # b => row'[b] = row[b] BY <1>1, <3>1
    <3> QED BY <3>3, <3>4
  <2>2. CASE row[c].status # "provisioning" BY <1>3, <2>2 DEF Makes!Abandons
  <2> QED BY <2>1, <2>2
<1>4. CASE \E d \in Workers : Makes!Reserve(d)
  <2>1. PICK d \in Workers : Makes!Reserve(d) BY <1>4
  <2>2. PICK fresh : fresh = {x \in Makes!Boxes : row[x].status = "none"} OBVIOUS
  <2>3. PICK c : c = CHOOSE x \in fresh : TRUE OBVIOUS
  <2>4. CASE /\ fresh # {}
             /\ row' = [row EXCEPT ![c] = [status |-> "provisioning",
                             name |-> desk[d].name, endpoint |-> None]]
             /\ creator' = [creator EXCEPT ![c] =
                             [at |-> "look", app |-> Makes!AppFor(desk[d].name)]]
    <3>1. c \in Makes!Boxes /\ row[c].status = "none" BY <2>2, <2>3, <2>4
    <3>2. c # b => row'[b] = row[b] BY <1>1, <2>4
    <3>3. c = b => Born(b) BY <1>1, <2>4, <3>1 DEF Born
    <3> QED BY <3>2, <3>3
  <2> QED BY <1>2, <2>1, <2>2, <2>3, <2>4 DEF Makes!Reserve
<1>5. CASE \E c \in Makes!Boxes : Makes!Settle(c)
  <2>1. PICK c \in Makes!Boxes : Makes!Settle(c) BY <1>5
  <2>2. CASE row[c].status = "provisioning"
    <3>1. row' = [row EXCEPT ![c].status = "live", ![c].endpoint = creator[c].on]
      BY <2>1, <2>2 DEF Makes!Settle
    <3>2. c # b => row'[b] = row[b] BY <1>1, <3>1
    <3>3. c = b => row'[b] = [row[b] EXCEPT !.status = "live", !.endpoint = creator[b].on]
      BY <1>1, <3>1
    <3>4. c = b => Settled(b)
      BY <1>1, <2>1, <2>2, <3>3 DEF Settled, BoxRows, Makes!Settle, Makes!At
    <3> QED BY <3>2, <3>4
  <2> QED BY <1>2, <2>1, <2>2 DEF Makes!Settle
<1>6. CASE \E d \in Workers : Makes!Close(d)
  <2>1. PICK d \in Workers : Makes!Close(d) BY <1>6
  <2>2. PICK c : c = desk[d].box OBVIOUS
  <2>3. CASE row[c].status # "torn_down" /\ row' = [row EXCEPT ![c].status = "torn_down"]
    <3>1. outrun' = outrun \cup Makes!Destroyers(c) BY <2>1, <2>2, <2>3 DEF Makes!Close
    <3>2. c = b => row'[b] = [row[b] EXCEPT !.status = "torn_down"] BY <1>1, <2>3
    <3>3. c = b => Shut(b) BY <1>1, <3>1, <3>2 DEF Shut, BoxRows
    <3>4. c # b => row'[b] = row[b] BY <1>1, <2>3
    <3> QED BY <3>3, <3>4
  <2> QED BY <1>2, <2>1, <2>2, <2>3 DEF Makes!Close
<1>7. CASE \E d \in Workers : Makes!Release(d)
  <2>1. PICK d \in Workers : Makes!Release(d) BY <1>7
  <2>2. PICK c : c = desk[d].box OBVIOUS
  <2>3. row' = [row EXCEPT ![c].name = None] BY <2>1, <2>2 DEF Makes!Release
  <2>4. row[c].status = "torn_down" BY <2>1, <2>2 DEF Makes!Release, MakeInv, Deals
  <2>5. c # b => row'[b] = row[b] BY <1>1, <2>3
  <2>6. c = b => row'[b] = [row[b] EXCEPT !.name = None] BY <1>1, <2>3
  <2>7. c = b => Freed(b) BY <1>1, <2>4, <2>6 DEF Freed, Active, BoxRows
  <2> QED BY <2>5, <2>7
<1>8. CASE \E d \in Workers :
             \/ \E n \in Identities : Makes!Probe(d, n)
             \/ Makes!Find(d) \/ Makes!Destroy(d) \/ Makes!Rotate(d) \/ Makes!Inspect(d)
             \/ Makes!Rewrite(d)
             \/ \E c \in Makes!Boxes : Makes!Teardown(d, c) \/ Makes!Sweep(d, c)
                    \/ Makes!AsksIdentity(d, c) \/ Makes!AsksRepair(d, c)
  <2>1. UNCHANGED row
    BY <1>8 DEF Makes!Probe, Makes!Find, Makes!Destroy, Makes!Rotate, Makes!Inspect,
       Makes!Rewrite, Makes!Teardown, Makes!Sweep, Makes!AsksIdentity, Makes!AsksRepair
  <2> QED BY <1>2, <2>1
<1>9. CASE \E c \in Makes!Boxes :
             \/ Makes!Look(c) \/ Makes!CreateApp(c) \/ Makes!Apply(c)
             \/ Makes!Import(c) \/ Makes!Run(c) \/ Makes!RunIsLost(c)
             \/ \E step \in {"look", "app", "import", "run"} : Makes!FailsAt(c, step)
  <2>1. UNCHANGED row \/ \E c \in Makes!Boxes : Makes!Abandons(c)
    BY <1>9 DEF Makes!Look, Makes!CreateApp, Makes!Apply, Makes!Import, Makes!Run,
       Makes!RunIsLost, Makes!FailsAt, Makes!Fails
  <2> QED BY <1>2, <1>3, <2>1
<1>10. CASE UNCHANGED Makes!vars BY <1>2, <1>10 DEF Makes!vars
<1>11. CASE Makes!Crash BY <1>2, <1>11 DEF Makes!Crash
<1> QED BY <1>4, <1>5, <1>6, <1>7, <1>8, <1>9, <1>10, <1>11 DEF Makes!Next

(* A create goes on in the app it was begun in.                            *)
LEMMA CreatorGoes ==
    ASSUME MakeInv, [Makes!Next]_(Makes!vars), NEW b \in Makes!Boxes
    PROVE  \/ creator'[b] = creator[b] \/ creator'[b] = Makes!Idle \/ Born(b)
           \/ creator[b] # Makes!Idle /\ creator'[b].app = creator[b].app
<1>1. creator \in [Makes!Boxes -> CreatorSteps] /\ row \in [Makes!Boxes -> BoxRows]
  BY DEF MakeInv, MakeTyped
<1>2. CASE UNCHANGED creator BY <1>2
<1>3. ASSUME NEW c \in Makes!Boxes, creator' = [creator EXCEPT ![c] = Makes!Idle]
      PROVE  creator'[b] \in {creator[b], Makes!Idle}
  BY <1>1, <1>3
<1>4. ASSUME NEW c \in Makes!Boxes, creator[c] # Makes!Idle, NEW s,
             creator' = [creator EXCEPT ![c] = s], s.app = creator[c].app
      PROVE  \/ creator'[b] = creator[b]
             \/ creator[b] # Makes!Idle /\ creator'[b].app = creator[b].app
  BY <1>1, <1>4
<1>5. CASE \E d \in Workers : Makes!Reserve(d)
  <2>1. PICK d \in Workers : Makes!Reserve(d) BY <1>5
  <2>2. PICK fresh : fresh = {x \in Makes!Boxes : row[x].status = "none"} OBVIOUS
  <2>3. PICK c : c = CHOOSE x \in fresh : TRUE OBVIOUS
  <2>4. CASE /\ fresh # {}
             /\ row' = [row EXCEPT ![c] = [status |-> "provisioning",
                             name |-> desk[d].name, endpoint |-> None]]
             /\ creator' = [creator EXCEPT ![c] =
                             [at |-> "look", app |-> Makes!AppFor(desk[d].name)]]
    <3>1. c \in Makes!Boxes /\ row[c].status = "none" BY <2>2, <2>3, <2>4
    <3>2. c # b => creator'[b] = creator[b] BY <1>1, <2>4
    <3>3. c = b => Born(b) BY <1>1, <2>4, <3>1 DEF Born
    <3> QED BY <3>2, <3>3
  <2> QED BY <1>2, <2>1, <2>2, <2>3, <2>4 DEF Makes!Reserve
<1>6. CASE \E d \in Workers :
             \/ \E n \in Identities : Makes!Probe(d, n)
             \/ Makes!Find(d) \/ Makes!Destroy(d) \/ Makes!Close(d)
             \/ Makes!Release(d) \/ Makes!Rotate(d) \/ Makes!Inspect(d) \/ Makes!Rewrite(d)
             \/ \E c \in Makes!Boxes : Makes!Teardown(d, c) \/ Makes!Sweep(d, c)
                    \/ Makes!AsksIdentity(d, c) \/ Makes!AsksRepair(d, c)
  <2>1. UNCHANGED creator
    BY <1>6 DEF Makes!Probe, Makes!Find, Makes!Destroy, Makes!Close, Makes!Release,
       Makes!Rotate, Makes!Inspect, Makes!Rewrite, Makes!Teardown, Makes!Sweep,
       Makes!AsksIdentity, Makes!AsksRepair
  <2> QED BY <1>2, <2>1
<1>7. ASSUME NEW c \in Makes!Boxes, creator[c].at \in {"look", "app", "import", "run"},
             NEW step \in {"look", "app", "import", "run"}, Makes!Goes(c, step)
      PROVE  \E s : creator' = [creator EXCEPT ![c] = s] /\ s.app = creator[c].app
  <2>1. PICK s : s = [at |-> step, app |-> creator[c].app] OBVIOUS
  <2>2. Becomes(c, s) BY <1>7, <2>1, SeekerGoes DEF MakeInv
  <2>3. creator' = [creator EXCEPT ![c] = s] BY <2>2 DEF Becomes
  <2>4. s.app = creator[c].app BY <2>1
  <2> QED BY <2>3, <2>4
<1>8. ASSUME NEW c \in Makes!Boxes,
             Makes!Look(c) \/ Makes!CreateApp(c) \/ Makes!Import(c) \/ Makes!Run(c)
      PROVE  \/ creator' = [creator EXCEPT ![c] = Makes!Idle]
             \/ /\ creator[c] # Makes!Idle
                /\ \E s : creator' = [creator EXCEPT ![c] = s] /\ s.app = creator[c].app
  <2>1. creator[c] # Makes!Idle /\ creator[c].at \in {"look", "app", "import", "run"}
    BY <1>8 DEF Makes!Look, Makes!CreateApp, Makes!Import, Makes!Run, Makes!At, Makes!Idle
  <2>2. CASE Makes!CreateApp(c) BY <1>7, <2>1, <2>2 DEF Makes!CreateApp
  <2>3. CASE Makes!Import(c)
    BY <1>7, <2>1, <2>3 DEF Makes!Import, Makes!Fails, Makes!Abandons
  <2>4. CASE Makes!Run(c)
    <3>1. CASE Makes!Fails(c) BY <3>1 DEF Makes!Fails, Makes!Abandons
    <3>2. CASE \E m : creator' = [creator EXCEPT ![c] =
                        [at |-> "start", app |-> creator[c].app, on |-> m]]
      BY <2>1, <3>2
    <3> QED BY <2>4, <3>1, <3>2 DEF Makes!Run
  <2>5. CASE Makes!Look(c)
    <3>1. CASE Makes!Goes(c, "app") BY <1>7, <2>1, <3>1
    <3>2. CASE \E m : creator' = [creator EXCEPT ![c] =
                        [at |-> "apply", app |-> creator[c].app, on |-> m]]
      BY <2>1, <3>2
    <3> QED BY <1>1, <2>5, <3>1, <3>2 DEF Makes!Look
  <2> QED BY <1>8, <2>2, <2>3, <2>4, <2>5
<1>9. CASE \E c \in Makes!Boxes : Makes!Apply(c)
  <2>1. PICK c \in Makes!Boxes : Makes!Apply(c) BY <1>9
  <2>2. creator[c].at = "apply" /\ Makes!Goes(c, "start") /\ creator[c] # Makes!Idle
    BY <2>1 DEF Makes!Apply, Makes!At, Makes!Idle
  <2>3. Becomes(c, [at |-> "start", app |-> creator[c].app, on |-> creator[c].on])
    BY <2>2, PlacerGoes DEF MakeInv
  <2> QED BY <1>4, <2>2, <2>3 DEF Becomes
<1>10. CASE \E c \in Makes!Boxes :
             \/ Makes!Settle(c) \/ Makes!RunIsLost(c)
             \/ \E step \in {"look", "app", "import", "run"} : Makes!FailsAt(c, step)
  <2>1. \E c \in Makes!Boxes : creator' = [creator EXCEPT ![c] = Makes!Idle]
    BY <1>10 DEF Makes!Settle, Makes!RunIsLost, Makes!FailsAt, Makes!Fails, Makes!Abandons
  <2> QED BY <1>3, <2>1
<1>11. CASE \E c \in Makes!Boxes :
             Makes!Look(c) \/ Makes!CreateApp(c) \/ Makes!Import(c) \/ Makes!Run(c)
  BY <1>3, <1>4, <1>8, <1>11
<1>12. CASE UNCHANGED Makes!vars BY <1>2, <1>12 DEF Makes!vars
<1>13. CASE Makes!Crash BY <1>13 DEF Makes!Crash
<1> QED BY <1>5, <1>6, <1>9, <1>10, <1>11, <1>12, <1>13 DEF Makes!Next

(* Whoever goes to destroy began with the row, or went on from where it    *)
(* was.                                                                    *)
SetsOut(d) ==
    /\ UNCHANGED row
    /\ \E b \in Makes!Boxes :
         /\ Active(b)
         /\ \/ desk'[d] = [at |-> "destroy", box |-> b, on |-> row[b].endpoint]
            \/ desk'[d] = [at |-> "find", box |-> b, app |-> Home(b)]
FoundIt(d) ==
    /\ UNCHANGED row /\ desk[d].at = "find"
    /\ \E m \in Makes!In(desk[d].app) \cup {None} :
         desk'[d] = [at |-> "sweep", box |-> desk[d].box, on |-> m]

LEMMA DeskGoes ==
    ASSUME MakeInv, [Makes!Next]_(Makes!vars), NEW d \in Workers,
           desk'[d].at \in Ruining, d \notin outrun'
    PROVE  SetsOut(d) \/ (d \notin outrun /\ (desk'[d] = desk[d] \/ FoundIt(d)))
<1>1. desk \in [Workers -> Deeds] BY DEF MakeInv, MakeTyped
<1>2. CASE UNCHANGED <<desk, outrun>> BY <1>2
<1>3. ASSUME NEW e \in Workers, NEW s, desk' = [desk EXCEPT ![e] = s],
             s.at \notin Ruining, outrun \subseteq outrun' \cup {e}
      PROVE  d \notin outrun /\ desk'[d] = desk[d]
  BY <1>1, <1>3
<1>4. ASSUME NEW e \in Workers, NEW at \in {"close", "shut", "release", "idle", "rewrite"},
             Makes!Moves(e, at), desk[e] \in Removing \cup Mending \cup Rotating,
             outrun \subseteq outrun' \cup {e}
      PROVE  d \notin outrun /\ desk'[d] = desk[d]
  <2>1. PICK s : s = IF at = "idle" THEN Makes!Idle ELSE [desk[e] EXCEPT !.at = at]
    OBVIOUS
  <2>2. desk' = [desk EXCEPT ![e] = s] BY <1>1, <1>4, <2>1 DEF Makes!Moves
  <2>3. s.at \notin Ruining
    BY <1>4, <2>1 DEF Ruining, Makes!Idle, Removing, Mending, Rotating
  <2> QED BY <1>3, <1>4, <2>2, <2>3
<1>5. ASSUME NEW e \in Workers, Makes!RotatesToo(e), UNCHANGED outrun
      PROVE  d \notin outrun /\ desk'[d] = desk[d]
  <2>1. PICK s : /\ desk' = [desk EXCEPT ![e] = s]
                 /\ s \in {Makes!Idle, [at |-> "rotate", box |-> desk[e].box,
                                        on |-> desk[e].on, as |-> "repaired"]}
    BY <1>5 DEF Makes!RotatesToo
  <2>2. s.at \notin Ruining BY <2>1 DEF Ruining, Makes!Idle
  <2> QED BY <1>3, <1>5, <2>1, <2>2
<1>6. CASE \E e \in Workers :
             \/ \E n \in Identities : Makes!Probe(e, n)
             \/ Makes!Reserve(e)
             \/ \E b \in Makes!Boxes : Makes!AsksIdentity(e, b) \/ Makes!AsksRepair(e, b)
  <2>1. PICK e \in Workers :
          \E s : /\ desk' = [desk EXCEPT ![e] = s] /\ UNCHANGED outrun
                 /\ s.at \in {"idle", "reserve", "rotate", "inspect"}
    BY <1>6 DEF Makes!Probe, Makes!Reserve, Makes!AsksIdentity, Makes!AsksRepair,
       Makes!Idle, Makes!history
  <2> QED BY <1>3, <2>1 DEF Ruining
<1>7. CASE \E e \in Workers, b \in Makes!Boxes : Makes!Teardown(e, b)
  <2>1. PICK e \in Workers, b \in Makes!Boxes : Makes!Teardown(e, b) BY <1>7
  <2>2. PICK s : s = [at |-> IF row[b].status = "torn_down" THEN "release" ELSE "destroy",
                      box |-> b, on |-> row[b].endpoint]
    OBVIOUS
  <2>3. desk' = [desk EXCEPT ![e] = s] /\ UNCHANGED <<row, outrun>>
        /\ row[b].status # "none"
    BY <2>1, <2>2 DEF Makes!Teardown, Makes!Then, Makes!history
  <2>4. row[b] \in BoxRows BY DEF MakeInv, MakeTyped
  <2>5. CASE row[b].status = "torn_down" BY <1>3, <2>2, <2>3, <2>5 DEF Ruining
  <2>6. CASE row[b].status # "torn_down"
    <3>1. Active(b) BY <2>3, <2>4, <2>6 DEF Active, BoxRows
    <3>2. e = d => desk'[d] = s BY <1>1, <2>3
    <3>3. e # d => desk'[d] = desk[d] BY <1>1, <2>3
    <3> QED BY <2>2, <2>3, <2>6, <3>1, <3>2, <3>3 DEF SetsOut
  <2> QED BY <2>5, <2>6
<1>8. CASE \E e \in Workers, b \in Makes!Boxes : Makes!Sweep(e, b)
  <2>1. PICK e \in Workers, b \in Makes!Boxes : Makes!Sweep(e, b) BY <1>8
  <2>2. PICK s : s = [at |-> "find", box |-> b, app |-> Home(b)] OBVIOUS
  <2>3. desk' = [desk EXCEPT ![e] = s] /\ UNCHANGED <<row, outrun>> /\ Active(b)
    BY <2>1, <2>2 DEF Makes!Sweep, Makes!history, Active, Home
  <2>4. e = d => desk'[d] = s BY <1>1, <2>3
  <2>5. e # d => desk'[d] = desk[d] BY <1>1, <2>3
  <2> QED BY <2>2, <2>3, <2>4, <2>5 DEF SetsOut
<1>9. CASE \E e \in Workers : Makes!Find(e)
  <2>1. PICK e \in Workers : Makes!Find(e) BY <1>9
  <2>2. PICK m \in Makes!In(desk[e].app) \cup {None} :
          desk' = [desk EXCEPT ![e] = [at |-> "sweep", box |-> desk[e].box, on |-> m]]
    BY <2>1 DEF Makes!Find
  <2>3. UNCHANGED <<row, outrun>> /\ desk[e].at = "find"
    BY <2>1 DEF Makes!Find, Makes!history
  <2>4. e = d => desk'[d] = [at |-> "sweep", box |-> desk[d].box, on |-> m]
    BY <1>1, <2>2
  <2>5. e # d => desk'[d] = desk[d] BY <1>1, <2>2
  <2> QED BY <2>3, <2>4, <2>5 DEF FoundIt
<1>10. CASE \E e \in Workers : Makes!Destroy(e)
  <2>1. PICK e \in Workers : Makes!Destroy(e) BY <1>10
  <2>2. desk[e] \in Removing BY <2>1, DeedOf DEF MakeInv, Makes!Destroy
  <2>3. outrun' = outrun \ {e} /\ (Makes!Moves(e, "shut") \/ Makes!Moves(e, "close"))
    BY <2>1 DEF Makes!Destroy, Makes!Then
  <2> QED BY <1>4, <2>2, <2>3
<1>11. CASE \E e \in Workers : Makes!Close(e)
  <2>1. PICK e \in Workers : Makes!Close(e) BY <1>11
  <2>2. desk[e] \in Removing BY <2>1, DeedOf DEF MakeInv, Makes!Close
  <2>3. outrun \subseteq outrun' BY <2>1 DEF Makes!Close
  <2>4. \/ desk' = [desk EXCEPT ![e] = Makes!Idle]
        \/ Makes!Moves(e, "idle") \/ Makes!Moves(e, "release")
    BY <2>1 DEF Makes!Close, Makes!Then
  <2>5. Makes!Idle.at \notin Ruining BY DEF Makes!Idle, Ruining
  <2> QED BY <1>3, <1>4, <2>2, <2>3, <2>4, <2>5
<1>12. CASE \E e \in Workers : Makes!Release(e) \/ Makes!Rotate(e)
  <2>1. PICK e \in Workers : Makes!Release(e) \/ Makes!Rotate(e) BY <1>12
  <2>2. desk[e] \in Removing \cup Rotating
    BY <2>1, DeedOf DEF MakeInv, Makes!Release, Makes!Rotate
  <2>3. Makes!Moves(e, "idle") /\ UNCHANGED outrun
    BY <2>1 DEF Makes!Release, Makes!Rotate, Makes!Then, Makes!history
  <2> QED BY <1>4, <2>2, <2>3
<1>13. CASE \E e \in Workers : Makes!Inspect(e) \/ Makes!Rewrite(e)
  <2>1. PICK e \in Workers : Makes!Inspect(e) \/ Makes!Rewrite(e) BY <1>13
  <2>2. desk[e] \in Mending BY <2>1, DeedOf DEF MakeInv, Makes!Inspect, Makes!Rewrite
  <2>3. /\ UNCHANGED outrun
        /\ Makes!Moves(e, "rewrite") \/ Makes!Moves(e, "idle") \/ Makes!RotatesToo(e)
    BY <2>1 DEF Makes!Inspect, Makes!Rewrite, Makes!history
  <2> QED BY <1>4, <1>5, <2>2, <2>3
<1>14. CASE \E c \in Makes!Boxes :
             \/ Makes!Look(c) \/ Makes!CreateApp(c) \/ Makes!Apply(c) \/ Makes!Settle(c)
             \/ Makes!Import(c) \/ Makes!Run(c) \/ Makes!RunIsLost(c)
             \/ \E step \in {"look", "app", "import", "run"} : Makes!FailsAt(c, step)
  <2>1. UNCHANGED desk
    BY <1>14 DEF Makes!Look, Makes!CreateApp, Makes!Apply, Makes!Settle, Makes!Import,
       Makes!Run, Makes!RunIsLost, Makes!FailsAt
  <2>2. \A c : Makes!Abandons(c) => outrun \subseteq outrun' BY DEF Makes!Abandons
  <2>3. UNCHANGED outrun \/ \E c : Makes!Abandons(c)
    BY <1>14 DEF Makes!Look, Makes!CreateApp, Makes!Apply, Makes!Settle, Makes!Import,
       Makes!Run, Makes!RunIsLost, Makes!FailsAt, Makes!Fails, Makes!history
  <2> QED BY <2>1, <2>2, <2>3
<1>15. CASE UNCHANGED Makes!vars BY <1>2, <1>15 DEF Makes!vars, Makes!history
<1>16. CASE Makes!Crash
  <2>1. desk'[d].at = "idle" BY <1>16 DEF Makes!Crash, Makes!Idle
  <2> QED BY <2>1 DEF Ruining
<1> QED
  BY <1>6, <1>7, <1>8, <1>9, <1>10, <1>11, <1>12, <1>13, <1>14, <1>15, <1>16
  DEF Makes!Next

LEMMA OwnInit == Makes!Init => OwnInv
<1> SUFFICES ASSUME Makes!Init PROVE OwnInv OBVIOUS
<1>1. \A b \in Makes!Boxes : Known(b) BY DEF Makes!Init, Known, Makes!Live
<1>2. \A d \in Workers : Ruins(d) BY DEF Makes!Init, Ruins, Ruining, Makes!Idle
<1> QED BY <1>1, <1>2, MakeInit DEF OwnInv

LEMMA OwnNext == OwnInv /\ [Makes!Next]_(Makes!vars) => OwnInv'
<1> SUFFICES ASSUME OwnInv, [Makes!Next]_(Makes!vars) PROVE OwnInv' OBVIOUS
<1>1. MakeInv /\ MakeInv' BY MakeNext DEF OwnInv
<1>2. UNCHANGED prefix
  BY AloneBefore DEF Makes!vars
<1>3. \A b \in Makes!Boxes : row'[b].name = row[b].name => Home(b)' = Home(b)
  BY <1>2 DEF Home, Makes!AppFor
<1>4. ASSUME NEW b \in Makes!Boxes PROVE Known(b)'
  <2>1. row'[b] = row[b] \/ Born(b) \/ Settled(b) \/ Shut(b) \/ Freed(b) BY <1>1, RowGoes
  <2>2. Known(b) BY DEF OwnInv
  <2>3. ASSUME row'[b].status = "provisioning", creator'[b] # Makes!Idle
        PROVE  creator'[b].app = Home(b)'
    <3>1. CASE Born(b) BY <1>2, <3>1 DEF Born, Home, Makes!AppFor
    <3>2. CASE ~Born(b)
      <4>1. row'[b] = row[b]
        BY <2>1, <2>3, <3>2 DEF Settled, Shut, Freed, Active
      <4>2. creator[b] # Makes!Idle /\ creator'[b].app = creator[b].app
        BY <1>1, <2>3, <3>2, CreatorGoes
      <4> QED BY <1>3, <2>2, <2>3, <4>1, <4>2 DEF Known
    <3> QED BY <3>1, <3>2
  <2>4. ASSUME Makes!Live(b)' PROVE (c_machine[row[b].endpoint].app)' = Home(b)'
    <3>1. CASE row'[b] = row[b]
      <4>1. row[b] \in BoxRows BY <1>1 DEF MakeInv, MakeTyped
      <4>2. row[b].endpoint \in Makes!Machines /\ c_machine[row[b].endpoint] # None
        BY <1>1, <2>4, <3>1, <4>1 DEF MakeInv, Apart, Makes!Live, BoxRows
      <4> QED BY <1>1, <1>3, <2>2, <2>4, <3>1, <4>2, MachinesStay DEF Known, Makes!Live
    <3>2. CASE Settled(b)
      <4>1. creator[b] \in Placing /\ Creates(b, creator[b]) /\ creator[b] # Makes!Idle
        BY <1>1, <3>2, StepOf DEF MakeInv, Settled, Makes!Idle
      <4>2. PICK m \in Makes!Machines : m = creator[b].on BY <4>1 DEF Placing
      <4>3. c_machine[m] # None /\ c_machine[m].app = Home(b)
        BY <2>2, <3>2, <4>1, <4>2 DEF Creates, Known, Settled
      <4>4. c_machine'[m].app = Home(b) BY <1>1, <4>3, MachinesStay
      <4> QED BY <1>3, <3>2, <4>2, <4>4 DEF Settled
    <3> QED BY <2>1, <2>4, <3>1, <3>2 DEF Born, Shut, Freed, Active, Makes!Live
  <2> QED BY <2>3, <2>4 DEF Known
<1>5. ASSUME NEW d \in Workers, desk'[d].at \in Ruining, d \notin outrun'
      PROVE  Ruins(d)'
  <2>1. \/ SetsOut(d) \/ (d \notin outrun /\ desk'[d] = desk[d])
        \/ (d \notin outrun /\ FoundIt(d))
    BY <1>1, <1>5, DeskGoes
  <2>2. CASE SetsOut(d)
    <3>1. PICK b \in Makes!Boxes :
            /\ Active(b)
            /\ \/ desk'[d] = [at |-> "destroy", box |-> b, on |-> row[b].endpoint]
               \/ desk'[d] = [at |-> "find", box |-> b, app |-> Home(b)]
      BY <2>2 DEF SetsOut
    <3>2. UNCHANGED row BY <2>2 DEF SetsOut
    <3>3. Active(b)' /\ Home(b)' = Home(b) BY <1>3, <3>1, <3>2 DEF Active
    <3>4. CASE desk'[d] = [at |-> "destroy", box |-> b, on |-> row[b].endpoint]
      <4>1. row[b] \in BoxRows BY <1>1 DEF MakeInv, MakeTyped
      <4>2. row[b].endpoint # None => Makes!Live(b) /\ row[b].endpoint \in Makes!Machines
        BY <1>1, <3>1, <4>1 DEF MakeInv, Apart, Active, Makes!Live, BoxRows
      <4>3. row[b].endpoint # None => c_machine[row[b].endpoint] # None
              /\ c_machine[row[b].endpoint].app = Home(b)
        BY <1>1, <4>2 DEF OwnInv, Known, MakeInv, Apart
      <4>4. row[b].endpoint # None => c_machine'[row[b].endpoint] # None
              /\ c_machine'[row[b].endpoint].app = Home(b)
        BY <1>1, <4>2, <4>3, MachinesStay
      <4> QED BY <3>3, <3>4, <4>4 DEF Ruins
    <3>5. CASE desk'[d] = [at |-> "find", box |-> b, app |-> Home(b)]
      BY <3>3, <3>5 DEF Ruins
    <3> QED BY <3>1, <3>4, <3>5
  <2>3. CASE d \notin outrun /\ desk'[d] = desk[d]
    <3>1. Ruins(d) /\ desk[d].at \in Ruining BY <1>5, <2>3 DEF OwnInv
    <3>2. desk[d] # Makes!Idle /\ desk[d].at # "reserve" BY <3>1 DEF Ruining, Makes!Idle
    <3>3. PICK c \in Makes!Boxes : c = desk[d].box BY <1>1, <3>2, DeedOf DEF MakeInv
    <3>4. Active(c) BY <2>3, <3>1, <3>3 DEF Ruins
    <3>5. ~Shut(c)
      <4>1. d \in Makes!Destroyers(c)
        BY <3>1, <3>2, <3>3 DEF Makes!Destroyers, Makes!UnderWay, Ruining
      <4> QED BY <1>5, <4>1 DEF Shut
    <3>6. Active(c)' /\ Home(c)' = Home(c)
      BY <1>1, <1>3, <3>4, <3>5, RowGoes DEF Born, Settled, Freed, Active
    <3>7. desk[d].at # "find" /\ desk[d].on # None => desk[d].on \in Makes!Machines
      BY <1>1, <3>1, DeedOf DEF MakeInv, Ruining, Removing
    <3>8. ASSUME desk[d].at # "find", desk[d].on # None
          PROVE  c_machine'[desk[d].on] # None /\ c_machine'[desk[d].on].app = Home(c)
      <4>1. PICK m \in Makes!Machines : m = desk[d].on BY <3>7, <3>8
      <4>2. c_machine[m] # None /\ c_machine[m].app = Home(c)
        BY <2>3, <3>1, <3>3, <3>8, <4>1 DEF Ruins
      <4> QED BY <1>1, <4>1, <4>2, MachinesStay
    <3>9. desk[d].at = "find" => desk[d].app = Home(c) BY <2>3, <3>1, <3>3 DEF Ruins
    <3> QED BY <2>3, <3>3, <3>6, <3>8, <3>9 DEF Ruins
  <2>4. CASE d \notin outrun /\ FoundIt(d)
    <3>1. Ruins(d) /\ desk[d].at \in Ruining BY <2>4 DEF OwnInv, FoundIt, Ruining
    <3>2. PICK c \in Makes!Boxes : c = desk[d].box
      BY <1>1, <2>4, DeedOf DEF MakeInv, FoundIt, Finding
    <3>3. Active(c) /\ desk[d].app = Home(c)
      BY <2>4, <3>1, <3>2 DEF Ruins, FoundIt
    <3>4. PICK m \in Makes!In(Home(c)) \cup {None} :
            desk'[d] = [at |-> "sweep", box |-> c, on |-> m]
      BY <2>4, <3>2, <3>3 DEF FoundIt
    <3>5. Active(c)' /\ Home(c)' = Home(c) BY <1>3, <2>4, <3>3 DEF FoundIt, Active
    <3>6. m # None => /\ m \in Makes!Machines /\ c_machine[m] # None
                      /\ c_machine[m].app = Home(c)
      BY <3>4 DEF Makes!In
    <3>7. m # None => c_machine'[m] # None /\ c_machine'[m].app = Home(c)
      BY <1>1, <3>6, MachinesStay
    <3> QED BY <3>4, <3>5, <3>7 DEF Ruins
  <2> QED BY <2>1, <2>2, <2>3, <2>4
<1>6. \A d \in Workers : Ruins(d)' BY <1>5 DEF Ruins
<1> QED BY <1>1, <1>4, <1>6 DEF OwnInv

(* Only a destroy takes a machine that is up, and only its own.            *)
DestroyedIsIts(d, b) ==
    desk[d].at \in {"destroy", "sweep"} /\ desk'[d] # desk[d] /\ desk[d].box # b
    /\ d \notin outrun /\ (prefix \/ Makes!Alone)
    /\ Makes!Live(b) /\ c_machine[row[b].endpoint].up
    => c_machine[row[b].endpoint].up'

LEMMA DestroysNext ==
    ASSUME OwnInv, [Makes!Next]_(Makes!vars), NEW d \in Workers, NEW b \in Makes!Boxes
    PROVE DestroyedIsIts(d, b)
<1> SUFFICES ASSUME desk[d].at \in {"destroy", "sweep"}, desk'[d] # desk[d],
                        desk[d].box # b,
                    d \notin outrun, prefix \/ Makes!Alone,
                    Makes!Live(b), c_machine[row[b].endpoint].up
             PROVE  (c_machine[row[b].endpoint].up)'
  BY DEF DestroyedIsIts
<1> MakeInv /\ Known(b) /\ Ruins(d) BY DEF OwnInv
<1>1. desk \in [Workers -> Deeds] /\ MakeTyped BY DEF MakeInv, MakeTyped
<1>2. ASSUME NEW e \in Workers, e # d, \E s : desk' = [desk EXCEPT ![e] = s] PROVE FALSE
  BY <1>1, <1>2
<1>3. CASE \E e \in Workers, n \in Identities : Makes!Probe(e, n)
  <2>1. PICK e \in Workers : desk[e] = Makes!Idle /\ \E s : desk' = [desk EXCEPT ![e] = s]
    BY <1>3 DEF Makes!Probe
  <2> QED BY <1>2, <2>1 DEF Makes!Idle
<1>4. CASE \E e \in Workers, c \in Makes!Boxes : Makes!Teardown(e, c) \/ Makes!Sweep(e, c)
               \/ Makes!AsksIdentity(e, c) \/ Makes!AsksRepair(e, c)
  <2>1. PICK e \in Workers : desk[e] = Makes!Idle /\ \E s : desk' = [desk EXCEPT ![e] = s]
    BY <1>4 DEF Makes!Teardown, Makes!Sweep, Makes!AsksIdentity, Makes!AsksRepair
  <2> QED BY <1>2, <2>1 DEF Makes!Idle
<1>5. CASE \E e \in Workers : Makes!Reserve(e) \/ Makes!Find(e) \/ Makes!Close(e)
               \/ Makes!Release(e) \/ Makes!Rotate(e) \/ Makes!Inspect(e)
                      \/ Makes!Rewrite(e)
  <2>1. PICK e \in Workers : Makes!Reserve(e) \/ Makes!Find(e) \/ Makes!Close(e)
                 \/ Makes!Release(e) \/ Makes!Rotate(e) \/ Makes!Inspect(e)
                        \/ Makes!Rewrite(e)
    BY <1>5
  <2>2. desk[e].at \notin {"destroy", "sweep"}
    BY <2>1 DEF Makes!Reserve, Makes!Find, Makes!Close, Makes!Release, Makes!Rotate,
       Makes!Inspect, Makes!Rewrite
  <2>3. \A at : Makes!Moves(e, at) => \E s : desk' = [desk EXCEPT ![e] = s]
    <3>1. ASSUME NEW at, Makes!Moves(e, at) PROVE \E s : desk' = [desk EXCEPT ![e] = s]
      <4>1. desk' = [desk EXCEPT ![e] = IF at = "idle" THEN Makes!Idle ELSE [desk[e] EXCEPT !.at = at]]
        BY <1>1, <3>1 DEF Makes!Moves
      <4> QED BY <4>1
    <3> QED BY <3>1
  <2>4. Makes!RotatesToo(e) => \E s : desk' = [desk EXCEPT ![e] = s]
    BY DEF Makes!RotatesToo
  <2>5. Makes!Reserve(e) \/ Makes!Find(e) => \E s : desk' = [desk EXCEPT ![e] = s]
    BY DEF Makes!Reserve, Makes!Find
  <2>6. Makes!Close(e) => \E s : desk' = [desk EXCEPT ![e] = s] BY <2>3 DEF Makes!Close
  <2>7. Makes!Release(e) \/ Makes!Rotate(e) => \E s : desk' = [desk EXCEPT ![e] = s]
    BY <2>3 DEF Makes!Release, Makes!Rotate
  <2>8. Makes!Inspect(e) \/ Makes!Rewrite(e) => \E s : desk' = [desk EXCEPT ![e] = s]
    BY <2>3, <2>4 DEF Makes!Inspect, Makes!Rewrite
  <2> QED BY <1>2, <2>1, <2>2, <2>5, <2>6, <2>7, <2>8
<1>6. CASE \E e \in Workers : Makes!Destroy(e)
  <2>1. PICK e \in Workers : Makes!Destroy(e) BY <1>6
  <2>2. e = d
    <3>1. PICK at : Makes!Moves(e, at) BY <2>1 DEF Makes!Destroy
    <3>2. desk' = [desk EXCEPT ![e] = IF at = "idle" THEN Makes!Idle ELSE [desk[e] EXCEPT !.at = at]]
      BY <1>1, <3>1 DEF Makes!Moves
    <3> QED BY <1>2, <3>2
  <2>3. UNCHANGED row BY <2>1 DEF Makes!Destroy
  <2>4. CASE UNCHANGED Makes!fly BY <2>3, <2>4 DEF Makes!fly
  <2>5. CASE desk[d].on # None /\ Makes!Destroyed(c_machine[desk[d].on].app)
    <3>1. desk[d] \in Removing BY <1>1, DeedOf
    <3>2. PICK c \in Makes!Boxes : c = desk[d].box BY <3>1 DEF Removing
    <3>4. Active(c) /\ c_machine[desk[d].on].app = Home(c)
      BY <2>5, <3>2 DEF Ruins, Ruining
    <3>5. c_machine[row[b].endpoint].app = Home(b) /\ Active(b) /\ row[b].endpoint # None
      BY DEF MakeInv, Apart, Makes!Live, Active, Known
    <3>6. row[b] \in BoxRows BY DEF MakeInv, MakeTyped
    <3>7. row[b].endpoint \in Makes!Machines BY <3>5, <3>6 DEF BoxRows
    <3>8. Home(b) # Home(c)
      <4>1. CASE Makes!Alone BY <3>2, <3>4, <3>5, <4>1, ApartHome
      <4>2. CASE prefix
        <5>1. row[b].name # None /\ row[b].name # row[c].name
          BY <3>2, <3>4, <3>5 DEF MakeInv, Apart
        <5> QED BY <4>2, <5>1 DEF Home, Makes!AppFor
      <4> QED BY <4>1, <4>2
    <3>9. row[b].endpoint \notin Makes!In(Home(c)) BY <3>5, <3>8 DEF Makes!In
    <3>10. c_machine'[row[b].endpoint] = c_machine[row[b].endpoint]
      BY <2>5, <3>4, <3>7, <3>9 DEF Makes!Destroyed
    <3> QED BY <2>3, <3>10
  <2>6. UNCHANGED Makes!fly \/ (desk[d].on # None
                      /\ Makes!Destroyed(c_machine[desk[d].on].app))
    BY <2>1, <2>2 DEF Makes!Destroy
  <2> QED BY <2>4, <2>5, <2>6
<1>7. CASE \E c \in Makes!Boxes :
        \/ Makes!Look(c) \/ Makes!CreateApp(c) \/ Makes!Import(c) \/ Makes!Run(c)
               \/ Makes!Apply(c) \/ Makes!Settle(c)
        \/ Makes!RunIsLost(c)
        \/ \E step \in {"look", "app", "import", "run"} : Makes!FailsAt(c, step)
  <2>1. UNCHANGED desk
    BY <1>7 DEF Makes!Look, Makes!CreateApp, Makes!Import, Makes!Run, Makes!Apply,
       Makes!Settle, Makes!FailsAt, Makes!RunIsLost
  <2> QED BY <2>1
<1>8. CASE Makes!Crash BY <1>8 DEF Makes!Crash, Makes!fly
<1>9. CASE UNCHANGED Makes!vars BY <1>9 DEF Makes!vars
<1> QED BY <1>3, <1>4, <1>5, <1>6, <1>7, <1>8, <1>9 DEF Makes!Next

(* What a timeline tells of an agent's identity is so on its machine, and  *)
(* no machine belongs to two agents (create_box, repair_connection).       *)
THEOREM MachinesStayTheirs == Makes!Spec => []MachinesAreTheirs
<1>1. MakeInv => MachinesAreTheirs BY MakeMeans DEF MachinesAreTheirs
<1> QED BY <1>1, MakeInit, MakeNext, PTL DEF Makes!Spec

(* No teardown and no sweep takes the machine of another agent, unless      *)
(* something else closed its box under it: with an app for each agent even  *)
(* beside creates that failed and boxes torn down under what was under way  *)
(* (teardown_box, _close_stranded_provision).                              *)
THEOREM EachDestroysItsOwn == Makes!Spec => DestroysItsOwn
<1>1. OwnInv /\ [Makes!Next]_(Makes!vars) =>
        [\A d \in Workers, b \in Makes!Boxes : DestroyedIsIts(d, b)]_(Makes!vars)
  BY DestroysNext
<1>2. Makes!Spec => [][\A d \in Workers, b \in Makes!Boxes :
          DestroyedIsIts(d, b)]_(Makes!vars)
  BY <1>1, OwnInit, OwnNext, PTL DEF Makes!Spec
<1> QED BY <1>2 DEF DestroysItsOwn, Makes!DestroysItsOwn, DestroyedIsIts
=============================================================================
