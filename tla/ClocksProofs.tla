---------------------------- MODULE ClocksProofs ----------------------------
(* Theorems about what the clock drives: Schedules, for any control planes,   *)
(* boxes, crons and bounds, and Metering, for any sweeps and length of hour.  *)
(*                                                                            *)
(* That a time makes one run rests on the record of fires: while a trigger    *)
(* exists, it names the times that made a run and no others, so a time that   *)
(* is not in it has none.  That a teardown leaves no fire rests on what each  *)
(* phase of it has already made true.                                         *)
(*                                                                            *)
(* That hours are billed exactly rests on what the log says of every moment:  *)
(* up to the last change it is what was, from there on what the machine is.   *)
(* A sweep keeps what it will bill by only as long as that stays so.          *)
EXTENDS MCClocks, Sequences, FiniteSetTheorems, FunctionTheorems, WellFoundedInduction, TLAPS

Typed == TypeOK /\ IsFiniteSet(runs)

-----------------------------------------------------------------------------
(* What runs look like once S left the queue. *)
LEMMA LeavingTyped ==
    ASSUME Typed, NEW S \in SUBSET runs
    PROVE  LeaveQueue(S) \subseteq RunRow /\ IsFiniteSet(LeaveQueue(S))
<1>1. LeaveQueue(S) \subseteq RunRow
  BY DEF LeaveQueue, Typed, TypeOK, RunRow
<1>2. IsFiniteSet(S) /\ IsFiniteSet(runs \ S)
  BY FS_Subset, FS_Difference DEF Typed
<1>3. IsFiniteSet({[r EXCEPT !.status = "over"] : r \in S})
  <2> DEFINE T == {[r EXCEPT !.status = "over"] : r \in S}
             f == [r \in S |-> [r EXCEPT !.status = "over"]]
  <2>1. f \in [S -> T] /\ \A x \in T : \E r \in S : f[r] = x
    OBVIOUS
  <2> HIDE DEF f
  <2>2. f \in Surjection(S, T)
    BY <2>1, Fun_IsSurj
  <2>3. IsFiniteSet(T)
    BY <1>2, <2>2, FS_Surjection
  <2> QED
    BY <2>3
<1>4. QED
  BY <1>1, <1>2, <1>3, FS_Union DEF LeaveQueue

LEMMA LeavingKeeps ==
    ASSUME Typed, NEW S \in SUBSET runs, NEW r \in LeaveQueue(S)
    PROVE  \E q \in runs :
             /\ r.trigger = q.trigger /\ r.at = q.at /\ r.nth = q.nth
             /\ r = IF q \in S THEN [q EXCEPT !.status = "over"] ELSE q
  BY DEF LeaveQueue, Typed, TypeOK, RunRow

LEMMA LeavingLosesNone ==
    ASSUME Typed, NEW S \in SUBSET runs, NEW q \in runs
    PROVE  \E r \in LeaveQueue(S) : r.trigger = q.trigger /\ r.at = q.at
<1>1. CASE q \in S
  <2>1. [q EXCEPT !.status = "over"] \in LeaveQueue(S)
    BY <1>1 DEF LeaveQueue
  <2> QED
    BY <2>1 DEF Typed, TypeOK, RunRow
<1>2. CASE q \notin S
  BY <1>2 DEF LeaveQueue
<1> QED
  BY <1>1, <1>2

LEMMA NewRunTyped ==
    ASSUME Typed, NEW t \in Triggers, NEW x \in Times, NEW asked \in 0 .. Cap
    PROVE  NewRun(t, x, asked) \in RunRow
<1>1. IsFiniteSet({r \in runs : r.trigger = t /\ r.at = x})
  BY FS_Subset DEF Typed
<1>2. Cardinality({r \in runs : r.trigger = t /\ r.at = x}) \in Nat
  BY <1>1, FS_CardinalityType
<1> QED
  BY <1>2 DEF NewRun, RunRow
-----------------------------------------------------------------------------
LEMMA TypedInit == Init => Typed
  BY TimeAssumption, BoundAssumption, FS_EmptySet
  DEF Init, Typed, TypeOK, Times, Triggers

LEMMA SweepTyped ==
    ASSUME Typed, NEW p \in Planes, SweepReads(p) \/ SweepGoesOn(p) \/ SweepDies(p)
    PROVE  Typed'
<1> USE BoundAssumption, TimeAssumption DEF Typed, TypeOK
<1>1. CASE SweepReads(p)
  <2>1. UNION {{[trigger |-> t, at |-> x, late |-> x < now - Window] : x \in Latest(t)} :
                t \in EnabledSchedules} \subseteq Sight
    <3> SUFFICES ASSUME NEW t \in EnabledSchedules, NEW x \in Latest(t)
                 PROVE  [trigger |-> t, at |-> x, late |-> x < now - Window] \in Sight
      OBVIOUS
    <3>1. t \in Triggers /\ x \in Times /\ (x < now - Window) \in BOOLEAN
      BY DEF EnabledSchedules, Latest, DueTimes
    <3> QED
      BY ONLY <3>1, Zenon DEF Sight
  <2> QED
    BY <1>1, <2>1 DEF SweepReads, rows, closing
<1>2. CASE Fire(p)
  <2>1. PICK s \in First(p) : Fire(p)!(s)
    BY <1>2 DEF Fire
  <2>2. s.trigger \in Triggers /\ s.at \in Times /\ s \in todo[p]
    BY DEF First, Sight
  <2>3. runs' \subseteq RunRow /\ IsFiniteSet(runs')
    <3>1. runs \subseteq RunRow /\ IsFiniteSet(runs)
      BY DEF Typed, TypeOK
    <3>2. runs' = runs \/ \E asked \in 0 .. Cap : runs' = runs \cup {NewRun(s.trigger, s.at, asked)}
      BY <2>1
    <3>3. \A asked \in 0 .. Cap : NewRun(s.trigger, s.at, asked) \in RunRow
      BY <2>2, NewRunTyped
    <3> QED
      BY <3>1, <3>2, <3>3, FS_AddElement
  <2>4. /\ fired' \in [Triggers -> SUBSET Times]
        /\ since' \in [Triggers -> Times]
    BY <2>1, <2>2
  <2>5. todo' \in [Planes -> SUBSET Sight]
    BY <2>1 DEF Done
  <2> QED
    BY <2>1, <2>3, <2>4, <2>5 DEF closing
<1>3. CASE Skip(p)
  <2>1. PICK s \in First(p) : Skip(p)!(s)
    BY <1>3 DEF Skip
  <2>2. s.trigger \in Triggers /\ s.at \in Times /\ s \in todo[p]
    BY DEF First, Sight
  <2>3. /\ skipped' \in [Triggers -> SUBSET Times]
        /\ since' \in [Triggers -> Times]
    BY <2>1, <2>2
  <2>4. todo' \in [Planes -> SUBSET Sight]
    BY <2>1 DEF Done
  <2> QED
    BY <2>1, <2>3, <2>4 DEF closing
<1>4. CASE SweepRaises(p)
  BY <1>4 DEF SweepRaises, rows, closing
<1>5. CASE SweepDies(p)
  BY <1>5 DEF SweepDies, rows, closing
<1> QED
  BY <1>1, <1>2, <1>3, <1>4, <1>5 DEF SweepGoesOn

LEMMA BoxTyped ==
    ASSUME Typed, NEW b \in Boxes, BoxStep(b)
    PROVE  Typed'
<1> USE BoundAssumption, TimeAssumption DEF Typed, TypeOK
<1>1. CASE CreateTrigger(b)
  BY <1>1 DEF CreateTrigger, TurnedOn
<1>2. CASE TeardownDisables(b)
  BY <1>2 DEF TeardownDisables, Disable
<1>3. CASE TeardownEndsRuns(b)
  <2>1. ScheduledWaiting(b) \in SUBSET runs
    BY DEF ScheduledWaiting
  <2>2. runs' \subseteq RunRow /\ IsFiniteSet(runs')
    BY <1>3, <2>1, LeavingTyped DEF TeardownEndsRuns
  <2> QED
    BY <1>3, <2>2 DEF TeardownEndsRuns, rows
<1>4. CASE TeardownCloses(b)
  BY <1>4 DEF TeardownCloses, rows
<1>5. CASE TeardownFails(b)
  BY <1>5 DEF TeardownFails, rows
<1>6. CASE RowCloses(b)
  BY <1>6 DEF RowCloses, rows
<1> QED
  BY <1>1, <1>2, <1>3, <1>4, <1>5, <1>6 DEF BoxStep

LEMMA TypedNext == Typed /\ [Next]_vars => Typed'
<1> SUFFICES ASSUME Typed, [Next]_vars PROVE Typed'
  OBVIOUS
<1>1. ASSUME NEW t \in Triggers, UpdateTrigger(t) \/ DeleteTrigger(t) PROVE Typed'
  <2> USE DEF Typed, TypeOK
  <2>1. CASE UpdateTrigger(t)
    <3>1. PICK c \in Crons, s \in {"on", "off"} : UpdateTrigger(t)!2!(c, s)
      BY <2>1 DEF UpdateTrigger
    <3>2. c \in SUBSET Times /\ Since(t, s) \in Times
      BY TimeAssumption DEF Since
    <3>3. /\ state' \in [Triggers -> {"absent", "on", "off", "deleted"}]
          /\ cron' \in [Triggers -> SUBSET Times]
          /\ since' \in [Triggers -> Times]
      BY <3>1, <3>2
    <3> QED
      BY <2>1, <3>1, <3>3 DEF UpdateTrigger, TurnedOn
  <2>2. CASE DeleteTrigger(t)
    <3>1. 0 \in Times
      BY TimeAssumption DEF Times
    <3> QED
      BY <2>2, <3>1 DEF DeleteTrigger, closing
  <2> QED
    BY <1>1, <2>1, <2>2
<1>2. ASSUME NEW r \in runs, RunLeaves(r) PROVE Typed'
  <2>1. runs' \subseteq RunRow /\ IsFiniteSet(runs')
    BY <1>2, LeavingTyped DEF RunLeaves
  <2> QED
    BY <1>2, <2>1 DEF RunLeaves, Typed, TypeOK, rows, closing
<1>3. CASE Tick
  BY <1>3, TimeAssumption DEF Tick, Typed, TypeOK, Times, rows, closing
<1>4. CASE UNCHANGED vars
  BY <1>4 DEF vars, Typed, TypeOK, rows, closing
<1> QED
  BY <1>1, <1>2, <1>3, <1>4, SweepTyped, BoxTyped DEF Next

(* The type invariant, with the runs a finite set: every count of them is a   *)
(* number (FleetStore.fire_trigger).                                          *)
THEOREM TypeCorrect == Spec => []TypeOK
<1>1. Spec => []Typed
  BY TypedInit, TypedNext, PTL DEF Spec
<1>2. Typed => TypeOK
  BY DEF Typed
<1> QED
  BY <1>1, <1>2, PTL
-----------------------------------------------------------------------------
(* Every step but these leaves the record of fires and the runs alone, and    *)
(* brings no deleted trigger back.                                            *)
RecordKept ==
    /\ UNCHANGED <<fired, skipped, runs>>
    /\ \A t \in Triggers : state[t] = "deleted" => state'[t] = "deleted"

LEMMA WhatStepsDo ==
    ASSUME Typed, [Next]_vars
    PROVE  \/ \E p \in Planes : Fire(p) \/ Skip(p)
           \/ \E t \in Triggers : DeleteTrigger(t)
           \/ \E S \in SUBSET runs : runs' = LeaveQueue(S) /\ UNCHANGED rows
           \/ RecordKept
<1>1. ASSUME NEW p \in Planes, SweepReads(p) \/ SweepRaises(p) \/ SweepDies(p)
      PROVE  RecordKept
  BY <1>1 DEF SweepReads, SweepRaises, SweepDies, RecordKept, rows
<1>2. ASSUME NEW b \in Boxes, CreateTrigger(b) PROVE RecordKept
  BY <1>2 DEF CreateTrigger, RecordKept, Typed, TypeOK
<1>3. ASSUME NEW b \in Boxes, TeardownDisables(b) PROVE RecordKept
  BY <1>3 DEF TeardownDisables, Disable, RecordKept
<1>4. ASSUME NEW b \in Boxes, TeardownEndsRuns(b)
      PROVE  \E S \in SUBSET runs : runs' = LeaveQueue(S) /\ UNCHANGED rows
  BY <1>4 DEF TeardownEndsRuns, ScheduledWaiting
<1>5. ASSUME NEW b \in Boxes, TeardownCloses(b) \/ TeardownFails(b) \/ RowCloses(b)
      PROVE  RecordKept
  BY <1>5 DEF TeardownCloses, TeardownFails, RowCloses, RecordKept, rows
<1>6. ASSUME NEW t \in Triggers, UpdateTrigger(t) PROVE RecordKept
  BY <1>6 DEF UpdateTrigger, RecordKept, Typed, TypeOK
<1>7. ASSUME NEW r \in runs, RunLeaves(r)
      PROVE  \E S \in SUBSET runs : runs' = LeaveQueue(S) /\ UNCHANGED rows
  BY <1>7 DEF RunLeaves
<1>8. CASE Tick \/ UNCHANGED vars
  BY <1>8 DEF Tick, RecordKept, rows, vars
<1> QED
  BY <1>1, <1>2, <1>3, <1>4, <1>5, <1>6, <1>7, <1>8 DEF Next, BoxStep, SweepGoesOn

-----------------------------------------------------------------------------
LEMMA OneOutcomeInit == Init => OneOutcomePerTime
  BY DEF Init, OneOutcomePerTime

LEMMA OneOutcomeNext ==
    ASSUME Typed, OneOutcomePerTime, [Next]_vars
    PROVE  OneOutcomePerTime'
<1> USE DEF OneOutcomePerTime
<1>1. ASSUME NEW p \in Planes, Fire(p) PROVE OneOutcomePerTime'
  <2>1. PICK s \in First(p) : Fire(p)!(s)
    BY <1>1 DEF Fire
  <2> DEFINE t == s.trigger
             x == s.at
  <2>2. t \in Triggers /\ x \in Times
    BY DEF First, Sight, Typed, TypeOK
  <2>3. CASE MayFire(t, x)
    <3>1. PICK asked \in 0 .. Cap : runs' = runs \cup {NewRun(t, x, asked)}
      BY <2>1, <2>3
    <3>2. x \notin fired[t] /\ x \notin skipped[t] /\ state[t] # "deleted"
      BY <2>3 DEF MayFire, Fired
    <3>3. \A r \in runs : ~(r.trigger = t /\ r.at = x)
      BY <2>2, <3>2
    <3>4. Cardinality({r \in runs : r.trigger = t /\ r.at = x}) = 0
      <4>1. {r \in runs : r.trigger = t /\ r.at = x} = {}
        BY <3>3
      <4> QED
        BY <4>1, FS_EmptySet
    <3> DEFINE new == NewRun(t, x, asked)
    <3>5. new.trigger = t /\ new.at = x /\ new.nth = 1
      BY <3>4 DEF NewRun
    <3> HIDE DEF t, x, new
    <3>6. \A r \in runs' : r.nth = 1
      BY <3>1, <3>5 DEF new
    <3>7. \A r, q \in runs' : r.trigger = q.trigger /\ r.at = q.at => r = q
      BY <3>1, <3>3, <3>5 DEF new
    <3>8. /\ fired' = [fired EXCEPT ![t] = @ \cup {x}]
          /\ UNCHANGED <<skipped, state>>
      BY <2>1, <2>3 DEF t, x
    <3>9. \A u \in Triggers : fired'[u] \cap skipped'[u] = {}
      BY <2>2, <3>2, <3>8 DEF Typed, TypeOK
    <3>10. ASSUME NEW u \in Triggers, state[u] # "deleted"
           PROVE  fired'[u] = {r.at : r \in {q \in runs' : q.trigger = u}}
      <4>1. CASE u = t
        <5>1. {q \in runs' : q.trigger = u} = {q \in runs : q.trigger = u} \cup {new}
          BY <3>1, <3>5, <4>1 DEF new
        <5>2. {r.at : r \in {q \in runs' : q.trigger = u}}
                = {r.at : r \in {q \in runs : q.trigger = u}} \cup {x}
          BY <3>5, <5>1
        <5>3. fired'[u] = fired[u] \cup {x}
          BY <3>8, <4>1, <2>2 DEF Typed, TypeOK
        <5> QED
          BY <5>2, <5>3, <3>10
      <4>2. CASE u # t
        <5>1. {q \in runs' : q.trigger = u} = {q \in runs : q.trigger = u}
          BY <3>1, <3>5, <4>2 DEF new
        <5>2. fired'[u] = fired[u]
          BY <3>8, <4>2 DEF Typed, TypeOK
        <5> QED
          BY <5>1, <5>2, <3>10
      <4> QED
        BY <4>1, <4>2
    <3> QED
      BY <3>6, <3>7, <3>8, <3>9, <3>10
  <2>4. CASE ~MayFire(t, x)
    BY <2>1, <2>4
  <2> QED
    BY <2>3, <2>4
<1>2. ASSUME NEW p \in Planes, Skip(p) PROVE OneOutcomePerTime'
  <2>1. PICK s \in First(p) : Skip(p)!(s)
    BY <1>2 DEF Skip
  <2>2. s.trigger \in Triggers
    BY DEF First, Sight, Typed, TypeOK
  <2> QED
    BY <2>1, <2>2 DEF Fired, Typed, TypeOK
<1>3. ASSUME NEW t \in Triggers, DeleteTrigger(t) PROVE OneOutcomePerTime'
  BY <1>3 DEF DeleteTrigger, Typed, TypeOK
<1>4. ASSUME NEW S \in SUBSET runs, runs' = LeaveQueue(S), UNCHANGED rows
      PROVE  OneOutcomePerTime'
  <2>1. \A r \in runs' : \E q \in runs :
          /\ r.trigger = q.trigger /\ r.at = q.at /\ r.nth = q.nth
          /\ r = IF q \in S THEN [q EXCEPT !.status = "over"] ELSE q
    BY <1>4, LeavingKeeps
  <2>2. \A q \in runs : \E r \in runs' : r.trigger = q.trigger /\ r.at = q.at
    BY <1>4, LeavingLosesNone
  <2>3. \A t \in Triggers : {r.at : r \in {q \in runs' : q.trigger = t}}
                              = {r.at : r \in {q \in runs : q.trigger = t}}
    BY <2>1, <2>2
  <2>4. \A r, q \in runs' : r.trigger = q.trigger /\ r.at = q.at => r = q
    BY <2>1
  <2> QED
    BY <1>4, <2>1, <2>3, <2>4 DEF rows
<1>5. CASE RecordKept
  BY <1>5 DEF RecordKept
<1> QED
  BY <1>1, <1>2, <1>3, <1>4, <1>5, WhatStepsDo

(* One outcome per time, for any number of control planes and crons: the      *)
(* trigger's own record, read under its lock, is enough (fire_trigger).       *)
THEOREM OneOutcome == Spec => []OneOutcomePerTime
<1>1. Typed /\ OneOutcomePerTime /\ [Next]_vars => (Typed /\ OneOutcomePerTime)'
  BY TypedNext, OneOutcomeNext
<1> QED
  BY <1>1, TypedInit, OneOutcomeInit, PTL DEF Spec
-----------------------------------------------------------------------------
(* A run's trigger exists or did: adding a trigger never gives its box runs.  *)
RunsHaveTriggers == \A r \in runs : state[r.trigger] # "absent"

(* How the runs that wait at a box change.                                    *)
QueueStep(b) ==
    \/ ScheduledWaiting(b)' \subseteq ScheduledWaiting(b)
    \/ \E t \in Triggers, x \in Times, asked \in 0 .. Cap :
        /\ MayFire(t, x) /\ boxOf[t] = b
        /\ UNCHANGED closing
        /\ ~Full(b, asked)
        /\ ScheduledWaiting(b)' = ScheduledWaiting(b) \cup {NewRun(t, x, asked)}

LEMMA SameRunsSameQueue ==
    ASSUME Typed, RunsHaveTriggers, runs' = runs,
           \A t \in Triggers : state[t] # "absent" => boxOf'[t] = boxOf[t],
           NEW b \in Boxes
    PROVE  ScheduledWaiting(b)' = ScheduledWaiting(b)
  BY DEF ScheduledWaiting, RunsHaveTriggers, Typed, TypeOK, RunRow

LEMMA BoxesStay ==
    ASSUME Typed, [Next]_vars, NEW t \in Triggers, state[t] # "absent"
    PROVE  boxOf'[t] = boxOf[t] /\ state'[t] # "absent"
<1> USE DEF Typed, TypeOK
<1>1. ASSUME NEW p \in Planes, SweepReads(p) \/ SweepGoesOn(p) \/ SweepDies(p)
      PROVE  UNCHANGED <<boxOf, state>>
  BY <1>1 DEF SweepReads, SweepGoesOn, SweepDies, Fire, Skip, SweepRaises, rows
<1>2. ASSUME NEW b \in Boxes, BoxStep(b) PROVE boxOf'[t] = boxOf[t] /\ state'[t] # "absent"
  BY <1>2 DEF BoxStep, CreateTrigger, TeardownDisables, Disable, TeardownEndsRuns,
     TeardownCloses, TeardownFails, RowCloses, rows
<1>3. ASSUME NEW u \in Triggers, UpdateTrigger(u) \/ DeleteTrigger(u)
      PROVE  boxOf'[t] = boxOf[t] /\ state'[t] # "absent"
  BY <1>3 DEF UpdateTrigger, DeleteTrigger
<1>4. ASSUME NEW r \in runs, RunLeaves(r) PROVE UNCHANGED <<boxOf, state>>
  BY <1>4 DEF RunLeaves, rows
<1>5. CASE Tick \/ UNCHANGED vars
  BY <1>5 DEF Tick, vars, rows
<1> QED
  BY <1>1, <1>2, <1>3, <1>4, <1>5 DEF Next

LEMMA RunsHaveTriggersNext ==
    ASSUME Typed, RunsHaveTriggers, [Next]_vars
    PROVE  RunsHaveTriggers'
<1>1. \A r \in runs' : \/ \E q \in runs : r.trigger = q.trigger
                       \/ r.trigger \in Triggers /\ state[r.trigger] # "absent"
  <2>1. ASSUME NEW p \in Planes, Fire(p)
        PROVE  \A r \in runs' : \/ r \in runs
                                \/ r.trigger \in Triggers /\ state[r.trigger] # "absent"
    <3>1. PICK s \in First(p) : Fire(p)!(s)
      BY <2>1 DEF Fire
    <3>2. s.trigger \in Triggers
      BY DEF First, Sight, Typed, TypeOK
    <3>3. \A asked \in 0 .. Cap : NewRun(s.trigger, s.at, asked).trigger = s.trigger
      BY DEF NewRun
    <3> QED
      BY <3>1, <3>2, <3>3 DEF MayFire
  <2>2. ASSUME NEW p \in Planes, Skip(p) PROVE runs' = runs
    BY <2>2 DEF Skip
  <2>3. ASSUME NEW t \in Triggers, DeleteTrigger(t) PROVE runs' = runs
    BY <2>3 DEF DeleteTrigger
  <2>4. ASSUME NEW S \in SUBSET runs, runs' = LeaveQueue(S)
        PROVE  \A r \in runs' : \E q \in runs : r.trigger = q.trigger
    BY <2>4, LeavingKeeps
  <2>5. CASE RecordKept
    BY <2>5 DEF RecordKept
  <2> QED
    BY <2>1, <2>2, <2>3, <2>4, <2>5, WhatStepsDo
<1> QED
  BY <1>1, BoxesStay DEF RunsHaveTriggers, Typed, TypeOK, RunRow

LEMMA QueueNext ==
    ASSUME Typed, RunsHaveTriggers, [Next]_vars, NEW b \in Boxes
    PROVE  QueueStep(b)
<1>1. ASSUME runs' = runs PROVE QueueStep(b)
  BY <1>1, BoxesStay, SameRunsSameQueue DEF QueueStep
<1>2. ASSUME NEW p \in Planes, Fire(p) PROVE QueueStep(b)
  <2>1. PICK s \in First(p) : Fire(p)!(s)
    BY <1>2 DEF Fire
  <2> DEFINE t == s.trigger
             x == s.at
  <2>2. t \in Triggers /\ x \in Times
    BY DEF First, Sight, Typed, TypeOK
  <2>3. CASE MayFire(t, x)
    <3>1. PICK asked \in 0 .. Cap : runs' = runs \cup {NewRun(t, x, asked)}
      BY <2>1, <2>3
    <3>2. UNCHANGED <<boxOf, closing>>
      BY <2>1
    <3> DEFINE new == NewRun(t, x, asked)
    <3>3. /\ new.trigger = t
          /\ new.status = IF Full(boxOf[t], asked) THEN "over" ELSE "pending"
      BY DEF NewRun
    <3> HIDE DEF new, t, x
    <3>4. ScheduledWaiting(b)' =
            {r \in runs \cup {new} : r.status = "pending" /\ boxOf[r.trigger] = b}
      BY <3>1, <3>2 DEF ScheduledWaiting, new
    <3>5. CASE boxOf[t] = b /\ ~Full(b, asked)
      <4>1. ScheduledWaiting(b)' = ScheduledWaiting(b) \cup {new}
        BY <3>3, <3>4, <3>5 DEF ScheduledWaiting
      <4> QED
        BY <4>1, <2>2, <2>3, <3>2, <3>5 DEF QueueStep, new
    <3>6. CASE ~(boxOf[t] = b /\ ~Full(b, asked))
      <4>1. ScheduledWaiting(b)' \subseteq ScheduledWaiting(b)
        BY <3>3, <3>4, <3>6 DEF ScheduledWaiting
      <4> QED
        BY <4>1 DEF QueueStep
    <3> QED
      BY <3>5, <3>6
  <2>4. CASE ~MayFire(t, x)
    BY <1>1, <2>1, <2>4
  <2> QED
    BY <2>3, <2>4
<1>3. ASSUME NEW p \in Planes, Skip(p) PROVE QueueStep(b)
  BY <1>1, <1>3 DEF Skip
<1>4. ASSUME NEW t \in Triggers, DeleteTrigger(t) PROVE QueueStep(b)
  BY <1>1, <1>4 DEF DeleteTrigger
<1>5. ASSUME NEW S \in SUBSET runs, runs' = LeaveQueue(S), UNCHANGED rows
      PROVE  QueueStep(b)
  <2>1. \A r \in LeaveQueue(S) : r.status = "pending" => r \in runs
    BY DEF LeaveQueue, Typed, TypeOK, RunRow
  <2>2. ScheduledWaiting(b)' \subseteq ScheduledWaiting(b)
    BY <1>5, <2>1 DEF ScheduledWaiting, rows
  <2> QED
    BY <2>2 DEF QueueStep
<1>6. CASE RecordKept
  BY <1>1, <1>6 DEF RecordKept
<1> QED
  BY <1>2, <1>3, <1>4, <1>5, <1>6, WhatStepsDo

LEMMA CapNext ==
    ASSUME Typed, RunsHaveTriggers, WaitingFiresAreCapped, [Next]_vars
    PROVE  WaitingFiresAreCapped'
<1> SUFFICES ASSUME NEW b \in Boxes PROVE Cardinality(ScheduledWaiting(b)') <= Cap
  BY DEF WaitingFiresAreCapped
<1>1. IsFiniteSet(ScheduledWaiting(b)) /\ Cardinality(ScheduledWaiting(b)) \in Nat
  <2>1. ScheduledWaiting(b) \in SUBSET runs
    BY DEF ScheduledWaiting
  <2> QED
    BY <2>1, FS_Subset, FS_CardinalityType DEF Typed
<1>2. Cardinality(ScheduledWaiting(b)) <= Cap
  BY DEF WaitingFiresAreCapped
<1>3. CASE ScheduledWaiting(b)' \subseteq ScheduledWaiting(b)
  <2>1. /\ Cardinality(ScheduledWaiting(b)') <= Cardinality(ScheduledWaiting(b))
        /\ IsFiniteSet(ScheduledWaiting(b)')
    BY <1>1, <1>3, FS_Subset
  <2>2. Cardinality(ScheduledWaiting(b)') \in Nat
    BY <2>1, FS_CardinalityType
  <2> QED
    BY <1>1, <1>2, <2>1, <2>2, BoundAssumption
<1>4. ASSUME NEW new, NEW asked \in 0 .. Cap, ~Full(b, asked),
             ScheduledWaiting(b)' = ScheduledWaiting(b) \cup {new}
      PROVE  Cardinality(ScheduledWaiting(b)') <= Cap
  <2>1. Cardinality(ScheduledWaiting(b)) + 1 <= Cap
    BY <1>1, <1>4, BoundAssumption DEF Full
  <2>2. Cardinality(ScheduledWaiting(b)') \in
            {Cardinality(ScheduledWaiting(b)), Cardinality(ScheduledWaiting(b)) + 1}
    BY <1>1, <1>4, FS_AddElement
  <2> QED
    BY <1>1, <1>2, <2>1, <2>2, BoundAssumption
<1> QED
  BY <1>3, <1>4, QueueNext DEF QueueStep

(* Triggers never pile up more than the cap on an agent.                      *)
THEOREM Capped == Spec => []WaitingFiresAreCapped
<1>1. Init => RunsHaveTriggers /\ WaitingFiresAreCapped
  <2> SUFFICES ASSUME Init PROVE RunsHaveTriggers /\ WaitingFiresAreCapped
    OBVIOUS
  <2>1. RunsHaveTriggers /\ \A b \in Boxes : ScheduledWaiting(b) = {}
    BY DEF Init, RunsHaveTriggers, ScheduledWaiting
  <2> QED
    BY <2>1, FS_EmptySet, BoundAssumption DEF WaitingFiresAreCapped
<1>2. Typed /\ RunsHaveTriggers /\ WaitingFiresAreCapped /\ [Next]_vars
        => (Typed /\ RunsHaveTriggers /\ WaitingFiresAreCapped)'
  BY TypedNext, RunsHaveTriggersNext, CapNext
<1> QED
  BY <1>1, <1>2, TypedInit, PTL DEF Spec
-----------------------------------------------------------------------------
(* What each phase of the teardown has made true: once the triggers are off   *)
(* nothing fires but what somebody turns on, so what it then ends stays ended *)
(* but for those, and once the row is closed nothing fires at all.            *)
TeardownKeeps == \A b \in Boxes :
    /\ UnderWay(b) =>
         \A t \in Triggers : boxOf[t] = b /\ state[t] = "on" => t \in back
    /\ phase[b] = "closed" => row[b] = "torn_down"

ClosingInv == Typed /\ RunsHaveTriggers /\ TeardownKeeps /\ TeardownLeavesNoFire

LEMMA ClosingInit == Init => ClosingInv
<1> SUFFICES ASSUME Init PROVE RunsHaveTriggers /\ TeardownKeeps /\ TeardownLeavesNoFire
  BY TypedInit DEF ClosingInv
<1> QED
  BY DEF Init, RunsHaveTriggers, TeardownKeeps, TeardownLeavesNoFire, UnderWay

(* A trigger that is on after a step in the middle of its box's teardown was  *)
(* on before, or was turned on by it; and what was turned on in the middle of *)
(* a teardown is remembered as long as it does not fail.                      *)
LEMMA WhoTurnsOn ==
    ASSUME Typed, [Next]_vars, NEW b \in Boxes, NEW t \in Triggers
    PROVE  /\ UnderWay(b) /\ boxOf'[t] = b /\ state'[t] = "on" =>
                (boxOf[t] = b /\ state[t] = "on") \/ t \in back'
           /\ boxOf[t] = b /\ t \in back => t \in back' \/ TeardownFails(b)
<1> USE DEF Typed, TypeOK
<1>1. ASSUME NEW p \in Planes, SweepReads(p) \/ SweepGoesOn(p) \/ SweepDies(p)
      PROVE  UNCHANGED <<boxOf, state, back>>
  BY <1>1 DEF SweepReads, SweepGoesOn, SweepDies, Fire, Skip, SweepRaises, rows, closing
<1>2. ASSUME NEW c \in Boxes, CreateTrigger(c)
      PROVE  /\ back \subseteq back'
             /\ UnderWay(b) /\ boxOf'[t] = b /\ state'[t] = "on" =>
                  (boxOf[t] = b /\ state[t] = "on") \/ t \in back'
  BY <1>2 DEF CreateTrigger, TurnedOn
<1>3. ASSUME NEW c \in Boxes, TeardownDisables(c)
      PROVE  /\ UNCHANGED <<boxOf, back>>
             /\ state'[t] = "on" => state[t] = "on"
  BY <1>3 DEF TeardownDisables, Disable
<1>4. ASSUME NEW c \in Boxes, TeardownEndsRuns(c) \/ TeardownCloses(c) \/ RowCloses(c)
      PROVE  UNCHANGED <<boxOf, state, back>>
  BY <1>4 DEF TeardownEndsRuns, TeardownCloses, RowCloses, rows
<1>5. ASSUME NEW c \in Boxes, TeardownFails(c)
      PROVE  /\ UNCHANGED <<boxOf, state>>
             /\ boxOf[t] = b /\ t \in back => t \in back' \/ c = b
  BY <1>5 DEF TeardownFails, rows
<1>6. ASSUME NEW u \in Triggers, UpdateTrigger(u)
      PROVE  /\ back \subseteq back'
             /\ UnderWay(b) /\ boxOf'[t] = b /\ state'[t] = "on" =>
                  (boxOf[t] = b /\ state[t] = "on") \/ t \in back'
  BY <1>6 DEF UpdateTrigger, TurnedOn
<1>7. ASSUME NEW u \in Triggers, DeleteTrigger(u)
      PROVE  /\ UNCHANGED <<boxOf, back>>
             /\ state'[t] = "on" => state[t] = "on"
  BY <1>7 DEF DeleteTrigger, closing
<1>8. ASSUME NEW r \in runs, RunLeaves(r) PROVE UNCHANGED <<boxOf, state, back>>
  BY <1>8 DEF RunLeaves, rows, closing
<1>9. CASE Tick \/ UNCHANGED vars
  BY <1>9 DEF Tick, vars, rows, closing
<1> QED
  BY <1>1, <1>2, <1>3, <1>4, <1>5, <1>6, <1>7, <1>8, <1>9 DEF Next, BoxStep

(* How a box's teardown moves on.                                             *)
LEMMA WhatClosingDoes ==
    ASSUME Typed, [Next]_vars, NEW b \in Boxes
    PROVE  \/ UNCHANGED <<row[b], phase[b]>>
           \/ TeardownDisables(b) \/ TeardownEndsRuns(b) \/ TeardownCloses(b)
           \/ TeardownFails(b) \/ RowCloses(b)
<1> USE DEF Typed, TypeOK
<1>1. ASSUME NEW p \in Planes, SweepReads(p) \/ SweepGoesOn(p) \/ SweepDies(p)
      PROVE  UNCHANGED <<row, phase>>
  BY <1>1 DEF SweepReads, SweepGoesOn, SweepDies, Fire, Skip, SweepRaises, closing
<1>2. ASSUME NEW c \in Boxes, CreateTrigger(c) PROVE UNCHANGED <<row, phase>>
  BY <1>2 DEF CreateTrigger
<1>3. ASSUME NEW c \in Boxes, c # b, BoxStep(c) PROVE UNCHANGED <<row[b], phase[b]>>
  BY <1>2, <1>3 DEF BoxStep, TeardownDisables, TeardownEndsRuns, TeardownCloses,
     TeardownFails, RowCloses
<1>4. ASSUME NEW u \in Triggers, UpdateTrigger(u) \/ DeleteTrigger(u)
      PROVE  UNCHANGED <<row, phase>>
  BY <1>4 DEF UpdateTrigger, DeleteTrigger, closing
<1>5. ASSUME NEW r \in runs, RunLeaves(r) PROVE UNCHANGED <<row, phase>>
  BY <1>5 DEF RunLeaves, closing
<1>6. CASE Tick \/ UNCHANGED vars
  BY <1>6 DEF Tick, vars, closing
<1> QED
  BY <1>1, <1>2, <1>3, <1>4, <1>5, <1>6 DEF Next, BoxStep

LEMMA ClosingNext ==
    ASSUME ClosingInv, [Next]_vars
    PROVE  ClosingInv'
<1> USE DEF ClosingInv
<1>1. Typed' /\ RunsHaveTriggers'
  BY TypedNext, RunsHaveTriggersNext
<1> DEFINE Scanned(b) == phase[b] \in {"ended", "closed"}
           OnlyBack(b) == \A r \in ScheduledWaiting(b) : r.trigger \in back
<1> SUFFICES ASSUME NEW b \in Boxes
             PROVE  /\ UnderWay(b)' => \A t \in Triggers :
                          boxOf'[t] = b /\ state'[t] = "on" => t \in back'
                    /\ phase'[b] = "closed" => row'[b] = "torn_down"
                    /\ Scanned(b)' => OnlyBack(b)'
  BY <1>1 DEF TeardownKeeps, TeardownLeavesNoFire
(* While it is under way, what is on was turned on in the middle of it.       *)
<1>2. ASSUME UnderWay(b), ~TeardownFails(b), NEW t \in Triggers,
             boxOf'[t] = b, state'[t] = "on"
      PROVE  t \in back'
  BY <1>2, WhoTurnsOn DEF TeardownKeeps
(* Where only those may fire, only those come to wait.                        *)
<1>3. ASSUME UnderWay(b) \/ phase[b] = "closed", OnlyBack(b), ~TeardownFails(b)
      PROVE  OnlyBack(b)'
  <2>1. \A r \in ScheduledWaiting(b) : r.trigger \in back'
    <3> SUFFICES ASSUME NEW r \in ScheduledWaiting(b) PROVE r.trigger \in back'
      OBVIOUS
    <3>1. r.trigger \in Triggers /\ boxOf[r.trigger] = b /\ r.trigger \in back
      BY <1>3 DEF ScheduledWaiting, Typed, TypeOK, RunRow
    <3> QED
      BY <1>3, <3>1, WhoTurnsOn
  <2>2. CASE ScheduledWaiting(b)' \subseteq ScheduledWaiting(b)
    BY <2>1, <2>2
  <2>3. ASSUME NEW t \in Triggers, NEW x \in Times, NEW asked \in 0 .. Cap,
               MayFire(t, x), boxOf[t] = b, UNCHANGED closing,
               ScheduledWaiting(b)' = ScheduledWaiting(b) \cup {NewRun(t, x, asked)}
        PROVE  OnlyBack(b)'
    <3>1. UnderWay(b) /\ state[t] = "on"
      BY <1>3, <2>3 DEF MayFire, TeardownKeeps
    <3>2. t \in back'
      BY <2>3, <3>1 DEF TeardownKeeps, closing
    <3>3. NewRun(t, x, asked).trigger = t
      BY DEF NewRun
    <3> QED
      BY <2>1, <2>3, <3>2, <3>3
  <2> QED
    BY <2>2, <2>3, QueueNext DEF QueueStep
<1>4. CASE UNCHANGED <<row[b], phase[b]>>
  <2>1. UnderWay(b)' <=> UnderWay(b)
    BY <1>4 DEF UnderWay
  <2>2. Scanned(b)' => ~TeardownFails(b)
    BY <1>4 DEF TeardownFails, UnderWay, Typed, TypeOK
  <2>3. UnderWay(b) => ~TeardownFails(b)
    BY <1>4 DEF TeardownFails, UnderWay, Typed, TypeOK
  <2>4. Scanned(b)' => OnlyBack(b)'
    BY <1>3, <1>4, <2>2 DEF UnderWay, TeardownLeavesNoFire
  <2> QED
    BY <1>2, <1>4, <2>1, <2>3, <2>4 DEF TeardownKeeps
<1>5. CASE TeardownDisables(b)
  <2>1. /\ phase'[b] = "disabled" /\ row'[b] = "open"
        /\ \A t \in Triggers : boxOf'[t] = b => state'[t] # "on"
    BY <1>5 DEF TeardownDisables, Disable, Typed, TypeOK
  <2> QED
    BY <2>1
<1>6. CASE TeardownEndsRuns(b)
  <2>1. UnderWay(b) /\ phase'[b] = "ended" /\ ~TeardownFails(b)
    BY <1>6 DEF TeardownEndsRuns, TeardownFails, UnderWay, Typed, TypeOK
  <2>2. \A r \in LeaveQueue(ScheduledWaiting(b)) :
          ~(r.status = "pending" /\ boxOf[r.trigger] = b)
    BY DEF LeaveQueue, ScheduledWaiting, Typed, TypeOK, RunRow
  <2>3. ScheduledWaiting(b)' = {}
    BY <1>6, <2>2 DEF TeardownEndsRuns, ScheduledWaiting, rows
  <2> QED
    BY <1>2, <2>1, <2>3
<1>7. CASE TeardownCloses(b)
  <2>1. /\ phase[b] = "ended" /\ phase'[b] = "closed" /\ row'[b] = "torn_down"
        /\ ~TeardownFails(b)
    BY <1>7 DEF TeardownCloses, TeardownFails, Typed, TypeOK
  <2> QED
    BY <1>3, <2>1 DEF UnderWay, TeardownLeavesNoFire
<1>8. CASE TeardownFails(b)
  BY <1>8 DEF TeardownFails, UnderWay, Typed, TypeOK
<1>9. CASE RowCloses(b)
  <2>1. /\ phase' = phase /\ row'[b] = "torn_down"
        /\ UNCHANGED <<rows, back, runs>>
    BY <1>9 DEF RowCloses, Typed, TypeOK
  <2>2. OnlyBack(b)' <=> OnlyBack(b)
    BY <2>1 DEF ScheduledWaiting, rows
  <2> QED
    BY <2>1, <2>2 DEF UnderWay, TeardownKeeps, TeardownLeavesNoFire, rows
<1> QED
  BY <1>4, <1>5, <1>6, <1>7, <1>8, <1>9, WhatClosingDoes

(* From the scan of a teardown on, no scheduled run waits for the agent but   *)
(* of triggers that somebody turned on in the middle of it, whatever sweeps   *)
(* had read before (disable_triggers, fire_trigger).                          *)
THEOREM TornDownOwesNothing == Spec => []TeardownLeavesNoFire
<1>1. ClosingInv /\ [Next]_vars => ClosingInv'
  BY ClosingNext
<1>2. ClosingInv => TeardownLeavesNoFire
  BY DEF ClosingInv
<1> QED
  BY <1>1, <1>2, ClosingInit, PTL DEF Spec
-----------------------------------------------------------------------------
LEMMA DueStep ==
    ASSUME Typed, [Next]_vars, NEW t \in Triggers, NEW x \in Times, Due(t, x)
    PROVE  (Due(t, x) \/ Settled(t, x) \/ LetGo(t, x))'
<1> USE DEF Typed, TypeOK, Times, Due
<1>1. ASSUME NEW p \in Planes, SweepReads(p) \/ SweepRaises(p) \/ SweepDies(p)
      PROVE  Due(t, x)'
  BY <1>1 DEF SweepReads, SweepRaises, SweepDies, rows
<1>2. ASSUME NEW p \in Planes, Fire(p) PROVE (Due(t, x) \/ Settled(t, x))'
  <2>1. PICK s \in First(p) : Fire(p)!(s)
    BY <1>2 DEF Fire
  <2>2. s.trigger \in Triggers /\ s.at \in Times
    BY DEF First, Sight
  <2>3. CASE MayFire(s.trigger, s.at) /\ s.trigger = t /\ x <= s.at
    BY <2>1, <2>2, <2>3 DEF Settled
  <2>4. CASE MayFire(s.trigger, s.at) /\ s.trigger = t /\ s.at < x
    BY <2>1, <2>2, <2>4
  <2>5. CASE ~(MayFire(s.trigger, s.at) /\ s.trigger = t)
    <3>1. since'[t] = since[t]
      BY <2>1, <2>2, <2>5
    <3> QED
      BY <2>1, <3>1
  <2> QED
    BY <2>2, <2>3, <2>4, <2>5, TimeAssumption
<1>3. ASSUME NEW p \in Planes, Skip(p) PROVE (Due(t, x) \/ Settled(t, x))'
  <2>1. PICK s \in First(p) : Skip(p)!(s)
    BY <1>3 DEF Skip
  <2>2. s.trigger \in Triggers /\ s.at \in Times
    BY DEF First, Sight
  <2> DEFINE skips == state[s.trigger] = "on" /\ ~Fired(s.trigger, s.at)
  <2>3. CASE skips /\ s.trigger = t /\ x <= s.at
    BY <2>1, <2>2, <2>3 DEF Settled
  <2>4. CASE skips /\ s.trigger = t /\ s.at < x
    BY <2>1, <2>2, <2>4
  <2>5. CASE ~(skips /\ s.trigger = t)
    <3>1. since'[t] = since[t]
      BY <2>1, <2>2, <2>5
    <3> QED
      BY <2>1, <3>1
  <2> QED
    BY <2>2, <2>3, <2>4, <2>5, TimeAssumption
<1>4. ASSUME NEW b \in Boxes, CreateTrigger(b) PROVE Due(t, x)'
  BY <1>4 DEF CreateTrigger
<1>5. ASSUME NEW b \in Boxes, TeardownDisables(b) PROVE (Due(t, x) \/ LetGo(t, x))'
  BY <1>5 DEF TeardownDisables, Disable, LetGo
<1>6. ASSUME NEW b \in Boxes,
             TeardownEndsRuns(b) \/ TeardownCloses(b) \/ TeardownFails(b) \/ RowCloses(b)
      PROVE  Due(t, x)'
  BY <1>6 DEF TeardownEndsRuns, TeardownCloses, TeardownFails, RowCloses, rows
<1>7. ASSUME NEW u \in Triggers, UpdateTrigger(u) PROVE (Due(t, x) \/ LetGo(t, x))'
  BY <1>7 DEF UpdateTrigger, Since, LetGo
<1>8. ASSUME NEW u \in Triggers, DeleteTrigger(u) PROVE (Due(t, x) \/ LetGo(t, x))'
  BY <1>8 DEF DeleteTrigger, LetGo
<1>9. ASSUME NEW r \in runs, RunLeaves(r) PROVE Due(t, x)'
  BY <1>9 DEF RunLeaves, rows
<1>10. CASE Tick
  BY <1>10, TimeAssumption DEF Tick, rows
<1>11. CASE UNCHANGED vars
  BY <1>11 DEF vars, rows
<1> QED
  BY <1>1, <1>2, <1>3, <1>4, <1>5, <1>6, <1>7, <1>8, <1>9, <1>10, <1>11
  DEF Next, BoxStep, SweepGoesOn

(* A due time is settled or let go, never passed over, however long ago the   *)
(* sweeps that fire it read their list (fire_trigger, update_trigger).        *)
THEOREM NonePassedOver == Spec => NothingIsPassedOver
<1>1. Typed /\ [Next]_vars =>
        [\A t \in Triggers, x \in Times :
            Due(t, x) => (Due(t, x) \/ Settled(t, x) \/ LetGo(t, x))']_vars
  BY DueStep
<1>2. Spec => []Typed
  BY TypedInit, TypedNext, PTL DEF Spec
<1> QED
  BY <1>1, <1>2, PTL DEF Spec, NothingIsPassedOver

-----------------------------------------------------------------------------
(* Metering: arithmetic of hours. *)
(* Of some naturals there is a least one.                                  *)
LEMMA LeastOf ==
  ASSUME NEW s \in SUBSET Nat, s # {}
  PROVE  \E x \in s : \A y \in s : x <= y
<1> DEFINE Lower == OpToRel(<, Nat)
<1>1. IsWellFoundedOn(Lower, Nat)
  BY NatLessThanWellFounded
<1>2. PICK x \in s : \A y \in s : ~(<<y, x>> \in Lower)
  <2> HIDE DEF Lower
  <2>1. QED
    BY <1>1, WFMin
<1>3. \A y \in s : ~(y < x)
  BY <1>2 DEF OpToRel
<1>4. QED
  BY <1>3

LEMMA Whole ==
  /\ HourTicks \in Nat \ {0} /\ MaxNow \in Nat /\ Never \notin Int
  /\ \A g, h \in Nat : /\ Meter!Start(h) \in Nat /\ Meter!Start(h + 1) = Meter!Start(h) + HourTicks
                       /\ Meter!Start(g) < Meter!Start(h) => g < h
                       /\ g < h => Meter!Start(g + 1) <= Meter!Start(h)
  /\ \A h \in Nat : Meter!Start(h) \div HourTicks = h
<1> USE MeterAssumption DEF Meter!BoundsAssumption, Meter!Start
<1>1. HourTicks \in Nat \ {0} /\ MaxNow \in Nat /\ Never \notin Int OBVIOUS
<1>2. \A g, h \in Nat : g <= h => Meter!Start(g) <= Meter!Start(h)
  <2>1. SUFFICES ASSUME NEW g \in Nat, NEW h \in Nat, g <= h PROVE g * HourTicks <= h * HourTicks
    OBVIOUS
  <2>2. PICK d \in Nat : h = g + d
    <3>1. h - g \in Nat /\ h = g + (h - g) BY <2>1
    <3> QED BY <3>1
  <2>3. (g + d) * HourTicks = g * HourTicks + d * HourTicks OBVIOUS
  <2>4. d * HourTicks \in Nat /\ g * HourTicks \in Nat OBVIOUS
  <2> QED BY <2>2, <2>3, <2>4
<1>3. \A h \in Nat : Meter!Start(h) \in Nat /\ Meter!Start(h + 1) = Meter!Start(h) + HourTicks OBVIOUS
<1>4. \A h \in Nat : Meter!Start(h) \div HourTicks = h OBVIOUS
<1> HIDE DEF Meter!Start
<1>5. \A g, h \in Nat : Meter!Start(g) < Meter!Start(h) => g < h
  BY <1>2, <1>3
<1>6. \A g, h \in Nat : g < h => Meter!Start(g + 1) <= Meter!Start(h)
  BY <1>2
<1> QED BY <1>1, <1>3, <1>4, <1>5, <1>6

LEMMA LastHour ==
  ASSUME NEW t \in Meter!Times
  PROVE  \E h \in Meter!Hours : Meter!HourOf(t) = Meter!Start(h) /\ Meter!Start(h) <= t
<1> USE MeterAssumption DEF Meter!BoundsAssumption, Meter!Times
<1>1. t \in Nat /\ t <= MaxNow OBVIOUS
<1>2. PICK h \in Nat : h = t \div HourTicks /\ h * HourTicks <= t
  OBVIOUS
<1>3. h <= MaxNow \div HourTicks
  <2>1. PICK m \in Nat : m = MaxNow \div HourTicks /\ MaxNow < (m + 1) * HourTicks
    OBVIOUS
  <2>2. Meter!Start(h) < Meter!Start(m + 1) BY <1>1, <1>2, <2>1 DEF Meter!Start
  <2>3. h < m + 1 BY <2>1, <2>2, Whole
  <2> QED BY <2>1, <2>3
<1>4. h \in Meter!Hours BY <1>3 DEF Meter!Hours
<1>5. Meter!HourOf(t) = Meter!Start(h) BY <1>2 DEF Meter!HourOf, Meter!Start
<1>6. Meter!Start(h) <= t BY <1>2 DEF Meter!Start
<1> QED BY <1>4, <1>5, <1>6

EventRow == [up : BOOLEAN, ts : Nat, when : Nat]
Ordered(e) == \A i, j \in DOMAIN e : i < j => e[i].when <= e[j].when
Nothing == [spans |-> <<>>, since |-> Never]
Reading(e, n, g) ==
    g = [i \in 0..n |-> IF i = 0 THEN Nothing ELSE Meter!Reads(g[i - 1], e[i])]
SpanRow == [from : Nat, to : Nat]
Neat(spans) ==
    /\ spans \in Seq(SpanRow)
    /\ \A i \in DOMAIN spans : /\ spans[i].from < spans[i].to
                               /\ \A j \in DOMAIN spans : i < j => spans[i].to <= spans[j].from
In(spans, t) == \E k \in DOMAIN spans : spans[k].from <= t /\ t < spans[k].to
UpAt(e, n, t) ==
    \E i \in 1..n : e[i].up /\ e[i].when <= t /\ \A j \in 1..n : i < j => t < e[j].when
Good(e, n, r) ==
    /\ r \in [spans : Seq(SpanRow), since : Nat \cup {Never}] /\ Neat(r.spans)
    /\ n = 0 => r = Nothing
    /\ n > 0 => \A k \in DOMAIN r.spans : r.spans[k].to <= e[n].when
    /\ r.since # Never => /\ n > 0 /\ r.since <= e[n].when
                          /\ \A k \in DOMAIN r.spans : r.spans[k].to <= r.since
    /\ \A t \in Nat : UpAt(e, n, t) <=> In(r.spans, t) \/ (r.since # Never /\ r.since <= t)

LEMMA ReadingAt ==
  ASSUME NEW e, NEW n \in Nat, NEW g, Reading(e, n, g)
  PROVE  g[0] = Nothing /\ \A i \in 1..n : g[i] = Meter!Reads(g[i - 1], e[i])
<1>1. \A i \in 0..n : g[i] = IF i = 0 THEN Nothing ELSE Meter!Reads(g[i - 1], e[i])
  BY DEF Reading
<1> QED BY <1>1

LEMMA ReadingExists ==
  ASSUME NEW e, NEW n \in Nat
  PROVE  \E g : Reading(e, n, g)
<1> DEFINE T == {m \in Nat : ~\E g : Reading(e, m, g)}
<1> SUFFICES ASSUME T # {} PROVE FALSE OBVIOUS
<1>1. PICK m \in T : \A k \in T : m <= k
  <2>1. T \in SUBSET Nat OBVIOUS
  <2> HIDE DEF T
  <2> QED BY <2>1, LeastOf
<1>2. CASE m = 0
  <2> DEFINE g == [i \in 0..0 |-> Nothing]
  <2>1. g = [i \in 0..0 |-> IF i = 0 THEN Nothing ELSE Meter!Reads(g[i - 1], e[i])] OBVIOUS
  <2>2. Reading(e, 0, g) BY <2>1 DEF Reading
  <2> QED BY <1>1, <1>2, <2>2
<1>3. CASE m # 0
  <2>1. m \in Nat /\ m - 1 \in Nat /\ m - 1 \notin T BY <1>1, <1>3
  <2>2. PICK h : Reading(e, m - 1, h) BY <2>1
  <2> DEFINE g == [i \in 0..m |-> IF i = m THEN Meter!Reads(h[m - 1], e[m]) ELSE h[i]]
  <2>3. ASSUME NEW i \in 0..m PROVE g[i] = IF i = 0 THEN Nothing ELSE Meter!Reads(g[i - 1], e[i])
    <3>1. CASE i = m
      <4>1. g[m - 1] = h[m - 1] /\ g[m] = Meter!Reads(h[m - 1], e[m]) BY <2>1
      <4> QED BY <1>3, <3>1, <4>1
    <3>2. CASE i # m
      <4>1. i \in 0..(m - 1) /\ g[i] = h[i] /\ (i # 0 => g[i - 1] = h[i - 1]) BY <2>1, <3>2
      <4>2. h[0] = Nothing /\ (i # 0 => h[i] = Meter!Reads(h[i - 1], e[i]))
        BY <2>1, <2>2, <4>1, ReadingAt
      <4> HIDE DEF g
      <4> QED BY <4>1, <4>2
    <3> QED BY <3>1, <3>2
  <2>4. Reading(e, m, g)
    <3>1. g = [i \in 0..m |-> g[i]] OBVIOUS
    <3> HIDE DEF g
    <3> QED BY <2>3, <3>1 DEF Reading
  <2> QED BY <1>1, <2>4
<1> QED BY <1>2, <1>3

LEMMA SpansAreRead ==
  ASSUME NEW e, NEW end, Len(e) \in Nat
  PROVE  \E g : /\ Reading(e, Len(e), g)
                /\ Meter!Spans(e, end) = IF g[Len(e)].since = Never THEN g[Len(e)].spans
                                   ELSE g[Len(e)].spans \o Meter!Span(g[Len(e)].since, end)
<1> DEFINE g == CHOOSE h : Reading(e, Len(e), h)
<1>1. Reading(e, Len(e), g) BY ReadingExists
<1>2. Meter!Spans(e, end) = IF g[Len(e)].since = Never THEN g[Len(e)].spans
                      ELSE g[Len(e)].spans \o Meter!Span(g[Len(e)].since, end)
  BY Zenon DEF Meter!Spans, Reading, Nothing
<1> QED BY <1>1, <1>2

LEMMA Added ==
  ASSUME NEW s, Neat(s), NEW a \in Nat, NEW b \in Nat, \A k \in DOMAIN s : s[k].to <= a
  PROVE  /\ Neat(s \o Meter!Span(a, b))
         /\ \A k \in DOMAIN (s \o Meter!Span(a, b)) : (s \o Meter!Span(a, b))[k].to <= (IF a < b THEN b ELSE a)
         /\ \A t \in Nat : In(s \o Meter!Span(a, b), t) <=> In(s, t) \/ (a <= t /\ t < b)
<1>1. CASE ~(b > a)
  <2>1. s \o Meter!Span(a, b) = s BY <1>1 DEF Meter!Span, Neat
  <2> QED BY <1>1, <2>1
<1>2. CASE b > a
  <2> DEFINE x == [from |-> a, to |-> b]
             u == s \o <<x>>
  <2>1. s \o Meter!Span(a, b) = u BY <1>2 DEF Meter!Span
  <2>2. /\ s \in Seq(SpanRow) /\ u \in Seq(SpanRow) /\ Len(s) \in Nat /\ Len(u) = Len(s) + 1
        /\ DOMAIN s = 1..Len(s) /\ DOMAIN u = 1..(Len(s) + 1)
        /\ \A k \in 1..Len(s) : u[k] = s[k] /\ s[k] \in SpanRow
        /\ u[Len(s) + 1] = x
    <3>1. s \in Seq(SpanRow) /\ x \in SpanRow /\ <<x>> \in Seq(SpanRow) /\ Len(<<x>>) = 1 /\ <<x>>[1] = x
      BY DEF Neat, SpanRow
    <3> HIDE DEF x
    <3>2. u \in Seq(SpanRow) /\ Len(u) = Len(s) + 1 BY <3>1
    <3>3. \A k \in 1..Len(s) : u[k] = s[k] /\ s[k] \in SpanRow BY <3>1
    <3>4. u[Len(s) + 1] = x BY <3>1
    <3>5. DOMAIN s = 1..Len(s) /\ Len(s) \in Nat BY <3>1
    <3>6. DOMAIN u = 1..Len(u) BY <3>2
    <3> QED BY <3>1, <3>2, <3>3, <3>4, <3>5, <3>6
  <2> HIDE DEF u
  <2>3. \A k \in DOMAIN s : s[k].from \in Nat /\ s[k].to \in Nat BY <2>2 DEF SpanRow
  <2>4. Neat(u) BY <1>2, <2>2, <2>3 DEF Neat
  <2>5. \A k \in DOMAIN u : u[k].to <= b BY <1>2, <2>2, <2>3
  <2>6. ASSUME NEW t \in Nat PROVE In(u, t) <=> In(s, t) \/ (a <= t /\ t < b)
    BY <1>2, <2>2, <2>3 DEF In
  <2> QED BY <1>2, <2>1, <2>4, <2>5, <2>6
<1> QED BY <1>1, <1>2

LEMMA GoodStart == \A e : Good(e, 0, Nothing)
<1>1. <<>> \in Seq(SpanRow) /\ DOMAIN <<>> = {} OBVIOUS
<1>2. Nothing \in [spans : Seq(SpanRow), since : Nat \cup {Never}] BY <1>1 DEF Nothing
<1>3. Neat(Nothing.spans) BY <1>1 DEF Neat, Nothing
<1>4. \A e : \A t \in Nat : ~UpAt(e, 0, t) BY DEF UpAt
<1>5. \A t \in Nat : ~In(Nothing.spans, t) BY <1>1 DEF In, Nothing
<1>6. Nothing.since = Never BY DEF Nothing
<1> QED BY <1>2, <1>3, <1>4, <1>5, <1>6 DEF Good

LEMMA EventsAre ==
  ASSUME NEW e \in Seq(EventRow)
  PROVE  /\ DOMAIN e = 1..Len(e) /\ Len(e) \in Nat
         /\ \A i \in 1..Len(e) : e[i].when \in Nat /\ e[i].up \in BOOLEAN /\ e[i].ts \in Nat
<1>1. DOMAIN e = 1..Len(e) /\ Len(e) \in Nat OBVIOUS
<1>2. \A i \in 1..Len(e) : e[i] \in EventRow OBVIOUS
<1> QED BY <1>1, <1>2 DEF EventRow

LEMMA GoodFrom ==
  ASSUME NEW e, NEW n \in Nat, NEW sp, Neat(sp), NEW s \in Nat \cup {Never},
         \A k \in DOMAIN sp : sp[k].to <= e[n + 1].when,
         s # Never => s <= e[n + 1].when /\ \A k \in DOMAIN sp : sp[k].to <= s,
         \A t \in Nat : UpAt(e, n + 1, t) <=> In(sp, t) \/ (s # Never /\ s <= t)
  PROVE  Good(e, n + 1, [spans |-> sp, since |-> s])
<1> DEFINE r == [spans |-> sp, since |-> s]
<1>1. r.spans = sp /\ r.since = s OBVIOUS
<1>2. sp \in Seq(SpanRow) BY DEF Neat
<1>3. r \in [spans : Seq(SpanRow), since : Nat \cup {Never}] BY <1>2
<1>4. n + 1 > 0 /\ n + 1 # 0 OBVIOUS
<1> HIDE DEF r
<1>5. Good(e, n + 1, r) BY <1>1, <1>3, <1>4 DEF Good
<1> QED BY <1>5 DEF r

LEMMA UpAtNext ==
  ASSUME NEW e \in Seq(EventRow), Ordered(e), NEW n \in Nat, n < Len(e), NEW t \in Nat
  PROVE  UpAt(e, n + 1, t) <=> IF t < e[n + 1].when THEN UpAt(e, n, t) ELSE e[n + 1].up
<1>1. /\ DOMAIN e = 1..Len(e) /\ Len(e) \in Nat
      /\ \A i \in 1..Len(e) : e[i].when \in Nat /\ e[i].up \in BOOLEAN
  BY EventsAre
<1>2. \A i \in 1..n : e[i].when <= e[n + 1].when BY <1>1 DEF Ordered
<1>3. CASE t < e[n + 1].when
  <2>1. ASSUME UpAt(e, n, t) PROVE UpAt(e, n + 1, t) BY <1>1, <1>3, <2>1 DEF UpAt
  <2>2. ASSUME UpAt(e, n + 1, t) PROVE UpAt(e, n, t) BY <1>1, <1>3, <2>2 DEF UpAt
  <2> QED BY <1>3, <2>1, <2>2
<1>4. CASE ~(t < e[n + 1].when)
  <2>1. e[n + 1].when <= t BY <1>1, <1>4
  <2>2. ASSUME e[n + 1].up PROVE UpAt(e, n + 1, t) BY <1>1, <2>1, <2>2 DEF UpAt
  <2>3. ASSUME UpAt(e, n + 1, t) PROVE e[n + 1].up BY <1>1, <1>4, <2>3 DEF UpAt
  <2> QED BY <1>1, <1>4, <2>2, <2>3
<1> QED BY <1>3, <1>4

LEMMA GoodStep ==
  ASSUME NEW e \in Seq(EventRow), Ordered(e), NEW n \in Nat, n < Len(e), NEW r, Good(e, n, r)
  PROVE  Good(e, n + 1, Meter!Reads(r, e[n + 1]))
<1> DEFINE w == e[n + 1].when
           q == Meter!Reads(r, e[n + 1])
<1>1. /\ DOMAIN e = 1..Len(e) /\ Len(e) \in Nat
      /\ \A i \in 1..Len(e) : e[i].when \in Nat /\ e[i].up \in BOOLEAN
  BY EventsAre
<1>2. w \in Nat /\ e[n + 1].up \in BOOLEAN /\ (n > 0 => e[n].when <= w /\ e[n].when \in Nat)
  BY <1>1 DEF Ordered
<1>3. /\ r \in [spans : Seq(SpanRow), since : Nat \cup {Never}] /\ Neat(r.spans)
      /\ r = [spans |-> r.spans, since |-> r.since] /\ Never \notin Nat
      /\ DOMAIN r.spans = 1..Len(r.spans) /\ Len(r.spans) \in Nat
      /\ \A k \in DOMAIN r.spans : r.spans[k].to \in Nat /\ r.spans[k].from \in Nat
  <2>1. Never \notin Nat BY Whole
  <2>2. r \in [spans : Seq(SpanRow), since : Nat \cup {Never}] /\ Neat(r.spans) BY DEF Good
  <2>3. r.spans \in Seq(SpanRow) BY <2>2
  <2>4. DOMAIN r.spans = 1..Len(r.spans) /\ Len(r.spans) \in Nat
        /\ \A k \in DOMAIN r.spans : r.spans[k] \in SpanRow
    BY <2>3
  <2> QED BY <2>1, <2>2, <2>4 DEF SpanRow
<1>4. \A k \in DOMAIN r.spans : r.spans[k].to <= w
  <2>1. CASE n = 0
    <3>1. r.spans = <<>> BY <2>1 DEF Good, Nothing
    <3> QED BY <3>1
  <2>2. CASE n > 0 BY <1>2, <1>3, <2>2 DEF Good
  <2> QED BY <2>1, <2>2
<1>5. r.since # Never => r.since \in Nat /\ r.since <= w /\ \A k \in DOMAIN r.spans : r.spans[k].to <= r.since
  BY <1>2, <1>3 DEF Good
<1>6. \A t \in Nat : UpAt(e, n, t) <=> In(r.spans, t) \/ (r.since # Never /\ r.since <= t)
  BY DEF Good
<1>7. \A t \in Nat : UpAt(e, n + 1, t) <=> IF t < w THEN UpAt(e, n, t) ELSE e[n + 1].up
  BY UpAtNext
<1>8. \A t \in Nat : w <= t => ~In(r.spans, t)
  BY <1>2, <1>3, <1>4 DEF In
<1>9. ASSUME e[n + 1].up, r.since = Never PROVE Good(e, n + 1, q)
  <2>1. r.spans # <<>> => ~(Meter!Last(r.spans).to > w)
    <3>1. ASSUME r.spans # <<>>
          PROVE  Meter!Last(r.spans) = r.spans[Len(r.spans)] /\ Len(r.spans) \in DOMAIN r.spans
      <4>1. Len(r.spans) # 0 BY <1>3, <3>1
      <4> QED BY <1>3, <4>1 DEF Meter!Last
    <3> QED BY <1>2, <1>3, <1>4, <3>1
  <2>2. q = [spans |-> r.spans, since |-> w] BY <1>3, <1>9, <2>1 DEF Meter!Reads
  <2>3. ASSUME NEW t \in Nat PROVE UpAt(e, n + 1, t) <=> In(r.spans, t) \/ (w # Never /\ w <= t)
    BY <1>2, <1>3, <1>6, <1>7, <1>8, <1>9
  <2>4. w <= e[n + 1].when /\ \A k \in DOMAIN r.spans : r.spans[k].to <= e[n + 1].when
    BY <1>2, <1>4
  <2> HIDE DEF w
  <2>5. Good(e, n + 1, [spans |-> r.spans, since |-> w])
    BY <1>2, <1>3, <1>4, <2>3, <2>4, GoodFrom
  <2> QED BY <2>2, <2>5
<1>10. ASSUME ~e[n + 1].up, r.since # Never PROVE Good(e, n + 1, q)
  <2>1. q = [spans |-> r.spans \o Meter!Span(r.since, w), since |-> Never]
    BY <1>10 DEF Meter!Reads
  <2> DEFINE p == r.spans \o Meter!Span(r.since, w)
  <2>2. /\ Neat(p) /\ \A k \in DOMAIN p : p[k].to <= (IF r.since < w THEN w ELSE r.since)
        /\ \A t \in Nat : In(p, t) <=> In(r.spans, t) \/ (r.since <= t /\ t < w)
    <3>1. r.since \in Nat /\ w \in Nat /\ Neat(r.spans) /\ \A k \in DOMAIN r.spans : r.spans[k].to <= r.since
      BY <1>2, <1>3, <1>5, <1>10
    <3> HIDE DEF w
    <3> QED BY <3>1, Added
  <2> HIDE DEF p
  <2>3. ASSUME NEW t \in Nat PROVE UpAt(e, n + 1, t) <=> In(p, t)
    <3>2. CASE t < w BY <1>2, <1>5, <1>6, <1>7, <1>10, <2>2, <3>2
    <3>3. CASE ~(t < w) BY <1>2, <1>7, <1>8, <1>10, <2>2, <3>3
    <3> QED BY <3>2, <3>3
  <2>4. \A k \in DOMAIN p : p[k].to <= w BY <1>2, <1>5, <1>10, <2>2
  <2>5. Good(e, n + 1, [spans |-> p, since |-> Never]) BY <2>2, <2>3, <2>4, GoodFrom
  <2> QED BY <2>1, <2>5 DEF p
<1>11. ASSUME e[n + 1].up, r.since # Never PROVE Good(e, n + 1, q)
  <2>1. q = r BY <1>11 DEF Meter!Reads
  <2>2. ASSUME NEW t \in Nat PROVE UpAt(e, n + 1, t) <=> In(r.spans, t) \/ (r.since # Never /\ r.since <= t)
    BY <1>2, <1>5, <1>6, <1>7, <1>11
  <2>3. Good(e, n + 1, [spans |-> r.spans, since |-> r.since])
    BY <1>3, <1>4, <1>5, <2>2, GoodFrom
  <2> QED BY <1>3, <2>1, <2>3
<1>12. ASSUME ~e[n + 1].up, r.since = Never PROVE Good(e, n + 1, q)
  <2>1. q = r BY <1>12 DEF Meter!Reads
  <2>2. ASSUME NEW t \in Nat PROVE UpAt(e, n + 1, t) <=> In(r.spans, t) \/ (r.since # Never /\ r.since <= t)
    BY <1>2, <1>6, <1>7, <1>8, <1>12
  <2>3. Good(e, n + 1, [spans |-> r.spans, since |-> r.since])
    BY <1>3, <1>4, <1>12, <2>2, GoodFrom
  <2> QED BY <1>3, <2>1, <2>3
<1> QED BY <1>2, <1>9, <1>10, <1>11, <1>12

(* The spans are when the machine was up, as these events have it.         *)
LEMMA SpansAreRight ==
  ASSUME NEW e \in Seq(EventRow), Ordered(e), NEW end \in Nat
  PROVE  /\ Neat(Meter!Spans(e, end))
         /\ \A t \in Nat : t < end => (In(Meter!Spans(e, end), t) <=> UpAt(e, Len(e), t))
<1>1. Len(e) \in Nat OBVIOUS
<1>2. PICK g : /\ Reading(e, Len(e), g)
               /\ Meter!Spans(e, end) = IF g[Len(e)].since = Never THEN g[Len(e)].spans
                                  ELSE g[Len(e)].spans \o Meter!Span(g[Len(e)].since, end)
  BY <1>1, SpansAreRead
<1>3. g[0] = Nothing /\ \A i \in 1..Len(e) : g[i] = Meter!Reads(g[i - 1], e[i])
  BY <1>1, <1>2, ReadingAt
<1>4. Good(e, Len(e), g[Len(e)])
  <2> DEFINE T == {n \in 0..Len(e) : ~Good(e, n, g[n])}
  <2> SUFFICES ASSUME T # {} PROVE FALSE BY <1>1
  <2>1. PICK n \in T : \A m \in T : n <= m
    <3>1. T \in SUBSET Nat OBVIOUS
    <3> HIDE DEF T
    <3> QED BY <3>1, LeastOf
  <2>2. n # 0 BY <1>3, <2>1, GoodStart
  <2>3. n - 1 \in Nat /\ n - 1 < Len(e) /\ n - 1 \notin T /\ n \in 1..Len(e) /\ n = n - 1 + 1
    BY <1>1, <2>1, <2>2
  <2>4. Good(e, n - 1, g[n - 1]) BY <1>1, <2>3
  <2> DEFINE m == n - 1
  <2>5. Good(e, m + 1, Meter!Reads(g[m], e[m + 1]))
    <3>1. m \in Nat /\ m < Len(e) /\ Good(e, m, g[m]) BY <2>3, <2>4
    <3> HIDE DEF m
    <3> QED BY <3>1, GoodStep
  <2>6. Good(e, n, Meter!Reads(g[n - 1], e[n])) BY <2>3, <2>5
  <2> QED BY <1>3, <2>1, <2>3, <2>6
<1> DEFINE r == g[Len(e)]
<1> HIDE DEF r
<1>5. CASE r.since = Never
  <2>1. Meter!Spans(e, end) = r.spans BY <1>2, <1>5 DEF r
  <2>2. Good(e, Len(e), r) BY <1>4 DEF r
  <2> QED BY <1>5, <2>1, <2>2 DEF Good
<1>6. CASE r.since # Never
  <2>1. Meter!Spans(e, end) = r.spans \o Meter!Span(r.since, end) BY <1>2, <1>6 DEF r
  <2>2. Good(e, Len(e), r) BY <1>4 DEF r
  <2>3. /\ r.since \in Nat /\ Neat(r.spans) /\ \A k \in DOMAIN r.spans : r.spans[k].to <= r.since
        /\ \A t \in Nat : UpAt(e, Len(e), t) <=> In(r.spans, t) \/ r.since <= t
    BY <1>6, <2>2 DEF Good
  <2>4. /\ Neat(r.spans \o Meter!Span(r.since, end))
        /\ \A t \in Nat : In(r.spans \o Meter!Span(r.since, end), t) <=> In(r.spans, t) \/ (r.since <= t /\ t < end)
    BY <2>3, Added
  <2> QED BY <2>1, <2>3, <2>4
<1> QED BY <1>5, <1>6

Adding(sp, l, r, n, g) ==
    g = [i \in 0..n |-> IF i = 0 THEN 0 ELSE g[i - 1] + Meter!Common(sp[i], l, r)]

LEMMA AddingAt ==
  ASSUME NEW sp, NEW l, NEW r, NEW n \in Nat, NEW g, Adding(sp, l, r, n, g)
  PROVE  g[0] = 0 /\ \A i \in 1..n : g[i] = g[i - 1] + Meter!Common(sp[i], l, r)
<1>1. \A i \in 0..n : g[i] = IF i = 0 THEN 0 ELSE g[i - 1] + Meter!Common(sp[i], l, r)
  BY DEF Adding
<1> QED BY <1>1

LEMMA AddingExists ==
  ASSUME NEW sp, NEW l, NEW r, NEW n \in Nat
  PROVE  \E g : Adding(sp, l, r, n, g)
<1> DEFINE T == {m \in Nat : ~\E g : Adding(sp, l, r, m, g)}
<1> SUFFICES ASSUME T # {} PROVE FALSE OBVIOUS
<1>1. PICK m \in T : \A k \in T : m <= k
  <2>1. T \in SUBSET Nat OBVIOUS
  <2> HIDE DEF T
  <2> QED BY <2>1, LeastOf
<1>2. CASE m = 0
  <2> DEFINE g == [i \in 0..0 |-> 0]
  <2>1. g = [i \in 0..0 |-> IF i = 0 THEN 0 ELSE g[i - 1] + Meter!Common(sp[i], l, r)] OBVIOUS
  <2>2. Adding(sp, l, r, 0, g) BY <2>1 DEF Adding
  <2> QED BY <1>1, <1>2, <2>2
<1>3. CASE m # 0
  <2>1. m \in Nat /\ m - 1 \in Nat /\ m - 1 \notin T BY <1>1, <1>3
  <2>2. PICK h : Adding(sp, l, r, m - 1, h) BY <2>1
  <2> DEFINE g == [i \in 0..m |-> IF i = m THEN h[m - 1] + Meter!Common(sp[m], l, r) ELSE h[i]]
  <2>3. ASSUME NEW i \in 0..m
        PROVE  g[i] = IF i = 0 THEN 0 ELSE g[i - 1] + Meter!Common(sp[i], l, r)
    <3>1. CASE i = m
      <4>1. g[m - 1] = h[m - 1] /\ g[m] = h[m - 1] + Meter!Common(sp[m], l, r) BY <2>1
      <4> QED BY <1>3, <3>1, <4>1
    <3>2. CASE i # m
      <4>1. i \in 0..(m - 1) /\ g[i] = h[i] /\ (i # 0 => g[i - 1] = h[i - 1]) BY <2>1, <3>2
      <4>2. h[0] = 0 /\ (i # 0 => h[i] = h[i - 1] + Meter!Common(sp[i], l, r))
        <5>1. h[0] = 0 /\ \A k \in 1..(m - 1) : h[k] = h[k - 1] + Meter!Common(sp[k], l, r)
          BY <2>1, <2>2, AddingAt
        <5> QED BY <2>1, <4>1, <5>1
      <4> HIDE DEF g
      <4> QED BY <4>1, <4>2
    <3> QED BY <3>1, <3>2
  <2>4. Adding(sp, l, r, m, g)
    <3>1. g = [i \in 0..m |-> g[i]] OBVIOUS
    <3> HIDE DEF g
    <3> QED BY <2>3, <3>1 DEF Adding
  <2> QED BY <1>1, <2>4
<1> QED BY <1>2, <1>3

(* The ticks of the first i spans, of those between l and r.               *)
Of(sp, i, l, r) ==
    {t \in l..(r - 1) : \E k \in 1..i : sp[k].from <= t /\ t < sp[k].to}

LEMMA OneMore ==
  ASSUME NEW sp, Neat(sp), NEW l \in Nat, NEW r \in Nat, NEW i \in Nat, i < Len(sp)
  PROVE  /\ IsFiniteSet(Of(sp, i, l, r)) /\ Cardinality(Of(sp, i, l, r)) \in Nat
         /\ Cardinality(Of(sp, i + 1, l, r))
                = Cardinality(Of(sp, i, l, r)) + Meter!Common(sp[i + 1], l, r)
<1>1. /\ DOMAIN sp = 1..Len(sp) /\ Len(sp) \in Nat /\ i + 1 \in 1..Len(sp)
      /\ \A k \in 1..Len(sp) : sp[k].from \in Nat /\ sp[k].to \in Nat
      /\ \A k \in 1..i : sp[k].to <= sp[i + 1].from
  <2>1. sp \in Seq(SpanRow) BY DEF Neat
  <2>2. /\ DOMAIN sp = 1..Len(sp) /\ Len(sp) \in Nat /\ i + 1 \in 1..Len(sp)
        /\ \A k \in 1..Len(sp) : sp[k] \in SpanRow
    BY <2>1
  <2>3. \A k \in 1..i : k \in 1..Len(sp) /\ k < i + 1 BY <2>2
  <2> QED BY <2>2, <2>3 DEF SpanRow, Neat
<1> DEFINE s == sp[i + 1]
           a == IF s.from > l THEN s.from ELSE l
           b == IF s.to < r THEN s.to ELSE r
           new == a..(b - 1)
<1>2. a \in Nat /\ b \in Nat /\ s.from \in Nat /\ s.to \in Nat BY <1>1
<1>3. IsFiniteSet(l..(r - 1)) /\ IsFiniteSet(new) /\ Cardinality(new) = Meter!Common(s, l, r)
  <2>1. IsFiniteSet(l..(r - 1)) BY FS_Interval
  <2>2. IsFiniteSet(new) /\ Cardinality(new) = IF a > b - 1 THEN 0 ELSE b - 1 - a + 1
    <3> HIDE DEF a, b
    <3> QED BY <1>2, FS_Interval
  <2>3. Meter!Common(s, l, r) = IF b > a THEN b - a ELSE 0 BY DEF Meter!Common
  <2> HIDE DEF a, b
  <2> QED BY <1>2, <2>1, <2>2, <2>3
<1>4. IsFiniteSet(Of(sp, i, l, r)) BY <1>3, FS_Subset DEF Of
<1>5. Of(sp, i + 1, l, r) = Of(sp, i, l, r) \cup new
  <2>1. ASSUME NEW t \in Of(sp, i + 1, l, r) PROVE t \in Of(sp, i, l, r) \cup new
    <3>1. PICK k \in 1..(i + 1) : sp[k].from <= t /\ t < sp[k].to BY DEF Of
    <3>2. t \in l..(r - 1) BY DEF Of
    <3>3. CASE k = i + 1 BY <1>2, <3>1, <3>2, <3>3
    <3>4. CASE k # i + 1
      <4>1. k \in 1..i BY <3>4
      <4> QED BY <3>1, <3>2, <4>1 DEF Of
    <3> QED BY <3>3, <3>4
  <2>2. ASSUME NEW t \in new PROVE t \in Of(sp, i + 1, l, r)
    <3>1. t \in l..(r - 1) /\ sp[i + 1].from <= t /\ t < sp[i + 1].to BY <1>2
    <3>2. i + 1 \in 1..(i + 1) OBVIOUS
    <3> QED BY <3>1, <3>2 DEF Of
  <2>3. ASSUME NEW t \in Of(sp, i, l, r) PROVE t \in Of(sp, i + 1, l, r)
    <3>1. 1..i \subseteq 1..(i + 1) OBVIOUS
    <3> QED BY <3>1 DEF Of
  <2> QED BY <2>1, <2>2, <2>3
<1>6. Of(sp, i, l, r) \cap new = {}
  BY <1>1, <1>2 DEF Of
<1>7. Cardinality(Of(sp, i, l, r)) \in Nat /\ Cardinality(new) \in Nat /\ Cardinality({}) = 0
  BY <1>3, <1>4, FS_CardinalityType, FS_EmptySet
<1> HIDE DEF new
<1>8. Cardinality(Of(sp, i, l, r) \cup new) = Cardinality(Of(sp, i, l, r)) + Cardinality(new)
  <2>1. Cardinality(Of(sp, i, l, r) \cup new) = Cardinality(Of(sp, i, l, r)) + Cardinality(new)
            - Cardinality(Of(sp, i, l, r) \cap new)
    BY <1>3, <1>4, FS_Union
  <2>2. Cardinality(Of(sp, i, l, r) \cap new) = 0 BY <1>6, <1>7
  <2> QED BY <1>7, <2>1, <2>2
<1> QED BY <1>3, <1>4, <1>5, <1>7, <1>8

(* An overlap counts ticks.                                                *)
LEMMA OverlapCounts ==
  ASSUME NEW sp, Neat(sp), NEW l \in Nat, NEW r \in Nat
  PROVE  Meter!Overlap(sp, l, r) = Cardinality({t \in l..(r - 1) : In(sp, t)})
<1>1. Len(sp) \in Nat /\ DOMAIN sp = 1..Len(sp) BY DEF Neat
<1> DEFINE n == Len(sp)
<1>2. PICK g : Adding(sp, l, r, n, g) /\ Meter!Overlap(sp, l, r) = g[n]
  <2> DEFINE g == CHOOSE h : Adding(sp, l, r, n, h)
  <2>1. Adding(sp, l, r, n, g) BY <1>1, AddingExists
  <2>2. Meter!Overlap(sp, l, r) = g[n] BY Zenon DEF Meter!Overlap, Adding
  <2> QED BY <2>1, <2>2
<1>3. Meter!Overlap(sp, l, r) = g[n] BY <1>2
<1>4. g[0] = 0 /\ \A i \in 1..n : g[i] = g[i - 1] + Meter!Common(sp[i], l, r)
  <2>1. n \in Nat /\ Adding(sp, l, r, n, g) BY <1>1, <1>2
  <2> HIDE DEF n
  <2> QED BY <2>1, AddingAt
<1>5. \A i \in 0..n : g[i] = Cardinality(Of(sp, i, l, r))
  <2> DEFINE T == {i \in 0..n : g[i] # Cardinality(Of(sp, i, l, r))}
  <2> SUFFICES ASSUME T # {} PROVE FALSE OBVIOUS
  <2>1. PICK i \in T : \A m \in T : i <= m
    <3>1. T \in SUBSET Nat OBVIOUS
    <3> HIDE DEF T
    <3> QED BY <3>1, LeastOf
  <2>2. i # 0
    <3>1. Of(sp, 0, l, r) = {} BY DEF Of
    <3> QED BY <1>4, <2>1, <3>1, FS_EmptySet
  <2> DEFINE m == i - 1
  <2>3. m \in Nat /\ m < n /\ m \notin T /\ i \in 1..n /\ i = m + 1 BY <1>1, <2>1, <2>2
  <2>4. g[m] = Cardinality(Of(sp, m, l, r)) BY <2>3
  <2>5. g[i] = g[m] + Meter!Common(sp[i], l, r) BY <1>4, <2>3
  <2>6. Cardinality(Of(sp, m + 1, l, r)) = Cardinality(Of(sp, m, l, r)) + Meter!Common(sp[m + 1], l, r)
    <3> HIDE DEF m
    <3> QED BY <2>3, OneMore
  <2> QED BY <2>1, <2>3, <2>4, <2>5, <2>6
<1>6. Of(sp, n, l, r) = {t \in l..(r - 1) : In(sp, t)} BY <1>1 DEF Of, In
<1>7. g[n] = Cardinality(Of(sp, n, l, r)) BY <1>1, <1>5
<1> HIDE DEF n
<1> QED BY <1>3, <1>6, <1>7

-----------------------------------------------------------------------------
(* What the log says, and what was. *)
Wholes == {Meter!Start(h) : h \in Meter!Hours}
SweepRow(s) ==
    [at : {"inspect", "correct", "spans", "hours", "mark"},
     row : {"running", "stopped", "torn_down"}, now : Meter!Times, closed : Wholes,
     mark : Wholes \cup {Never}, hour : Wholes \cup {Never}, alive : Meter!Times \cup {Never},
     up : BOOLEAN, lastUp : Meter!Times, lastDown : Meter!Times, spans : {s.spans}]
Shaped(s) ==
    /\ s \in SweepRow(s)
    /\ s.at # "inspect" => s.mark # Never
    /\ s.mark # Never => s.hour # Never
    /\ s.at = "hours" => s.hour < s.closed
MeterTyped ==
    /\ tick \in Meter!Times /\ up \in BOOLEAN /\ {lastUp, lastDown} \subseteq Meter!Times
    /\ status \in {"running", "stopped", "torn_down"} /\ destroyed \in Meter!Times \cup {Never}
    /\ log \in Seq(EventRow) /\ log # <<>> /\ log[1].ts = 0
    /\ mark \in Wholes \cup {Never} /\ first \in Wholes \cup {Never}
    /\ seconds = [h \in Meter!Hours |-> seconds[h]] /\ disk = [h \in Meter!Hours |-> disk[h]]
    /\ sweep = [p \in Planes |-> sweep[p]]
    /\ \A p \in Planes : sweep[p] = Meter!NoSweep \/ Shaped(sweep[p])
    /\ was \subseteq Meter!Times /\ fooled \in BOOLEAN
MachineKept ==
    /\ lastUp <= tick /\ lastDown <= tick /\ \A t \in was : t < tick
    /\ status # "torn_down" <=> destroyed = Never
    /\ destroyed # Never => destroyed <= tick /\ ~up

Changed == IF status = "torn_down" THEN destroyed ELSE IF up THEN lastUp ELSE lastDown
LogUpAt(t) == UpAt(log, Len(log), t)
LogRight ==
    /\ Ordered(log) /\ \A i \in DOMAIN log : log[i].when <= log[i].ts
    /\ Meter!Last(log).when <= Changed /\ (~Meter!Missed => Meter!Last(log).when = Changed)
    /\ status = "torn_down" => ~Meter!Missed
    /\ \A t \in Nat : t < tick => (t \in was <=> IF t < Changed THEN LogUpAt(t) ELSE up)

LEMMA WholesAre ==
  /\ Wholes \subseteq Nat /\ Meter!Times \subseteq Nat /\ Meter!Hours \subseteq Nat /\ Never \notin Nat
  /\ HourTicks \in Nat \ {0}
  /\ \A h \in Meter!Hours : Meter!Start(h) \in Wholes /\ Meter!Start(h) \in Nat /\ Meter!Start(h + 1) \in Nat
                      /\ Meter!Start(h + 1) = Meter!Start(h) + HourTicks /\ Meter!Start(h) \div HourTicks = h
  /\ \A h \in Meter!Hours, w \in Wholes : 
       Meter!Start(h) < w => Meter!Start(h + 1) <= w /\ Meter!Start(h + 1) \in Wholes
<1>1. Meter!Times \subseteq Nat /\ Meter!Hours \subseteq Nat BY Whole DEF Meter!Times, Meter!Hours
<1>2. \A h \in Meter!Hours : Meter!Start(h) \in Nat /\ Meter!Start(h + 1) \in Nat
                       /\ Meter!Start(h + 1) = Meter!Start(h) + HourTicks /\ Meter!Start(h) \div HourTicks = h
  <2>1. \A h \in Meter!Hours : h \in Nat /\ h + 1 \in Nat BY <1>1
  <2> QED BY <2>1, Whole
<1>3. ASSUME NEW h \in Meter!Hours, NEW w \in Wholes, Meter!Start(h) < w
      PROVE  Meter!Start(h + 1) <= w /\ Meter!Start(h + 1) \in Wholes
  <2>1. PICK g \in Meter!Hours : w = Meter!Start(g) BY DEF Wholes
  <2>2. h < g /\ h \in Nat /\ g \in Nat BY <1>1, <1>3, <2>1, Whole
  <2>3. Meter!Start(h + 1) <= w BY <2>1, <2>2, Whole
  <2>4. h + 1 \in Meter!Hours
    <3>1. 0 <= h + 1 /\ h + 1 <= g /\ h + 1 \in Nat BY <2>2
    <3>2. \A m \in Int : g <= m /\ g \in Nat => h + 1 \in 0..m BY <3>1, <2>2
    <3>3. MaxNow \div HourTicks \in Int BY Whole
    <3>4. g <= MaxNow \div HourTicks BY <3>3 DEF Meter!Hours
    <3> QED BY <2>2, <3>2, <3>3, <3>4 DEF Meter!Hours
  <2> QED BY <2>3, <2>4 DEF Wholes
<1>4. Wholes \subseteq Nat /\ \A h \in Meter!Hours : Meter!Start(h) \in Wholes BY <1>2 DEF Wholes
<1> QED BY <1>1, <1>2, <1>3, <1>4, Whole

LEMMA EventsOfLog ==
  ASSUME MeterTyped, NEW b \in Nat
  PROVE  \E f \in 1..Len(log) :
           /\ log[f].ts <= b /\ Meter!LifecycleEvents(b) = SubSeq(log, f, Len(log))
           /\ Meter!LifecycleEvents(b) \in Seq(EventRow) /\ Meter!LifecycleEvents(b) # <<>>
           /\ Len(Meter!LifecycleEvents(b)) = Len(log) - f + 1
           /\ \A i \in 1..(Len(log) - f + 1) : Meter!LifecycleEvents(b)[i] = log[f + i - 1]
           /\ Meter!Last(Meter!LifecycleEvents(b)) = Meter!Last(log)
<1>1. log \in Seq(EventRow) /\ Len(log) \in Nat /\ Len(log) # 0 /\ DOMAIN log = 1..Len(log) /\ log[1].ts = 0
  BY DEF MeterTyped
<1> DEFINE before == {i \in DOMAIN log : log[i].ts <= b}
           gaps == {Len(log) - i : i \in before}
<1>2. 1 \in before /\ before \subseteq 1..Len(log) BY <1>1
<1>3. gaps \in SUBSET Nat /\ gaps # {} BY <1>1, <1>2
<1>4. PICK d \in gaps : \A c \in gaps : d <= c
  <2> HIDE DEF gaps
  <2> QED BY <1>3, LeastOf
<1>5. PICK m \in before : d = Len(log) - m BY <1>4
<1>6. ASSUME NEW j \in before PROVE j <= m
  <2>1. Len(log) - j \in gaps /\ j \in Nat /\ m \in Nat BY <1>1, <1>2, <1>5
  <2>2. d <= Len(log) - j
    <3> HIDE DEF gaps
    <3> QED BY <1>4, <2>1
  <2> QED BY <1>1, <1>5, <2>1, <2>2
<1> DEFINE f == CHOOSE i \in before : \A j \in before : j <= i
<1>7. f \in before BY <1>6
<1>8. Meter!LifecycleEvents(b) = SubSeq(log, f, Len(log)) BY <1>2 DEF Meter!LifecycleEvents
<1> HIDE DEF f
<1>9. f \in 1..Len(log) /\ log[f].ts <= b BY <1>2, <1>7
<1> DEFINE e == SubSeq(log, f, Len(log))
<1>10. e \in Seq(EventRow) /\ Len(e) = Len(log) - f + 1 /\ \A i \in 1..(Len(log) - f + 1) : e[i] = log[f + i - 1]
  BY <1>1, <1>9
<1>11. e # <<>> /\ Meter!Last(e) = Meter!Last(log)
  <2>1. Len(e) \in 1..(Len(log) - f + 1) /\ f + Len(e) - 1 = Len(log) BY <1>1, <1>9, <1>10
  <2>2. e[Len(e)] = log[Len(log)] BY <1>10, <2>1
  <2>3. e # <<>>
    <3>1. Len(e) # 0 /\ Len(<<>>) = 0 BY <1>1, <1>9, <1>10
    <3> HIDE DEF e
    <3> QED BY <3>1
  <2> HIDE DEF e
  <2> QED BY <2>2, <2>3 DEF Meter!Last
<1> QED BY <1>8, <1>9, <1>10, <1>11

LEMMA SpansOfLog ==
  ASSUME MeterTyped, LogRight, NEW b \in Nat, NEW end \in Nat
  PROVE  /\ Neat(Meter!Spans(Meter!LifecycleEvents(b), end))
         /\ \A t \in Nat : b <= t /\ t < end =>
              (In(Meter!Spans(Meter!LifecycleEvents(b), end), t) <=> LogUpAt(t))
<1> DEFINE e == Meter!LifecycleEvents(b)
<1>1. PICK f \in 1..Len(log) :
        /\ log[f].ts <= b /\ e \in Seq(EventRow) /\ Len(e) = Len(log) - f + 1
        /\ \A i \in 1..(Len(log) - f + 1) : e[i] = log[f + i - 1]
  BY EventsOfLog
<1>2. log \in Seq(EventRow) /\ Ordered(log) /\ \A i \in DOMAIN log : log[i].when <= log[i].ts
  BY DEF MeterTyped, LogRight
<1>3. /\ DOMAIN log = 1..Len(log) /\ Len(log) \in Nat
      /\ \A i \in 1..Len(log) : log[i].when \in Nat /\ log[i].ts \in Nat
  BY <1>2, EventsAre
<1> HIDE DEF e
<1>4. Ordered(e)
  <2>1. DOMAIN e = 1..Len(e) BY <1>1
  <2>2. ASSUME NEW i \in 1..Len(e), NEW j \in 1..Len(e), i < j PROVE e[i].when <= e[j].when
    <3>1. e[i] = log[f + i - 1] /\ e[j] = log[f + j - 1] BY <1>1
    <3>2. f + i - 1 \in DOMAIN log /\ f + j - 1 \in DOMAIN log /\ f + i - 1 < f + j - 1
      BY <1>1, <1>3, <2>2
    <3> QED BY <1>2, <3>1, <3>2 DEF Ordered
  <2> QED BY <2>1, <2>2 DEF Ordered
<1>5. ASSUME NEW t \in Nat, b <= t PROVE UpAt(e, Len(e), t) <=> LogUpAt(t)
  <2>1. ASSUME UpAt(e, Len(e), t) PROVE LogUpAt(t)
    <3>1. PICK i \in 1..Len(e) : e[i].up /\ e[i].when <= t /\ \A j \in 1..Len(e) : i < j => t < e[j].when
      BY <2>1 DEF UpAt
    <3> DEFINE k == f + i - 1
    <3>2. k \in 1..Len(log) /\ log[k].up /\ log[k].when <= t BY <1>1, <1>3, <3>1
    <3>3. ASSUME NEW j \in 1..Len(log), k < j PROVE t < log[j].when
      <4>1. j - f + 1 \in 1..Len(e) /\ i < j - f + 1 /\ f + (j - f + 1) - 1 = j
        BY <1>1, <1>3, <3>1, <3>3
      <4>2. e[j - f + 1] = log[j] BY <1>1, <4>1
      <4> QED BY <3>1, <4>1, <4>2
    <3> HIDE DEF k
    <3> QED BY <3>2, <3>3 DEF LogUpAt, UpAt
  <2>2. ASSUME LogUpAt(t) PROVE UpAt(e, Len(e), t)
    <3>1. PICK k \in 1..Len(log) : log[k].up /\ log[k].when <= t /\ \A j \in 1..Len(log) : k < j => t < log[j].when
      BY <2>2 DEF LogUpAt, UpAt
    <3>2. f <= k
      <4>1. log[f].when <= log[f].ts /\ f \in 1..Len(log) BY <1>1, <1>2, <1>3
      <4>2. ~(t < log[f].when) BY <1>1, <1>3, <1>5, <4>1
      <4> QED BY <1>3, <3>1, <4>2
    <3> DEFINE i == k - f + 1
    <3>3. i \in 1..Len(e) /\ e[i] = log[k]
      <4>1. i \in 1..(Len(log) - f + 1) /\ f + i - 1 = k BY <1>1, <1>3, <3>1, <3>2
      <4> QED BY <1>1, <4>1
    <3>4. ASSUME NEW j \in 1..Len(e), i < j PROVE t < e[j].when
      <4>1. f + j - 1 \in 1..Len(log) /\ k < f + j - 1 /\ e[j] = log[f + j - 1]
        BY <1>1, <1>3, <3>1, <3>4
      <4> QED BY <3>1, <4>1
    <3> HIDE DEF i
    <3> QED BY <3>1, <3>3, <3>4 DEF UpAt
  <2> QED BY <2>1, <2>2
<1>6. /\ Neat(Meter!Spans(e, end))
      /\ \A t \in Nat : t < end => (In(Meter!Spans(e, end), t) <=> UpAt(e, Len(e), t))
  BY <1>1, <1>4, SpansAreRight
<1> QED BY <1>5, <1>6 DEF e

(* An event is appended.                                                   *)
LEMMA Logged ==
  ASSUME MeterTyped, Ordered(log), \A i \in DOMAIN log : log[i].when <= log[i].ts,
         NEW e \in EventRow, log' = Append(log, e), Meter!Last(log).when <= e.when, e.when <= e.ts
  PROVE  /\ Ordered(log') /\ \A i \in DOMAIN log' : log'[i].when <= log'[i].ts
         /\ Meter!Last(log') = e
         /\ \A t \in Nat : LogUpAt(t)' <=> IF t < e.when THEN LogUpAt(t) ELSE e.up
<1> DEFINE n == Len(log)
<1>1. /\ log \in Seq(EventRow) /\ n \in Nat /\ n # 0 /\ DOMAIN log = 1..n
      /\ \A i \in 1..n : log[i].when \in Nat /\ log[i].ts \in Nat
  BY EventsAre DEF MeterTyped
<1>2. /\ log' \in Seq(EventRow) /\ Len(log') = n + 1 /\ DOMAIN log' = 1..(n + 1)
      /\ \A i \in 1..n : log'[i] = log[i]
      /\ log'[n + 1] = e
  BY <1>1
<1>3. Meter!Last(log) = log[n] /\ Meter!Last(log') = e BY <1>2 DEF Meter!Last
<1>4. e.when \in Nat /\ e.ts \in Nat BY DEF EventRow
<1>5. \A i \in 1..n : log[i].when <= e.when
  <2>1. \A i \in 1..n : i < n => log[i].when <= log[n].when BY <1>1 DEF Ordered
  <2>2. log[n].when <= e.when /\ n \in 1..n BY <1>1, <1>3
  <2> QED BY <1>1, <1>4, <2>1, <2>2
<1>6. Ordered(log') BY <1>1, <1>2, <1>4, <1>5 DEF Ordered
<1>7. \A i \in DOMAIN log' : log'[i].when <= log'[i].ts BY <1>1, <1>2, <1>4
<1>8. ASSUME NEW t \in Nat PROVE LogUpAt(t)' <=> IF t < e.when THEN LogUpAt(t) ELSE e.up
  <2> HIDE DEF n
  <2>1. UpAt(log', n + 1, t) <=> IF t < log'[n + 1].when THEN UpAt(log', n, t) ELSE log'[n + 1].up
    <3>1. \A l \in Seq(EventRow) : Ordered(l) /\ n < Len(l) =>
            (UpAt(l, n + 1, t) <=> IF t < l[n + 1].when THEN UpAt(l, n, t) ELSE l[n + 1].up)
      BY <1>1, UpAtNext
    <3>2. n < Len(log') /\ log' \in Seq(EventRow) BY <1>1, <1>2
    <3> QED BY <1>6, <3>1, <3>2
  <2>2. UpAt(log', n, t) <=> UpAt(log, n, t) BY <1>1, <1>2 DEF UpAt
  <2> QED BY <1>2, <2>1, <2>2 DEF LogUpAt, n
<1> QED BY <1>3, <1>6, <1>7, <1>8

-----------------------------------------------------------------------------
(* What a step may do. *)
LEMMA MeterBounds ==
  /\ Meter!Times = 0..MaxNow /\ MaxNow \in Nat /\ 0 \in Meter!Times /\ 0 \in Wholes
  /\ \A t \in Meter!Times : Meter!HourOf(t) \in Wholes /\ Meter!HourOf(t) <= t /\ Meter!HourOf(t) \in Meter!Times
  /\ \A w \in Wholes : w \in Nat
<1>1. Meter!Times = 0..MaxNow /\ MaxNow \in Nat /\ 0 \in Meter!Times BY Whole DEF Meter!Times
<1>2. ASSUME NEW t \in Meter!Times PROVE Meter!HourOf(t) \in Wholes /\ Meter!HourOf(t) <= t
  BY LastHour DEF Wholes
<1>3. \A w \in Wholes : w \in Nat BY WholesAre
<1>4. 0 \in Wholes
  <2>1. 0 \in Meter!Hours /\ Meter!Start(0) = 0
    <3>1. PICK h \in Meter!Hours : Meter!HourOf(0) = Meter!Start(h) /\ Meter!Start(h) <= 0
      BY <1>1, LastHour
    <3>2. h \in Nat /\ Meter!Start(h) \in Nat BY <3>1, WholesAre
    <3>3. MaxNow \div HourTicks \in Int BY Whole
    <3>4. 0 <= h /\ h <= MaxNow \div HourTicks BY <3>3 DEF Meter!Hours
    <3>5. 0 \in Meter!Hours BY <3>2, <3>3, <3>4 DEF Meter!Hours
    <3>6. Meter!Start(0) = 0 BY Whole DEF Meter!Start
    <3> QED BY <3>5, <3>6
  <2> QED BY <2>1 DEF Wholes
<1>5. \A t \in Meter!Times : Meter!HourOf(t) \in Meter!Times BY <1>1, <1>2, <1>3
<1> QED BY <1>1, <1>2, <1>3, <1>4, <1>5

LEMMA MeterSweepTyped ==
  ASSUME MeterTyped, NEW p \in Planes, sweep[p].at # "idle"
  PROVE  /\ sweep[p] \in SweepRow(sweep[p]) /\ sweep[p] # Meter!NoSweep /\ Shaped(sweep[p])
         /\ sweep[p].closed \in Wholes /\ sweep[p].mark \in Wholes \cup {Never}
         /\ sweep[p].hour \in Wholes \cup {Never} /\ sweep[p].alive \in Meter!Times \cup {Never}
         /\ sweep[p].row \in {"running", "stopped", "torn_down"} /\ sweep[p].now \in Meter!Times
         /\ sweep[p].up \in BOOLEAN /\ sweep[p].lastUp \in Meter!Times /\ sweep[p].lastDown \in Meter!Times
         /\ sweep[p].at \in {"inspect", "correct", "spans", "hours", "mark"}
<1>1. sweep[p] # Meter!NoSweep BY DEF Meter!NoSweep
<1>2. Shaped(sweep[p]) /\ sweep[p] \in SweepRow(sweep[p]) BY <1>1 DEF MeterTyped, Shaped
<1> QED BY <1>1, <1>2 DEF SweepRow

LEMMA SetTyped ==
  ASSUME MeterTyped, NEW p \in Planes, NEW s, Meter!Set(p, s)
  PROVE  /\ sweep' = [q \in Planes |-> sweep'[q]] /\ sweep'[p] = s
         /\ \A q \in Planes : q # p => sweep'[q] = sweep[q]
BY DEF Meter!Set, MeterTyped

LEMMA LogTyped ==
  ASSUME MeterTyped, NEW e \in EventRow, log' = Append(log, e)
  PROVE  log' \in Seq(EventRow) /\ log' # <<>> /\ log'[1].ts = 0 /\ Meter!Last(log') = e /\ log'[1] = log[1]
<1>1. log \in Seq(EventRow) /\ Len(log) \in Nat /\ Len(log) # 0 /\ log[1].ts = 0 BY DEF MeterTyped
<1>2. log' \in Seq(EventRow) /\ Len(log') = Len(log) + 1 /\ log'[1] = log[1] /\ log'[Len(log')] = e
  BY <1>1
<1>3. log' # <<>>
  <2>1. Len(<<>>) = 0 /\ Len(log') # 0 BY <1>1, <1>2
  <2> QED BY <2>1
<1> QED BY <1>1, <1>2, <1>3 DEF Meter!Last

LEMMA LastOfLog ==
  ASSUME MeterTyped
  PROVE  Meter!Last(log).when \in Nat /\ Meter!Last(log).ts \in Nat /\ Meter!Last(log).up \in BOOLEAN
<1>1. log \in Seq(EventRow) /\ Len(log) \in Nat /\ Len(log) # 0 BY DEF MeterTyped
<1>2. Len(log) \in 1..Len(log) BY <1>1
<1> QED BY <1>1, <1>2, EventsAre DEF Meter!Last

LEMMA MeterTypedInit == Meter!Init => MeterTyped
<1> SUFFICES ASSUME Meter!Init PROVE MeterTyped OBVIOUS
<1>1. [up |-> TRUE, ts |-> 0, when |-> 0] \in EventRow BY DEF EventRow
<1>2. log \in Seq(EventRow) /\ log # <<>> /\ log[1].ts = 0 BY <1>1 DEF Meter!Init
<1> QED BY <1>2, MeterBounds DEF Meter!Init, MeterTyped

LEMMA MachineTyped ==
  ASSUME MeterTyped,
         Meter!Starts \/ Meter!Stops \/ Meter!TearsDown \/ Meter!Unseen \/ Meter!RowCorrected \/ Meter!Tick
  PROVE  MeterTyped'
<1>1. tick \in Nat /\ tick \in Meter!Times /\ Meter!Times = 0..MaxNow /\ MaxNow \in Nat
      /\ lastUp \in Meter!Times /\ lastDown \in Meter!Times
  BY MeterBounds DEF MeterTyped
<1>2. \A u \in BOOLEAN, w \in Meter!Times : Meter!Event(u, w) \in EventRow
  BY <1>1 DEF Meter!Event, EventRow
<1>3. log' \in Seq(EventRow) /\ log' # <<>> /\ log'[1].ts = 0
  <2>1. CASE log' = log BY <2>1 DEF MeterTyped
  <2>2. CASE log' # log
    <3>1. \E e \in EventRow : log' = Append(log, e)
      BY <1>1, <1>2, <2>2
         DEF Meter!Starts, Meter!Stops, Meter!TearsDown, Meter!Unseen, Meter!RowCorrected, Meter!Tick
    <3> QED BY <3>1, LogTyped
  <2> QED BY <2>1, <2>2
<1>4. UNCHANGED <<mark, seconds, disk, first, sweep>>
  BY DEF Meter!Starts, Meter!Stops, Meter!TearsDown, Meter!Unseen, Meter!RowCorrected,
     Meter!Tick, Meter!metered
<1>5. tick' \in Meter!Times /\ up' \in BOOLEAN /\ {lastUp', lastDown'} \subseteq Meter!Times
  <2>1. ASSUME NEW u \in BOOLEAN, Meter!Moves(u)
        PROVE  up' \in BOOLEAN /\ lastUp' \in Meter!Times /\ lastDown' \in Meter!Times
    BY <1>1, <2>1 DEF Meter!Moves
  <2>2. \/ Meter!Moves(TRUE) \/ Meter!Moves(FALSE) \/ Meter!Moves(~up) \/ UNCHANGED <<up, lastUp, lastDown>>
    BY DEF Meter!Starts, Meter!Stops, Meter!TearsDown, Meter!Unseen, Meter!RowCorrected,
       Meter!Tick, Meter!machine
  <2>3. up' \in BOOLEAN /\ lastUp' \in Meter!Times /\ lastDown' \in Meter!Times
    BY <1>1, <2>1, <2>2 DEF MeterTyped
  <2>4. tick' \in Meter!Times
    <3>1. tick' = tick \/ (tick < MaxNow /\ tick' = tick + 1)
      BY
         DEF Meter!Starts, Meter!Stops, Meter!TearsDown, Meter!Unseen, Meter!RowCorrected, Meter!Tick
    <3> QED BY <1>1, <3>1
  <2> QED BY <2>3, <2>4
<1>6. /\ status' \in {"running", "stopped", "torn_down"} /\ destroyed' \in Meter!Times \cup {Never}
      /\ was' \subseteq Meter!Times
  BY <1>1 DEF Meter!Starts, Meter!Stops, Meter!TearsDown, Meter!Unseen, Meter!RowCorrected,
     Meter!Tick, Meter!Moves, Meter!machine, MeterTyped
<1>7. fooled' \in BOOLEAN
  BY DEF Meter!Starts, Meter!Stops, Meter!TearsDown, Meter!Unseen, Meter!RowCorrected,
     Meter!Tick, MeterTyped
<1> QED BY <1>3, <1>4, <1>5, <1>6, <1>7 DEF MeterTyped

LEMMA SweepingTyped ==
  ASSUME MeterTyped, NEW p \in Planes,
         \/ Meter!Begins(p) \/ Meter!Inspects(p) \/ Meter!Corrects(p) \/ Meter!ReadsSpans(p)
         \/ Meter!WritesHour(p) \/ Meter!MovesMark(p) \/ Meter!Dies(p)
  PROVE  MeterTyped'
<1> DEFINE s == sweep[p]
<1>1. tick \in Nat /\ tick \in Meter!Times /\ Meter!Times = 0..MaxNow /\ MaxNow \in Nat /\ 0 \in Meter!Times
      /\ Never \notin Nat /\ Wholes \subseteq Nat /\ up \in BOOLEAN
      /\ lastUp \in Meter!Times /\ lastDown \in Meter!Times
  BY MeterBounds, WholesAre DEF MeterTyped
<1>2. UNCHANGED <<tick, up, lastUp, lastDown, was, destroyed>>
  BY DEF Meter!Begins, Meter!Inspects, Meter!Corrects, Meter!ReadsSpans, Meter!WritesHour,
     Meter!MovesMark, Meter!Dies, Meter!world, Meter!machine
<1>3. log' \in Seq(EventRow) /\ log' # <<>> /\ log'[1].ts = 0
  <2>1. CASE log' = log BY <2>1 DEF MeterTyped
  <2>2. CASE log' # log
    <3>1. Meter!Corrects(p)
      BY <2>2 DEF Meter!Begins, Meter!Inspects, Meter!Corrects, Meter!ReadsSpans,
         Meter!WritesHour, Meter!MovesMark, Meter!Dies
    <3>2. s.at = "correct" BY <3>1 DEF Meter!Corrects
    <3>3. s.up \in BOOLEAN /\ s.lastUp \in Nat /\ s.lastDown \in Nat /\ s.now \in Nat
      BY <1>1, <3>2, MeterSweepTyped
    <3>4. s.mark \in Nat BY <1>1, <3>2, MeterSweepTyped DEF Shaped
    <3>5. Meter!Last(Meter!LifecycleEvents(s.mark)) = Meter!Last(log) BY <3>4, EventsOfLog
    <3> DEFINE w == Meter!Clamp(IF s.up THEN s.lastUp ELSE s.lastDown, Meter!Last(log).when, s.now)
    <3>6. log' = Append(log, Meter!Event(s.up, w)) BY <2>2, <3>1, <3>5 DEF Meter!Corrects
    <3>7. w \in Nat BY <3>3, LastOfLog DEF Meter!Clamp
    <3>8. Meter!Event(s.up, w) \in EventRow
      <4> HIDE DEF w
      <4> QED BY <1>1, <3>3, <3>7 DEF Meter!Event, EventRow
    <3> QED BY <3>6, <3>8, LogTyped
  <2> QED BY <2>1, <2>2
<1>4. /\ mark' \in Wholes \cup {Never} /\ first' \in Wholes \cup {Never}
      /\ seconds' = [h \in Meter!Hours |-> seconds'[h]] /\ disk' = [h \in Meter!Hours |-> disk'[h]]
      /\ status' \in {"running", "stopped", "torn_down"} /\ fooled' \in BOOLEAN
  <2>1. CASE Meter!Begins(p) \/ Meter!ReadsSpans(p) \/ Meter!Dies(p) \/ Meter!Corrects(p)
    BY <2>1
       DEF Meter!Begins, Meter!ReadsSpans, Meter!Dies, Meter!Corrects, Meter!metered, MeterTyped
  <2>2. CASE Meter!Inspects(p)
    <3>1. s.closed \in Wholes BY <2>2, MeterSweepTyped DEF Meter!Inspects
    <3> QED BY <2>2, <3>1 DEF Meter!Inspects, Meter!metered, MeterTyped
  <2>3. CASE Meter!WritesHour(p)
    <3>1. ASSUME NEW f, NEW r, NEW h, NEW n, f = [g \in Meter!Hours |-> f[g]], r = Meter!Record(f, h, n)
          PROVE  r = [g \in Meter!Hours |-> r[g]]
      BY <3>1 DEF Meter!Record
    <3>2. seconds' = seconds \/ \E h, n : seconds' = Meter!Record(seconds, h, n)
      BY <2>3 DEF Meter!WritesHour
    <3>3. disk' = disk \/ \E h, n : disk' = Meter!Record(disk, h, n)
      BY <2>3 DEF Meter!WritesHour
    <3>4. UNCHANGED <<mark, first, status, fooled>> BY <2>3 DEF Meter!WritesHour
    <3>5. seconds' = [h \in Meter!Hours |-> seconds'[h]] BY <3>1, <3>2 DEF MeterTyped
    <3>6. disk' = [h \in Meter!Hours |-> disk'[h]] BY <3>1, <3>3 DEF MeterTyped
    <3> QED BY <3>4, <3>5, <3>6 DEF MeterTyped
  <2>4. CASE Meter!MovesMark(p)
    <3>1. s.closed \in Wholes BY <2>4, MeterSweepTyped DEF Meter!MovesMark
    <3> QED BY <2>4, <3>1 DEF Meter!MovesMark, MeterTyped
  <2> QED BY <2>1, <2>2, <2>3, <2>4
<1>5. PICK u : /\ sweep' = [q \in Planes |-> sweep'[q]] /\ sweep'[p] = u
               /\ \A q \in Planes : q # p => sweep'[q] = sweep[q]
               /\ u = Meter!NoSweep \/ Shaped(u)
  <2>1. \A u : Meter!Set(p, u) => /\ sweep' = [q \in Planes |-> sweep'[q]] /\ sweep'[p] = u
                                  /\ \A q \in Planes : q # p => sweep'[q] = sweep[q]
    BY SetTyped
  <2>2. \E u : Meter!Set(p, u) /\ (u = Meter!NoSweep \/ Shaped(u))
    <3>1. CASE Meter!Begins(p)
      <4> DEFINE u == [at |-> IF status = "torn_down" THEN "spans" ELSE "inspect", row |-> status,
                       now |-> IF status = "torn_down" THEN 0 ELSE tick, closed |-> Meter!HourOf(tick),
                       mark |-> mark, hour |-> mark, alive |-> destroyed,
                       up |-> FALSE, lastUp |-> 0, lastDown |-> 0, spans |-> <<>>]
      <4>1. Meter!Set(p, u) /\ (status = "torn_down" => mark # Never) BY <3>1 DEF Meter!Begins
      <4>2. Meter!HourOf(tick) \in Wholes BY <1>1, MeterBounds
      <4>3. u \in SweepRow(u) BY <1>1, <4>2 DEF MeterTyped, SweepRow
      <4>4. Shaped(u) BY <4>1, <4>3 DEF Shaped
      <4> QED BY <4>1, <4>4
    <3>2. CASE Meter!Inspects(p)
      <4>1. s.at # "idle" /\ s.at = "inspect" BY <3>2 DEF Meter!Inspects
      <4> DEFINE u == [s EXCEPT !.at = "correct", !.up = up, !.lastUp = lastUp, !.lastDown = lastDown]
      <4>2. Meter!Set(p, Meter!NoSweep) \/ (s.mark # Never /\ Meter!Set(p, u))
        BY <3>2 DEF Meter!Inspects
      <4>3. s \in SweepRow(s) /\ Shaped(s) BY <4>1, MeterSweepTyped
      <4>4. u \in SweepRow(u) BY <1>1, <4>3 DEF SweepRow
      <4>5. s.mark # Never => Shaped(u) BY <4>3, <4>4 DEF Shaped, SweepRow
      <4> QED BY <4>2, <4>5
    <3>3. CASE Meter!Corrects(p)
      <4>1. s.at # "idle" /\ s.at = "correct" BY <3>3 DEF Meter!Corrects
      <4> DEFINE u == Meter!Corrected(s)
      <4>2. Meter!Set(p, Meter!NoSweep) \/ Meter!Set(p, u) BY <3>3 DEF Meter!Corrects
      <4>3. s \in SweepRow(s) /\ Shaped(s) BY <4>1, MeterSweepTyped
      <4>4. u \in SweepRow(u) BY <1>1, <4>3 DEF SweepRow, Meter!Corrected
      <4>5. Shaped(u) BY <4>1, <4>3, <4>4 DEF Shaped, SweepRow, Meter!Corrected
      <4> QED BY <4>2, <4>5
    <3>4. CASE Meter!ReadsSpans(p)
      <4>1. s.at # "idle" /\ s.at = "spans" BY <3>4 DEF Meter!ReadsSpans
      <4> DEFINE l == Meter!Spans(Meter!LifecycleEvents(s.mark), s.closed)
                 u == [s EXCEPT !.at = IF s.hour < s.closed THEN "hours" ELSE "mark", !.spans = l]
      <4>2. Meter!Set(p, u) BY <3>4 DEF Meter!ReadsSpans
      <4>3. s \in SweepRow(s) /\ Shaped(s) BY <4>1, MeterSweepTyped
      <4> HIDE DEF l
      <4>4. u \in SweepRow(u) BY <4>3 DEF SweepRow
      <4>5. Shaped(u) BY <4>1, <4>3, <4>4 DEF Shaped, SweepRow
      <4> QED BY <4>2, <4>5
    <3>5. CASE Meter!WritesHour(p)
      <4>1. s.at # "idle" /\ s.at = "hours" BY <3>5 DEF Meter!WritesHour
      <4> DEFINE k == s.hour + HourTicks
                 u == [s EXCEPT !.hour = k, !.at = IF k < s.closed THEN "hours" ELSE "mark"]
      <4>2. Meter!Set(p, Meter!NoSweep) \/ Meter!Set(p, u) BY <3>5 DEF Meter!WritesHour
      <4>3. s \in SweepRow(s) /\ Shaped(s) BY <4>1, MeterSweepTyped
      <4>4. k \in Wholes
        <5>1. s.hour < s.closed /\ s.hour \in Wholes /\ s.closed \in Wholes
          BY <4>1, <4>3 DEF Shaped, SweepRow
        <5>2. PICK h \in Meter!Hours : s.hour = Meter!Start(h) BY <5>1 DEF Wholes
        <5> QED BY <5>1, <5>2, WholesAre
      <4> HIDE DEF k
      <4>5. u \in SweepRow(u) BY <4>3, <4>4 DEF SweepRow
      <4>6. Shaped(u) BY <1>1, <4>1, <4>3, <4>4, <4>5 DEF Shaped, SweepRow
      <4> QED BY <4>2, <4>6 DEF k
    <3>6. CASE Meter!MovesMark(p) \/ Meter!Dies(p) BY <3>6 DEF Meter!MovesMark, Meter!Dies
    <3> QED BY <3>1, <3>2, <3>3, <3>4, <3>5, <3>6
  <2> QED BY <2>1, <2>2
<1>6. \A q \in Planes : sweep'[q] = Meter!NoSweep \/ Shaped(sweep'[q])
  BY <1>5 DEF MeterTyped
<1>7. \A q \in Planes : Shaped(sweep'[q]) <=> Shaped(sweep[q])'
  BY DEF Shaped, SweepRow
<1>8. tick' \in Meter!Times /\ up' \in BOOLEAN /\ {lastUp', lastDown'} \subseteq Meter!Times
      /\ destroyed' \in Meter!Times \cup {Never} /\ was' \subseteq Meter!Times
  BY <1>1, <1>2 DEF MeterTyped
<1> QED BY <1>3, <1>4, <1>5, <1>6, <1>7, <1>8 DEF MeterTyped

LEMMA MeterTypedNext == MeterTyped /\ [Meter!Next]_(Meter!vars) => MeterTyped'
<1> SUFFICES ASSUME MeterTyped, [Meter!Next]_(Meter!vars) PROVE MeterTyped' OBVIOUS
<1>1. CASE UNCHANGED Meter!vars
  BY <1>1 DEF Meter!vars, Meter!machine, MeterTyped, Shaped, SweepRow
<1>2. CASE Meter!Next
  BY <1>2, MachineTyped, SweepingTyped DEF Meter!Next
<1> QED BY <1>1, <1>2

Ticks(h) == {t \in was : Meter!Start(h) <= t /\ t < Meter!Start(h + 1)}
HeldIn(h) == IF destroyed = Never \/ destroyed >= Meter!Start(h + 1) THEN HourTicks ELSE destroyed - Meter!Start(h)

(* What was stays, and so does what is written of it.                      *)
LEMMA WhatStays ==
  ASSUME MeterTyped, MachineKept, [Meter!Next]_(Meter!vars)
  PROVE  /\ tick' = tick \/ tick' = tick + 1
         /\ \A t \in Nat : t < tick => (t \in was' <=> t \in was)
         /\ fooled => fooled'
         /\ \/ destroyed' = destroyed /\ (status' = "torn_down" <=> status = "torn_down")
            \/ destroyed = Never /\ destroyed' = tick /\ status' = "torn_down"
         /\ \A h \in Meter!Hours : /\ seconds[h] # Meter!NoRow => seconds'[h] = seconds[h]
                                   /\ disk[h] # Meter!NoRow => disk'[h] = disk[h]
<1>1. tick \in Nat /\ Never \notin Nat BY MeterBounds, WholesAre DEF MeterTyped
<1>2. CASE UNCHANGED Meter!vars
  BY <1>2 DEF Meter!vars, Meter!machine
<1>3. CASE Meter!Starts \/ Meter!Stops \/ Meter!Unseen \/ Meter!RowCorrected
  <2>1. CASE Meter!Starts BY <2>1 DEF Meter!Starts, Meter!Moves, Meter!metered
  <2>2. CASE Meter!Stops BY <2>2 DEF Meter!Stops, Meter!Moves, Meter!metered
  <2>3. CASE Meter!Unseen BY <2>3 DEF Meter!Unseen, Meter!Moves, Meter!metered
  <2>4. CASE Meter!RowCorrected BY <2>4 DEF Meter!RowCorrected, Meter!machine, Meter!metered
  <2> QED BY <1>3, <2>1, <2>2, <2>3, <2>4
<1>4. CASE Meter!TearsDown
  BY <1>4 DEF Meter!TearsDown, Meter!Moves, Meter!machine, Meter!metered, MachineKept
<1>5. CASE Meter!Tick
  BY <1>1, <1>5 DEF Meter!Tick, Meter!metered
<1>6. ASSUME NEW p \in Planes, Meter!Begins(p) \/ Meter!Inspects(p) \/ Meter!Corrects(p) \/ Meter!ReadsSpans(p)
                               \/ Meter!MovesMark(p) \/ Meter!Dies(p)
      PROVE  UNCHANGED <<tick, was, destroyed, seconds, disk>> /\ (fooled => fooled')
             /\ (status' = "torn_down" <=> status = "torn_down")
  <2>1. UNCHANGED <<tick, was, destroyed, seconds, disk>>
    BY <1>6 DEF Meter!Begins, Meter!Inspects, Meter!Corrects, Meter!ReadsSpans, Meter!MovesMark,
       Meter!Dies, Meter!world, Meter!machine, Meter!metered
  <2>2. fooled => fooled'
    BY <1>6 DEF Meter!Begins, Meter!Inspects, Meter!Corrects, Meter!ReadsSpans, Meter!MovesMark,
       Meter!Dies
  <2>3. status' = "torn_down" <=> status = "torn_down"
    BY <1>6 DEF Meter!Begins, Meter!Inspects, Meter!Corrects, Meter!ReadsSpans, Meter!MovesMark,
       Meter!Dies
  <2> QED BY <2>1, <2>2, <2>3
<1>7. ASSUME NEW p \in Planes, Meter!WritesHour(p)
      PROVE  /\ UNCHANGED <<tick, was, destroyed, status, fooled>>
             /\ \A h \in Meter!Hours : /\ seconds[h] # Meter!NoRow => seconds'[h] = seconds[h]
                                       /\ disk[h] # Meter!NoRow => disk'[h] = disk[h]
  <2>1. UNCHANGED <<tick, was, destroyed, status, fooled>>
    BY <1>7 DEF Meter!WritesHour, Meter!world, Meter!machine
  <2>2. ASSUME NEW f, f = [g \in Meter!Hours |-> f[g]], NEW k, NEW n, NEW h \in Meter!Hours, f[h] # Meter!NoRow
        PROVE  Meter!Record(f, k, n)[h] = f[h]
    BY <2>2 DEF Meter!Record
  <2>3. seconds' = seconds \/ \E k, n : seconds' = Meter!Record(seconds, k, n)
    BY <1>7 DEF Meter!WritesHour
  <2>4. disk' = disk \/ \E k, n : disk' = Meter!Record(disk, k, n)
    BY <1>7 DEF Meter!WritesHour
  <2>5. \A h \in Meter!Hours : seconds[h] # Meter!NoRow => seconds'[h] = seconds[h]
    BY <2>2, <2>3 DEF MeterTyped
  <2>6. \A h \in Meter!Hours : disk[h] # Meter!NoRow => disk'[h] = disk[h]
    BY <2>2, <2>4 DEF MeterTyped
  <2> QED BY <2>1, <2>5, <2>6
<1>8. CASE \E p \in Planes : Meter!Begins(p) \/ Meter!Inspects(p) \/ Meter!Corrects(p) \/ Meter!ReadsSpans(p)
                             \/ Meter!MovesMark(p) \/ Meter!Dies(p)
  BY <1>6, <1>8
<1>9. CASE \E p \in Planes : Meter!WritesHour(p)
  BY <1>7, <1>9
<1> QED BY <1>2, <1>3, <1>4, <1>5, <1>8, <1>9 DEF Meter!Next

LEMMA MachineInit == Meter!Init => MachineKept
BY MeterBounds DEF Meter!Init, MachineKept

LEMMA MachineNext ==
  ASSUME MeterTyped, MachineKept, [Meter!Next]_(Meter!vars)
  PROVE  MachineKept'
<1>1. tick \in Nat /\ Never \notin Nat /\ lastUp \in Nat /\ lastDown \in Nat
      /\ (destroyed # Never => destroyed \in Nat) /\ was \subseteq Nat
  BY MeterBounds, WholesAre DEF MeterTyped
<1>2. CASE UNCHANGED Meter!vars
  BY <1>2 DEF Meter!vars, Meter!machine, MachineKept
<1>3. CASE Meter!Starts \/ Meter!Stops \/ Meter!Unseen \/ Meter!RowCorrected
  <2>1. CASE Meter!Starts BY <1>1, <2>1 DEF Meter!Starts, Meter!Moves, MachineKept
  <2>2. CASE Meter!Stops BY <1>1, <2>2 DEF Meter!Stops, Meter!Moves, MachineKept
  <2>3. CASE Meter!Unseen BY <1>1, <2>3 DEF Meter!Unseen, Meter!Moves, MachineKept
  <2>4. CASE Meter!RowCorrected BY <1>1, <2>4 DEF Meter!RowCorrected, Meter!machine, MachineKept
  <2> QED BY <1>3, <2>1, <2>2, <2>3, <2>4
<1>4. CASE Meter!TearsDown
  <2>1. tick' = tick /\ destroyed' = tick /\ status' = "torn_down" /\ was' = was
    BY <1>4 DEF Meter!TearsDown, Meter!Moves, Meter!machine
  <2>2. ~up' /\ lastUp' = lastUp /\ (lastDown' = lastDown \/ lastDown' = tick)
    BY <1>4 DEF Meter!TearsDown, Meter!Moves, Meter!machine, MeterTyped
  <2> QED BY <1>1, <2>1, <2>2 DEF MachineKept
<1>5. CASE Meter!Tick
  <2>1. tick' = tick + 1 /\ UNCHANGED <<up, lastUp, lastDown, status, destroyed>>
        /\ \A t \in was' : t \in was \/ t = tick
    BY <1>5 DEF Meter!Tick
  <2>2. lastUp <= tick + 1 /\ lastDown <= tick + 1 /\ (destroyed # Never => destroyed <= tick + 1)
    BY <1>1 DEF MachineKept
  <2>3. ASSUME NEW t \in was' PROVE t < tick + 1
    <3>1. CASE t \in was
      <4>1. t < tick /\ t \in Nat BY <1>1, <3>1 DEF MachineKept
      <4> QED BY <1>1, <4>1
    <3>2. CASE t = tick BY <1>1, <3>2
    <3> QED BY <2>1, <3>1, <3>2
  <2> QED BY <2>1, <2>2, <2>3 DEF MachineKept
<1>6. ASSUME NEW p \in Planes, Meter!Begins(p) \/ Meter!Inspects(p) \/ Meter!Corrects(p) \/ Meter!ReadsSpans(p)
                               \/ Meter!WritesHour(p) \/ Meter!MovesMark(p) \/ Meter!Dies(p)
      PROVE  MachineKept'
  <2>1. UNCHANGED <<tick, up, lastUp, lastDown, was, destroyed>>
    BY <1>6 DEF Meter!Begins, Meter!Inspects, Meter!Corrects, Meter!ReadsSpans,
       Meter!WritesHour, Meter!MovesMark, Meter!Dies, Meter!world, Meter!machine
  <2>2. status' = "torn_down" <=> status = "torn_down"
    BY <1>6 DEF Meter!Begins, Meter!Inspects, Meter!Corrects, Meter!ReadsSpans,
       Meter!WritesHour, Meter!MovesMark, Meter!Dies
  <2> QED BY <2>1, <2>2 DEF MachineKept
<1> QED BY <1>2, <1>3, <1>4, <1>5, <1>6 DEF Meter!Next

(* The substrate is asked, and answered at once.                           *)
Fresh(s) ==
    \/ s.up = up /\ Changed = IF s.up THEN s.lastUp ELSE s.lastDown
    \/ Changed = tick /\ (Meter!Last(log).up # s.up => Meter!Last(log).when = tick)
Answered(s) == s.at \in {"inspect", "correct"} => s.now = tick /\ s.row # "torn_down"
SweepLog(s) ==
    /\ s.at = "correct" /\ status # "torn_down" => Fresh(s)
    /\ s.at = "spans" => (Meter!Missed => s.closed <= Changed)
    /\ s.at \in {"hours", "mark"} =>
         \A h \in Meter!Hours : s.mark <= Meter!Start(h) /\ Meter!Start(h) < s.closed =>
             Meter!Overlap(s.spans, Meter!Start(h), Meter!Start(h + 1)) = Cardinality(Ticks(h))

LEMMA ChangedIsPast ==
  ASSUME MeterTyped, MachineKept
  PROVE  tick \in Nat /\ Changed \in Nat /\ Changed <= tick /\ tick \in Meter!Times
BY MeterBounds, WholesAre DEF MeterTyped, MachineKept, Changed

LEMMA AfterLast ==
  ASSUME MeterTyped, LogRight, NEW t \in Nat, Meter!Last(log).when <= t
  PROVE  LogUpAt(t) <=> Meter!Last(log).up
<1>1. log \in Seq(EventRow) /\ Len(log) \in Nat /\ Len(log) # 0 /\ Ordered(log)
  BY DEF MeterTyped, LogRight
<1> DEFINE n == Len(log) - 1
<1>2. n \in Nat /\ n < Len(log) /\ n + 1 = Len(log) BY <1>1
<1>3. Meter!Last(log) = log[n + 1] BY <1>2 DEF Meter!Last
<1>4. Meter!Last(log).when \in Nat BY LastOfLog
<1>5. UpAt(log, n + 1, t) <=> IF t < log[n + 1].when THEN UpAt(log, n, t) ELSE log[n + 1].up
  <2> HIDE DEF n
  <2> QED BY <1>1, <1>2, UpAtNext
<1>6. ~(t < log[n + 1].when) BY <1>3, <1>4
<1>7. UpAt(log, n + 1, t) <=> Meter!Last(log).up BY <1>3, <1>5, <1>6
<1> QED BY <1>2, <1>7 DEF LogUpAt

LEMMA RightTillNow ==
  ASSUME MeterTyped, MachineKept, LogRight, ~Meter!Missed, NEW t \in Nat, t < tick
  PROVE  t \in was <=> LogUpAt(t)
<1>1. Changed \in Nat /\ Meter!Last(log).when = Changed BY ChangedIsPast DEF LogRight
<1>2. CASE t < Changed BY <1>2 DEF LogRight
<1>3. CASE ~(t < Changed)
  <2>1. LogUpAt(t) <=> Meter!Last(log).up BY <1>1, <1>3, AfterLast
  <2>2. t \in was <=> up BY <1>3 DEF LogRight
  <2> QED BY <2>1, <2>2, LastOfLog DEF Meter!Missed, MeterTyped
<1> QED BY <1>2, <1>3

LEMMA SameLog ==
  ASSUME LogRight, UNCHANGED <<log, tick, up, lastUp, lastDown, was, destroyed>>,
         status' = status \/ (status = "stopped" /\ status' = "running")
  PROVE  LogRight'
<1>1. Changed' = Changed BY DEF Changed
<1>2. Meter!Missed' = Meter!Missed BY DEF Meter!Missed
<1>3. \A t : LogUpAt(t)' = LogUpAt(t) BY DEF LogUpAt
<1> QED BY <1>1, <1>2, <1>3 DEF LogRight

LEMMA EventLogged ==
  ASSUME MeterTyped, MachineKept, LogRight, NEW e \in EventRow, log' = Append(log, e),
         Meter!Last(log).when <= e.when, e.when <= e.ts, tick' = tick, was' = was,
         e.when <= Changed', e.up = up' => e.when = Changed', status' = "torn_down" => e.up = up',
         \A t \in Nat : t < tick =>
           (t \in was <=> IF t < Changed' THEN (IF t < e.when THEN LogUpAt(t) ELSE e.up) ELSE up')
  PROVE  LogRight'
<1>1. \A i \in DOMAIN log : log[i].when <= log[i].ts /\ Ordered(log) BY DEF LogRight
<1>2. /\ Ordered(log') /\ \A i \in DOMAIN log' : log'[i].when <= log'[i].ts
      /\ Meter!Last(log') = e
      /\ \A t \in Nat : LogUpAt(t)' <=> IF t < e.when THEN LogUpAt(t) ELSE e.up
  <2>1. Ordered(log) /\ \A i \in DOMAIN log : log[i].when <= log[i].ts BY DEF LogRight
  <2> QED BY <2>1, Logged
<1>3. ~Meter!Missed' <=> e.up = up' BY <1>2 DEF Meter!Missed
<1>4. Meter!Last(log').when <= Changed' /\ (~Meter!Missed' => Meter!Last(log').when = Changed')
  BY <1>2, <1>3
<1>5. status' = "torn_down" => ~Meter!Missed' BY <1>3
<1>6. \A t \in Nat : t < tick' => (t \in was' <=> IF t < Changed' THEN LogUpAt(t)' ELSE up')
  BY <1>2
<1> QED BY <1>2, <1>4, <1>5, <1>6 DEF LogRight

LEMMA MachineLogs ==
  ASSUME MeterTyped, MeterTyped', MachineKept, MachineKept', LogRight, ~fooled',
         Meter!Starts \/ Meter!Stops \/ Meter!TearsDown \/ Meter!Unseen \/ Meter!RowCorrected \/ Meter!Tick
  PROVE  LogRight'
<1>1. tick \in Nat /\ Changed \in Nat /\ Changed <= tick /\ tick \in Meter!Times BY ChangedIsPast
<1>2. Meter!Last(log).when \in Nat /\ Meter!Last(log).when <= Changed /\ (~Meter!Missed => Meter!Last(log).when = Changed)
  BY LastOfLog DEF LogRight
<1>3. \A u \in BOOLEAN, w \in Nat : /\ Meter!Event(u, w) \in EventRow /\ Meter!Event(u, w).up = u
                                    /\ Meter!Event(u, w).when = w /\ Meter!Event(u, w).ts = tick
  BY <1>1 DEF Meter!Event, EventRow
<1>4. ASSUME NEW u \in BOOLEAN, ~Meter!Missed, up' = u, log' = Append(log, Meter!Event(u, tick)),
             tick' = tick, was' = was, Changed' = tick
      PROVE  LogRight'
  <2> DEFINE e == Meter!Event(u, tick)
  <2>1. e \in EventRow /\ e.up = u /\ e.when = tick /\ e.ts = tick BY <1>1, <1>3
  <2>2. \A t \in Nat : t < tick => (t \in was <=> LogUpAt(t)) BY <1>4, RightTillNow
  <2>3. Meter!Last(log).when <= e.when BY <1>1, <1>2, <2>1
  <2>4. e.when <= e.ts BY <1>1, <2>1
  <2> HIDE DEF e
  <2> QED BY <1>1, <1>4, <2>1, <2>2, <2>3, <2>4, EventLogged DEF e
<1>5. CASE Meter!Starts
  <2>1. ~Meter!Missed /\ status = "stopped" /\ status' = "running" BY <1>5 DEF Meter!Starts
  <2>2. /\ up' = TRUE /\ log' = Append(log, Meter!Event(TRUE, tick)) /\ tick' = tick /\ was' = was
        /\ lastUp' = tick
    BY <1>5, <2>1 DEF Meter!Starts, Meter!Moves
  <2>3. Changed' = tick BY <2>1, <2>2 DEF Changed
  <2> QED BY <1>4, <2>1, <2>2, <2>3
<1>6. CASE Meter!Stops
  <2>1. ~Meter!Missed /\ status' # "torn_down" BY <1>6 DEF Meter!Stops
  <2>2. /\ up' = FALSE /\ log' = Append(log, Meter!Event(FALSE, tick)) /\ tick' = tick /\ was' = was
        /\ lastDown' = tick
    BY <1>6 DEF Meter!Stops, Meter!Moves
  <2>3. Changed' = tick BY <2>1, <2>2 DEF Changed
  <2> QED BY <1>4, <2>1, <2>2, <2>3
<1>7. CASE Meter!TearsDown
  <2>1. ~Meter!Missed /\ status' = "torn_down" BY <1>7 DEF Meter!TearsDown
  <2>2. /\ up' = FALSE /\ log' = Append(log, Meter!Event(FALSE, tick)) /\ tick' = tick /\ was' = was
        /\ destroyed' = tick
    BY <1>7 DEF Meter!TearsDown, Meter!Moves, Meter!machine, MeterTyped
  <2>3. Changed' = tick BY <2>1, <2>2 DEF Changed
  <2> QED BY <1>4, <2>1, <2>2, <2>3
<1>8. CASE Meter!Unseen
  <2>1. ~Meter!Missed /\ status' = status /\ status # "torn_down" BY <1>8 DEF Meter!Unseen
  <2>2. /\ up' = ~up /\ log' = log /\ tick' = tick /\ was' = was
        /\ (up' => lastUp' = tick) /\ (~up' => lastDown' = tick)
    BY <1>8 DEF Meter!Unseen, Meter!Moves, MeterTyped
  <2>3. Changed' = tick BY <2>1, <2>2 DEF Changed
  <2>4. \A t \in Nat : t < tick => (t \in was <=> LogUpAt(t)) BY <2>1, RightTillNow
  <2>5. \A t : LogUpAt(t)' = LogUpAt(t) BY <2>2 DEF LogUpAt
  <2>6. Meter!Missed' BY <2>1, <2>2, LastOfLog DEF Meter!Missed, MeterTyped
  <2> QED BY <1>1, <1>2, <2>1, <2>2, <2>3, <2>4, <2>5, <2>6 DEF LogRight
<1>9. CASE Meter!RowCorrected
  <2> DEFINE e == Meter!Event(FALSE, lastDown)
  <2>1. /\ status = "running" /\ ~up /\ status' = "stopped" /\ log' = Append(log, e)
        /\ UNCHANGED <<tick, up, lastUp, lastDown, was, destroyed>>
    BY <1>9 DEF Meter!RowCorrected, Meter!machine
  <2>2. Changed = lastDown /\ Changed' = lastDown BY <2>1 DEF Changed
  <2>3. e \in EventRow /\ e.up = FALSE /\ e.when = lastDown /\ e.ts = tick BY <1>1, <1>3, <2>2
  <2>4. \A t \in Nat : t < tick => (t \in was <=> IF t < Changed THEN LogUpAt(t) ELSE up)
    BY DEF LogRight
  <2>5. Meter!Last(log).when <= e.when /\ e.when <= e.ts BY <1>1, <1>2, <2>2, <2>3
  <2>6. \A t \in Nat : t < tick =>
           (t \in was <=> IF t < Changed' THEN (IF t < e.when THEN LogUpAt(t) ELSE e.up) ELSE up')
    BY <2>1, <2>2, <2>3, <2>4
  <2>7. e.when <= Changed' /\ (e.up = up' => e.when = Changed') /\ status' # "torn_down"
    <3> HIDE DEF e
    <3>1. e.when = Changed' /\ Changed' \in Nat BY <1>1, <2>2, <2>3
    <3>2. status' # "torn_down" BY <2>1
    <3> QED BY <3>1, <3>2
  <2> HIDE DEF e
  <2> QED BY <2>1, <2>3, <2>5, <2>6, <2>7, EventLogged
<1>10. CASE Meter!Tick
  <2>1. /\ tick' = tick + 1 /\ UNCHANGED <<up, lastUp, lastDown, status, destroyed, log>>
        /\ \A t : t \in was' <=> t \in was \/ (t = tick /\ up)
    BY <1>10 DEF Meter!Tick
  <2>2. Changed' = Changed /\ Meter!Missed' = Meter!Missed /\ \A t : LogUpAt(t)' = LogUpAt(t)
    BY <2>1 DEF Changed, Meter!Missed, LogUpAt
  <2>3. ASSUME NEW t \in Nat, t < tick'
        PROVE  t \in was' <=> IF t < Changed' THEN LogUpAt(t)' ELSE up'
    <3>1. CASE t < tick BY <1>1, <2>1, <2>2, <3>1 DEF LogRight
    <3>2. CASE t = tick
      <4>1. t \notin was BY <1>1, <3>2 DEF MachineKept
      <4> QED BY <1>1, <2>1, <2>2, <3>2, <4>1
    <3> QED BY <1>1, <2>1, <2>3, <3>1, <3>2
  <2> QED BY <2>1, <2>2, <2>3 DEF LogRight
<1> QED BY <1>5, <1>6, <1>7, <1>8, <1>9, <1>10

(* A sweep that finds the log wrong writes down the change there was.       *)
LEMMA CorrectedAt ==
  ASSUME MeterTyped, MachineKept, LogRight, ~fooled', NEW p \in Planes, Answered(sweep[p]),
         sweep[p].at = "correct" /\ status # "torn_down" => Fresh(sweep[p]), Meter!Corrects(p),
         Meter!Last(log).up # sweep[p].up
  PROVE  /\ status # "torn_down" /\ Fresh(sweep[p]) /\ sweep[p].up \in BOOLEAN
         /\ Meter!Event(sweep[p].up, Changed) \in EventRow
         /\ log' = Append(log, Meter!Event(sweep[p].up, Changed))
<1> DEFINE s == sweep[p]
<1>1. tick \in Nat /\ Changed \in Nat /\ Changed <= tick BY ChangedIsPast
<1>2. Meter!Last(log).when \in Nat /\ Meter!Last(log).when <= Changed
  BY LastOfLog DEF LogRight
<1>3. s.at = "correct" BY DEF Meter!Corrects
<1>4. s.up \in BOOLEAN /\ s.lastUp \in Nat /\ s.lastDown \in Nat /\ s.mark \in Nat
  BY <1>3, MeterSweepTyped, MeterBounds, WholesAre DEF Shaped
<1>5. Meter!Last(Meter!LifecycleEvents(s.mark)) = Meter!Last(log) /\ Meter!LifecycleEvents(s.mark) # <<>>
  BY <1>4, EventsOfLog
<1> DEFINE x == IF s.up THEN s.lastUp ELSE s.lastDown
           w == Meter!Clamp(x, Meter!Last(log).when, s.now)
<1>6. log' = Append(log, Meter!Event(s.up, w)) /\ status # "torn_down"
  BY <1>5 DEF Meter!Corrects
<1>7. s.now = tick /\ Fresh(s) BY <1>3, <1>6 DEF Answered
<1>8. x \in Nat BY <1>4
<1>9. w = Changed
  <2>1. Fresh(s) <=> (s.up = up /\ Changed = x) \/ (Changed = tick /\ (Meter!Last(log).up # s.up => Meter!Last(log).when = tick))
    BY DEF Fresh
  <2> HIDE DEF x
  <2>2. CASE s.up = up /\ Changed = x BY <1>1, <1>2, <1>7, <1>8, <2>2 DEF Meter!Clamp
  <2>3. CASE Changed = tick /\ Meter!Last(log).when = tick
    BY <1>1, <1>2, <1>7, <1>8, <2>3 DEF Meter!Clamp
  <2> QED BY <1>7, <2>1, <2>2, <2>3
<1>10. Meter!Event(s.up, Changed) \in EventRow BY <1>1, <1>4 DEF Meter!Event, EventRow
<1> HIDE DEF w
<1> QED BY <1>4, <1>6, <1>7, <1>9, <1>10

LEMMA NotCorrected ==
  ASSUME MeterTyped, NEW p \in Planes, Meter!Corrects(p), Meter!Last(log).up = sweep[p].up
  PROVE  log' = log
<1>1. sweep[p].at = "correct" BY DEF Meter!Corrects
<1>2. sweep[p].mark \in Nat BY <1>1, MeterSweepTyped, WholesAre DEF Shaped
<1>3. Meter!Last(Meter!LifecycleEvents(sweep[p].mark)) = Meter!Last(log) BY <1>2, EventsOfLog
<1> QED BY <1>3 DEF Meter!Corrects

LEMMA SweepsLog ==
  ASSUME MeterTyped, MeterTyped', MachineKept, LogRight, ~fooled', NEW p \in Planes,
         Answered(sweep[p]), sweep[p].at = "correct" /\ status # "torn_down" => Fresh(sweep[p]),
         \/ Meter!Begins(p) \/ Meter!Inspects(p) \/ Meter!Corrects(p) \/ Meter!ReadsSpans(p)
         \/ Meter!WritesHour(p) \/ Meter!MovesMark(p) \/ Meter!Dies(p)
  PROVE  LogRight'
<1> DEFINE s == sweep[p]
           e == Meter!Event(s.up, Changed)
<1>1. tick \in Nat /\ Changed \in Nat /\ Changed <= tick BY ChangedIsPast
<1>2. Meter!Last(log).when \in Nat /\ Meter!Last(log).when <= Changed BY LastOfLog DEF LogRight
<1>3. UNCHANGED <<tick, up, lastUp, lastDown, was, destroyed>>
  BY DEF Meter!Begins, Meter!Inspects, Meter!Corrects, Meter!ReadsSpans, Meter!WritesHour,
     Meter!MovesMark, Meter!Dies, Meter!world, Meter!machine
<1>4. status' = status \/ (status = "stopped" /\ status' = "running")
  BY DEF Meter!Begins, Meter!Inspects, Meter!Corrects, Meter!ReadsSpans, Meter!WritesHour,
     Meter!MovesMark, Meter!Dies
<1>5. CASE log' = log BY <1>3, <1>4, <1>5, SameLog
<1>6. CASE log' # log
  <2>1. Meter!Corrects(p)
    BY <1>6 DEF Meter!Begins, Meter!Inspects, Meter!Corrects, Meter!ReadsSpans,
       Meter!WritesHour, Meter!MovesMark, Meter!Dies
  <2>2. Meter!Last(log).up # s.up BY <1>6, <2>1, NotCorrected
  <2>3. status # "torn_down" /\ s.up \in BOOLEAN /\ e \in EventRow /\ log' = Append(log, e)
    BY <2>1, <2>2, CorrectedAt
  <2>4. e.up = s.up /\ e.when = Changed /\ e.ts = tick BY DEF Meter!Event
  <2>5. Changed' = Changed BY <1>3, <1>4, <2>3 DEF Changed
  <2>6. \A t \in Nat : t < tick => (t \in was <=> IF t < Changed THEN LogUpAt(t) ELSE up)
    BY DEF LogRight
  <2>7. \A t \in Nat : t < tick =>
          (t \in was <=> IF t < Changed' THEN (IF t < e.when THEN LogUpAt(t) ELSE e.up) ELSE up')
    BY <1>3, <2>4, <2>5, <2>6
  <2>8. status' # "torn_down" BY <1>4, <2>3
  <2>9. Meter!Last(log).when <= e.when /\ e.when <= e.ts /\ e.when <= Changed' /\ e.when = Changed'
    BY <1>1, <1>2, <2>4, <2>5
  <2> HIDE DEF e
  <2> QED BY <1>3, <2>3, <2>7, <2>8, <2>9, EventLogged
<1> QED BY <1>5, <1>6

(* How a step moves what the log says last and what the machine did last.   *)
LEMMA LogMoves ==
  ASSUME MeterTyped, MachineKept, LogRight, ~fooled', [Meter!Next]_(Meter!vars),
         \A p \in Planes : /\ Answered(sweep[p])
                           /\ sweep[p].at = "correct" /\ status # "torn_down" => Fresh(sweep[p])
  PROVE  \/ log' = log /\ up' = up /\ Changed' = Changed
         \/ /\ up' = up /\ Changed' = Changed /\ Meter!Last(log').when = Changed
            /\ Meter!Missed' => Changed = tick
         \/ Changed' = tick /\ Meter!Last(log').when = tick /\ ~Meter!Missed'
         \/ Changed' = tick /\ log' = log /\ ~Meter!Missed /\ up' = ~up
<1>1. tick \in Nat /\ Changed \in Nat /\ Changed <= tick /\ tick \in Meter!Times BY ChangedIsPast
<1>2. ASSUME NEW u \in BOOLEAN, NEW w \in Nat, log' = Append(log, Meter!Event(u, w))
      PROVE  Meter!Last(log').when = w /\ Meter!Last(log').up = u
  <2>1. Meter!Event(u, w) \in EventRow BY <1>1 DEF Meter!Event, EventRow
  <2>2. Meter!Last(log') = Meter!Event(u, w) BY <1>2, <2>1, LogTyped
  <2> QED BY <2>2 DEF Meter!Event
<1>3. CASE UNCHANGED Meter!vars
  BY <1>3 DEF Meter!vars, Meter!machine, Changed
<1>4. CASE Meter!Tick
  BY <1>4 DEF Meter!Tick, Changed
<1>5. CASE Meter!Starts
  <2>1. ~Meter!Missed /\ status = "stopped" /\ status' = "running" BY <1>5 DEF Meter!Starts
  <2>2. up' = TRUE /\ log' = Append(log, Meter!Event(TRUE, tick)) /\ lastUp' = tick
    BY <1>5, <2>1 DEF Meter!Starts, Meter!Moves
  <2>3. Changed' = tick BY <2>1, <2>2 DEF Changed
  <2>4. Meter!Last(log').when = tick /\ Meter!Last(log').up = TRUE BY <1>1, <1>2, <2>2
  <2>5. ~Meter!Missed' BY <2>2, <2>4 DEF Meter!Missed
  <2> QED BY <2>3, <2>4, <2>5
<1>6. CASE Meter!Stops
  <2>1. status' # "torn_down" BY <1>6 DEF Meter!Stops
  <2>2. up' = FALSE /\ log' = Append(log, Meter!Event(FALSE, tick)) /\ lastDown' = tick
    BY <1>6 DEF Meter!Stops, Meter!Moves
  <2>3. Changed' = tick BY <2>1, <2>2 DEF Changed
  <2>4. Meter!Last(log').when = tick /\ Meter!Last(log').up = FALSE BY <1>1, <1>2, <2>2
  <2>5. ~Meter!Missed' BY <2>2, <2>4 DEF Meter!Missed
  <2> QED BY <2>3, <2>4, <2>5
<1>7. CASE Meter!TearsDown
  <2>1. status' = "torn_down" BY <1>7 DEF Meter!TearsDown
  <2>2. up' = FALSE /\ log' = Append(log, Meter!Event(FALSE, tick)) /\ destroyed' = tick
    BY <1>7 DEF Meter!TearsDown, Meter!Moves, Meter!machine, MeterTyped
  <2>3. Changed' = tick BY <2>1, <2>2 DEF Changed
  <2>4. Meter!Last(log').when = tick /\ Meter!Last(log').up = FALSE BY <1>1, <1>2, <2>2
  <2>5. ~Meter!Missed' BY <2>2, <2>4 DEF Meter!Missed
  <2> QED BY <2>3, <2>4, <2>5
<1>8. CASE Meter!Unseen
  <2>1. ~Meter!Missed /\ status' = status /\ status # "torn_down" BY <1>8 DEF Meter!Unseen
  <2>2. up' = ~up /\ log' = log /\ (up' => lastUp' = tick) /\ (~up' => lastDown' = tick)
    BY <1>8 DEF Meter!Unseen, Meter!Moves, MeterTyped
  <2>3. Changed' = tick BY <2>1, <2>2 DEF Changed
  <2> QED BY <2>1, <2>2, <2>3
<1>9. CASE Meter!RowCorrected
  <2>1. /\ status = "running" /\ ~up /\ status' = "stopped" /\ log' = Append(log, Meter!Event(FALSE, lastDown))
        /\ UNCHANGED <<up, lastDown>>
    BY <1>9 DEF Meter!RowCorrected, Meter!machine
  <2>2. Changed = lastDown /\ Changed' = lastDown BY <2>1 DEF Changed
  <2>3. Meter!Last(log').when = lastDown /\ Meter!Last(log').up = FALSE BY <1>1, <1>2, <2>1, <2>2
  <2>4. ~Meter!Missed' BY <2>1, <2>3 DEF Meter!Missed, MeterTyped
  <2> QED BY <2>1, <2>2, <2>3, <2>4
<1>10. ASSUME NEW p \in Planes,
              \/ Meter!Begins(p) \/ Meter!Inspects(p) \/ Meter!Corrects(p) \/ Meter!ReadsSpans(p)
              \/ Meter!WritesHour(p) \/ Meter!MovesMark(p) \/ Meter!Dies(p)
       PROVE  \/ log' = log /\ up' = up /\ Changed' = Changed
              \/ /\ up' = up /\ Changed' = Changed /\ Meter!Last(log').when = Changed
                 /\ Meter!Missed' => Changed = tick
  <2>1. UNCHANGED <<up, lastUp, lastDown, destroyed>> /\ (status' = "torn_down" <=> status = "torn_down")
    BY <1>10 DEF Meter!Begins, Meter!Inspects, Meter!Corrects, Meter!ReadsSpans,
       Meter!WritesHour, Meter!MovesMark, Meter!Dies, Meter!world, Meter!machine
  <2>2. Changed' = Changed BY <2>1 DEF Changed
  <2>3. CASE log' = log BY <2>1, <2>2, <2>3
  <2>4. CASE log' # log
    <3>1. Meter!Corrects(p)
      BY <1>10, <2>4 DEF Meter!Begins, Meter!Inspects, Meter!ReadsSpans, Meter!WritesHour,
         Meter!MovesMark, Meter!Dies
    <3>2. Meter!Last(log).up # sweep[p].up BY <2>4, <3>1, NotCorrected
    <3>3. /\ status # "torn_down" /\ Fresh(sweep[p]) /\ sweep[p].up \in BOOLEAN
          /\ log' = Append(log, Meter!Event(sweep[p].up, Changed))
      BY <3>1, <3>2, CorrectedAt
    <3>4. Meter!Last(log').when = Changed /\ Meter!Last(log').up = sweep[p].up BY <1>1, <1>2, <3>3
    <3>5. Meter!Missed' => Changed = tick BY <2>1, <3>3, <3>4 DEF Meter!Missed, Fresh
    <3> QED BY <2>1, <2>2, <3>4, <3>5
  <2> QED BY <2>3, <2>4
<1> QED BY <1>3, <1>4, <1>5, <1>6, <1>7, <1>8, <1>9, <1>10 DEF Meter!Next

LEMMA LogNext ==
  ASSUME MeterTyped, MeterTyped', MachineKept, MachineKept', LogRight, ~fooled', [Meter!Next]_(Meter!vars),
         \A p \in Planes : /\ Answered(sweep[p])
                           /\ sweep[p].at = "correct" /\ status # "torn_down" => Fresh(sweep[p])
  PROVE  LogRight'
<1>1. CASE UNCHANGED Meter!vars BY <1>1, SameLog DEF Meter!vars, Meter!machine
<1>2. CASE Meter!Starts \/ Meter!Stops \/ Meter!TearsDown \/ Meter!Unseen \/ Meter!RowCorrected \/ Meter!Tick
  BY <1>2, MachineLogs
<1>3. ASSUME NEW p \in Planes,
             \/ Meter!Begins(p) \/ Meter!Inspects(p) \/ Meter!Corrects(p) \/ Meter!ReadsSpans(p)
             \/ Meter!WritesHour(p) \/ Meter!MovesMark(p) \/ Meter!Dies(p)
      PROVE  LogRight'
  BY <1>3, SweepsLog
<1> QED BY <1>1, <1>2, <1>3 DEF Meter!Next

(* An hour that is over keeps its ticks and its disk.                       *)
LEMMA HourIsOver ==
  ASSUME MeterTyped, MeterTyped', MachineKept, [Meter!Next]_(Meter!vars),
         NEW h \in Meter!Hours, Meter!Start(h + 1) <= tick
  PROVE  Ticks(h)' = Ticks(h) /\ HeldIn(h)' = HeldIn(h)
<1>1. tick \in Nat /\ was \subseteq Nat /\ was' \subseteq Nat /\ Meter!Start(h + 1) \in Nat /\ Never \notin Nat
      /\ (destroyed # Never => destroyed \in Nat)
  BY MeterBounds, WholesAre DEF MeterTyped
<1>2. ASSUME NEW t \in Nat, t < Meter!Start(h + 1) PROVE t \in was' <=> t \in was
  BY <1>1, <1>2, WhatStays
<1>3. \A t : t \in Ticks(h)' <=> t \in Ticks(h) BY <1>1, <1>2 DEF Ticks
<1>4. Ticks(h)' = Ticks(h)
  <2> DEFINE a == Ticks(h)
             b == Ticks(h)'
  <2>1. a = {t \in a : TRUE} /\ b = {t \in b : TRUE} BY DEF Ticks
  <2> QED BY <1>3, <2>1
<1>5. HeldIn(h)' = HeldIn(h)
  <2>1. destroyed' = destroyed \/ (destroyed = Never /\ destroyed' = tick) BY WhatStays
  <2> QED BY <1>1, <2>1 DEF HeldIn
<1> QED BY <1>4, <1>5

LEMMA RowFields ==
  ASSUME NEW s, s \in SweepRow(s)
  PROVE  /\ \A u, a, b : LET r == [s EXCEPT !.at = "correct", !.up = u, !.lastUp = a, !.lastDown = b] IN
              /\ r.at = "correct" /\ r.up = u /\ r.lastUp = a /\ r.lastDown = b
              /\ r.row = s.row /\ r.now = s.now /\ r.closed = s.closed /\ r.mark = s.mark
              /\ r.hour = s.hour /\ r.alive = s.alive /\ r.spans = s.spans
         /\ LET r == Meter!Corrected(s) IN
              /\ r.at = "spans" /\ r.row = s.row /\ r.closed = s.closed /\ r.mark = s.mark
              /\ r.hour = s.hour /\ r.alive = s.alive /\ r.spans = s.spans
         /\ \A a, l : LET r == [s EXCEPT !.at = a, !.spans = l] IN
              /\ r.at = a /\ r.spans = l
              /\ r.row = s.row /\ r.closed = s.closed /\ r.mark = s.mark
              /\ r.hour = s.hour /\ r.alive = s.alive
         /\ \A k, a : LET r == [s EXCEPT !.hour = k, !.at = a] IN
              /\ r.at = a /\ r.hour = k
              /\ r.row = s.row /\ r.closed = s.closed /\ r.mark = s.mark
              /\ r.spans = s.spans /\ r.alive = s.alive
<1>1. DOMAIN s = {"at", "row", "now", "closed", "mark", "hour", "alive", "up", "lastUp", "lastDown", "spans"}
  BY DEF SweepRow
<1> QED BY <1>1 DEF Meter!Corrected

(* What a sweep holds stays true of the log, whoever moves.                 *)
LEMMA SweepLogStays ==
  ASSUME MeterTyped, MeterTyped', MachineKept, LogRight, LogRight', ~fooled', [Meter!Next]_(Meter!vars),
         \A p \in Planes : /\ Answered(sweep[p])
                           /\ sweep[p].at = "correct" /\ status # "torn_down" => Fresh(sweep[p]),
         NEW q \in Planes,
         sweep'[q] = sweep[q], sweep[q].at # "idle" => sweep[q].closed <= tick,
         SweepLog(sweep[q])
  PROVE  SweepLog(sweep[q])'
<1> DEFINE s == sweep[q]
<1>1. tick \in Nat /\ Changed \in Nat /\ Changed <= tick BY ChangedIsPast
<1>2. s.at # "idle" => s.closed \in Nat /\ s.closed \in Wholes BY MeterSweepTyped, WholesAre
<1>3. \/ log' = log /\ up' = up /\ Changed' = Changed
      \/ /\ up' = up /\ Changed' = Changed /\ Meter!Last(log').when = Changed
         /\ Meter!Missed' => Changed = tick
      \/ Changed' = tick /\ Meter!Last(log').when = tick /\ ~Meter!Missed'
      \/ Changed' = tick /\ log' = log /\ ~Meter!Missed /\ up' = ~up
  BY LogMoves
<1>4. ASSUME s.at = "correct", status' # "torn_down" PROVE Fresh(s)'
  <2>1. status # "torn_down" BY <1>4, WhatStays
  <2>2. Fresh(s) BY <1>4, <2>1 DEF SweepLog
  <2>3. tick' = tick
    <3>1. CASE Meter!Tick BY <1>4, <3>1 DEF Meter!Tick
    <3>2. CASE ~Meter!Tick
      BY <3>2 DEF Meter!vars, Meter!Next, Meter!Starts, Meter!Stops, Meter!TearsDown,
         Meter!Unseen, Meter!RowCorrected, Meter!Begins, Meter!Inspects, Meter!Corrects,
                  Meter!ReadsSpans, Meter!WritesHour, Meter!MovesMark, Meter!Dies, Meter!world
    <3> QED BY <3>1, <3>2
  <2>4. CASE log' = log /\ up' = up /\ Changed' = Changed
    BY <2>2, <2>3, <2>4 DEF Fresh
  <2>5. CASE up' = up /\ Changed' = Changed /\ Meter!Last(log').when = Changed
    BY <2>2, <2>3, <2>5 DEF Fresh
  <2>6. CASE Changed' = tick /\ Meter!Last(log').when = tick
    BY <2>3, <2>6 DEF Fresh
  <2>7. CASE Changed' = tick /\ log' = log /\ ~Meter!Missed /\ up' = ~up
    <3>1. s.up \in BOOLEAN BY <1>4, MeterSweepTyped
    <3>2. Meter!Last(log).up = up /\ up \in BOOLEAN BY <2>7 DEF Meter!Missed, MeterTyped
    <3>3. Meter!Last(log).up # s.up => Meter!Last(log).when = tick BY <2>2, <3>1, <3>2 DEF Fresh
    <3> QED BY <2>3, <2>7, <3>3 DEF Fresh
  <2> QED BY <1>3, <2>4, <2>5, <2>6, <2>7
<1>5. ASSUME s.at = "spans", Meter!Missed' PROVE s.closed <= Changed'
  <2>1. s.closed <= tick /\ (Meter!Missed => s.closed <= Changed) BY <1>5 DEF SweepLog
  <2>2. CASE log' = log /\ up' = up /\ Changed' = Changed
    BY <1>5, <2>1, <2>2 DEF Meter!Missed
  <2>3. CASE Changed' = tick BY <2>1, <2>3
  <2>4. CASE Changed' = Changed /\ Changed = tick BY <2>1, <2>4
  <2> QED BY <1>3, <1>5, <2>2, <2>3, <2>4
<1>6. ASSUME s.at \in {"hours", "mark"}, NEW h \in Meter!Hours, s.mark <= Meter!Start(h), Meter!Start(h) < s.closed
      PROVE  Meter!Overlap(s.spans, Meter!Start(h), Meter!Start(h + 1)) = Cardinality(Ticks(h)')
  <2>1. Meter!Start(h + 1) <= tick BY <1>1, <1>2, <1>6, WholesAre
  <2>2. Ticks(h)' = Ticks(h) BY <2>1, HourIsOver
  <2> QED BY <1>6, <2>2 DEF SweepLog
<1> QED BY <1>4, <1>5, <1>6, <1>1 DEF SweepLog

LEMMA SweepLogMade ==
  ASSUME MeterTyped, MeterTyped', MachineKept, LogRight, LogRight', ~fooled', [Meter!Next]_(Meter!vars),
         \A q \in Planes : /\ Answered(sweep[q])
                           /\ sweep[q].at = "correct" /\ status # "torn_down" => Fresh(sweep[q]),
         NEW p \in Planes, sweep[p].at # "idle" => sweep[p].closed <= tick, SweepLog(sweep[p]),
         \/ Meter!Begins(p) \/ Meter!Inspects(p) \/ Meter!Corrects(p) \/ Meter!ReadsSpans(p)
         \/ Meter!WritesHour(p) \/ Meter!MovesMark(p) \/ Meter!Dies(p)
  PROVE  SweepLog(sweep[p])'
<1> DEFINE s == sweep[p]
           r == sweep'[p]
<1>1. tick \in Nat /\ Changed \in Nat /\ Changed <= tick BY ChangedIsPast
<1>2. UNCHANGED <<tick, up, lastUp, lastDown, was, destroyed>> /\ (status' = "torn_down" <=> status = "torn_down")
  BY DEF Meter!Begins, Meter!Inspects, Meter!Corrects, Meter!ReadsSpans, Meter!WritesHour,
     Meter!MovesMark, Meter!Dies, Meter!world, Meter!machine
<1>3. Changed' = Changed BY <1>2 DEF Changed
<1>4. \A u : Meter!Set(p, u) => r = u BY SetTyped
<1>5. s.at # "idle" => s \in SweepRow(s) /\ s.closed \in Nat /\ s.closed <= tick
  BY MeterSweepTyped, WholesAre
<1>6. r.at = "idle" => SweepLog(sweep[p])' BY DEF SweepLog
<1>7. CASE Meter!Begins(p)
  <2>1. r.at = IF status = "torn_down" THEN "spans" ELSE "inspect" BY <1>4, <1>7 DEF Meter!Begins
  <2>2. status' = "torn_down" => ~Meter!Missed' BY DEF LogRight
  <2> QED BY <1>2, <2>1, <2>2 DEF SweepLog
<1>8. CASE Meter!Inspects(p)
  <2>1. s.at = "inspect" BY <1>8 DEF Meter!Inspects
  <2>2. \/ r = Meter!NoSweep
        \/ r = [s EXCEPT !.at = "correct", !.up = up, !.lastUp = lastUp, !.lastDown = lastDown]
    BY <1>4, <1>8 DEF Meter!Inspects
  <2>3. \/ r.at = "idle"
        \/ r.at = "correct" /\ r.up = up /\ r.lastUp = lastUp /\ r.lastDown = lastDown
    <3>1. CASE r = Meter!NoSweep BY <3>1 DEF Meter!NoSweep
    <3>2. CASE r = [s EXCEPT !.at = "correct", !.up = up, !.lastUp = lastUp, !.lastDown = lastDown]
      <4>1. s \in SweepRow(s) BY <1>5, <2>1
      <4> HIDE DEF s, r
      <4> QED BY <3>2, <4>1, RowFields
    <3> QED BY <2>2, <3>1, <3>2
  <2>4. CASE r.at = "idle" BY <1>6, <2>4
  <2>5. CASE r.at = "correct" /\ r.up = up /\ r.lastUp = lastUp /\ r.lastDown = lastDown
    <3>1. status' # "torn_down" => Changed' = IF r.up THEN r.lastUp ELSE r.lastDown
      BY <1>2, <1>3, <2>5 DEF Changed
    <3> QED BY <1>2, <2>5, <3>1 DEF SweepLog, Fresh
  <2> QED BY <2>3, <2>4, <2>5
<1>9. CASE Meter!Corrects(p)
  <2>1. s.at = "correct" BY <1>9 DEF Meter!Corrects
  <2>2. r = Meter!NoSweep \/ r = Meter!Corrected(s) BY <1>4, <1>9 DEF Meter!Corrects
  <2>3. r.at = "idle" \/ (r.at = "spans" /\ r.closed = s.closed)
    BY <1>5, <2>1, <2>2, RowFields DEF Meter!NoSweep
  <2>4. ASSUME Meter!Missed' PROVE Changed' = tick
    <3>1. status # "torn_down" BY <1>2, <2>4 DEF LogRight
    <3>2. Fresh(s) BY <2>1, <3>1
    <3>3. s.up # up
      <4>1. CASE Meter!Last(log).up = s.up
        <5>1. log' = log BY <1>9, <4>1, NotCorrected
        <5> QED BY <1>2, <2>4, <4>1, <5>1 DEF Meter!Missed
      <4>2. CASE Meter!Last(log).up # s.up
        <5>1. s.up \in BOOLEAN /\ Meter!Event(s.up, Changed) \in EventRow /\ log' = Append(log, Meter!Event(s.up, Changed))
          BY <1>9, <4>2, CorrectedAt
        <5>2. Meter!Last(log').up = s.up BY <5>1, LogTyped DEF Meter!Event
        <5> QED BY <1>2, <2>4, <5>2 DEF Meter!Missed
      <4> QED BY <4>1, <4>2
    <3> QED BY <1>3, <3>2, <3>3 DEF Fresh
  <2>5. CASE r.at = "idle" BY <1>6, <2>5
  <2>6. CASE r.at = "spans" /\ r.closed = s.closed
    BY <1>5, <2>1, <2>4, <2>6 DEF SweepLog
  <2> QED BY <2>3, <2>5, <2>6
<1>10. CASE Meter!ReadsSpans(p)
  <2> DEFINE l == Meter!Spans(Meter!LifecycleEvents(s.mark), s.closed)
  <2>1. s.at = "spans" BY <1>10 DEF Meter!ReadsSpans
  <2>2. r = [s EXCEPT !.at = IF s.hour < s.closed THEN "hours" ELSE "mark", !.spans = l]
    BY <1>4, <1>10 DEF Meter!ReadsSpans
  <2>3. s.mark \in Nat BY <2>1, MeterSweepTyped, WholesAre DEF Shaped
  <2>4. Neat(l) /\ \A t \in Nat : s.mark <= t /\ t < s.closed => (In(l, t) <=> LogUpAt(t))
    BY <1>5, <2>1, <2>3, SpansOfLog
  <2> HIDE DEF l
  <2>5. r.at \in {"hours", "mark"} /\ r.spans = l /\ r.mark = s.mark /\ r.closed = s.closed
    BY <1>5, <2>1, <2>2 DEF SweepRow
  <2>6. ASSUME NEW t \in Nat, t < s.closed PROVE t \in was <=> LogUpAt(t)
    <3>1. t < tick BY <1>1, <1>5, <2>1, <2>6
    <3>2. CASE ~Meter!Missed BY <3>1, <3>2, RightTillNow
    <3>3. CASE Meter!Missed
      <4>1. s.closed <= Changed BY <2>1, <3>3 DEF SweepLog
      <4>2. t < Changed BY <1>1, <1>5, <2>1, <2>6, <4>1
      <4> QED BY <3>1, <4>2 DEF LogRight
    <3> QED BY <3>2, <3>3
  <2>7. ASSUME NEW h \in Meter!Hours, s.mark <= Meter!Start(h), Meter!Start(h) < s.closed
        PROVE  Meter!Overlap(l, Meter!Start(h), Meter!Start(h + 1)) = Cardinality(Ticks(h)')
    <3>1. Meter!Start(h) \in Nat /\ Meter!Start(h + 1) \in Nat /\ Meter!Start(h + 1) <= s.closed
      BY <2>1, <2>7, MeterSweepTyped, WholesAre
    <3> DEFINE c == {t \in Meter!Start(h)..(Meter!Start(h + 1) - 1) : In(l, t)}
    <3>2. Meter!Overlap(l, Meter!Start(h), Meter!Start(h + 1)) = Cardinality(c)
      BY <2>4, <3>1, OverlapCounts
    <3>3. \A t : t \in c <=> t \in Ticks(h)
      <4>1. was \subseteq Nat BY WholesAre DEF MeterTyped
      <4>2. ASSUME NEW t \in Nat, Meter!Start(h) <= t, t < Meter!Start(h + 1) PROVE In(l, t) <=> t \in was
        <5>1. s.mark <= t /\ t < s.closed BY <1>5, <2>1, <2>3, <2>7, <3>1, <4>2
        <5> QED BY <2>4, <2>6, <5>1
      <4>3. \A t : t \in c <=> t \in Nat /\ Meter!Start(h) <= t /\ t < Meter!Start(h + 1) /\ In(l, t)
        BY <3>1
      <4>4. \A t : t \in Ticks(h) <=> t \in Nat /\ Meter!Start(h) <= t /\ t < Meter!Start(h + 1) /\ t \in was
        BY <4>1 DEF Ticks
      <4> HIDE DEF c
      <4> QED BY <4>2, <4>3, <4>4
    <3>4. Ticks(h)' = Ticks(h) BY <1>2 DEF Ticks
    <3>5. c = Ticks(h) BY <3>3 DEF Ticks
    <3> QED BY <3>2, <3>4, <3>5
  <2> QED BY <2>5, <2>7 DEF SweepLog
<1>11. CASE Meter!WritesHour(p)
  <2>1. s.at = "hours" BY <1>11 DEF Meter!WritesHour
  <2>2. \/ r = Meter!NoSweep
        \/ \E k : r = [s EXCEPT !.hour = k, !.at = IF k < s.closed THEN "hours" ELSE "mark"]
    BY <1>4, <1>11 DEF Meter!WritesHour
  <2>3. \/ r.at = "idle"
        \/ r.at \in {"hours", "mark"} /\ r.spans = s.spans /\ r.mark = s.mark /\ r.closed = s.closed
    <3>1. CASE r = Meter!NoSweep BY <3>1 DEF Meter!NoSweep
    <3>2. ASSUME NEW k, r = [s EXCEPT !.hour = k, !.at = IF k < s.closed THEN "hours" ELSE "mark"]
          PROVE  r.at \in {"hours", "mark"} /\ r.spans = s.spans /\ r.mark = s.mark /\ r.closed = s.closed
      <4> DEFINE a == IF k < s.closed THEN "hours" ELSE "mark"
      <4>1. a \in {"hours", "mark"} OBVIOUS
      <4>2. s \in SweepRow(s) /\ r = [s EXCEPT !.hour = k, !.at = a] BY <1>5, <2>1, <3>2
      <4> HIDE DEF a, s, r
      <4> QED BY <4>1, <4>2, RowFields
    <3> QED BY <2>2, <3>1, <3>2
  <2>4. \A h \in Meter!Hours : Ticks(h)' = Ticks(h) BY <1>2 DEF Ticks
  <2>5. CASE r.at = "idle" BY <1>6, <2>5
  <2>6. CASE r.at \in {"hours", "mark"} /\ r.spans = s.spans /\ r.mark = s.mark /\ r.closed = s.closed
    BY <2>1, <2>4, <2>6 DEF SweepLog
  <2> QED BY <2>3, <2>5, <2>6
<1>12. CASE Meter!MovesMark(p) \/ Meter!Dies(p)
  <2>1. r = Meter!NoSweep BY <1>4, <1>12 DEF Meter!MovesMark, Meter!Dies
  <2> QED BY <1>6, <2>1 DEF Meter!NoSweep
<1> QED BY <1>7, <1>8, <1>9, <1>10, <1>11, <1>12

-----------------------------------------------------------------------------
(* What is paid. *)
Paid(h) ==
    /\ ~fooled => Meter!Amount(seconds[h]) = Cardinality(Ticks(h))
    /\ destroyed = Never \/ Meter!Start(h) <= destroyed => Meter!Amount(disk[h]) = HeldIn(h)
PaidTo(t) ==
    /\ t \in Wholes /\ t <= tick /\ first \in Wholes
    /\ \A h \in Meter!Hours : first <= Meter!Start(h) /\ Meter!Start(h) < t => Paid(h)
RowsRight ==
    \A h \in Meter!Hours :
      /\ seconds[h] # Meter!NoRow => Meter!Start(h + 1) <= tick /\ (~fooled => seconds[h] = Cardinality(Ticks(h)))
      /\ disk[h] # Meter!NoRow => Meter!Start(h + 1) <= tick /\ disk[h] = HeldIn(h)
MarkRight ==
    /\ mark # Never => PaidTo(mark) /\ (status = "torn_down" => mark <= destroyed)
    /\ mark = Never /\ first # Never =>
         status = "torn_down" /\ \E c \in Wholes : destroyed <= c /\ PaidTo(c)
Closed(s) ==
    /\ s.closed <= tick
    /\ s.row = "torn_down" => status = "torn_down" /\ s.alive = destroyed
    /\ s.row # "torn_down" => s.alive = Never /\ (status = "torn_down" => s.closed <= destroyed)
    /\ s.mark # Never => s.mark <= s.hour /\ PaidTo(s.hour)
    /\ s.at \in {"inspect", "correct", "spans"} => s.hour = s.mark
    /\ s.at = "mark" => s.closed <= s.hour
SweepsRight ==
    \A p \in Planes : /\ Answered(sweep[p])
                      /\ sweep[p].at # "idle" => Closed(sweep[p])
                      /\ ~fooled => SweepLog(sweep[p])
MeterInv ==
    /\ MeterTyped /\ MachineKept /\ (~fooled => LogRight)
    /\ RowsRight /\ MarkRight /\ SweepsRight

LEMMA MeterInvInit == Meter!Init => MeterInv
<1> SUFFICES ASSUME Meter!Init PROVE MeterInv OBVIOUS
<1>1. MeterTyped /\ MachineKept BY MeterTypedInit, MachineInit
<1>2. tick = 0 /\ up = TRUE /\ lastUp = 0 /\ status = "running" /\ mark = Never /\ first = Never
      /\ log = <<[up |-> TRUE, ts |-> 0, when |-> 0]>>
  BY DEF Meter!Init
<1>3. LogRight
  <2>1. Len(log) = 1 /\ DOMAIN log = 1..1 /\ log[1] = [up |-> TRUE, ts |-> 0, when |-> 0] BY <1>2
  <2>2. Meter!Last(log) = [up |-> TRUE, ts |-> 0, when |-> 0] BY <2>1 DEF Meter!Last
  <2>3. Ordered(log) /\ \A i \in DOMAIN log : log[i].when <= log[i].ts BY <2>1 DEF Ordered
  <2>4. Changed = 0 BY <1>2 DEF Changed
  <2>5. Meter!Last(log).up /\ Meter!Last(log).when = 0 BY <2>2
  <2>6. ~Meter!Missed BY <1>2, <2>5, <2>2 DEF Meter!Missed
  <2> QED BY <1>2, <2>3, <2>4, <2>5, <2>6 DEF LogRight
<1>4. RowsRight BY DEF Meter!Init, RowsRight
<1>5. MarkRight BY <1>2 DEF MarkRight
<1>6. \A p \in Planes : sweep[p].at = "idle" BY DEF Meter!Init, Meter!NoSweep
<1>7. SweepsRight BY <1>6 DEF SweepsRight, Answered, SweepLog
<1> QED BY <1>1, <1>3, <1>4, <1>5, <1>7 DEF MeterInv

LEMMA SweepsLogsNext ==
  ASSUME MeterInv, MeterTyped', MachineKept', [Meter!Next]_(Meter!vars), ~fooled'
  PROVE  LogRight' /\ \A q \in Planes : SweepLog(sweep[q])'
<1>1. ~fooled BY WhatStays DEF MeterInv
<1>2. MeterTyped /\ MachineKept /\ LogRight /\ SweepsRight BY <1>1 DEF MeterInv
<1>3. \A q \in Planes : /\ Answered(sweep[q]) /\ SweepLog(sweep[q])
                        /\ sweep[q].at = "correct" /\ status # "torn_down" => Fresh(sweep[q])
                        /\ sweep[q].at # "idle" => sweep[q].closed <= tick
  BY <1>1, <1>2 DEF SweepsRight, SweepLog, Closed
<1>4. LogRight' BY <1>2, <1>3, LogNext
<1>5. ASSUME NEW q \in Planes PROVE SweepLog(sweep[q])'
  <2>1. CASE sweep'[q] = sweep[q] BY <1>2, <1>3, <1>4, <2>1, SweepLogStays
  <2>2. CASE sweep'[q] # sweep[q]
    <3>1. PICK p \in Planes : \/ Meter!Begins(p) \/ Meter!Inspects(p) \/ Meter!Corrects(p) \/ Meter!ReadsSpans(p)
                              \/ Meter!WritesHour(p) \/ Meter!MovesMark(p) \/ Meter!Dies(p)
      BY <2>2 DEF Meter!vars, Meter!Next, Meter!Starts, Meter!Stops, Meter!TearsDown,
         Meter!Unseen, Meter!RowCorrected, Meter!Tick
    <3>2. \E u : Meter!Set(p, u)
      BY <3>1 DEF Meter!Begins, Meter!Inspects, Meter!Corrects, Meter!ReadsSpans,
         Meter!WritesHour, Meter!MovesMark, Meter!Dies
    <3>3. p = q BY <1>2, <2>2, <3>2, SetTyped
    <3>4. SweepLog(sweep[p])' BY <1>2, <1>3, <1>4, <3>1, SweepLogMade
    <3> QED BY <3>3, <3>4
  <2> QED BY <2>1, <2>2
<1> QED BY <1>4, <1>5

(* The hour a sweep writes is written as it was.                            *)
LEMMA HourWritten ==
  ASSUME MeterInv, NEW p \in Planes, Meter!WritesHour(p)
  PROVE  \E h \in Meter!Hours :
           LET s == sweep[p]
               n == Meter!Overlap(s.spans, Meter!Start(h), Meter!Start(h + 1)) IN
           /\ s.hour = Meter!Start(h) /\ Meter!Start(h + 1) <= s.closed /\ s.closed <= tick
           /\ s.hour + HourTicks = Meter!Start(h + 1)
           /\ ~fooled => n = Cardinality(Ticks(h)) /\ n \in Nat
           /\ Meter!Held(s) = HeldIn(h) /\ Meter!Held(s) \in Int
           /\ destroyed = Never \/ Meter!Start(h) <= destroyed => Meter!Held(s) >= 0
           /\ seconds' = IF n > 0 THEN Meter!Record(seconds, h, n) ELSE seconds
           /\ \/ disk' = IF Meter!Held(s) > 0 THEN Meter!Record(disk, h, Meter!Held(s)) ELSE disk
              \/ disk' = disk /\ Meter!Set(p, Meter!NoSweep)
<1> DEFINE s == sweep[p]
<1>1. s.at = "hours" BY DEF Meter!WritesHour
<1>2. MeterTyped /\ MachineKept /\ Closed(s) /\ (~fooled => SweepLog(s))
  BY <1>1 DEF MeterInv, SweepsRight
<1>3. s.mark \in Wholes /\ s.hour \in Wholes /\ s.closed \in Wholes /\ s.hour < s.closed
      /\ s.mark <= s.hour /\ s.mark # Never
  BY <1>1, <1>2, MeterSweepTyped DEF Shaped, Closed
<1>4. PICK h \in Meter!Hours : s.hour = Meter!Start(h) BY <1>3 DEF Wholes
<1>5. /\ s.hour \div HourTicks = h /\ s.hour + HourTicks = Meter!Start(h + 1)
      /\ Meter!Start(h + 1) <= s.closed /\ s.closed <= tick
      /\ Meter!Start(h) \in Nat /\ Meter!Start(h + 1) \in Nat /\ s.closed \in Nat /\ HourTicks \in Nat \ {0}
      /\ Never \notin Nat /\ tick \in Nat /\ (destroyed # Never => destroyed \in Nat)
  BY <1>2, <1>3, <1>4, WholesAre, MeterBounds DEF Closed, MeterTyped
<1> DEFINE n == Meter!Overlap(s.spans, Meter!Start(h), Meter!Start(h + 1))
<1>6. ~fooled => n = Cardinality(Ticks(h)) /\ n \in Nat
  <2>1. ASSUME ~fooled PROVE n = Cardinality(Ticks(h))
    BY <1>1, <1>2, <1>3, <1>4, <2>1 DEF SweepLog
  <2>2. Cardinality(Ticks(h)) \in Nat
    <3>1. was \subseteq 0..MaxNow /\ MaxNow \in Nat BY <1>2, MeterBounds DEF MeterTyped
    <3>2. IsFiniteSet(0..MaxNow) BY <3>1, FS_Interval
    <3>3. Ticks(h) \subseteq 0..MaxNow BY <3>1 DEF Ticks
    <3>4. IsFiniteSet(Ticks(h)) BY <3>2, <3>3, FS_Subset
    <3> QED BY <3>4, FS_CardinalityType
  <2> QED BY <2>1, <2>2
<1>7. /\ Meter!Held(s) = HeldIn(h) /\ Meter!Held(s) \in Int
      /\ destroyed = Never \/ Meter!Start(h) <= destroyed => Meter!Held(s) >= 0
  <2>1. CASE s.row = "torn_down"
    <3>1. s.alive = destroyed BY <1>2, <2>1 DEF Closed
    <3> QED BY <1>4, <1>5, <3>1 DEF Meter!Held, HeldIn
  <2>2. CASE s.row # "torn_down"
    <3>1. s.alive = Never /\ (status = "torn_down" => s.closed <= destroyed)
      BY <1>2, <2>2 DEF Closed
    <3>2. destroyed = Never \/ Meter!Start(h + 1) <= destroyed BY <1>2, <1>5, <3>1 DEF MachineKept
    <3> QED BY <1>4, <1>5, <3>1, <3>2 DEF Meter!Held, HeldIn
  <2> QED BY <2>1, <2>2
<1>8. /\ seconds' = IF n > 0 THEN Meter!Record(seconds, h, n) ELSE seconds
      /\ \/ disk' = IF Meter!Held(s) > 0 THEN Meter!Record(disk, h, Meter!Held(s)) ELSE disk
         \/ disk' = disk /\ Meter!Set(p, Meter!NoSweep)
  BY <1>4, <1>5 DEF Meter!WritesHour
<1> QED BY <1>4, <1>5, <1>6, <1>7, <1>8

LEMMA RecordSays ==
  ASSUME NEW f, f = [g \in Meter!Hours |-> f[g]], NEW h \in Meter!Hours, NEW n
  PROVE  /\ Meter!Record(f, h, n)[h] = IF f[h] = Meter!NoRow THEN n ELSE f[h]
         /\ \A g \in Meter!Hours : g # h => Meter!Record(f, h, n)[g] = f[g]
BY DEF Meter!Record

LEMMA RowsNext ==
  ASSUME MeterInv, MeterTyped', [Meter!Next]_(Meter!vars)
  PROVE  RowsRight'
<1>1. MeterTyped /\ MachineKept /\ RowsRight BY DEF MeterInv
<1>2. tick \in Nat /\ (tick' = tick \/ tick' = tick + 1) /\ (fooled => fooled')
  BY <1>1, WhatStays, MeterBounds DEF MeterTyped
<1>3. ASSUME NEW h \in Meter!Hours, Meter!Start(h + 1) <= tick
      PROVE  Ticks(h)' = Ticks(h) /\ HeldIn(h)' = HeldIn(h) /\ Meter!Start(h + 1) <= tick'
  <2>1. Meter!Start(h + 1) \in Nat BY WholesAre
  <2> QED BY <1>1, <1>2, <1>3, <2>1, HourIsOver
<1>4. ASSUME NEW h \in Meter!Hours,
             seconds'[h] = seconds[h] \/ (Meter!Start(h + 1) <= tick /\ (~fooled => seconds'[h] = Cardinality(Ticks(h)))),
             disk'[h] = disk[h] \/ (Meter!Start(h + 1) <= tick /\ disk'[h] = HeldIn(h))
      PROVE  /\ seconds'[h] # Meter!NoRow =>
                  Meter!Start(h + 1) <= tick' /\ (~fooled' => seconds'[h] = Cardinality(Ticks(h)'))
             /\ disk'[h] # Meter!NoRow => Meter!Start(h + 1) <= tick' /\ disk'[h] = HeldIn(h)'
  BY <1>1, <1>2, <1>3, <1>4 DEF RowsRight
<1>5. ASSUME NEW h \in Meter!Hours
      PROVE  /\ seconds'[h] = seconds[h] \/ (Meter!Start(h + 1) <= tick /\ (~fooled => seconds'[h] = Cardinality(Ticks(h))))
             /\ disk'[h] = disk[h] \/ (Meter!Start(h + 1) <= tick /\ disk'[h] = HeldIn(h))
  <2>1. CASE UNCHANGED <<seconds, disk>> BY <2>1
  <2>2. CASE ~UNCHANGED <<seconds, disk>>
    <3>1. PICK p \in Planes : Meter!WritesHour(p)
      BY <2>2 DEF Meter!vars, Meter!Next, Meter!Starts, Meter!Stops, Meter!TearsDown,
         Meter!Unseen, Meter!RowCorrected, Meter!Tick, Meter!Begins, Meter!Inspects,
                  Meter!Corrects, Meter!ReadsSpans, Meter!MovesMark, Meter!Dies, Meter!metered
    <3> DEFINE s == sweep[p]
    <3>2. PICK g \in Meter!Hours :
               LET n == Meter!Overlap(s.spans, Meter!Start(g), Meter!Start(g + 1)) IN
               /\ Meter!Start(g + 1) <= s.closed /\ s.closed <= tick
               /\ ~fooled => n = Cardinality(Ticks(g))
               /\ Meter!Held(s) = HeldIn(g)
               /\ seconds' = IF n > 0 THEN Meter!Record(seconds, g, n) ELSE seconds
               /\ \/ disk' = IF Meter!Held(s) > 0 THEN Meter!Record(disk, g, Meter!Held(s)) ELSE disk
                  \/ disk' = disk
      BY <3>1, HourWritten
    <3> DEFINE n == Meter!Overlap(s.spans, Meter!Start(g), Meter!Start(g + 1))
               d == Meter!Held(s)
    <3>3. Meter!Start(g + 1) <= tick
      <4>1. s.at = "hours" BY <3>1 DEF Meter!WritesHour
      <4>2. s.closed \in Nat /\ Meter!Start(g + 1) \in Nat
        BY <1>1, <4>1, MeterSweepTyped, WholesAre
      <4> QED BY <1>2, <3>2, <4>2
    <3>4. /\ seconds' = seconds \/ seconds' = Meter!Record(seconds, g, n)
          /\ disk' = disk \/ disk' = Meter!Record(disk, g, d)
          /\ ~fooled => n = Cardinality(Ticks(g))
          /\ d = HeldIn(g)
      BY <3>2
    <3>5. seconds = [x \in Meter!Hours |-> seconds[x]] /\ disk = [x \in Meter!Hours |-> disk[x]]
      BY <1>1 DEF MeterTyped
    <3> HIDE DEF n, d
    <3>6. \/ seconds'[h] = seconds[h]
          \/ h = g /\ seconds'[h] = n
      BY <3>4, <3>5, RecordSays
    <3>7. \/ disk'[h] = disk[h]
          \/ h = g /\ disk'[h] = d
      BY <3>4, <3>5, RecordSays
    <3> QED BY <3>3, <3>4, <3>6, <3>7
  <2> QED BY <2>1, <2>2
<1> QED BY <1>4, <1>5 DEF RowsRight

LEMMA PaidStays ==
  ASSUME MeterInv, MeterTyped', [Meter!Next]_(Meter!vars), NEW h \in Meter!Hours,
         Meter!Start(h + 1) <= tick, Paid(h)
  PROVE  Paid(h)'
<1>1. MeterTyped /\ MachineKept /\ RowsRight' BY RowsNext DEF MeterInv
<1>2. Ticks(h)' = Ticks(h) /\ HeldIn(h)' = HeldIn(h) BY <1>1, HourIsOver
<1>3. /\ fooled => fooled'
      /\ seconds[h] # Meter!NoRow => seconds'[h] = seconds[h]
      /\ disk[h] # Meter!NoRow => disk'[h] = disk[h]
      /\ destroyed' = destroyed \/ destroyed = Never
  <2>1. MeterTyped /\ MachineKept BY <1>1
  <2>2. fooled => fooled' BY <2>1, WhatStays
  <2>3. destroyed' = destroyed \/ destroyed = Never BY <2>1, WhatStays
  <2>4. \A g \in Meter!Hours : /\ seconds[g] # Meter!NoRow => seconds'[g] = seconds[g]
                               /\ disk[g] # Meter!NoRow => disk'[g] = disk[g]
    BY <2>1, WhatStays
  <2>5. seconds[h] # Meter!NoRow => seconds'[h] = seconds[h] BY <2>4
  <2>6. disk[h] # Meter!NoRow => disk'[h] = disk[h] BY <2>4
  <2> QED BY <2>2, <2>3, <2>5, <2>6, Zenon
<1>4. ~fooled' => Meter!Amount(seconds'[h]) = Cardinality(Ticks(h)')
  <2>1. CASE seconds'[h] = Meter!NoRow BY <1>2, <1>3, <2>1 DEF Paid
  <2>2. CASE seconds'[h] # Meter!NoRow BY <1>1, <2>2 DEF RowsRight, Meter!Amount
  <2> QED BY <2>1, <2>2
<1>5. destroyed' = Never \/ Meter!Start(h) <= destroyed' => Meter!Amount(disk'[h]) = HeldIn(h)'
  <2>1. CASE disk'[h] = Meter!NoRow BY <1>2, <1>3, <2>1 DEF Paid
  <2>2. CASE disk'[h] # Meter!NoRow BY <1>1, <2>2 DEF RowsRight, Meter!Amount
  <2> QED BY <2>1, <2>2
<1> QED BY <1>4, <1>5 DEF Paid, Meter!Amount

LEMMA FirstGrows ==
  ASSUME MeterTyped, [Meter!Next]_(Meter!vars), first \in Wholes
  PROVE  first' \in Wholes /\ first <= first'
<1>1. first \in Nat BY WholesAre
<1>2. CASE first' = first BY <1>1, <1>2
<1>3. CASE first' # first
  <2>1. PICK p \in Planes : Meter!Inspects(p)
    BY <1>3 DEF Meter!vars, Meter!Next, Meter!Starts, Meter!Stops, Meter!TearsDown,
       Meter!Unseen, Meter!RowCorrected, Meter!Tick, Meter!Begins,
                Meter!Corrects, Meter!ReadsSpans, Meter!WritesHour, Meter!MovesMark, Meter!Dies, Meter!metered
  <2>2. sweep[p].at = "inspect" BY <2>1 DEF Meter!Inspects
  <2>3. sweep[p].closed \in Wholes /\ sweep[p].closed \in Nat BY <2>2, MeterSweepTyped, WholesAre
  <2>4. first' = sweep[p].closed /\ ~Meter!Ahead(sweep[p].closed)
    BY <1>3, <2>1 DEF Meter!Inspects, Meter!metered
  <2> QED BY <1>1, <2>3, <2>4, WholesAre DEF Meter!Ahead
<1> QED BY <1>2, <1>3

LEMMA PaidToStays ==
  ASSUME MeterInv, MeterTyped', [Meter!Next]_(Meter!vars), NEW t, PaidTo(t)
  PROVE  PaidTo(t)'
<1>1. MeterTyped /\ MachineKept BY DEF MeterInv
<1>2. t \in Wholes /\ t \in Nat /\ t <= tick /\ first \in Wholes /\ first \in Nat
  BY WholesAre DEF PaidTo
<1>3. tick \in Nat /\ (tick' = tick \/ tick' = tick + 1)
  BY <1>1, WhatStays, MeterBounds DEF MeterTyped
<1>4. first' \in Wholes /\ first' \in Nat /\ first <= first' BY <1>1, <1>2, FirstGrows, WholesAre
<1>5. ASSUME NEW h \in Meter!Hours, first' <= Meter!Start(h), Meter!Start(h) < t PROVE Paid(h)'
  <2>1. Meter!Start(h) \in Nat /\ Meter!Start(h + 1) \in Nat /\ Meter!Start(h + 1) <= t
    BY <1>2, <1>5, WholesAre
  <2>2. first <= Meter!Start(h) /\ Meter!Start(h + 1) <= tick BY <1>2, <1>3, <1>4, <1>5, <2>1
  <2>3. Paid(h) BY <1>5, <2>2 DEF PaidTo
  <2> QED BY <2>2, <2>3, PaidStays
<1>6. t <= tick' BY <1>2, <1>3
<1> QED BY <1>2, <1>4, <1>5, <1>6 DEF PaidTo

LEMMA PaidBefore ==
  ASSUME MeterTyped, NEW t, PaidTo(t), NEW u \in Wholes, u <= t
  PROVE  PaidTo(u)
<1>1. t \in Nat /\ u \in Nat /\ tick \in Nat /\ t <= tick
  BY WholesAre, MeterBounds DEF PaidTo, MeterTyped
<1>2. \A h \in Meter!Hours : Meter!Start(h) \in Nat BY WholesAre
<1> QED BY <1>1, <1>2 DEF PaidTo

LEMMA MarkNext ==
  ASSUME MeterInv, MeterTyped', MachineKept', [Meter!Next]_(Meter!vars)
  PROVE  MarkRight'
<1>1. MeterTyped /\ MachineKept /\ MarkRight /\ SweepsRight BY DEF MeterInv
<1>2. tick \in Nat /\ Never \notin Nat /\ (destroyed # Never => destroyed \in Nat)
  BY <1>1, MeterBounds, WholesAre DEF MeterTyped
<1>3. \/ destroyed' = destroyed /\ (status' = "torn_down" <=> status = "torn_down")
      \/ destroyed = Never /\ destroyed' = tick /\ status' = "torn_down"
  BY <1>1, WhatStays
<1>4. CASE UNCHANGED <<mark, first>>
  <2>1. ASSUME mark # Never PROVE PaidTo(mark)' /\ (status' = "torn_down" => mark' <= destroyed')
    <3>1. PaidTo(mark) /\ (status = "torn_down" => mark <= destroyed) BY <1>1, <2>1 DEF MarkRight
    <3>2. \A t : PaidTo(t) => PaidTo(t)' BY PaidToStays
    <3>3. PaidTo(mark)' BY <1>4, <3>1, <3>2 DEF PaidTo
    <3>4. mark <= tick BY <3>1 DEF PaidTo
    <3> QED BY <1>3, <1>4, <3>1, <3>3, <3>4
  <2>2. ASSUME mark = Never, first # Never
        PROVE  status' = "torn_down" /\ \E c \in Wholes : destroyed' <= c /\ PaidTo(c)'
    <3>1. PICK c \in Wholes : status = "torn_down" /\ destroyed <= c /\ PaidTo(c)
      BY <1>1, <2>2 DEF MarkRight
    <3>2. PaidTo(c)' BY <3>1, PaidToStays
    <3>3. status' = "torn_down" /\ destroyed' = destroyed BY <1>1, <1>3, <3>1 DEF MachineKept
    <3> QED BY <3>1, <3>2, <3>3
  <2>3. Wholes' = Wholes BY DEF Wholes
  <2> QED BY <1>4, <2>1, <2>2, <2>3 DEF MarkRight
<1>5. ASSUME NEW p \in Planes, Meter!Inspects(p), ~UNCHANGED <<mark, first>> PROVE MarkRight'
  <2> DEFINE s == sweep[p]
  <2>1. s.at = "inspect" BY <1>5 DEF Meter!Inspects
  <2>2. mark' = s.closed /\ first' = (IF Meter!Ahead(s.closed) THEN first ELSE s.closed)
        /\ UNCHANGED <<tick, status, destroyed>>
    BY <1>5 DEF Meter!Inspects, Meter!metered, Meter!world
  <2>3. s.closed \in Wholes /\ s.closed \in Nat BY <1>1, <2>1, MeterSweepTyped, WholesAre
  <2>4. Answered(s) /\ Closed(s) BY <1>1, <2>1 DEF SweepsRight
  <2>5. s.closed <= tick /\ (status = "torn_down" => s.closed <= destroyed)
    BY <2>1, <2>4 DEF Answered, Closed
  <2>6. first' \in Wholes /\ s.closed <= first'
    BY <1>1, <2>2, <2>3, WholesAre DEF Meter!Ahead, MeterTyped
  <2>7. PaidTo(mark)'
    <3>1. \A h \in Meter!Hours : Meter!Start(h) \in Nat /\ first' \in Nat BY <2>6, WholesAre
    <3> QED BY <2>2, <2>3, <2>5, <2>6, <3>1 DEF PaidTo
  <2> QED BY <1>2, <2>2, <2>3, <2>5, <2>7 DEF MarkRight
<1>6. ASSUME NEW p \in Planes, Meter!MovesMark(p) PROVE MarkRight'
  <2> DEFINE s == sweep[p]
  <2>1. s.at = "mark" BY <1>6 DEF Meter!MovesMark
  <2>2. /\ mark' = IF s.row = "torn_down" /\ s.closed >= s.alive THEN Never ELSE s.closed
        /\ UNCHANGED <<tick, status, destroyed, first>>
    BY <1>6 DEF Meter!MovesMark, Meter!world
  <2>3. s.closed \in Wholes /\ s.closed \in Nat /\ s.mark # Never /\ s.hour \in Nat
    BY <1>1, <2>1, MeterSweepTyped, WholesAre DEF Shaped
  <2>4. Closed(s) BY <1>1, <2>1 DEF SweepsRight
  <2>5. PaidTo(s.hour) /\ s.closed <= s.hour BY <2>1, <2>3, <2>4 DEF Closed
  <2>6. PICK c \in Wholes, w \in Wholes : c = s.closed /\ w = s.hour
    BY <2>3, <2>5 DEF PaidTo
  <2>7. PaidTo(c) /\ PaidTo(w) BY <1>1, <2>3, <2>5, <2>6, PaidBefore
  <2>8. PaidTo(c)' /\ PaidTo(w)' BY <2>7, PaidToStays
  <2>9. Wholes' = Wholes BY DEF Wholes
  <2>10. CASE s.row = "torn_down" /\ s.closed >= s.alive
    <3>1. status = "torn_down" /\ s.alive = destroyed BY <2>4, <2>10 DEF Closed
    <3>2. destroyed \in Nat BY <1>1, <1>2, <3>1 DEF MachineKept
    <3>3. destroyed' <= w /\ status' = "torn_down" /\ mark' = Never
      BY <2>2, <2>3, <2>5, <2>6, <2>10, <3>1, <3>2
    <3> QED BY <2>8, <2>9, <3>3 DEF MarkRight
  <2>11. CASE ~(s.row = "torn_down" /\ s.closed >= s.alive)
    <3>1. mark' = c BY <2>2, <2>6, <2>11
    <3>2. PaidTo(mark)' BY <2>8, <3>1 DEF PaidTo
    <3>3. status' = "torn_down" => mark' <= destroyed'
      <4>1. CASE s.row = "torn_down"
        <5>1. status = "torn_down" /\ s.alive = destroyed BY <2>4, <4>1 DEF Closed
        <5>2. destroyed \in Nat BY <1>1, <1>2, <5>1 DEF MachineKept
        <5> QED BY <2>2, <2>3, <2>6, <2>11, <3>1, <4>1, <5>1, <5>2
      <4>2. CASE s.row # "torn_down"
        <5>1. status = "torn_down" => s.closed <= destroyed BY <2>4, <4>2 DEF Closed
        <5> QED BY <2>2, <2>6, <3>1, <5>1
      <4> QED BY <4>1, <4>2
    <3>4. mark' # Never BY <1>2, <2>3, <2>6, <3>1
    <3> QED BY <3>2, <3>3, <3>4 DEF MarkRight
  <2> QED BY <2>10, <2>11
<1>7. CASE ~UNCHANGED <<mark, first>>
  <2>1. \E p \in Planes : Meter!Inspects(p) \/ Meter!MovesMark(p)
    BY <1>7 DEF Meter!vars, Meter!Next, Meter!Starts, Meter!Stops, Meter!TearsDown,
       Meter!Unseen, Meter!RowCorrected, Meter!Tick, Meter!Begins,
                Meter!Corrects, Meter!ReadsSpans, Meter!WritesHour, Meter!Dies, Meter!metered
  <2> QED BY <1>5, <1>6, <1>7, <2>1
<1> QED BY <1>4, <1>7

(* What a sweep holds stays true of the box, whoever moves.                 *)
LEMMA ClosedStays ==
  ASSUME MeterInv, MeterTyped', MachineKept', [Meter!Next]_(Meter!vars), NEW q \in Planes,
         sweep'[q] = sweep[q],
         sweep[q].at # "idle"
  PROVE  Closed(sweep[q])'
<1> DEFINE s == sweep[q]
<1>1. MeterTyped /\ MachineKept /\ Closed(s) BY DEF MeterInv, SweepsRight
<1>2. tick \in Nat /\ s.closed \in Nat /\ (tick' = tick \/ tick' = tick + 1)
  BY <1>1, MeterSweepTyped, WhatStays, MeterBounds, WholesAre DEF MeterTyped
<1>3. \/ destroyed' = destroyed /\ (status' = "torn_down" <=> status = "torn_down")
      \/ destroyed = Never /\ destroyed' = tick /\ status' = "torn_down"
  BY <1>1, WhatStays
<1>4. s.closed <= tick' BY <1>1, <1>2 DEF Closed
<1>5. s.row = "torn_down" => status' = "torn_down" /\ s.alive = destroyed'
  BY <1>1, <1>3 DEF Closed, MachineKept
<1>6. s.row # "torn_down" => s.alive = Never /\ (status' = "torn_down" => s.closed <= destroyed')
  BY <1>1, <1>3 DEF Closed
<1>7. s.mark # Never => s.mark <= s.hour /\ PaidTo(sweep[q].hour)'
  <2>1. SUFFICES ASSUME s.mark # Never PROVE PaidTo(sweep[q].hour)' BY <1>1 DEF Closed
  <2>2. PICK w : w = s.hour OBVIOUS
  <2>3. PaidTo(w) BY <1>1, <2>1, <2>2 DEF Closed
  <2>4. PaidTo(w)' BY <2>3, PaidToStays
  <2>5. sweep'[q].hour = w BY <2>2
  <2> QED BY <2>4, <2>5 DEF PaidTo
<1> QED BY <1>1, <1>4, <1>5, <1>6, <1>7 DEF Closed

LEMMA ClosedMade ==
  ASSUME MeterInv, MeterTyped', MachineKept', [Meter!Next]_(Meter!vars), NEW p \in Planes,
         sweep'[p].at # "idle",
         \/ Meter!Begins(p) \/ Meter!Inspects(p) \/ Meter!Corrects(p) \/ Meter!ReadsSpans(p)
         \/ Meter!WritesHour(p) \/ Meter!MovesMark(p) \/ Meter!Dies(p)
  PROVE  Closed(sweep[p])'
<1> DEFINE s == sweep[p]
           r == sweep'[p]
<1>1. MeterTyped /\ MachineKept /\ MarkRight /\ (s.at # "idle" => Closed(s))
  BY DEF MeterInv, SweepsRight
<1>2. UNCHANGED <<tick, destroyed>> /\ (status' = "torn_down" <=> status = "torn_down")
  BY DEF Meter!Begins, Meter!Inspects, Meter!Corrects, Meter!ReadsSpans, Meter!WritesHour,
     Meter!MovesMark, Meter!Dies, Meter!world
<1>3. \A u : Meter!Set(p, u) => r = u BY <1>1, SetTyped
<1>4. s.at # "idle" => s \in SweepRow(s) /\ s.closed \in Nat BY <1>1, MeterSweepTyped, WholesAre
<1>5. r # Meter!NoSweep BY DEF Meter!NoSweep
(* The sweep goes on as it was, the hour apart.                            *)
<1>6. ASSUME s.at # "idle", r.closed = s.closed, r.row = s.row, r.alive = s.alive, r.mark = s.mark,
             s.mark # Never => PaidTo(sweep[p].hour)' /\ s.mark <= r.hour,
             r.at \in {"inspect", "correct", "spans"} => r.hour = s.mark,
             r.at = "mark" => s.closed <= r.hour
      PROVE  Closed(sweep[p])'
  BY <1>1, <1>2, <1>6 DEF Closed
<1>7. ASSUME s.at # "idle", s.mark # Never, r.hour = s.hour
      PROVE  PaidTo(sweep[p].hour)' /\ s.mark <= r.hour
  <2>1. PICK w : w = s.hour OBVIOUS
  <2>2. PaidTo(w) /\ s.mark <= w BY <1>1, <1>7, <2>1 DEF Closed
  <2>3. PaidTo(w)' BY <2>2, PaidToStays
  <2> QED BY <1>7, <2>1, <2>2, <2>3 DEF PaidTo
<1>8. CASE Meter!Begins(p)
  <2> DEFINE closed == Meter!HourOf(tick)
  <2>1. r = [at |-> IF status = "torn_down" THEN "spans" ELSE "inspect", row |-> status,
             now |-> IF status = "torn_down" THEN 0 ELSE tick, closed |-> closed,
             mark |-> mark, hour |-> mark, alive |-> destroyed,
             up |-> FALSE, lastUp |-> 0, lastDown |-> 0, spans |-> <<>>]
    BY <1>3, <1>8 DEF Meter!Begins
  <2>2. closed \in Nat /\ closed <= tick /\ tick \in Nat
    BY <1>1, MeterBounds, WholesAre DEF MeterTyped
  <2> HIDE DEF closed
  <2>3. /\ r.closed = closed /\ r.row = status /\ r.alive = destroyed /\ r.mark = mark /\ r.hour = mark
        /\ r.at # "mark"
    BY <2>1
  <2>4. mark # Never => mark <= mark /\ PaidTo(sweep[p].hour)'
    <3>1. SUFFICES ASSUME mark # Never PROVE mark <= mark /\ PaidTo(sweep[p].hour)' OBVIOUS
    <3>2. mark \in Nat BY <1>1, <3>1, WholesAre DEF MeterTyped
    <3>3. PICK w : w = mark OBVIOUS
    <3>4. PaidTo(w) BY <1>1, <3>1, <3>3 DEF MarkRight
    <3>5. PaidTo(w)' BY <3>4, PaidToStays
    <3> QED BY <2>3, <3>2, <3>3, <3>5 DEF PaidTo
  <2>5. status # "torn_down" => destroyed = Never BY <1>1 DEF MachineKept
  <2> HIDE DEF r, s
  <2> QED BY <1>2, <2>2, <2>3, <2>4, <2>5 DEF Closed, r
<1>9. CASE Meter!Inspects(p)
  <2>1. s.at = "inspect" BY <1>9 DEF Meter!Inspects
  <2>2. r = [s EXCEPT !.at = "correct", !.up = up, !.lastUp = lastUp, !.lastDown = lastDown]
    BY <1>3, <1>5, <1>9 DEF Meter!Inspects
  <2>3. /\ r.closed = s.closed /\ r.row = s.row /\ r.alive = s.alive /\ r.mark = s.mark
        /\ r.hour = s.hour /\ r.at = "correct"
    <3>1. s \in SweepRow(s) BY <1>4, <2>1
    <3> HIDE DEF s, r
    <3> QED BY <2>2, <3>1, RowFields
  <2>4. s.hour = s.mark BY <1>1, <2>1 DEF Closed
  <2> QED BY <1>6, <1>7, <2>1, <2>3, <2>4
<1>10. CASE Meter!Corrects(p)
  <2>1. s.at = "correct" BY <1>10 DEF Meter!Corrects
  <2>2. r = Meter!Corrected(s) BY <1>3, <1>5, <1>10 DEF Meter!Corrects
  <2>3. /\ r.closed = s.closed /\ r.row = s.row /\ r.alive = s.alive /\ r.mark = s.mark
        /\ r.hour = s.hour /\ r.at = "spans"
    <3>1. s \in SweepRow(s) BY <1>4, <2>1
    <3> HIDE DEF s, r
    <3> QED BY <2>2, <3>1, RowFields
  <2>4. s.hour = s.mark BY <1>1, <2>1 DEF Closed
  <2> QED BY <1>6, <1>7, <2>1, <2>3, <2>4
<1>11. CASE Meter!ReadsSpans(p)
  <2> DEFINE l == Meter!Spans(Meter!LifecycleEvents(s.mark), s.closed)
             a == IF s.hour < s.closed THEN "hours" ELSE "mark"
  <2>1. s.at = "spans" BY <1>11 DEF Meter!ReadsSpans
  <2>2. r = [s EXCEPT !.at = a, !.spans = l] BY <1>3, <1>11 DEF Meter!ReadsSpans
  <2>3. /\ r.closed = s.closed /\ r.row = s.row /\ r.alive = s.alive /\ r.mark = s.mark
        /\ r.hour = s.hour /\ r.at = a
    <3>1. s \in SweepRow(s) BY <1>4, <2>1
    <3> HIDE DEF s, r, l, a
    <3> QED BY <2>2, <3>1, RowFields
  <2>4. s.hour \in Nat /\ s.closed \in Nat BY <1>1, <2>1, MeterSweepTyped, WholesAre DEF Shaped
  <2>5. r.at \in {"hours", "mark"} /\ (r.at = "mark" => s.closed <= r.hour) BY <2>3, <2>4
  <2> QED BY <1>6, <1>7, <2>1, <2>3, <2>5
<1>12. CASE Meter!WritesHour(p)
  <2> DEFINE k == s.hour + HourTicks
             a == IF k < s.closed THEN "hours" ELSE "mark"
  <2>1. s.at = "hours" BY <1>12 DEF Meter!WritesHour
  <2>2. r = [s EXCEPT !.hour = k, !.at = a] /\ ~Meter!Set(p, Meter!NoSweep)
    BY <1>3, <1>5, <1>12 DEF Meter!WritesHour
  <2>3. /\ r.closed = s.closed /\ r.row = s.row /\ r.alive = s.alive /\ r.mark = s.mark
        /\ r.hour = k /\ r.at = a
    <3>1. s \in SweepRow(s) /\ r = [s EXCEPT !.hour = k, !.at = a] BY <1>4, <2>1, <2>2
    <3> HIDE DEF s, r, k, a
    <3> QED BY <3>1, RowFields
  <2>4. PICK h \in Meter!Hours :
             LET n == Meter!Overlap(s.spans, Meter!Start(h), Meter!Start(h + 1)) IN
             /\ s.hour = Meter!Start(h) /\ Meter!Start(h + 1) <= s.closed /\ s.closed <= tick
             /\ s.hour + HourTicks = Meter!Start(h + 1)
             /\ ~fooled => n = Cardinality(Ticks(h)) /\ n \in Nat
             /\ Meter!Held(s) = HeldIn(h) /\ Meter!Held(s) \in Int
             /\ destroyed = Never \/ Meter!Start(h) <= destroyed => Meter!Held(s) >= 0
             /\ seconds' = IF n > 0 THEN Meter!Record(seconds, h, n) ELSE seconds
             /\ \/ disk' = IF Meter!Held(s) > 0 THEN Meter!Record(disk, h, Meter!Held(s)) ELSE disk
                \/ disk' = disk /\ Meter!Set(p, Meter!NoSweep)
    BY <1>12, HourWritten
  <2> DEFINE n == Meter!Overlap(s.spans, Meter!Start(h), Meter!Start(h + 1))
             d == Meter!Held(s)
  <2>5. /\ k = Meter!Start(h + 1) /\ s.mark \in Nat /\ s.closed \in Nat /\ tick \in Nat
        /\ Meter!Start(h) \in Nat /\ Meter!Start(h + 1) \in Nat /\ Meter!Start(h + 1) <= tick
        /\ Meter!Start(h) < s.closed /\ s.closed \in Wholes /\ Meter!Start(h) <= Meter!Start(h + 1)
    <3>1. s.mark \in Nat /\ s.closed \in Wholes /\ s.closed \in Nat /\ s.hour < s.closed
      BY <1>1, <2>1, MeterSweepTyped, WholesAre DEF Shaped
    <3>2. tick \in Nat BY <1>1, MeterBounds DEF MeterTyped
    <3>3. HourTicks \in Nat BY WholesAre
    <3> QED BY <2>4, <3>1, <3>2, <3>3, WholesAre
  <2>6. Paid(h)'
    <3>1. /\ seconds = [x \in Meter!Hours |-> seconds[x]] /\ disk = [x \in Meter!Hours |-> disk[x]]
          /\ RowsRight /\ RowsRight'
      BY RowsNext DEF MeterInv, MeterTyped
    <3>2. UNCHANGED <<fooled, was, destroyed>>
      BY <1>12 DEF Meter!WritesHour, Meter!world, Meter!machine
    <3>3. Ticks(h)' = Ticks(h) /\ HeldIn(h)' = HeldIn(h) BY <3>2 DEF Ticks, HeldIn
    <3>4. ~fooled => n = Cardinality(Ticks(h)) /\ n \in Nat BY <2>4
    <3>5. seconds' = IF n > 0 THEN Meter!Record(seconds, h, n) ELSE seconds BY <2>4
    <3>6. disk' = IF d > 0 THEN Meter!Record(disk, h, d) ELSE disk BY <2>2, <2>4
    <3>7. d = HeldIn(h) /\ d \in Int /\ (destroyed = Never \/ Meter!Start(h) <= destroyed => d >= 0)
      BY <2>4
    <3> HIDE DEF n, d
    <3>8. ~fooled' => Meter!Amount(seconds'[h]) = Cardinality(Ticks(h)')
      <4>1. CASE seconds'[h] # Meter!NoRow BY <3>1, <4>1 DEF RowsRight, Meter!Amount
      <4>2. CASE seconds'[h] = Meter!NoRow /\ ~fooled
        <5>1. ~(n > 0)
          <6>1. CASE n > 0
            <7>1. seconds'[h] = n BY <3>1, <3>5, <4>2, <6>1, RecordSays
            <7> QED BY <3>4, <4>2, <6>1, <7>1 DEF Meter!NoRow
          <6> QED BY <6>1
        <5>2. n = 0 BY <3>4, <4>2, <5>1
        <5> QED BY <3>3, <3>4, <4>2, <5>2 DEF Meter!Amount
      <4> QED BY <3>2, <4>1, <4>2
    <3>9. destroyed' = Never \/ Meter!Start(h) <= destroyed' => Meter!Amount(disk'[h]) = HeldIn(h)'
      <4>1. CASE disk'[h] # Meter!NoRow BY <3>1, <4>1 DEF RowsRight, Meter!Amount
      <4>2. CASE disk'[h] = Meter!NoRow /\ (destroyed = Never \/ Meter!Start(h) <= destroyed)
        <5>1. ~(d > 0)
          <6>1. CASE d > 0
            <7>1. disk'[h] = d BY <3>1, <3>6, <4>2, <6>1, RecordSays
            <7> QED BY <3>7, <4>2, <6>1, <7>1 DEF Meter!NoRow
          <6> QED BY <6>1
        <5>2. d = 0 BY <3>7, <4>2, <5>1
        <5> QED BY <3>3, <3>7, <4>2, <5>2 DEF Meter!Amount
      <4> QED BY <3>2, <4>1, <4>2
    <3> QED BY <3>8, <3>9 DEF Paid, Meter!Amount
  <2>7. PICK w : w = Meter!Start(h + 1) OBVIOUS
  <2>8. PaidTo(w)'
    <3>1. PICK v : v = s.hour OBVIOUS
    <3>2. PaidTo(v) BY <1>1, <2>1, <2>5, <3>1, WholesAre DEF Closed
    <3>3. PaidTo(v)' BY <3>2, PaidToStays
    <3>4. v = Meter!Start(h) BY <2>4, <3>1
    <3>5. w \in Wholes /\ w <= tick' /\ first' \in Wholes
      BY <1>2, <2>5, <2>7, <3>3, WholesAre DEF PaidTo
    <3>6. ASSUME NEW g \in Meter!Hours, first' <= Meter!Start(g), Meter!Start(g) < w PROVE Paid(g)'
      <4>1. CASE g = h BY <2>6, <4>1 DEF Paid, Ticks, HeldIn
      <4>2. CASE g # h
        <5>1. g \in Nat /\ h \in Nat /\ Meter!Start(g) \in Nat BY WholesAre
        <5>2. ~(h < g)
          <6>1. h < g => Meter!Start(h + 1) <= Meter!Start(g) BY <5>1, Whole
          <6> QED BY <2>5, <2>7, <3>6, <5>1, <6>1
        <5>3. g < h BY <4>2, <5>1, <5>2
        <5>4. Meter!Start(g + 1) <= Meter!Start(h) /\ Meter!Start(g + 1) = Meter!Start(g) + HourTicks
          BY <5>1, <5>3, Whole
        <5>5. Meter!Start(g) < v BY <2>5, <3>4, <5>1, <5>4, WholesAre
        <5> QED BY <3>3, <3>6, <5>5 DEF PaidTo
      <4> QED BY <4>1, <4>2
    <3> QED BY <3>5, <3>6 DEF PaidTo
  <2>9. PaidTo(sweep[p].hour)' BY <2>3, <2>5, <2>7, <2>8 DEF PaidTo
  <2>10. s.mark <= r.hour
    <3>1. s.mark <= s.hour BY <1>1, <2>1, <2>5, WholesAre DEF Closed
    <3> QED BY <2>3, <2>4, <2>5, <3>1
  <2>11. r.at \in {"hours", "mark"} /\ (r.at = "mark" => s.closed <= r.hour) BY <2>3, <2>5
  <2> QED BY <1>6, <2>1, <2>3, <2>9, <2>10, <2>11
<1>13. CASE Meter!MovesMark(p) \/ Meter!Dies(p)
  BY <1>3, <1>5, <1>13 DEF Meter!MovesMark, Meter!Dies
<1> QED BY <1>8, <1>9, <1>10, <1>11, <1>12, <1>13

LEMMA SweepsNext ==
  ASSUME MeterInv, MeterTyped', MachineKept', [Meter!Next]_(Meter!vars)
  PROVE  SweepsRight'
<1>1. MeterTyped /\ MachineKept /\ SweepsRight BY DEF MeterInv
<1>2. ~fooled' => \A q \in Planes : SweepLog(sweep[q])' BY SweepsLogsNext
<1>3. ASSUME NEW q \in Planes
      PROVE  Answered(sweep[q])' /\ (sweep'[q].at # "idle" => Closed(sweep[q])')
  <2>1. CASE sweep'[q] = sweep[q]
    <3>1. sweep[q].at # "idle" => Closed(sweep[q])' BY <2>1, ClosedStays
    <3>2. sweep[q].at \in {"inspect", "correct"} => tick' = tick
      BY DEF Meter!vars, Meter!Next, Meter!Tick, Meter!Starts, Meter!Stops, Meter!TearsDown,
         Meter!Unseen, Meter!RowCorrected, Meter!Begins, Meter!Inspects,
             Meter!Corrects, Meter!ReadsSpans, Meter!WritesHour, Meter!MovesMark, Meter!Dies, Meter!world
    <3>3. Answered(sweep[q]) BY <1>1 DEF SweepsRight
    <3>4. Answered(sweep[q])' BY <2>1, <3>2, <3>3 DEF Answered
    <3> QED BY <2>1, <3>1, <3>4
  <2>2. CASE sweep'[q] # sweep[q]
    <3>1. PICK p \in Planes : \/ Meter!Begins(p) \/ Meter!Inspects(p) \/ Meter!Corrects(p) \/ Meter!ReadsSpans(p)
                              \/ Meter!WritesHour(p) \/ Meter!MovesMark(p) \/ Meter!Dies(p)
      BY <2>2 DEF Meter!vars, Meter!Next, Meter!Starts, Meter!Stops, Meter!TearsDown,
         Meter!Unseen, Meter!RowCorrected, Meter!Tick
    <3>2. \A u : Meter!Set(p, u) => sweep'[p] = u /\ \A x \in Planes : x # p => sweep'[x] = sweep[x]
      BY <1>1, SetTyped
    <3>3. p = q
      <4>1. \E u : Meter!Set(p, u)
        BY <3>1 DEF Meter!Begins, Meter!Inspects, Meter!Corrects, Meter!ReadsSpans,
           Meter!WritesHour, Meter!MovesMark, Meter!Dies
      <4> QED BY <2>2, <3>2, <4>1
    <3>4. sweep'[q].at # "idle" => Closed(sweep[q])' BY <3>1, <3>3, ClosedMade
    <3>5. tick' = tick
      BY <3>1 DEF Meter!Begins, Meter!Inspects, Meter!Corrects, Meter!ReadsSpans,
         Meter!WritesHour, Meter!MovesMark, Meter!Dies, Meter!world
    <3> DEFINE s == sweep[p]
               r == sweep'[p]
    <3>6. r.at \in {"inspect", "correct"} => r.now = tick /\ r.row # "torn_down"
      <4>1. CASE Meter!Begins(p)
        <5> DEFINE at == IF status = "torn_down" THEN "spans" ELSE "inspect"
                   closed == Meter!HourOf(tick)
        <5>1. r = [at |-> at, row |-> status, now |-> IF status = "torn_down" THEN 0 ELSE tick,
                   closed |-> closed, mark |-> mark, hour |-> mark, alive |-> destroyed,
                   up |-> FALSE, lastUp |-> 0, lastDown |-> 0, spans |-> <<>>]
          BY <3>2, <4>1 DEF Meter!Begins
        <5>2. r.at = at /\ r.row = status /\ r.now = IF status = "torn_down" THEN 0 ELSE tick
          <6> HIDE DEF at, closed
          <6> QED BY <5>1
        <5> QED BY <5>2
      <4>2. CASE Meter!Inspects(p)
        <5>1. s.at = "inspect" BY <4>2 DEF Meter!Inspects
        <5>2. s \in SweepRow(s) /\ s.now = tick /\ s.row # "torn_down"
          BY <1>1, <5>1, MeterSweepTyped DEF SweepsRight, Answered
        <5>3. \/ r = Meter!NoSweep
              \/ r = [s EXCEPT !.at = "correct", !.up = up, !.lastUp = lastUp, !.lastDown = lastDown]
          BY <3>2, <4>2 DEF Meter!Inspects
        <5>4. CASE r = Meter!NoSweep BY <5>4 DEF Meter!NoSweep
        <5>5. CASE r = [s EXCEPT !.at = "correct", !.up = up, !.lastUp = lastUp, !.lastDown = lastDown]
          <6>1. r.now = s.now /\ r.row = s.row
            <7> HIDE DEF s, r
            <7> QED BY <5>2, <5>5, RowFields
          <6> QED BY <5>2, <6>1
        <5> QED BY <5>3, <5>4, <5>5
      <4>3. CASE Meter!Corrects(p)
        <5>1. s.at = "correct" BY <4>3 DEF Meter!Corrects
        <5>2. s \in SweepRow(s) BY <1>1, <5>1, MeterSweepTyped
        <5>3. r = Meter!NoSweep \/ r = Meter!Corrected(s) BY <3>2, <4>3 DEF Meter!Corrects
        <5>4. r.at = "idle" \/ r.at = "spans"
          <6> HIDE DEF s, r
          <6> QED BY <5>2, <5>3, RowFields DEF Meter!NoSweep
        <5> QED BY <5>4
      <4>4. CASE Meter!ReadsSpans(p) \/ Meter!WritesHour(p)
        <5>1. s.at # "idle" BY <4>4 DEF Meter!ReadsSpans, Meter!WritesHour
        <5>2. s \in SweepRow(s) BY <1>1, <5>1, MeterSweepTyped
        <5>3. \/ r = Meter!NoSweep
              \/ \E a \in {"hours", "mark"} : \E l, k : \/ r = [s EXCEPT !.at = a, !.spans = l]
                                                     \/ r = [s EXCEPT !.hour = k, !.at = a]
          <6>1. CASE Meter!ReadsSpans(p)
            BY <3>2, <6>1 DEF Meter!ReadsSpans
          <6>2. CASE Meter!WritesHour(p)
            BY <3>2, <6>2 DEF Meter!WritesHour
          <6> QED BY <4>4, <6>1, <6>2
        <5>4. r.at \in {"idle", "hours", "mark"}
          <6>1. CASE r = Meter!NoSweep BY <6>1 DEF Meter!NoSweep
          <6>2. ASSUME NEW a \in {"hours", "mark"}, NEW l, r = [s EXCEPT !.at = a, !.spans = l]
                PROVE  r.at = a
            <7> HIDE DEF s, r
            <7> QED BY <5>2, <6>2, RowFields
          <6>3. ASSUME NEW a \in {"hours", "mark"}, NEW k, r = [s EXCEPT !.hour = k, !.at = a]
                PROVE  r.at = a
            <7> HIDE DEF s, r
            <7> QED BY <5>2, <6>3, RowFields
          <6> HIDE DEF s, r
          <6> QED BY <5>3, <6>1, <6>2, <6>3
        <5> QED BY <5>4
      <4>5. CASE Meter!MovesMark(p) \/ Meter!Dies(p)
        <5>1. r = Meter!NoSweep BY <3>2, <4>5 DEF Meter!MovesMark, Meter!Dies
        <5> QED BY <5>1 DEF Meter!NoSweep
      <4> QED BY <3>1, <4>1, <4>2, <4>3, <4>4, <4>5
    <3>7. Answered(sweep[q])' BY <3>3, <3>5, <3>6 DEF Answered
    <3> QED BY <3>4, <3>7
  <2> QED BY <2>1, <2>2
<1> QED BY <1>2, <1>3 DEF SweepsRight

LEMMA MeterInvNext == MeterInv /\ [Meter!Next]_(Meter!vars) => MeterInv'
<1> SUFFICES ASSUME MeterInv, [Meter!Next]_(Meter!vars) PROVE MeterInv' OBVIOUS
<1>1. MeterTyped' BY MeterTypedNext DEF MeterInv
<1>2. MachineKept' BY MachineNext DEF MeterInv
<1>3. ~fooled' => LogRight' BY <1>1, <1>2, SweepsLogsNext
<1>4. RowsRight' BY <1>1, RowsNext
<1>5. MarkRight' BY <1>1, <1>2, MarkNext
<1>6. SweepsRight' BY <1>1, <1>2, SweepsNext
<1> QED BY <1>1, <1>2, <1>3, <1>4, <1>5, <1>6 DEF MeterInv

LEMMA SameCount == \A s : Meter!Cardinality(s) = Cardinality(s)
BY Zenon DEF Meter!Cardinality, Cardinality

LEMMA HoursRight == MeterInv => HoursAreExact
<1> SUFFICES ASSUME MeterInv, NEW h \in Meter!Hours, Meter!Metered(h)
             PROVE  /\ ~fooled => Meter!Amount(seconds[h]) = Cardinality(Ticks(h))
                    /\ Meter!Amount(disk[h]) = HeldIn(h)
  BY SameCount DEF HoursAreExact, Meter!TimeIsExact, Meter!DiskIsExact, Ticks, HeldIn
<1>1. MarkRight /\ MachineKept /\ MeterTyped BY DEF MeterInv
<1>2. first \in Wholes /\ first <= Meter!Start(h) /\ Meter!Start(h) \in Nat
  BY <1>1, WholesAre DEF Meter!Metered, MeterTyped
<1>3. /\ destroyed # Never => destroyed \in Nat
      /\ mark # Never => mark \in Nat
      /\ Never \notin Nat
  BY <1>1, WholesAre DEF MeterTyped
<1>4. Paid(h) /\ (destroyed = Never \/ Meter!Start(h) <= destroyed)
  <2>1. CASE mark # Never
    <3>1. PaidTo(mark) /\ (status = "torn_down" => mark <= destroyed) /\ Meter!Start(h) < mark
      BY <1>1, <2>1 DEF MarkRight, Meter!Metered
    <3>2. destroyed # Never => status = "torn_down" BY <1>1 DEF MachineKept
    <3> QED BY <1>2, <1>3, <2>1, <3>1, <3>2 DEF PaidTo
  <2>2. CASE mark = Never
    <3>1. status = "torn_down" /\ Meter!Start(h) < destroyed BY <2>2 DEF Meter!Metered
    <3>2. destroyed \in Nat BY <1>1, <1>3, <3>1 DEF MachineKept
    <3>3. PICK c \in Wholes : destroyed <= c /\ PaidTo(c)
      BY <1>1, <2>2 DEF MarkRight, Meter!Metered
    <3>4. c \in Nat BY WholesAre
    <3> QED BY <1>2, <3>1, <3>2, <3>3, <3>4 DEF PaidTo
  <2> QED BY <2>1, <2>2
<1> QED BY <1>4 DEF Paid

(* Every hour that is metered is billed for the ticks the machine was up   *)
(* in it and the disk for the time it was held, for any number of sweeps   *)
(* and however they overlap or die (meter_machines).                       *)
THEOREM HoursStayExact == Meter!Spec => []HoursAreExact
<1>1. Meter!Spec => []MeterInv BY MeterInvInit, MeterInvNext, PTL DEF Meter!Spec
<1> QED BY <1>1, HoursRight, PTL
=============================================================================
