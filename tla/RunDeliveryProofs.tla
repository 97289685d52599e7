------------------------- MODULE RunDeliveryProofs -------------------------
(***************************************************************************)
(* Theorems about RunDelivery, for every set of control planes and boxes   *)
(* and every value of the bounds, and about the approvals of a run         *)
(* (Approvals, as Asking), for any questions, repeats and faults.          *)
(***************************************************************************)
EXTENDS RunDelivery, MCApprovals, TLAPS

USE DEF Runs

(* The inductive invariant.  A run that is still queued has no age and no  *)
(* holder, and whoever holds a started run is inside the time that phase   *)
(* of its delivery may take.                                               *)
QueuedIsUntouched ==
    \A r \in Runs : status[r] \in {"unborn", "pending"} =>
        age[r] = 0 /\ \A p \in Planes : ~Holds(p, r)

PhasesAreOnTime ==
    \A p \in Planes : \A r \in Runs :
        /\ r \in taken[p] => age[r] <= Lag
        /\ carry[p][r] = "talking" => age[r] <= Timeout + Lag
        /\ carry[p][r] \in Outcomes => age[r] <= Timeout + Lag + Lag

IInv ==
    /\ TypeOK
    /\ QueuedIsUntouched
    /\ PhasesAreOnTime
    /\ OneDeliverer
    /\ OneRunningRunPerBox

(* An ending that may be written leaves the rows typed, and touches one.   *)
LEMMA EndRunTyping ==
    ASSUME TypeOK, NEW r \in Runs,
           NEW to \in TaskTerminal, NEW why \in ErrorClass, EndRun(r, to, why)
    PROVE  /\ status' \in [Runs -> TaskStatus]
           /\ error' \in [Runs -> ErrorClass]
           /\ boxOf' = boxOf /\ kind' = kind /\ age' = age
           /\ \A q \in Runs : status'[q] # status[q] =>
                /\ q = r /\ status'[q] = to /\ error'[q] = why
                /\ status[q] \in {"pending", "running"}
           /\ \A q \in Runs : status'[q] = status[q] /\ status[q] \in TaskTerminal =>
                error'[q] = error[q]
  BY DEF TypeOK, EndRun, TaskMayMove, TaskStatus, TaskTerminal

LEMMA EndingOfTyping ==
    ASSUME NEW o \in Outcomes
    PROVE  /\ EndingOf(o) \in TaskTerminal
           /\ (IF o = "done" THEN "none" ELSE o) \in ErrorClass \ {"stranded", "budget"}
  BY DEF Outcomes, EndingOf, TaskTerminal, ErrorClass

-----------------------------------------------------------------------------
LEMMA InitIInv == Init => IInv
  BY CountsAssumption, TimesAssumption
  DEF Init, IInv, TypeOK, QueuedIsUntouched, PhasesAreOnTime, OneDeliverer,
      OneRunningRunPerBox, Holds, InFlight, TaskStatus, ErrorClass, Outcomes, Decisions

(* Every step keeps the types.                                             *)
LEMMA NextTyping == TypeOK /\ [Next]_vars => TypeOK'
<1> USE DEF TypeOK
<1> SUFFICES ASSUME TypeOK, [Next]_vars PROVE TypeOK'
  OBVIOUS
<1>1. CASE UNCHANGED vars
  BY <1>1 DEF vars, rows, claims, teardown, bounds
<1>2. ASSUME NEW p \in Planes, PlaneStep(p) PROVE TypeOK'
  <2>1. CASE Offer(p)
    <3>1. \A b \in Boxes : OldestOf(WithStatus(b, "pending")) \subseteq Runs
      BY DEF OldestOf, WithStatus
    <3>2. UNION {OldestOf(WithStatus(b, "pending")) :
                    b \in Boxes \ {boxOf[r] : r \in InFlight(p)}} \subseteq Runs
      BY <3>1
    <3>3. offered' \in [Planes -> SUBSET Runs] /\ stage' \in [Planes -> {"idle", "look", "claimed"} \cup Decisions]
      BY <2>1, <3>2 DEF Offer
    <3> QED
      BY <2>1, <3>3 DEF Offer, rows, teardown, bounds
  <2>2. CASE Look(p)
    <3>1. /\ offered' \in [Planes -> SUBSET Runs]
          /\ stage' \in [Planes -> {"idle", "look", "claimed"} \cup Decisions]
      <4>1. offered' = offered \/ \E r \in Runs : offered' = [offered EXCEPT ![p] = @ \ {r}]
        BY <2>2 DEF Look, OldestOf
      <4>2. stage' = stage \/ \E d \in Decisions : stage' = [stage EXCEPT ![p] = d]
        BY <2>2 DEF Look, Decisions
      <4>3. offered' \in [Planes -> SUBSET Runs]
        BY <4>1
      <4>4. stage' \in [Planes -> {"idle", "look", "claimed"} \cup Decisions]
        BY <4>2
      <4> QED
        BY <4>3, <4>4
    <3> QED
      BY <2>2, <3>1 DEF Look, rows, teardown, bounds
  <2>3. CASE Act(p)
    <3>0. /\ UNCHANGED <<row, plane, carry, teardown, bounds>>
          /\ stage' = [stage EXCEPT ![p] = "look"]
      BY <2>3 DEF Act
    <3>1. PICK r \in OldestOf(offered[p]) :
            /\ offered' = [offered EXCEPT ![p] = @ \ {r}]
            /\ \/ /\ stage[p] # "start"
                  /\ EndRun(r, "budget_blocked", stage[p])
                  /\ UNCHANGED taken
               \/ /\ stage[p] = "start"
                  /\ MayStart(r)
                  /\ status' = [status EXCEPT ![r] = "running"]
                  /\ taken' = [taken EXCEPT ![p] = @ \cup {r}]
                  /\ UNCHANGED <<boxOf, kind, age, error>>
               \/ /\ stage[p] = "start"
                  /\ ~MayStart(r)
                  /\ UNCHANGED <<rows, taken>>
      BY <2>3 DEF Act
    <3>2. r \in Runs
      BY <3>1 DEF OldestOf
    <3>3. offered' \in [Planes -> SUBSET Runs] /\ stage' \in [Planes -> {"idle", "look", "claimed"} \cup Decisions]
      BY <3>0, <3>1
    <3>4. CASE EndRun(r, "budget_blocked", stage[p]) /\ stage[p] # "start" /\ UNCHANGED taken
      <4>1. stage[p] \in ErrorClass
        BY <2>3, <3>4 DEF Act, Decisions, ErrorClass, Outcomes
      <4>2. "budget_blocked" \in TaskTerminal
        BY DEF TaskTerminal
      <4> QED
        BY <3>0, <3>2, <3>3, <3>4, <4>1, <4>2, EndRunTyping DEF teardown, bounds
    <3>5. CASE UNCHANGED <<rows, taken>>
      BY <3>0, <3>3, <3>5 DEF rows, teardown, bounds
    <3>6. CASE /\ status' = [status EXCEPT ![r] = "running"]
               /\ taken' = [taken EXCEPT ![p] = @ \cup {r}]
               /\ UNCHANGED <<boxOf, kind, age, error>>
      <4>1. status' \in [Runs -> TaskStatus] /\ taken' \in [Planes -> SUBSET Runs]
        BY <3>2, <3>6 DEF TaskStatus
      <4> QED
        BY <3>0, <3>3, <3>6, <4>1 DEF teardown, bounds
    <3> QED
      BY <3>1, <3>4, <3>5, <3>6
  <2>4. CASE ClaimEnds(p)
    BY <2>4 DEF ClaimEnds, rows, teardown, bounds
  <2>5. CASE Launch(p)
    BY <2>5 DEF Launch, ClearClaim, rows, teardown, bounds
  <2>6. CASE ClaimFails(p)
    BY <2>6, CountsAssumption DEF ClaimFails, ClearClaim, rows, teardown
  <2>7. ASSUME NEW r \in Runs, TalkEnds(p, r) PROVE TypeOK'
    BY <2>7 DEF TalkEnds, rows, claims, teardown, bounds
  <2>8. ASSUME NEW r \in Runs, Finish(p, r) PROVE TypeOK'
    <3>1. carry' \in [Planes -> [Runs -> {"no", "talking"} \cup Outcomes]]
      BY <2>8 DEF Finish
    <3> QED
      BY <2>8, <3>1, EndRunTyping, EndingOfTyping DEF Finish, claims, teardown, bounds
  <2>9. CASE Stop(p)
    BY <2>9, CountsAssumption DEF Stop, rows, claims, teardown, Outcomes
  <2>10. CASE Exit(p)
    BY <2>10 DEF Exit, Forget, ClearClaim, rows, teardown, bounds
  <2>11. CASE Crash(p)
    BY <2>11, CountsAssumption DEF Crash, Forget, ClearClaim, rows, teardown
  <2>12. CASE Boot(p)
    BY <2>12 DEF Boot, rows, claims, teardown, bounds
  <2> QED
    BY <1>2, <2>1, <2>2, <2>3, <2>4, <2>5, <2>6, <2>7, <2>8, <2>9, <2>10, <2>11, <2>12
    DEF PlaneStep
<1>3. ASSUME NEW b \in Boxes, BoxStep(b) PROVE TypeOK'
  <2>1. CASE CreateRun(b)
    BY <2>1 DEF CreateRun, claims, teardown, bounds, TaskStatus
  <2>7. CASE FireTrigger(b)
    BY <2>7 DEF FireTrigger, claims, teardown, bounds, TaskStatus, TaskTerminal, ErrorClass
  <2>2. CASE Pause(b) \/ Unpause(b)
    BY <2>2 DEF Pause, Unpause, rows, claims, teardown, bounds
  <2>3. CASE TeardownScans(b)
    BY <2>3 DEF TeardownScans, WithStatus, rows, claims, bounds
  <2>4. CASE TeardownEndsRun(b)
    <3>1. PICK r \in OldestOf(scanQueued[b] \cup scanRunning[b]) :
            LET to == IF r \in scanRunning[b] THEN "failed" ELSE "cancelled"
            IN /\ EndRun(r, to, "torn_down")
               /\ \/ /\ scanQueued' = [scanQueued EXCEPT ![b] = @ \ {r}]
                     /\ scanRunning' = [scanRunning EXCEPT ![b] = @ \ {r}]
                     /\ UNCHANGED tearing
                  \/ TeardownStops(b)
      BY <2>4 DEF TeardownEndsRun
    <3>2. r \in Runs
      BY <3>1 DEF OldestOf
    <3>3. (IF r \in scanRunning[b] THEN "failed" ELSE "cancelled") \in TaskTerminal
      BY DEF TaskTerminal
    <3>4. "torn_down" \in ErrorClass
      BY DEF ErrorClass
    <3>5. /\ tearing' \in [Boxes -> {"no", "closing"}]
          /\ scanQueued' \in [Boxes -> SUBSET Runs]
          /\ scanRunning' \in [Boxes -> SUBSET Runs]
      <4>1. CASE /\ scanQueued' = [scanQueued EXCEPT ![b] = @ \ {r}]
                 /\ scanRunning' = [scanRunning EXCEPT ![b] = @ \ {r}]
                 /\ UNCHANGED tearing
        BY <4>1
      <4>2. CASE TeardownStops(b)
        BY <4>2 DEF TeardownStops
      <4>3. \/ /\ scanQueued' = [scanQueued EXCEPT ![b] = @ \ {r}]
               /\ scanRunning' = [scanRunning EXCEPT ![b] = @ \ {r}]
               /\ UNCHANGED tearing
            \/ TeardownStops(b)
        BY <3>1, Zenon
      <4> QED
        BY <4>1, <4>2, <4>3, Zenon
    <3>6. status' \in [Runs -> TaskStatus] /\ error' \in [Runs -> ErrorClass]
          /\ boxOf' = boxOf /\ kind' = kind /\ age' = age
      BY <3>1, <3>2, <3>3, <3>4, EndRunTyping
    <3> QED
      BY <2>4, <3>5, <3>6 DEF TeardownEndsRun, claims, bounds
  <2>5. CASE TeardownCloses(b)
    BY <2>5 DEF TeardownCloses, TeardownStops, rows, claims, bounds
  <2>6. CASE TeardownFails(b)
    BY <2>6, CountsAssumption DEF TeardownFails, TeardownStops, rows, claims
  <2> QED
    BY <1>3, <2>1, <2>2, <2>3, <2>4, <2>5, <2>6, <2>7 DEF BoxStep
<1>4. ASSUME NEW r \in Runs, Reap(r) PROVE TypeOK'
  BY <1>4, EndRunTyping DEF Reap, claims, teardown, bounds, TaskTerminal, ErrorClass
<1>5. CASE Tick
  <2>1. age' \in [Runs -> 0 .. Deadline + 1]
    BY <1>5, TimesAssumption DEF Tick
  <2> QED
    BY <1>5, <2>1 DEF Tick, claims, teardown, bounds
<1> QED
  BY <1>1, <1>2, <1>3, <1>4, <1>5 DEF Next

(* The type invariant: in particular a row never leaves TASK_STATUSES and  *)
(* a control plane never delivers what is not a run (FleetStore.start_run, *)
(* FleetStore.finish_run).                                                 *)
THEOREM TypeCorrect == Spec => []TypeOK
<1>1. Init => TypeOK
  BY InitIInv DEF IInv
<1> QED
  BY <1>1, NextTyping, PTL DEF Spec

-----------------------------------------------------------------------------
(* Only a start takes hold of a run: every other step of a control plane   *)
(* keeps or drops what is held.                                            *)
LEMMA ActEffect ==
    ASSUME TypeOK, NEW p \in Planes, Act(p)
    PROVE  \E r \in Runs :
            \/ /\ \E why \in ErrorClass \ {"stranded"} : EndRun(r, "budget_blocked", why)
               /\ taken' = taken
            \/ /\ r \in offered[p] /\ MayStart(r)
               /\ status' = [status EXCEPT ![r] = "running"]
               /\ taken' = [taken EXCEPT ![p] = @ \cup {r}]
               /\ UNCHANGED <<boxOf, kind, age, error>>
            \/ UNCHANGED <<rows, taken>>
<1>1. stage[p] \in Decisions /\ OldestOf(offered[p]) \subseteq Runs
  BY DEF Act, OldestOf, TypeOK
<1>2. stage[p] # "start" => stage[p] \in ErrorClass \ {"stranded"}
  BY <1>1 DEF Decisions, ErrorClass, Outcomes
<1>3. PICK r \in OldestOf(offered[p]) :
        \/ /\ stage[p] # "start"
           /\ EndRun(r, "budget_blocked", stage[p])
           /\ UNCHANGED taken
        \/ /\ MayStart(r)
           /\ status' = [status EXCEPT ![r] = "running"]
           /\ taken' = [taken EXCEPT ![p] = @ \cup {r}]
           /\ UNCHANGED <<boxOf, kind, age, error>>
        \/ UNCHANGED <<rows, taken>>
  BY DEF Act
<1>4. r \in Runs /\ r \in offered[p]
  BY <1>1, <1>3 DEF OldestOf
<1>5. CASE stage[p] # "start" /\ EndRun(r, "budget_blocked", stage[p]) /\ UNCHANGED taken
  <2>1. \E why \in ErrorClass \ {"stranded"} : EndRun(r, "budget_blocked", why)
    BY <1>2, <1>5
  <2> QED
    BY <1>4, <1>5, <2>1
<1>6. CASE MayStart(r) /\ status' = [status EXCEPT ![r] = "running"]
            /\ taken' = [taken EXCEPT ![p] = @ \cup {r}] /\ UNCHANGED <<boxOf, kind, age, error>>
  BY <1>4, <1>6
<1>7. CASE UNCHANGED <<rows, taken>>
  BY <1>4, <1>7
<1> QED
  BY <1>3, <1>5, <1>6, <1>7

LEMMA TeardownEndsRunEffect ==
    ASSUME TypeOK, NEW b \in Boxes, TeardownEndsRun(b)
    PROVE  \E r \in Runs : \E to \in TaskTerminal : EndRun(r, to, "torn_down")
<1>1. PICK r \in OldestOf(scanQueued[b] \cup scanRunning[b]) :
        EndRun(r, IF r \in scanRunning[b] THEN "failed" ELSE "cancelled", "torn_down")
  BY DEF TeardownEndsRun
<1>2. r \in Runs
  BY <1>1 DEF OldestOf, TypeOK
<1> QED
  BY <1>1, <1>2 DEF TaskTerminal

-----------------------------------------------------------------------------
(* What every step but a start and a tick does to the rows and the holds:  *)
(* queued runs may appear or end, started runs may end, and nobody takes   *)
(* hold of a run.                                                          *)
Quiet ==
    /\ age' = age
    /\ \A r \in Runs :
        /\ status'[r] = "pending" => status[r] \in {"unborn", "pending"}
        /\ status'[r] = "unborn" => status[r] = "unborn"
        /\ status'[r] = "running" => status[r] = "running" /\ boxOf'[r] = boxOf[r]
        /\ status[r] \in TaskTerminal => status'[r] = status[r] /\ error'[r] = error[r]
    /\ \A p \in Planes, r \in Runs :
        /\ r \in taken'[p] => r \in taken[p]
        /\ carry'[p][r] = "talking" => carry[p][r] = "talking" \/ (r \in taken[p] /\ r \notin taken'[p])
        /\ carry'[p][r] \in Outcomes => carry[p][r] \in Outcomes \cup {"talking"}

LEMMA QuietKeeps ==
    ASSUME IInv, TypeOK', Quiet
    PROVE  IInv'
<1> USE DEF IInv
<1>1. \A p \in Planes, r \in Runs : carry'[p][r] \in {"no", "talking"} \cup Outcomes
  BY DEF TypeOK
<1>2. \A p \in Planes, r \in Runs : Holds(p, r)' => Holds(p, r)
  BY <1>1 DEF Quiet, Holds, Outcomes
<1>3. QueuedIsUntouched'
  BY <1>2 DEF Quiet, QueuedIsUntouched
<1>4. PhasesAreOnTime'
  BY TimesAssumption DEF Quiet, PhasesAreOnTime, TypeOK
<1>5. OneDeliverer'
  <2>1. \A p \in Planes : \A r \in Runs : ~(r \in taken'[p] /\ carry'[p][r] # "no")
    BY <1>1 DEF Quiet, OneDeliverer, InFlight, Outcomes
  <2> QED
    BY <1>2, <2>1 DEF OneDeliverer, InFlight, TypeOK
<1>6. OneRunningRunPerBox'
  BY DEF Quiet, OneRunningRunPerBox
<1> QED
  BY <1>3, <1>4, <1>5, <1>6

(* Every ending written by anyone is quiet.                                *)
LEMMA EndRunQuiet ==
    ASSUME TypeOK, NEW r \in Runs, NEW to \in TaskTerminal, NEW why \in ErrorClass,
           EndRun(r, to, why)
    PROVE  /\ age' = age
           /\ \A q \in Runs :
                /\ status'[q] = "pending" => status[q] \in {"unborn", "pending"}
                /\ status'[q] = "unborn" => status[q] = "unborn"
                /\ status'[q] = "running" => status[q] = "running" /\ boxOf'[q] = boxOf[q]
                /\ status[q] \in TaskTerminal => status'[q] = status[q] /\ error'[q] = error[q]
  BY DEF EndRun, TypeOK, TaskMayMove, TaskTerminal

(* A start: `start_run` on a pending run nobody holds.                     *)
LEMMA StartKeeps ==
    ASSUME IInv, TypeOK', NEW p \in Planes, NEW r \in Runs,
           MayStart(r),
           status' = [status EXCEPT ![r] = "running"],
           taken' = [taken EXCEPT ![p] = @ \cup {r}],
           UNCHANGED <<boxOf, kind, age, error, carry>>
    PROVE  IInv'
<1> USE DEF IInv
<1>1. status[r] = "pending" /\ age[r] = 0 /\ \A q \in Planes : ~Holds(q, r)
  BY DEF MayStart, TaskMayMove, QueuedIsUntouched, TaskTerminal
<1>2. QueuedIsUntouched'
  BY <1>1 DEF QueuedIsUntouched, Holds, TypeOK
<1>3. PhasesAreOnTime'
  BY <1>1, TimesAssumption DEF PhasesAreOnTime, TypeOK
<1>4. OneDeliverer'
  BY <1>1 DEF OneDeliverer, InFlight, Holds, TypeOK
<1>5. OneRunningRunPerBox'
  BY DEF OneRunningRunPerBox, MayStart, TypeOK
<1> QED
  BY <1>2, <1>3, <1>4, <1>5

LEMMA TickKeeps ==
    ASSUME IInv, TypeOK', Tick
    PROVE  IInv'
<1> USE DEF IInv
<1>1. UNCHANGED <<status, boxOf, error, taken, carry>>
  BY DEF Tick, claims
<1>2. \A r \in Runs : age'[r] # age[r] =>
        age'[r] = age[r] + 1 /\ (status[r] = "running" \/ \E p \in Planes : Holds(p, r))
  BY DEF Tick
<1>3. QueuedIsUntouched'
  BY <1>1, <1>2 DEF QueuedIsUntouched, Holds
<1>4. PhasesAreOnTime'
  <2> SUFFICES ASSUME NEW p \in Planes, NEW r \in Runs
               PROVE  /\ r \in taken[p] => age'[r] <= Lag
                      /\ carry[p][r] = "talking" => age'[r] <= Timeout + Lag
                      /\ carry[p][r] \in Outcomes => age'[r] <= Timeout + Lag + Lag
    BY <1>1 DEF PhasesAreOnTime
  <2>0. age[r] \in Nat
    <3>1. age \in [Runs -> 0 .. Deadline + 1]
      BY DEF TypeOK
    <3> QED
      BY <3>1, TimesAssumption
  <2>1. age'[r] <= age[r] + 1
    BY <1>2, <2>0
  <2>2. OnTime(p, r)
    BY DEF Tick
  <2> QED
    BY <2>0, <2>1, <2>2, TimesAssumption DEF OnTime, TypeOK
<1>5. OneDeliverer' /\ OneRunningRunPerBox'
  BY <1>1 DEF OneDeliverer, OneRunningRunPerBox, Holds, InFlight
<1> QED
  BY <1>3, <1>4, <1>5

(* Each step is a start, a tick or quiet, but `Reap`, told apart because   *)
(* it alone closes runs as stranded.                                       *)
LEMMA PlaneStepKinds ==
    ASSUME TypeOK, NEW p \in Planes, PlaneStep(p)
    PROVE  \/ Quiet /\ \A r \in Runs : error'[r] = "stranded" => error[r] = "stranded"
           \/ \E r \in Runs :
                /\ r \in offered[p] /\ MayStart(r)
                /\ status' = [status EXCEPT ![r] = "running"]
                /\ taken' = [taken EXCEPT ![p] = @ \cup {r}]
                /\ UNCHANGED <<boxOf, kind, age, error, carry>>
<1> DEFINE Q == Quiet /\ \A r \in Runs : error'[r] = "stranded" => error[r] = "stranded"
<1> USE DEF TypeOK
<1>1. CASE Offer(p)
  BY <1>1 DEF Offer, Quiet, rows
<1>2. CASE Look(p)
  BY <1>2 DEF Look, Quiet, rows
<1>3. CASE Act(p)
  <2>1. carry' = carry
    BY <1>3 DEF Act
  <2>2. PICK r \in Runs :
            \/ /\ \E why \in ErrorClass \ {"stranded"} : EndRun(r, "budget_blocked", why)
               /\ taken' = taken
            \/ /\ r \in offered[p] /\ MayStart(r)
               /\ status' = [status EXCEPT ![r] = "running"]
               /\ taken' = [taken EXCEPT ![p] = @ \cup {r}]
               /\ UNCHANGED <<boxOf, kind, age, error>>
            \/ UNCHANGED <<rows, taken>>
    BY <1>3, ActEffect
  <2>3. ASSUME NEW why \in ErrorClass \ {"stranded"}, EndRun(r, "budget_blocked", why), taken' = taken
        PROVE  Q
    <3>1. "budget_blocked" \in TaskTerminal
      BY DEF TaskTerminal
    <3>2. \A q \in Runs : error'[q] = "stranded" => error[q] = "stranded"
      BY <2>3 DEF EndRun
    <3> QED
      BY <2>1, <2>3, <3>1, <3>2, EndRunQuiet DEF Quiet
  <2>4. CASE UNCHANGED <<rows, taken>>
    BY <2>1, <2>4 DEF Quiet, rows
  <2> QED
    BY <2>1, <2>2, <2>3, <2>4
<1>4. CASE ClaimEnds(p)
  BY <1>4 DEF ClaimEnds, Quiet, rows
<1>5. CASE Launch(p)
  BY <1>5 DEF Launch, ClearClaim, Quiet, rows, Outcomes
<1>6. CASE ClaimFails(p)
  BY <1>6 DEF ClaimFails, ClearClaim, Quiet, rows
<1>7. ASSUME NEW r \in Runs, TalkEnds(p, r) PROVE Q
  BY <1>7 DEF TalkEnds, Quiet, rows, claims, Outcomes
<1>8. ASSUME NEW r \in Runs, Finish(p, r) PROVE Q
  <2>1. PICK o \in Outcomes : EndRun(r, EndingOf(o), IF o = "done" THEN "none" ELSE o)
    BY <1>8 DEF Finish
  <2>2. EndingOf(o) \in TaskTerminal /\ (IF o = "done" THEN "none" ELSE o) \in ErrorClass \ {"stranded"}
    BY <2>1, EndingOfTyping
  <2>3. \A q \in Runs : error'[q] = "stranded" => error[q] = "stranded"
    BY <2>1, <2>2 DEF EndRun
  <2>4. taken' = taken /\ carry' = [carry EXCEPT ![p][r] = "no"]
    BY <1>8 DEF Finish, claims
  <2> QED
    BY <2>1, <2>2, <2>3, <2>4, EndRunQuiet DEF Quiet, Outcomes
<1>9. CASE Stop(p)
  BY <1>9 DEF Stop, Quiet, rows, claims, Outcomes
<1>10. CASE Exit(p)
  BY <1>10 DEF Exit, Forget, ClearClaim, Quiet, rows, Outcomes
<1>11. CASE Crash(p)
  BY <1>11 DEF Crash, Forget, ClearClaim, Quiet, rows, Outcomes
<1>12. CASE Boot(p)
  BY <1>12 DEF Boot, Quiet, rows, claims
<1> QED
  BY <1>1, <1>2, <1>3, <1>4, <1>5, <1>6, <1>7, <1>8, <1>9, <1>10, <1>11, <1>12 DEF PlaneStep

LEMMA BoxStepIsQuiet ==
    ASSUME TypeOK, NEW b \in Boxes, BoxStep(b)
    PROVE  Quiet /\ \A r \in Runs : error'[r] = "stranded" => error[r] = "stranded"
<1> USE DEF TypeOK
<1>1. CASE CreateRun(b)
  BY <1>1, CountsAssumption DEF CreateRun, Quiet, claims, TaskTerminal
<1>7. CASE FireTrigger(b)
  BY <1>7 DEF FireTrigger, Quiet, claims, TaskTerminal
<1>2. CASE Pause(b) \/ Unpause(b)
  BY <1>2 DEF Pause, Unpause, Quiet, rows, claims
<1>3. CASE TeardownScans(b)
  BY <1>3 DEF TeardownScans, Quiet, rows, claims
<1>4. CASE TeardownEndsRun(b)
  <2>1. PICK r \in Runs, to \in TaskTerminal : EndRun(r, to, "torn_down")
    BY <1>4, TeardownEndsRunEffect
  <2>2. \A q \in Runs : error'[q] = "stranded" => error[q] = "stranded"
    BY <2>1 DEF EndRun
  <2>3. "torn_down" \in ErrorClass
    BY DEF ErrorClass
  <2>4. taken' = taken /\ carry' = carry
    BY <1>4 DEF TeardownEndsRun, claims
  <2> QED
    BY <2>1, <2>2, <2>3, <2>4, EndRunQuiet DEF Quiet
<1>5. CASE TeardownCloses(b)
  BY <1>5 DEF TeardownCloses, Quiet, rows, claims
<1>6. CASE TeardownFails(b)
  BY <1>6 DEF TeardownFails, Quiet, rows, claims
<1> QED
  BY <1>1, <1>2, <1>3, <1>4, <1>5, <1>6, <1>7 DEF BoxStep

LEMMA ReapIsQuiet ==
    ASSUME TypeOK, NEW r \in Runs, Reap(r)
    PROVE  /\ Quiet
           /\ age[r] > Deadline
           /\ \A q \in Runs : error'[q] # error[q] => q = r
<1>1. EndRun(r, "failed", "stranded") /\ taken' = taken /\ carry' = carry
  BY DEF Reap, claims
<1>2. "failed" \in TaskTerminal /\ "stranded" \in ErrorClass
  BY DEF TaskTerminal, ErrorClass
<1>3. \A q \in Runs : error'[q] # error[q] => q = r
  BY <1>1 DEF EndRun, TypeOK
<1> QED
  BY <1>1, <1>2, <1>3, EndRunQuiet DEF Quiet, Reap

LEMMA StutterIsQuiet ==
    ASSUME UNCHANGED vars
    PROVE  Quiet /\ UNCHANGED <<error, carry, taken, status, boxOf>>
  BY DEF vars, rows, claims, Quiet, TaskTerminal

LEMMA NextIInv == IInv /\ [Next]_vars => IInv'
<1> SUFFICES ASSUME IInv, [Next]_vars PROVE IInv'
  OBVIOUS
<1>0. TypeOK /\ TypeOK'
  BY NextTyping DEF IInv
<1>1. CASE UNCHANGED vars
  BY <1>0, <1>1, StutterIsQuiet, QuietKeeps
<1>2. ASSUME NEW p \in Planes, PlaneStep(p) PROVE IInv'
  BY <1>0, <1>2, PlaneStepKinds, QuietKeeps, StartKeeps
<1>3. ASSUME NEW b \in Boxes, BoxStep(b) PROVE IInv'
  BY <1>0, <1>3, BoxStepIsQuiet, QuietKeeps
<1>4. ASSUME NEW r \in Runs, Reap(r) PROVE IInv'
  BY <1>0, <1>4, ReapIsQuiet, QuietKeeps
<1>5. CASE Tick
  BY <1>0, <1>5, TickKeeps
<1> QED
  BY <1>1, <1>2, <1>3, <1>4, <1>5 DEF Next

LEMMA Inductive == Spec => []IInv
  BY InitIInv, NextIInv, PTL DEF Spec

-----------------------------------------------------------------------------
(* An agent does one run at a time, however many control planes claim from *)
(* the same queue (FleetStore.start_run).                                  *)
THEOREM OneAtATime == Spec => []OneRunningRunPerBox
<1>1. IInv => OneRunningRunPerBox
  BY DEF IInv
<1> QED
  BY <1>1, Inductive, PTL

(* No run has two deliverers, whatever stops, dies or comes back.          *)
THEOREM NeverTwoDeliverers == Spec => []OneDeliverer
<1>1. IInv => OneDeliverer
  BY DEF IInv
<1> QED
  BY <1>1, Inductive, PTL

(* A delivery still alive is inside the deadline, whatever the timeout,    *)
(* the lag and the deadline are, as long as they leave room for each other *)
(* (TimesAssumption): the reason RUN_TIMEOUT_S < RUN_DEADLINE_S.           *)
LEMMA IInvDeadline == IInv => DeliveriesAreInsideDeadline
<1> SUFFICES ASSUME IInv, NEW p \in Planes, NEW r \in Runs, Holds(p, r)
             PROVE  age[r] <= Deadline
  BY DEF DeliveriesAreInsideDeadline
<1>1. age[r] \in Nat
  BY TimesAssumption DEF IInv, TypeOK
<1>2. r \in taken[p] \/ carry[p][r] = "talking" \/ carry[p][r] \in Outcomes
  BY DEF IInv, TypeOK, Holds
<1>3. age[r] <= Lag \/ age[r] <= Timeout + Lag \/ age[r] <= Timeout + Lag + Lag
  BY <1>2 DEF IInv, PhasesAreOnTime
<1> QED
  BY <1>1, <1>3, TimesAssumption

THEOREM InsideDeadline == Spec => []DeliveriesAreInsideDeadline
  BY IInvDeadline, Inductive, PTL

(* The reaper closes only what lost its deliverer.                         *)
THEOREM ReaperIsLast == Spec => ReaperOverrulesNobody
<1> DEFINE A == \A r \in Runs :
        error[r] # "stranded" /\ error'[r] = "stranded" => \A p \in Planes : ~Holds(p, r)
<1>1. IInv /\ [Next]_vars => [A]_vars
  <2> SUFFICES ASSUME IInv, [Next]_vars PROVE [A]_vars
    OBVIOUS
  <2>0. TypeOK
    BY DEF IInv
  <2>1. ASSUME NEW p \in Planes, PlaneStep(p) PROVE A
    BY <2>0, <2>1, PlaneStepKinds
  <2>2. ASSUME NEW b \in Boxes, BoxStep(b) PROVE A
    BY <2>0, <2>2, BoxStepIsQuiet
  <2>3. ASSUME NEW r \in Runs, Reap(r) PROVE A
    <3>1. \A p \in Planes : ~Holds(p, r)
      BY <2>0, <2>3, ReapIsQuiet, IInvDeadline, TimesAssumption
      DEF DeliveriesAreInsideDeadline, TypeOK
    <3> QED
      BY <2>0, <2>3, <3>1, ReapIsQuiet
  <2>4. CASE Tick
    BY <2>4 DEF Tick
  <2> QED
    BY <2>1, <2>2, <2>3, <2>4 DEF Next
<1>2. Spec => [][A]_vars
  BY <1>1, Inductive, PTL DEF Spec
<1> QED
  BY <1>2 DEF ReaperOverrulesNobody

(* One ending per run: the first verdict written is the one that stays.    *)
THEOREM FirstVerdictStays == Spec => VerdictStands
<1> DEFINE A == \A r \in Runs : status[r] \in TaskTerminal =>
        status'[r] = status[r] /\ error'[r] = error[r]
<1>1. IInv /\ [Next]_vars => [A]_vars
  <2> SUFFICES ASSUME IInv, [Next]_vars PROVE [A]_vars
    OBVIOUS
  <2>0. TypeOK
    BY DEF IInv
  <2>1. Quiet => A
    BY DEF Quiet
  <2>2. ASSUME NEW r \in Runs, MayStart(r), status' = [status EXCEPT ![r] = "running"],
               error' = error
        PROVE  A
    BY <2>0, <2>2 DEF MayStart, TaskMayMove, TaskTerminal, TypeOK
  <2>3. ASSUME NEW p \in Planes, PlaneStep(p) PROVE A
    BY <2>0, <2>1, <2>2, <2>3, PlaneStepKinds
  <2>4. ASSUME NEW b \in Boxes, BoxStep(b) PROVE A
    BY <2>0, <2>1, <2>4, BoxStepIsQuiet
  <2>5. ASSUME NEW r \in Runs, Reap(r) PROVE A
    BY <2>0, <2>1, <2>5, ReapIsQuiet
  <2>6. CASE Tick
    BY <2>6 DEF Tick
  <2> QED
    BY <2>3, <2>4, <2>5, <2>6 DEF Next
<1>2. Spec => [][A]_vars
  BY <1>1, Inductive, PTL DEF Spec
<1> QED
  BY <1>2 DEF VerdictStands

(* A run that left the queue is never handed to a control plane again.     *)
THEOREM NeverRedelivered == Spec => NothingDeliversAgain
<1> DEFINE A == \A p \in Planes, r \in Runs : ~Holds(p, r) /\ Holds(p, r)' => status[r] = "pending"
<1>1. IInv /\ [Next]_vars => [A]_vars
  <2> SUFFICES ASSUME IInv, [Next]_vars PROVE [A]_vars
    OBVIOUS
  <2>0. TypeOK /\ TypeOK'
    BY NextTyping DEF IInv
  <2>1. ASSUME Quiet PROVE A
    <3>1. \A p \in Planes, r \in Runs : carry'[p][r] \in {"no", "talking"} \cup Outcomes
      BY <2>0 DEF TypeOK
    <3>2. \A p \in Planes, r \in Runs : Holds(p, r)' => Holds(p, r)
      BY <2>1, <3>1 DEF Quiet, Holds, Outcomes
    <3> QED
      BY <3>2
  <2>2. ASSUME NEW p \in Planes, NEW r \in Runs, MayStart(r),
               taken' = [taken EXCEPT ![p] = @ \cup {r}], carry' = carry
        PROVE  A
    <3>1. status[r] = "pending"
      BY <2>0, <2>2 DEF MayStart, TaskMayMove, TaskTerminal, TypeOK
    <3> QED
      BY <2>0, <2>2, <3>1 DEF Holds, TypeOK
  <2>3. ASSUME NEW p \in Planes, PlaneStep(p) PROVE A
    BY <2>0, <2>1, <2>2, <2>3, PlaneStepKinds
  <2>4. ASSUME NEW b \in Boxes, BoxStep(b) PROVE A
    BY <2>0, <2>1, <2>4, BoxStepIsQuiet
  <2>5. ASSUME NEW r \in Runs, Reap(r) PROVE A
    BY <2>0, <2>1, <2>5, ReapIsQuiet
  <2>6. CASE Tick
    BY <2>6 DEF Tick, claims, Holds
  <2> QED
    BY <2>3, <2>4, <2>5, <2>6 DEF Next
<1>2. Spec => [][A]_vars
  BY <1>1, Inductive, PTL DEF Spec
<1> QED
  BY <1>2 DEF NothingDeliversAgain

-----------------------------------------------------------------------------
(* That an agent's runs start in order rests on what a sweep was offered:  *)
(* no run that somebody asked for waits before it in the same queue, or    *)
(* ever will: a request goes last, and one that left never comes back.     *)
OfferedAreFirst ==
    \A p \in Planes : \A r \in offered[p] :
        /\ status[r] # "unborn"
        /\ \A q \in Runs :
            q < r /\ boxOf[q] = boxOf[r] /\ status[q] = "pending" => kind[q] = "schedule"

InOrder == TypeOK /\ OfferedAreFirst

(* Every step but a new run and a sweep's read of the queue.     *)
QueueShrinks ==
    /\ boxOf' = boxOf /\ kind' = kind
    /\ \A r \in Runs : status'[r] = "unborn" <=> status[r] = "unborn"
    /\ \A r \in Runs : status'[r] = "pending" => status[r] = "pending"
    /\ \A p \in Planes : offered'[p] \subseteq offered[p]

LEMMA ShrinkingKeepsOrder ==
    ASSUME InOrder, TypeOK', QueueShrinks
    PROVE  InOrder'
<1>1. OfferedAreFirst'
  BY DEF InOrder, OfferedAreFirst, QueueShrinks, TypeOK
<1> QED
  BY <1>1 DEF InOrder

LEMMA EndRunShrinks ==
    ASSUME TypeOK, NEW r \in Runs, NEW to \in TaskTerminal, NEW why \in ErrorClass,
           EndRun(r, to, why), \A p \in Planes : offered'[p] \subseteq offered[p]
    PROVE  QueueShrinks
  BY DEF EndRun, TypeOK, TaskMayMove, TaskTerminal, QueueShrinks

LEMMA PlaneStepShrinks ==
    ASSUME TypeOK, NEW p \in Planes, PlaneStep(p), ~Offer(p)
    PROVE  QueueShrinks
<1> USE DEF TypeOK
<1>1. CASE Look(p)
  BY <1>1 DEF Look, QueueShrinks, rows
<1>2. CASE Act(p)
  <2>1. \A x \in Planes : offered'[x] \subseteq offered[x]
    BY <1>2 DEF Act
  <2>2. PICK r \in Runs :
            \/ /\ \E why \in ErrorClass \ {"stranded"} : EndRun(r, "budget_blocked", why)
               /\ taken' = taken
            \/ /\ r \in offered[p] /\ MayStart(r)
               /\ status' = [status EXCEPT ![r] = "running"]
               /\ taken' = [taken EXCEPT ![p] = @ \cup {r}]
               /\ UNCHANGED <<boxOf, kind, age, error>>
            \/ UNCHANGED <<rows, taken>>
    BY <1>2, ActEffect
  <2>3. ASSUME NEW why \in ErrorClass, EndRun(r, "budget_blocked", why) PROVE QueueShrinks
    BY <2>1, <2>3, EndRunShrinks DEF TaskTerminal
  <2>4. CASE MayStart(r) /\ status' = [status EXCEPT ![r] = "running"]
           /\ boxOf' = boxOf /\ kind' = kind
    BY <2>1, <2>4 DEF MayStart, TaskMayMove, TaskTerminal, QueueShrinks
  <2>5. CASE UNCHANGED rows
    BY <2>1, <2>5 DEF rows, QueueShrinks
  <2> QED
    BY <2>2, <2>3, <2>4, <2>5
<1>3. CASE ClaimEnds(p)
  BY <1>3 DEF ClaimEnds, QueueShrinks, rows
<1>4. CASE Launch(p)
  BY <1>4 DEF Launch, ClearClaim, QueueShrinks, rows
<1>5. CASE ClaimFails(p)
  BY <1>5 DEF ClaimFails, ClearClaim, QueueShrinks, rows
<1>6. ASSUME NEW r \in Runs, TalkEnds(p, r) PROVE QueueShrinks
  BY <1>6 DEF TalkEnds, QueueShrinks, rows, claims
<1>7. ASSUME NEW r \in Runs, Finish(p, r) PROVE QueueShrinks
  <2>1. PICK o \in Outcomes : EndRun(r, EndingOf(o), IF o = "done" THEN "none" ELSE o)
    BY <1>7 DEF Finish
  <2>2. offered' = offered
    BY <1>7 DEF Finish, claims
  <2> QED
    BY <2>1, <2>2, EndingOfTyping, EndRunShrinks
<1>8. CASE Stop(p) \/ Boot(p)
  BY <1>8 DEF Stop, Boot, QueueShrinks, rows, claims
<1>9. CASE Exit(p) \/ Crash(p)
  BY <1>9 DEF Exit, Crash, Forget, ClearClaim, QueueShrinks, rows
<1> QED
  BY <1>1, <1>2, <1>3, <1>4, <1>5, <1>6, <1>7, <1>8, <1>9 DEF PlaneStep

LEMMA BoxStepShrinks ==
    ASSUME TypeOK, NEW b \in Boxes, BoxStep(b), ~CreateRun(b), ~FireTrigger(b)
    PROVE  QueueShrinks
<1>1. CASE Pause(b) \/ Unpause(b)
  BY <1>1 DEF Pause, Unpause, QueueShrinks, rows, claims
<1>2. CASE TeardownScans(b)
  BY <1>2 DEF TeardownScans, QueueShrinks, rows, claims
<1>3. CASE TeardownEndsRun(b)
  <2>1. PICK r \in Runs, to \in TaskTerminal : EndRun(r, to, "torn_down")
    BY <1>3, TeardownEndsRunEffect
  <2>2. offered' = offered /\ "torn_down" \in ErrorClass
    BY <1>3 DEF TeardownEndsRun, claims, ErrorClass
  <2> QED
    BY <2>1, <2>2, EndRunShrinks
<1>4. CASE TeardownCloses(b) \/ TeardownFails(b)
  BY <1>4 DEF TeardownCloses, TeardownFails, QueueShrinks, rows, claims
<1> QED
  BY <1>1, <1>2, <1>3, <1>4 DEF BoxStep

(* A sweep reads the first waiting run of each queue.                      *)
LEMMA OfferKeepsOrder ==
    ASSUME InOrder, TypeOK', NEW p \in Planes, Offer(p)
    PROVE  InOrder'
<1> USE DEF InOrder
<1>1. /\ status' = status /\ boxOf' = boxOf /\ kind' = kind
      /\ \A x \in Planes \ {p} : offered'[x] = offered[x]
  BY DEF Offer, rows, TypeOK
<1>2. \A r \in offered'[p] : \E b \in Boxes : r \in OldestOf(WithStatus(b, "pending"))
  BY DEF Offer, TypeOK
<1>3. \A r \in offered'[p] :
        /\ status[r] = "pending"
        /\ \A q \in Runs : q < r /\ boxOf[q] = boxOf[r] => status[q] # "pending"
  <2> SUFFICES ASSUME NEW r \in offered'[p]
               PROVE  /\ status[r] = "pending"
                      /\ \A q \in Runs : q < r /\ boxOf[q] = boxOf[r] => status[q] # "pending"
    OBVIOUS
  <2>1. PICK b \in Boxes : r \in OldestOf(WithStatus(b, "pending"))
    BY <1>2
  <2>2. r \in Runs /\ status[r] = "pending" /\ boxOf[r] = b
    BY <2>1 DEF OldestOf, WithStatus
  <2>3. \A q \in Runs : boxOf[q] = b /\ status[q] = "pending" => r <= q
    BY <2>1 DEF OldestOf, WithStatus
  <2> QED
    BY <2>2, <2>3, CountsAssumption
<1>4. OfferedAreFirst'
  BY <1>1, <1>3 DEF OfferedAreFirst
<1> QED
  BY <1>4

(* A run somebody asks for goes last: it is before no run ever offered.    *)
LEMMA CreateRunKeepsOrder ==
    ASSUME InOrder, TypeOK', NEW b \in Boxes, CreateRun(b)
    PROVE  InOrder'
<1> USE DEF InOrder, TypeOK
<1>1. PICK r \in Runs :
        /\ \A q \in Runs : r <= q => status[q] = "unborn"
        /\ status' = [status EXCEPT ![r] = "pending"]
        /\ boxOf' = [boxOf EXCEPT ![r] = b]
  BY DEF CreateRun
<1>2. offered' = offered /\ kind' = kind
  BY DEF CreateRun, claims
<1>3. \A x \in Planes : \A h \in offered[x] : h \in Runs /\ h < r
  BY <1>1, CountsAssumption DEF OfferedAreFirst
<1>4. ASSUME NEW x \in Planes, NEW h \in offered[x]
      PROVE  /\ status'[h] # "unborn"
             /\ \A q \in Runs :
                 q < h /\ boxOf'[q] = boxOf'[h] /\ status'[q] = "pending" => kind[q] = "schedule"
  <2>1. h \in Runs /\ h < r /\ status'[h] = status[h] /\ boxOf'[h] = boxOf[h]
    BY <1>1, <1>3, CountsAssumption
  <2>2. \A q \in Runs : q < h => status'[q] = status[q] /\ boxOf'[q] = boxOf[q]
    BY <1>1, <2>1, CountsAssumption
  <2> QED
    BY <2>1, <2>2 DEF OfferedAreFirst
<1> QED
  BY <1>2, <1>4 DEF OfferedAreFirst

(* A schedule's run may go before one that was offered.                    *)
LEMMA FireTriggerKeepsOrder ==
    ASSUME InOrder, TypeOK', NEW b \in Boxes, FireTrigger(b)
    PROVE  InOrder'
<1> USE DEF InOrder, TypeOK
<1>1. PICK r \in Runs, s \in {"cancelled", "pending"} :
        /\ status[r] = "unborn"
        /\ status' = [status EXCEPT ![r] = s]
        /\ boxOf' = [boxOf EXCEPT ![r] = b]
        /\ kind' = [kind EXCEPT ![r] = "schedule"]
  BY DEF FireTrigger
<1>2. offered' = offered
  BY DEF FireTrigger, claims
<1>3. ASSUME NEW x \in Planes, NEW h \in offered[x]
      PROVE  /\ status'[h] # "unborn"
             /\ \A q \in Runs :
                 q < h /\ boxOf'[q] = boxOf'[h] /\ status'[q] = "pending" => kind'[q] = "schedule"
  <2>1. h \in Runs /\ h # r /\ status'[h] = status[h] /\ boxOf'[h] = boxOf[h]
    BY <1>1 DEF OfferedAreFirst
  <2>2. \A q \in Runs \ {r} :
          status'[q] = status[q] /\ boxOf'[q] = boxOf[q] /\ kind'[q] = kind[q]
    BY <1>1
  <2>3. kind'[r] = "schedule"
    BY <1>1
  <2> QED
    BY <2>1, <2>2, <2>3 DEF OfferedAreFirst
<1> QED
  BY <1>2, <1>3 DEF OfferedAreFirst

LEMMA OrderIsKept == InOrder /\ [Next]_vars => InOrder'
<1> SUFFICES ASSUME InOrder, [Next]_vars PROVE InOrder'
  OBVIOUS
<1>0. TypeOK /\ TypeOK'
  BY NextTyping DEF InOrder
<1>1. CASE UNCHANGED vars
  BY <1>0, <1>1, ShrinkingKeepsOrder DEF vars, rows, claims, QueueShrinks
<1>2. ASSUME NEW p \in Planes, PlaneStep(p) PROVE InOrder'
  BY <1>0, <1>2, OfferKeepsOrder, PlaneStepShrinks, ShrinkingKeepsOrder
<1>3. ASSUME NEW b \in Boxes, BoxStep(b) PROVE InOrder'
  BY <1>0, <1>3, CreateRunKeepsOrder, FireTriggerKeepsOrder, BoxStepShrinks, ShrinkingKeepsOrder
<1>4. ASSUME NEW r \in Runs, Reap(r) PROVE InOrder'
  <2>1. QueueShrinks
    BY <1>0, <1>4, EndRunShrinks DEF Reap, claims, TaskTerminal, ErrorClass
  <2> QED
    BY <1>0, <2>1, ShrinkingKeepsOrder
<1>5. CASE Tick
  BY <1>0, <1>5, ShrinkingKeepsOrder DEF Tick, claims, QueueShrinks
<1> QED
  BY <1>1, <1>2, <1>3, <1>4, <1>5 DEF Next

(* A run somebody asked for is never passed over by a later one of its     *)
(* agent, though a sweep starts a run long after it read the queue, beside *)
(* other sweeps, and schedules put runs in between (queued_runs, _claim).  *)
THEOREM FirstAskedFirstStarted == Spec => StartsInOrder
<1> DEFINE A == \A r, q \in Runs :
        /\ status[r] = "pending" /\ status'[r] = "running"
        /\ q < r /\ boxOf[q] = boxOf[r] /\ status[q] = "pending"
        => kind[q] = "schedule"
<1>1. Init => InOrder
  BY InitIInv DEF IInv, InOrder, Init, OfferedAreFirst
<1>2. InOrder /\ [Next]_vars => [A]_vars
  <2> SUFFICES ASSUME InOrder, [Next]_vars PROVE [A]_vars
    OBVIOUS
  <2>0. TypeOK
    BY DEF InOrder
  <2>1. Quiet => A
    BY DEF Quiet
  <2>2. ASSUME NEW p \in Planes, NEW r \in offered[p], status' = [status EXCEPT ![r] = "running"]
        PROVE  A
    BY <2>0, <2>2 DEF InOrder, OfferedAreFirst, TypeOK
  <2>3. ASSUME NEW p \in Planes, PlaneStep(p) PROVE A
    BY <2>0, <2>1, <2>2, <2>3, PlaneStepKinds
  <2>4. ASSUME NEW b \in Boxes, BoxStep(b) PROVE A
    BY <2>0, <2>1, <2>4, BoxStepIsQuiet
  <2>5. ASSUME NEW r \in Runs, Reap(r) PROVE A
    BY <2>0, <2>1, <2>5, ReapIsQuiet
  <2>6. CASE Tick
    BY <2>6 DEF Tick
  <2> QED
    BY <2>3, <2>4, <2>5, <2>6 DEF Next
<1>3. Spec => []InOrder
  BY <1>1, OrderIsKept, PTL DEF Spec
<1>4. Spec => [][A]_vars
  BY <1>2, <1>3, PTL DEF Spec
<1> QED
  BY <1>4 DEF StartsInOrder

-----------------------------------------------------------------------------
(* Approvals.  That a row says what the box was told rests on what the     *)
(* control plane remembers: once the turn is over nothing is left to send, *)
(* and what was sent was answered first and is marked before anything      *)
(* expires.                                                                *)

(* A thread that records a question, or marks one, has one in hand, and so *)
(* has the relay whose send has not come back.                             *)
InHand ==
    /\ \A t \in Asking!Threads : step[t] \in {"ask", "mark"} => hand[t] \in Questions
    /\ relay = "writing" => hand["relay"] \in Questions
    /\ relay \in {"asleep", "sending", "writing"} => step["relay"] = "idle"

AsksTyped == Asking!TypeOK /\ InHand

(* The relay that could send anything ends with the turn, and before that  *)
(* nothing is closed.                                                      *)
TurnOver ==
    /\ talk # "on" => outbox = {} /\ relay \in {"cancelled", "dead"}
    /\ step["closer"] # "idle" => talk # "on"

(* Until then the box is told nothing but choices.                         *)
NoDenialYet ==
    talk = "on" => \A q \in Questions : \A i \in DOMAIN told[q] : told[q][i] = "choice"

(* What the box was sent was the first thing it heard of that question.    *)
ChoicesCameFirst ==
    \A q \in Questions :
        (\E i \in DOMAIN told[q] : told[q][i] = "choice")
            => told[q] # <<>> /\ told[q][1] = "choice"

(* What is noted in `_sent`, or about to be, was sent.                     *)
Written(q) == q \in sent \/ (relay = "writing" /\ q = hand["relay"])

NotedWereSent ==
    \A q \in Questions : Written(q) => told[q] # <<>> /\ told[q][1] = "choice"

(* Only answers are carried, and the row of one that was written loses it  *)
(* only if it was cut off.                                                 *)
CarriedAreAnswered ==
    \A q \in Questions : q \in outbox \/ Written(q) => asks[q] = "answered"

ChoicesAreAnswers ==
    \A q \in Questions :
        (\E i \in DOMAIN told[q] : told[q][i] = "choice")
            => asks[q] = "answered" \/ (q \notin sent /\ asks[q] = "expired")

(* Only what was sent is marked.                                           *)
MarkedWereSent ==
    /\ delivered \subseteq sent
    /\ step["relay"] = "mark" => hand["relay"] \in sent

AsksInv ==
    /\ AsksTyped
    /\ TurnOver
    /\ NoDenialYet
    /\ ChoicesCameFirst
    /\ NotedWereSent
    /\ CarriedAreAnswered
    /\ ChoicesAreAnswers
    /\ MarkedWereSent
-----------------------------------------------------------------------------
LEMMA AsksTypedInit == Asking!Init => AsksTyped
  BY AskingAssumption DEF Asking!BoundsAssumption, Asking!NoQuestionAssumption,
     Asking!Init, AsksTyped, Asking!TypeOK, InHand, Asking!Threads, Asking!RowStatus,
     Asking!Replies

LEMMA AsksTypedNext == AsksTyped /\ [Asking!Next]_(Asking!vars) => AsksTyped'
<1> SUFFICES ASSUME AsksTyped, [Asking!Next]_(Asking!vars) PROVE AsksTyped'
  OBVIOUS
<1> USE AskingAssumption DEF Asking!BoundsAssumption, Asking!NoQuestionAssumption,
        AsksTyped, Asking!TypeOK, InHand, Asking!Threads, Asking!RowStatus
<1>1. CASE Asking!RelayStep
  <2>1. CASE Asking!RelayWakes \/ Asking!RelaySleeps
    BY <2>1 DEF Asking!RelayWakes, Asking!RelaySleeps, Asking!rows, Asking!people,
       Asking!memory, Asking!box, Asking!threads, Asking!bounds
  <2>2. ASSUME NEW q \in Questions, Asking!Sends(q) PROVE AsksTyped'
    BY <2>2 DEF Asking!Sends, Asking!Tell, Asking!Replies, Asking!rows, Asking!people,
       Asking!memory, Asking!bounds
  <2>3. CASE Asking!Notes
    BY <2>3 DEF Asking!Notes, Asking!rows, Asking!people, Asking!box, Asking!bounds
  <2>4. QED
    BY <1>1, <2>1, <2>2, <2>3 DEF Asking!RelayStep
<1>2. CASE Asking!CloseStep
  <2>1. CASE Asking!Withdraws
    <3>1. told' \in [Questions -> Seq(Asking!Replies)]
      <4>1. \A q \in Questions : Append(told[q], "deny") \in Seq(Asking!Replies)
        BY DEF Asking!Replies
      <4>2. CASE told' = told
        BY <4>2
      <4>3. CASE told' = [q \in Questions |->
                            IF q \in open THEN Append(told[q], "deny") ELSE told[q]]
        BY <4>1, <4>3
      <4>4. QED
        BY <2>1, <4>2, <4>3 DEF Asking!Withdraws
    <3>2. QED
      BY <2>1, <3>1 DEF Asking!Withdraws, Asking!Fault, Asking!rows, Asking!people,
         Asking!memory
  <2>2. CASE Asking!CloseExpires
    BY <2>2 DEF Asking!CloseExpires, Asking!people, Asking!memory, Asking!box,
       Asking!threads, Asking!bounds
  <2>3. ASSUME NEW q \in Questions, Asking!CloseMarks(q) PROVE AsksTyped'
    BY <2>3 DEF Asking!CloseMarks, Asking!people, Asking!memory, Asking!box,
       Asking!tasks, Asking!threads, Asking!bounds
  <2>4. QED
    BY <1>2, <2>1, <2>2, <2>3 DEF Asking!CloseStep
<1>3. CASE Asking!MarksSent
  BY <1>3 DEF Asking!MarksSent, Asking!people, Asking!memory, Asking!box, Asking!bounds
<1>4. ASSUME NEW t \in Asking!Threads, Asking!ThreadStep(t) PROVE AsksTyped'
  <2>1. CASE Asking!Looks(t) \/ Asking!HoldsOn(t)
    BY <2>1 DEF Asking!Looks, Asking!HoldsOn, Asking!rows, Asking!people, Asking!memory,
       Asking!box, Asking!tasks, Asking!bounds
  <2>2. CASE Asking!Records(t)
    <3>1. hand[t] \in Questions
      BY <2>2 DEF Asking!Records
    <3>2. asks' \in [Questions -> Asking!RowStatus] /\ held' \subseteq Questions
      BY <2>2, <3>1 DEF Asking!Records
    <3>3. QED
      BY <2>2, <3>1, <3>2 DEF Asking!Records, Asking!Opens, Asking!people, Asking!box,
         Asking!tasks, Asking!bounds
  <2>3. CASE Asking!Collects(t)
    BY <2>3 DEF Asking!Collects, Asking!Due, Asking!rows, Asking!people, Asking!box,
       Asking!tasks, Asking!bounds
  <2>4. CASE Asking!PopsNothing(t)
    BY <2>4 DEF Asking!PopsNothing, Asking!ThreadRaises, Asking!rows, Asking!people,
       Asking!memory, Asking!box
  <2>5. ASSUME NEW q \in Questions, Asking!Pops(t, q) PROVE AsksTyped'
    BY <2>5 DEF Asking!Pops, Asking!Left, Asking!rows, Asking!people, Asking!box,
       Asking!tasks, Asking!bounds
  <2>6. QED
    BY <1>4, <2>1, <2>2, <2>3, <2>4, <2>5 DEF Asking!ThreadStep
<1>5. ASSUME NEW t \in Asking!Threads, Asking!StoreFails(t) PROVE AsksTyped'
  BY <1>5 DEF Asking!StoreFails, Asking!Fault, Asking!ThreadRaises, Asking!rows,
     Asking!people, Asking!memory, Asking!box
<1>6. ASSUME NEW q \in Questions,
             Asking!Hear(q) \/ Asking!AnswerLooks(q) \/ Asking!Answers(q)
                 \/ Asking!HoldLapses(q)
      PROVE  AsksTyped'
  <2>1. CASE Asking!Hear(q)
    BY <2>1 DEF Asking!Hear, Asking!rows, Asking!people, Asking!memory, Asking!tasks,
       Asking!threads, Asking!bounds
  <2>2. CASE Asking!AnswerLooks(q)
    BY <2>2 DEF Asking!AnswerLooks, Asking!rows, Asking!memory, Asking!box,
       Asking!tasks, Asking!threads, Asking!bounds
  <2>3. CASE Asking!Answers(q)
    BY <2>3 DEF Asking!Answers, Asking!memory, Asking!box, Asking!tasks, Asking!threads,
       Asking!bounds
  <2>4. CASE Asking!HoldLapses(q)
    BY <2>4 DEF Asking!HoldLapses, Asking!people, Asking!memory, Asking!box,
       Asking!tasks, Asking!threads, Asking!bounds
  <2>5. QED
    BY <1>6, <2>1, <2>2, <2>3, <2>4
<1>7. CASE Asking!TurnEnds \/ Asking!RunEnds \/ Asking!SendFails \/ Asking!CloseFails
               \/ Asking!Crash
  BY <1>7 DEF Asking!TurnEnds, Asking!RunEnds, Asking!SendFails, Asking!CloseFails,
     Asking!Crash, Asking!Fault, Asking!rows, Asking!people, Asking!memory, Asking!box,
     Asking!tasks, Asking!threads, Asking!bounds
<1>8. CASE UNCHANGED Asking!vars
  BY <1>8 DEF Asking!vars, Asking!rows, Asking!people, Asking!memory, Asking!box,
     Asking!tasks, Asking!threads, Asking!bounds
<1>9. QED
  BY <1>1, <1>2, <1>3, <1>4, <1>5, <1>6, <1>7, <1>8 DEF Asking!Next

(* The type invariant, with the threads' hands: a thread never records or  *)
(* marks a question it does not hold (Talk._sync, Talk._delivered).        *)
THEOREM AsksTypeCorrect == Asking!Spec => []Asking!TypeOK
<1>1. Asking!Spec => []AsksTyped
  BY AsksTypedInit, AsksTypedNext, PTL DEF Asking!Spec
<1>2. AsksTyped => Asking!TypeOK
  BY DEF AsksTyped
<1>3. QED
  BY <1>1, <1>2, PTL
-----------------------------------------------------------------------------
LEMMA AsksInit == Asking!Init => AsksInv
<1> SUFFICES ASSUME Asking!Init PROVE AsksInv
  OBVIOUS
<1>1. AsksTyped
  BY AsksTypedInit
<1>2. /\ TurnOver /\ NoDenialYet /\ ChoicesCameFirst /\ NotedWereSent
      /\ CarriedAreAnswered /\ ChoicesAreAnswers
  BY DEF Asking!Init, TurnOver, NoDenialYet, ChoicesCameFirst, NotedWereSent,
     CarriedAreAnswered, ChoicesAreAnswers, Written, Asking!Threads
<1>3. MarkedWereSent
  BY DEF Asking!Init, MarkedWereSent, Asking!Threads
<1>4. QED
  BY <1>1, <1>2, <1>3 DEF AsksInv

(* Steps that move neither what was sent nor what the rows answered.       *)
LEMMA QuietAsks ==
  ASSUME AsksInv, AsksTyped',
         UNCHANGED <<asks, delivered, sent, told>>,
         outbox' \subseteq outbox,
         talk # "on" => talk' # "on",
         talk' # "on" => outbox' = {} /\ relay' \in {"cancelled", "dead"},
         step'["closer"] # "idle" => talk' # "on",
         step'["relay"] = "mark"
             => step["relay"] = "mark" /\ hand'["relay"] = hand["relay"],
         relay' = "writing" => relay = "writing" /\ hand'["relay"] = hand["relay"]
  PROVE  AsksInv'
<1>1. \A q \in Questions : Written(q)' => Written(q)
  BY DEF Written
<1>2. QED
  BY <1>1 DEF AsksInv, TurnOver, NoDenialYet, ChoicesCameFirst, NotedWereSent,
     CarriedAreAnswered, ChoicesAreAnswers, MarkedWereSent

LEMMA AsksNext == AsksInv /\ [Asking!Next]_(Asking!vars) => AsksInv'
<1> SUFFICES ASSUME AsksInv, [Asking!Next]_(Asking!vars) PROVE AsksInv'
  OBVIOUS
<1>0. AsksTyped'
  BY AsksTypedNext DEF AsksInv
<1>1. CASE Asking!RelayWakes \/ Asking!RelaySleeps
  BY <1>0, <1>1, QuietAsks DEF Asking!RelayWakes, Asking!RelaySleeps, Asking!rows,
     Asking!memory, Asking!box, Asking!threads, AsksInv, AsksTyped, Asking!TypeOK,
     TurnOver, Asking!Threads
<1>2. ASSUME NEW q \in Questions, Asking!Sends(q) PROVE AsksInv'
  <2>1. talk = "on" /\ talk' = "on"
    BY <1>2 DEF Asking!Sends, AsksInv, TurnOver
  <2>2. told \in [Questions -> Seq(Asking!Replies)]
            /\ told' = [told EXCEPT ![q] = Append(@, "choice")]
    BY <1>2 DEF Asking!Sends, Asking!Tell, AsksInv, AsksTyped, Asking!TypeOK
  <2>3. \A r \in Questions \ {q} : told'[r] = told[r]
    BY <2>2
  <2>4. \A i \in DOMAIN told'[q] : told'[q][i] = "choice"
    <3>1. \A i \in DOMAIN told[q] : told[q][i] = "choice"
      BY <2>1 DEF AsksInv, NoDenialYet
    <3>2. told'[q] = Append(told[q], "choice") /\ told[q] \in Seq(Asking!Replies)
      BY <2>2
    <3>3. QED
      BY <3>1, <3>2
  <2>5. told'[q] # <<>> /\ told'[q][1] = "choice"
    <3>1. told'[q] = Append(told[q], "choice") /\ told[q] \in Seq(Asking!Replies)
      BY <2>2
    <3>2. Len(told'[q]) = Len(told[q]) + 1 /\ Len(told[q]) \in Nat
      BY <3>1
    <3>3. 1 \in DOMAIN told'[q] /\ told'[q] # <<>>
      BY <3>1, <3>2
    <3>4. QED
      BY <2>4, <3>3
  <2>6. UNCHANGED <<asks, delivered, sent, step>> /\ outbox' \subseteq outbox
        /\ q \in outbox /\ hand'["relay"] = q /\ relay = "sending" /\ relay' = "writing"
        /\ step["relay"] = "idle"
    BY <1>2 DEF Asking!Sends, Asking!rows, Asking!memory, AsksInv, AsksTyped,
       Asking!TypeOK, Asking!Threads, InHand
  <2>7. \A r \in Questions : Written(r)' => Written(r) \/ r = q
    BY <2>6 DEF Written
  <2>8. asks[q] = "answered"
    BY <2>6 DEF AsksInv, CarriedAreAnswered
  <2>9. TurnOver' /\ NoDenialYet' /\ MarkedWereSent'
    BY <2>1, <2>3, <2>4, <2>6 DEF AsksInv, TurnOver, NoDenialYet, MarkedWereSent
  <2>10. ChoicesCameFirst' /\ NotedWereSent'
    BY <2>3, <2>5, <2>7 DEF AsksInv, ChoicesCameFirst, NotedWereSent
  <2>11. CarriedAreAnswered' /\ ChoicesAreAnswers'
    BY <2>3, <2>6, <2>7, <2>8 DEF AsksInv, CarriedAreAnswered, ChoicesAreAnswers
  <2>12. QED
    BY <1>0, <2>9, <2>10, <2>11 DEF AsksInv
<1>2a. CASE Asking!Notes
  <2>1. UNCHANGED <<asks, delivered, told, outbox, talk, hand>> /\ talk = "on"
        /\ relay = "writing" /\ relay' = "waiting" /\ sent' = sent \cup {hand["relay"]}
        /\ step'["closer"] = step["closer"] /\ hand["relay"] \in Questions
    BY <1>2a DEF Asking!Notes, Asking!rows, Asking!box, AsksInv, AsksTyped,
       Asking!TypeOK, Asking!Threads, InHand, TurnOver
  <2>2. \A r \in Questions : Written(r)' <=> Written(r)
    BY <2>1 DEF Written
  <2>3. asks[hand["relay"]] = "answered"
    BY <2>1 DEF AsksInv, CarriedAreAnswered, Written
  <2>4. TurnOver' /\ NoDenialYet' /\ MarkedWereSent'
    BY <2>1 DEF AsksInv, TurnOver, NoDenialYet, MarkedWereSent
  <2>5. ChoicesCameFirst' /\ NotedWereSent' /\ CarriedAreAnswered' /\ ChoicesAreAnswers'
    BY <2>1, <2>2, <2>3 DEF AsksInv, ChoicesCameFirst, NotedWereSent, CarriedAreAnswered,
       ChoicesAreAnswers
  <2>6. QED
    BY <1>0, <2>4, <2>5 DEF AsksInv
<1>3. CASE Asking!Withdraws
  <2>1. talk # "on" /\ talk' # "on" /\ UNCHANGED <<asks, delivered, sent, outbox, relay>>
    BY <1>3 DEF Asking!Withdraws, Asking!rows, Asking!memory
  <2>2. UNCHANGED <<step["relay"], hand["relay"]>>
    BY <1>3 DEF Asking!Withdraws, AsksInv, AsksTyped, Asking!TypeOK, Asking!Threads
  <2>3. ASSUME NEW q \in Questions
        PROVE  /\ \A i \in DOMAIN told'[q] : told'[q][i] = "choice"
                      => i \in DOMAIN told[q]
                                             /\ told[q][i] = "choice"
               /\ told[q] # <<>> => told'[q] # <<>> /\ told'[q][1] = told[q][1]
    <3>1. told[q] \in Seq(Asking!Replies)
              /\ (told'[q] = told[q] \/ told'[q] = Append(told[q], "deny"))
      BY <1>3 DEF Asking!Withdraws, AsksInv, AsksTyped, Asking!TypeOK
    <3>2. QED
      BY <3>1
  <2>4. TurnOver' /\ NoDenialYet' /\ CarriedAreAnswered' /\ MarkedWereSent'
    BY <2>1, <2>2 DEF AsksInv, TurnOver, NoDenialYet, CarriedAreAnswered, MarkedWereSent,
       Written
  <2>5. ChoicesCameFirst' /\ ChoicesAreAnswers'
    BY <2>1, <2>3 DEF AsksInv, ChoicesCameFirst, ChoicesAreAnswers
  <2>6. NotedWereSent'
    BY <2>1, <2>2, <2>3 DEF AsksInv, NotedWereSent, Written
  <2>7. QED
    BY <1>0, <2>4, <2>5, <2>6 DEF AsksInv
<1>4. CASE Asking!CloseExpires
  <2>1. talk # "on" /\ talk' # "on" /\ sent \subseteq delivered
            /\ sent \subseteq Questions
        /\ outbox = {} /\ UNCHANGED <<delivered, sent, told, outbox, relay, step, hand>>
    BY <1>4 DEF Asking!CloseExpires, Asking!Closing, Asking!memory, Asking!box,
       Asking!threads, AsksInv, TurnOver, AsksTyped, Asking!TypeOK
  <2>2. relay \notin {"writing"}
    BY <2>1 DEF AsksInv, TurnOver
  <2>3. CarriedAreAnswered' /\ ChoicesAreAnswers'
    BY <1>4, <2>1, <2>2 DEF Asking!CloseExpires, Asking!Unheard, AsksInv,
       CarriedAreAnswered, ChoicesAreAnswers, Written
  <2>4. /\ TurnOver' /\ NoDenialYet' /\ ChoicesCameFirst' /\ NotedWereSent'
        /\ MarkedWereSent'
    BY <2>1 DEF AsksInv, TurnOver, NoDenialYet, ChoicesCameFirst, NotedWereSent, Written,
       MarkedWereSent
  <2>5. QED
    BY <1>0, <2>3, <2>4 DEF AsksInv
<1>5. ASSUME NEW q \in Questions, Asking!CloseMarks(q) PROVE AsksInv'
  <2>1. q \in sent /\ delivered' = delivered \cup {q}
        /\ UNCHANGED <<asks, sent, told, outbox, talk, relay, step, hand>>
    BY <1>5 DEF Asking!CloseMarks, Asking!Closing, Asking!memory, Asking!box,
       Asking!tasks, Asking!threads
  <2>2. QED
    BY <1>0, <2>1 DEF AsksInv, TurnOver, NoDenialYet, ChoicesCameFirst, NotedWereSent,
       CarriedAreAnswered, ChoicesAreAnswers, Written, MarkedWereSent
<1>6. CASE Asking!MarksSent
  <2>1. hand["relay"] \in sent /\ delivered' = delivered \cup {hand["relay"]}
        /\ step'["relay"] = "idle" /\ step'["closer"] = step["closer"]
        /\ UNCHANGED <<asks, sent, told, outbox, talk>> /\ relay # "writing"
        /\ relay' = (IF relay = "waiting" THEN "sending" ELSE relay)
    BY <1>6 DEF Asking!MarksSent, Asking!memory, Asking!box, AsksInv, MarkedWereSent,
       AsksTyped, Asking!TypeOK, Asking!Threads, InHand
  <2>2. QED
    BY <1>0, <2>1 DEF AsksInv, TurnOver, NoDenialYet, ChoicesCameFirst, NotedWereSent,
       CarriedAreAnswered, ChoicesAreAnswers, Written, MarkedWereSent
<1>7. ASSUME NEW t \in Asking!Threads, Asking!Records(t) PROVE AsksInv'
  <2>1. UNCHANGED <<delivered, sent, told, outbox, talk, relay>> /\ step'[t] = "look"
        /\ \A u \in Asking!Threads \ {t} : step'[u] = step[u] /\ hand'[u] = hand[u]
    BY <1>7 DEF Asking!Records, Asking!box, Asking!tasks, AsksInv, AsksTyped,
       Asking!TypeOK
  <2>2. \A q \in Questions : asks[q] \in {"answered", "expired"} => asks'[q] = asks[q]
    BY <1>7 DEF Asking!Records, AsksInv, AsksTyped, Asking!TypeOK, InHand
  <2>2a. \A q \in Questions : Written(q)' <=> Written(q)
    BY <1>7, <2>1 DEF Written, Asking!Records, AsksInv, AsksTyped, InHand, Asking!Threads
  <2>3. CarriedAreAnswered' /\ ChoicesAreAnswers'
    BY <2>1, <2>2, <2>2a DEF AsksInv, CarriedAreAnswered, ChoicesAreAnswers
  <2>4. MarkedWereSent'
    BY <2>1 DEF AsksInv, MarkedWereSent, Asking!Threads
  <2>5. QED
    BY <1>0, <1>7, <2>1, <2>2a, <2>3, <2>4 DEF Asking!Records, AsksInv, TurnOver, NoDenialYet,
       ChoicesCameFirst, NotedWereSent, Asking!Threads
<1>8. ASSUME NEW t \in Asking!Threads, Asking!Collects(t) PROVE AsksInv'
  <2>1. UNCHANGED <<asks, delivered, sent, told>> /\ step'[t] = "idle"
        /\ \A u \in Asking!Threads \ {t} : step'[u] = step[u] /\ hand'[u] = hand[u]
    BY <1>8 DEF Asking!Collects, Asking!rows, Asking!box, AsksInv, AsksTyped,
       Asking!TypeOK
  <2>2. MarkedWereSent'
    BY <2>1 DEF AsksInv, MarkedWereSent, Asking!Threads
  <2>2a. ASSUME relay' \in {relay, "sending"} PROVE \A q \in Questions : Written(q)' => Written(q)
    BY <1>8, <2>1, <2>2a DEF Written, Asking!Collects, AsksInv, AsksTyped, InHand,
       Asking!Threads
  <2>3. CASE t = "closer"
    <3>1. talk # "on" /\ talk' = "marking" /\ UNCHANGED <<relay, outbox>>
      BY <1>8, <2>3 DEF Asking!Collects, AsksInv, TurnOver
    <3>2. QED
      BY <1>0, <2>1, <2>2, <2>2a, <3>1 DEF AsksInv, TurnOver, NoDenialYet, ChoicesCameFirst,
         NotedWereSent, CarriedAreAnswered, ChoicesAreAnswers
  <2>4. CASE t = "relay" /\ relay = "waiting"
    <3>1. talk = "on" /\ talk' = "on" /\ outbox' = Asking!Due /\ relay' = "sending"
      BY <1>8, <2>4 DEF Asking!Collects, AsksInv, TurnOver
    <3>2. step'["closer"] = step["closer"]
      BY <2>1, <2>4 DEF Asking!Threads
    <3>3. QED
      BY <1>0, <2>1, <2>2, <2>2a, <3>1, <3>2 DEF Asking!Due, AsksInv, TurnOver, NoDenialYet,
         ChoicesCameFirst, NotedWereSent, CarriedAreAnswered, ChoicesAreAnswers
  <2>5. CASE t = "relay" /\ relay # "waiting"
    <3>1. UNCHANGED <<talk, relay, outbox>>
      BY <1>8, <2>5 DEF Asking!Collects, Asking!tasks
    <3>2. step'["closer"] = step["closer"]
      BY <2>1, <2>5 DEF Asking!Threads
    <3>3. QED
      BY <1>0, <2>1, <2>2, <2>2a, <3>1, <3>2 DEF AsksInv, TurnOver, NoDenialYet,
         ChoicesCameFirst, NotedWereSent, CarriedAreAnswered, ChoicesAreAnswers
  <2>6. QED
    BY <2>3, <2>4, <2>5 DEF Asking!Threads
<1>9. ASSUME NEW t \in Asking!Threads, Asking!Looks(t) \/ Asking!HoldsOn(t)
                 \/ \E q \in Questions : Asking!Pops(t, q)
      PROVE  AsksInv'
  <2>1. UNCHANGED <<asks, delivered, sent, told, outbox, talk, relay>>
    BY <1>9 DEF Asking!Looks, Asking!HoldsOn, Asking!Pops, Asking!rows, Asking!memory,
       Asking!box, Asking!tasks
  <2>2. step[t] # "idle" /\ step'[t] # "mark"
        /\ \A u \in Asking!Threads \ {t} : step'[u] = step[u] /\ hand'[u] = hand[u]
    BY <1>9 DEF Asking!Looks, Asking!HoldsOn, Asking!Pops, AsksInv, AsksTyped,
       Asking!TypeOK
  <2>3. QED
    BY <1>0, <2>1, <2>2, QuietAsks DEF AsksInv, AsksTyped, InHand, TurnOver,
       Asking!Threads
<1>10. ASSUME NEW t \in Asking!Threads, Asking!PopsNothing(t) \/ Asking!StoreFails(t)
       PROVE AsksInv'
  <2>1. UNCHANGED <<asks, delivered, sent, told, outbox>> /\ step'[t] = "idle"
        /\ \A u \in Asking!Threads \ {t} : step'[u] = step[u] /\ hand'[u] = hand[u]
    BY <1>10 DEF Asking!PopsNothing, Asking!StoreFails, Asking!ThreadRaises,
       Asking!rows, Asking!memory, Asking!box, AsksInv, AsksTyped, Asking!TypeOK
  <2>2. IF t = "closer" THEN talk' = "unclosed" /\ relay' = relay
        ELSE talk' = talk /\ relay' = (IF relay = "waiting" THEN "dead" ELSE relay)
    BY <1>10 DEF Asking!PopsNothing, Asking!StoreFails, Asking!ThreadRaises
  <2>3. t = "closer" => talk # "on"
    BY <1>10 DEF Asking!PopsNothing, Asking!StoreFails, AsksInv, TurnOver
  <2>3a. step[t] # "idle"
    BY <1>10 DEF Asking!PopsNothing, Asking!StoreFails
  <2>4. QED
    BY <1>0, <2>1, <2>2, <2>3, <2>3a, QuietAsks DEF AsksInv, AsksTyped, InHand, TurnOver,
       Asking!Threads
<1>11. ASSUME NEW q \in Questions, Asking!Hear(q) \/ Asking!AnswerLooks(q)
                  \/ Asking!HoldLapses(q)
       PROVE AsksInv'
  <2>1. UNCHANGED <<asks, delivered, sent, told, outbox, talk, relay, step, hand>>
    BY <1>11 DEF Asking!Hear, Asking!AnswerLooks, Asking!HoldLapses, Asking!rows,
       Asking!memory, Asking!box, Asking!tasks, Asking!threads
  <2>2. QED
    BY <1>0, <2>1, QuietAsks DEF AsksInv, TurnOver
<1>12. ASSUME NEW q \in Questions, Asking!Answers(q) PROVE AsksInv'
  <2>1. UNCHANGED <<delivered, sent, told, outbox, talk, relay, step, hand>>
    BY <1>12 DEF Asking!Answers, Asking!memory, Asking!box, Asking!tasks, Asking!threads
  <2>2. \A r \in Questions : asks[r] \in {"answered", "expired"} => asks'[r] = asks[r]
    BY <1>12 DEF Asking!Answers, AsksInv, AsksTyped, Asking!TypeOK
  <2>3. CarriedAreAnswered' /\ ChoicesAreAnswers'
    BY <2>1, <2>2 DEF AsksInv, CarriedAreAnswered, ChoicesAreAnswers, Written
  <2>4. QED
    BY <1>0, <2>1, <2>3 DEF AsksInv, TurnOver, NoDenialYet, ChoicesCameFirst,
       NotedWereSent, Written, MarkedWereSent
<1>13. CASE Asking!TurnEnds
  <2>1. UNCHANGED <<asks, delivered, sent, told>> /\ talk' # "on" /\ outbox' = {}
        /\ relay' \in {"cancelled", "dead"} /\ step'["relay"] = step["relay"]
               /\ hand' = hand
    BY <1>13 DEF Asking!TurnEnds, Asking!rows, Asking!memory, Asking!box, AsksInv,
       AsksTyped, Asking!TypeOK, Asking!Threads, InHand
  <2>2. QED
    BY <1>0, <2>1, QuietAsks
<1>14. CASE Asking!RunEnds \/ Asking!SendFails \/ Asking!CloseFails \/ Asking!Crash
  <2>1. UNCHANGED <<asks, delivered, sent, told>> /\ outbox' \subseteq outbox
    BY <1>14 DEF Asking!RunEnds, Asking!SendFails, Asking!CloseFails, Asking!Crash,
       Asking!rows, Asking!memory, Asking!box, Asking!tasks
  <2>2. talk' = talk \/ talk' # "on"
    BY <1>14 DEF Asking!RunEnds, Asking!SendFails, Asking!CloseFails, Asking!Crash,
       Asking!tasks
  <2>3. talk' # "on" => outbox' = {} /\ relay' \in {"cancelled", "dead"}
    BY <1>14 DEF Asking!RunEnds, Asking!SendFails, Asking!CloseFails, Asking!Crash,
       Asking!tasks, AsksInv, TurnOver
  <2>4. UNCHANGED <<step, hand>> \/ step' = [t \in Asking!Threads |-> "idle"]
    BY <1>14 DEF Asking!RunEnds, Asking!SendFails, Asking!CloseFails, Asking!Crash,
       Asking!threads
  <2>5. talk # "on" => talk' # "on"
    BY <1>14 DEF Asking!RunEnds, Asking!SendFails, Asking!CloseFails, Asking!Crash,
       Asking!tasks, AsksInv, TurnOver
  <2>6. relay' # "writing" \/ (relay' = relay /\ hand' = hand)
    BY <1>14 DEF Asking!RunEnds, Asking!SendFails, Asking!CloseFails, Asking!Crash,
       Asking!tasks, Asking!threads
  <2>7. QED
    BY <1>0, <2>1, <2>2, <2>3, <2>4, <2>5, <2>6, QuietAsks DEF AsksInv, TurnOver,
       Asking!Threads
<1>15. CASE UNCHANGED Asking!vars
  BY <1>0, <1>15, QuietAsks DEF Asking!vars, Asking!rows, Asking!memory, Asking!box,
     Asking!tasks, Asking!threads, AsksInv, TurnOver
<1>16. QED
  BY <1>1, <1>2, <1>3, <1>4, <1>5, <1>6, <1>7, <1>8, <1>9, <1>10, <1>11, <1>12, <1>13,
     <1>14, <1>15, <1>2a DEF Asking!Next, Asking!RelayStep, Asking!CloseStep, Asking!ThreadStep

LEMMA AsksInductive == Asking!Spec => []AsksInv
  BY AsksInit, AsksNext, PTL DEF Asking!Spec
-----------------------------------------------------------------------------
(* Whatever fails and whoever races, the box hears a person's choice only  *)
(* if it is the answer on the row, and the row keeps it, unless its send   *)
(* was cut off (Talk.relay, Talk.close, expire_approvals).                 *)
THEOREM ChoiceIsTheRows == Asking!Spec => []Asking!OnlyTheirChoice
<1>1. AsksInv => Asking!OnlyTheirChoice
  BY DEF AsksInv, ChoicesAreAnswers, Asking!OnlyTheirChoice, Asking!CutOff
<1>2. QED
  BY <1>1, AsksInductive, PTL

(* When a conversation closes, its rows say what the box was told: what    *)
(* `_sent` names is marked before the rest expires (Talk.close).           *)
THEOREM RowsAreHonest == Asking!Spec => RowsSayWhatTheBoxHeard
<1> DEFINE Honest ==
      talk # "closed" /\ talk' = "closed" =>
        \A q \in Questions :
            IF Asking!CutOff(q) THEN asks'[q] = "expired"
            ELSE asks'[q] = "answered" <=> told[q] # <<>> /\ Head(told[q]) = "choice"
<1>1. AsksInv /\ [Asking!Next]_(Asking!vars) => [Honest]_(Asking!vars)
  <2> SUFFICES ASSUME AsksInv, Asking!Next, talk # "closed", talk' = "closed",
                          NEW q \in Questions
               PROVE  IF Asking!CutOff(q) THEN asks'[q] = "expired"
                      ELSE asks'[q] = "answered" <=> told[q] # <<>> /\ Head(told[q]) = "choice"
    OBVIOUS
  <2>1. Asking!CloseExpires
    BY DEF Asking!Next, Asking!RelayStep, Asking!RelayWakes, Asking!RelaySleeps,
       Asking!Sends, Asking!Notes, Asking!CloseStep, Asking!Withdraws, Asking!CloseMarks,
       Asking!MarksSent, Asking!ThreadStep, Asking!Looks, Asking!Records,
       Asking!HoldsOn, Asking!Collects, Asking!PopsNothing, Asking!StoreFails,
       Asking!ThreadRaises, Asking!Pops, Asking!Hear, Asking!AnswerLooks,
       Asking!Answers, Asking!HoldLapses, Asking!TurnEnds, Asking!RunEnds,
       Asking!SendFails, Asking!CloseFails, Asking!Crash, Asking!tasks
  <2>2. asks'[q] = "answered" <=> asks[q] = "answered" /\ q \in delivered
    BY <2>1 DEF Asking!CloseExpires, Asking!Unheard, AsksInv, AsksTyped, Asking!TypeOK
  <2>3. asks[q] = "answered" /\ q \in delivered <=> q \in sent
    BY <2>1 DEF Asking!CloseExpires, Asking!Closing, AsksInv, MarkedWereSent,
       CarriedAreAnswered, Written
  <2>4. told[q] \in Seq(Asking!Replies)
    BY DEF AsksInv, AsksTyped, Asking!TypeOK
  <2>5. told[q] # <<>> => Head(told[q]) = told[q][1] /\ 1 \in DOMAIN told[q]
    BY <2>4
  <2>6. CASE ~Asking!CutOff(q)
    <3>1. q \in sent <=> told[q] # <<>> /\ Head(told[q]) = "choice"
      BY <2>5, <2>6 DEF AsksInv, NotedWereSent, Written, Asking!CutOff
    <3>2. QED
      BY <2>2, <2>3, <2>6, <3>1
  <2>7. CASE Asking!CutOff(q)
    <3>1. asks[q] \in {"answered", "expired"}
      BY <2>7 DEF Asking!CutOff, AsksInv, ChoicesAreAnswers
    <3>2. q \notin delivered
      BY <2>7 DEF Asking!CutOff, AsksInv, MarkedWereSent
    <3>3. QED
      BY <2>1, <2>7, <3>1, <3>2 DEF Asking!CloseExpires, Asking!Unheard
  <2>8. QED
    BY <2>6, <2>7
<1>2. Asking!Spec => [][Honest]_(Asking!vars)
  BY <1>1, AsksInductive, PTL DEF Asking!Spec
<1>3. QED
  BY <1>2 DEF RowsSayWhatTheBoxHeard, Asking!RowsSayWhatTheBoxHeard
=============================================================================
