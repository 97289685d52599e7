------------------------- MODULE BoxLifecycleProofs -------------------------
(***************************************************************************)
(* Theorems about BoxLifecycle for any number of requests and control      *)
(* planes, either budget action and any number of faults.                  *)
(*                                                                         *)
(* TypeOK is inductive as it stands.  That a row with an endpoint closes   *)
(* only over a destroyed machine needs to know who may be about to close   *)
(* it, and what each of them did before: Inv below.                        *)
(*                                                                         *)
(* And about two components that keep a box busy or move it: the front     *)
(* door's heartbeat (Door), for any number of conversations and any        *)
(* periods the code could be given, and the updates that move agents onto  *)
(* a new image (Rollouts), for any agents and any number of updates.       *)
(***************************************************************************)
EXTENDS BoxLifecycle, MCDoor, MCRollouts, Integers, Sequences, TLAPS

Working == Steps \ {"idle", "destroy", "close"}

(* The provisioning thread is done once, and only once, the row has moved  *)
(* on from `provisioning` by its hand; by then there is a machine.         *)
Recorded ==
    /\ creator \in {"made", "started", "unstarted", "done"} => machine # "none"
    /\ creator = "done" => row # "provisioning"
    /\ creator # "done" => row \in {"provisioning", "torn_down"}

(* Whoever works on the box read a row that its thread had recorded.       *)
WorkersFollow == \A a \in Actors : step[a] \in Working => creator = "done"

(* The reconcile loop tears down only what nobody provisions any more.     *)
SweepersFollow ==
    \A s \in Sweepers : step[s] \in {"destroy", "close"} => creator \in {"dead", "failed"}

(* A request that read an endpoint and is about to close has destroyed the *)
(* machine, or logged that it could not.                                   *)
ClosersFollow ==
    \A c \in Clients :
        seen[c] # "provisioning" =>
            /\ step[c] \in {"destroy", "close"} => creator = "done"
            /\ step[c] = "close" => machine = "gone" \/ undestroyed

(* A destroyed machine stays destroyed.                                    *)
VerdictsHold ==
    \A a \in Actors : step[a] = "correct.write" /\ obs[a] = "gone" => machine = "gone"

Inv ==
    /\ TypeOK
    /\ Recorded
    /\ WorkersFollow
    /\ SweepersFollow
    /\ ClosersFollow
    /\ VerdictsHold
-----------------------------------------------------------------------------
LEMMA InitInv == Init => Inv
<1> SUFFICES ASSUME Init PROVE Inv
  OBVIOUS
<1>1. TypeOK
  <2>1. held \in {"no"} \cup Stopping /\ undestroyed \in BOOLEAN
    BY Zenon DEF Init
  <2>2. row \in RowStatus /\ phase \in [Sweepers -> Phases] /\ faults \in 0 .. MaxFaults
    BY FaultsAssumption DEF Init, RowStatus, Phases
  <2>3. step \in [Actors -> Steps] /\ seen \in [Actors -> RowStatus]
    BY DEF Init, Steps, RowStatus
  <2>4. obs \in [Actors -> {"up", "asleep", "gone", "unknown"}]
    BY DEF Init
  <2>5. QED
    BY <2>1, <2>2, <2>3, <2>4 DEF Init, TypeOK
<1>2. Recorded
  BY DEF Init, Recorded
<1>3. \A a \in Actors : step[a] = "idle"
  BY DEF Init
<1>4. WorkersFollow /\ SweepersFollow /\ ClosersFollow /\ VerdictsHold
  BY <1>3 DEF WorkersFollow, SweepersFollow, ClosersFollow, VerdictsHold, Working, Actors
<1>5. QED
  BY <1>1, <1>2, <1>4 DEF Inv

(* Every step keeps the types.                                             *)
LEMMA NextTyping == TypeOK /\ [Next]_vars => TypeOK'
<1> SUFFICES ASSUME TypeOK, [Next]_vars PROVE TypeOK'
  OBVIOUS
<1> USE FaultsAssumption DEF TypeOK, actorVars, RowStatus, Steps, Phases
<1>1. CASE Create
  BY <1>1 DEF Create
<1>2. CASE CreateFails
  BY <1>2 DEF CreateFails, Fault, WriteRow, MayMove
<1>3. CASE CreateStarts
  BY <1>3 DEF CreateStarts, Fault
<1>4. CASE CreateRecords
  BY <1>4 DEF CreateRecords, Fault, WriteRow, MayMove
<1>5. ASSUME NEW c \in Clients, Wake(c) PROVE TypeOK'
  BY <1>5 DEF Actors, Wake, Reads
<1>6. ASSUME NEW c \in Clients, StartBox(c) PROVE TypeOK'
  BY <1>6 DEF Actors, StartBox, Reads
<1>7. ASSUME NEW c \in Clients, Stop(c) PROVE TypeOK'
  BY <1>7 DEF Actors, Stop, Reads, MayStop
<1>8. ASSUME NEW c \in Clients, Teardown(c) PROVE TypeOK'
  BY <1>8 DEF Actors, Teardown, Reads
<1>9. ASSUME NEW c \in Clients, Unpause(c) PROVE TypeOK'
  BY <1>9 DEF Actors, Unpause, Reads, Releasable
<1>10. ASSUME NEW s \in Sweepers, Sweep(s) PROVE TypeOK'
  BY <1>10 DEF Actors, Sweep, SweepSleeps, Reads, MayStop, Passes,
               SweepCorrects, Reads, Passes, Stranded, SweepBudgets, Reads,
               Releasable, Passes, NextPhaseOf, NextPhase
<1>11. ASSUME NEW a \in Actors, WakeObserves(a) PROVE TypeOK'
  BY <1>11 DEF WakeObserves, GoOn
<1>12. ASSUME NEW a \in Actors, WakeObservesNothing(a) PROVE TypeOK'
  BY <1>12 DEF WakeObservesNothing, Fault, GoOn
<1>13. ASSUME NEW a \in Actors, WakeStarts(a) PROVE TypeOK'
  BY <1>13 DEF WakeStarts, GoOn
<1>14. ASSUME NEW a \in Actors, WakeFails(a) PROVE TypeOK'
  BY <1>14 DEF WakeFails, Fault, Ends
<1>15. ASSUME NEW a \in Actors, WakeWrites(a) PROVE TypeOK'
  BY <1>15 DEF WakeWrites, Ends, WriteRow, MayMove
<1>16. ASSUME NEW a \in Actors, StopPauses(a) PROVE TypeOK'
  BY <1>16 DEF StopPauses, GoOn
<1>17. ASSUME NEW a \in Actors, StopFails(a) PROVE TypeOK'
  BY <1>17 DEF StopFails, Fault, Ends
<1>18. ASSUME NEW a \in Actors, StopWrites(a) PROVE TypeOK'
  BY <1>18 DEF StopWrites, Ends, WriteRow, MayMove
<1>19. ASSUME NEW a \in Actors, Destroys(a) PROVE TypeOK'
  BY <1>19 DEF Destroys, GoOn, Finds
<1>20. ASSUME NEW a \in Actors, DestroyFails(a) PROVE TypeOK'
  <2>1. undestroyed' \in BOOLEAN
    BY <1>20, Zenon DEF DestroyFails
  <2>2. QED
    BY <1>20, <2>1 DEF DestroyFails, Fault, GoOn
<1>21. ASSUME NEW a \in Actors, Closes(a) PROVE TypeOK'
  BY <1>21 DEF Closes, Ends, WriteRow, MayMove
<1>22. ASSUME NEW a \in Actors, CorrectObserves(a) PROVE TypeOK'
  BY <1>22 DEF CorrectObserves, Observes, Fault
<1>23. ASSUME NEW a \in Actors, CorrectWrites(a) PROVE TypeOK'
  BY <1>23 DEF CorrectWrites, Ends, WriteRow, Settled, MayMove
<1>24. ASSUME NEW a \in Actors, BudgetPauses(a) PROVE TypeOK'
  BY <1>24 DEF BudgetPauses, GoOn, Ends, WriteRow, MayMove
<1>25. ASSUME NEW a \in Actors, BudgetKills(a) PROVE TypeOK'
  BY <1>25 DEF BudgetKills, Fault, Ends
<1>26. ASSUME NEW a \in Actors, BudgetWaitsForQuiet(a) PROVE TypeOK'
  BY <1>26 DEF BudgetWaitsForQuiet, GoOn, Ends
<1>27. ASSUME NEW a \in Actors, BudgetSleeps(a) PROVE TypeOK'
  BY <1>27 DEF BudgetSleeps, Fault, Ends
<1>28. ASSUME NEW a \in Actors, ReleaseObserves(a) PROVE TypeOK'
  BY <1>28 DEF ReleaseObserves, Observes, Fault
<1>29. ASSUME NEW a \in Actors, ReleaseWrites(a) PROVE TypeOK'
  BY <1>29 DEF ReleaseWrites, GoOn, Ends, WriteRow, MayMove
<1>30. ASSUME NEW a \in Actors, ReleaseRuns(a) PROVE TypeOK'
  BY <1>30 DEF ReleaseRuns, Ends, WriteRow, MayMove
<1>31. CASE CreatorDies
  BY <1>31 DEF CreatorDies, Fault
<1>32. CASE BudgetMoves
  BY <1>32 DEF BudgetMoves
<1>33. CASE WorkMoves
  BY <1>33 DEF WorkMoves
<1>34. CASE MachineLost
  BY <1>34 DEF MachineLost, Fault
<1>35. CASE UNCHANGED vars
  BY <1>35 DEF vars
<1>36. QED
  BY <1>1, <1>2, <1>3, <1>4, <1>5, <1>6, <1>7, <1>8, <1>9, <1>10, <1>11,
     <1>12, <1>13, <1>14, <1>15, <1>16, <1>17, <1>18, <1>19, <1>20, <1>21,
     <1>22, <1>23, <1>24, <1>25, <1>26, <1>27, <1>28, <1>29, <1>30, <1>31,
     <1>32, <1>33, <1>34, <1>35
  DEF Next, Provisions, Asks, GoesOn
(* The type invariant, whatever the interleaving and the faults: in        *)
(* particular the row never leaves BOX_STATUSES and no operation is left   *)
(* at a step it does not have (update_box_status).                         *)
THEOREM TypeCorrect == Spec => []TypeOK
<1>1. Init => TypeOK
  BY InitInv DEF Inv
<1>2. QED
  BY <1>1, NextTyping, PTL DEF Spec

-----------------------------------------------------------------------------
(* Every step keeps what the actors rely on.                               *)
LEMMA NextInv == Inv /\ [Next]_vars => Inv'
<1> SUFFICES ASSUME Inv, [Next]_vars PROVE Inv'
  OBVIOUS
<1> DEFINE Follow ==
      Recorded /\ WorkersFollow /\ SweepersFollow /\ ClosersFollow /\ VerdictsHold
<1>0. TypeOK'
  BY NextTyping DEF Inv
<1> USE ActorsAssumption
      DEF Inv, TypeOK, Recorded, WorkersFollow, SweepersFollow, ClosersFollow, VerdictsHold,
          Actors, actorVars, Working, Steps, RowStatus
<1>1. ASSUME Create PROVE Follow'
  BY <1>1 DEF Create
<1>2. ASSUME CreateFails PROVE Follow'
  BY <1>2 DEF CreateFails, Fault, WriteRow, MayMove
<1>3. ASSUME CreateStarts PROVE Follow'
  BY <1>3 DEF CreateStarts, Fault
<1>4. ASSUME CreateRecords PROVE Follow'
  <2>1. PICK up \in BOOLEAN :
          LET to == IF up THEN "running" ELSE "stopped"
          IN WriteRow(to) /\ creator' = IF MayMove(row, to) THEN "done" ELSE "dead"
    BY <1>4 DEF CreateRecords
  <2>2. row = "provisioning" => row' \in {"running", "stopped"} /\ creator' = "done"
    BY <2>1 DEF WriteRow, MayMove
  <2>3. row = "torn_down" => row' = row /\ creator' = "dead"
    BY <2>1 DEF WriteRow, MayMove
  <2>4. creator \in {"started", "unstarted"} /\ UNCHANGED <<machine, actorVars, undestroyed>>
    BY <1>4 DEF CreateRecords
  <2>5. QED
    BY <2>2, <2>3, <2>4
<1>5. ASSUME NEW c \in Clients, Wake(c) PROVE Follow'
  BY <1>5 DEF Wake, Reads
<1>6. ASSUME NEW c \in Clients, StartBox(c) PROVE Follow'
  BY <1>6 DEF StartBox, Reads
<1>7. ASSUME NEW c \in Clients, Stop(c) PROVE Follow'
  BY <1>7 DEF Stop, Reads, MayStop
<1>8. ASSUME NEW c \in Clients, Teardown(c) PROVE Follow'
  BY <1>8 DEF Teardown, Reads
<1>9. ASSUME NEW c \in Clients, Unpause(c) PROVE Follow'
  BY <1>9 DEF Unpause, Reads, Releasable
<1>10. ASSUME NEW s \in Sweepers, Sweep(s) PROVE Follow'
  BY <1>10 DEF Sweep, SweepSleeps, SweepCorrects, SweepBudgets, MayStop,
               Stranded, Releasable, Reads, Passes
<1>11. ASSUME NEW a \in Actors, WakeObserves(a) PROVE Follow'
  BY <1>11 DEF WakeObserves, GoOn
<1>12. ASSUME NEW a \in Actors, WakeObservesNothing(a) PROVE Follow'
  BY <1>12 DEF WakeObservesNothing, Fault, GoOn
<1>13. ASSUME NEW a \in Actors, WakeStarts(a) PROVE Follow'
  BY <1>13 DEF WakeStarts, GoOn
<1>14. ASSUME NEW a \in Actors, WakeFails(a) PROVE Follow'
  BY <1>14 DEF WakeFails, Fault, Ends
<1>15. ASSUME NEW a \in Actors, WakeWrites(a) PROVE Follow'
  BY <1>15 DEF WakeWrites, Ends, WriteRow, MayMove
<1>16. ASSUME NEW a \in Actors, StopPauses(a) PROVE Follow'
  BY <1>16 DEF StopPauses, GoOn
<1>17. ASSUME NEW a \in Actors, StopFails(a) PROVE Follow'
  BY <1>17 DEF StopFails, Fault, Ends
<1>18. ASSUME NEW a \in Actors, StopWrites(a) PROVE Follow'
  BY <1>18 DEF StopWrites, Ends, WriteRow, MayMove
<1>19. ASSUME NEW a \in Actors, Destroys(a) PROVE Follow'
  BY <1>19 DEF Destroys, GoOn, Finds
<1>20. ASSUME NEW a \in Actors, DestroyFails(a) PROVE Follow'
  BY <1>20 DEF DestroyFails, Fault, GoOn, Finds
<1>21. ASSUME NEW a \in Actors, Closes(a) PROVE Follow'
  BY <1>21 DEF Closes, Ends, WriteRow, MayMove
<1>22. ASSUME NEW a \in Actors, CorrectObserves(a) PROVE Follow'
  BY <1>22 DEF CorrectObserves, Observes, Fault
<1>23. ASSUME NEW a \in Actors, CorrectWrites(a) PROVE Follow'
  BY <1>23 DEF CorrectWrites, Ends, WriteRow, Settled, MayMove
<1>24. ASSUME NEW a \in Actors, BudgetPauses(a) PROVE Follow'
  BY <1>24 DEF BudgetPauses, GoOn, Ends, WriteRow, MayMove
<1>25. ASSUME NEW a \in Actors, BudgetKills(a) PROVE Follow'
  BY <1>25 DEF BudgetKills, Fault, Ends
<1>26. ASSUME NEW a \in Actors, BudgetWaitsForQuiet(a) PROVE Follow'
  BY <1>26 DEF BudgetWaitsForQuiet, GoOn, Ends
<1>27. ASSUME NEW a \in Actors, BudgetSleeps(a) PROVE Follow'
  BY <1>27 DEF BudgetSleeps, Fault, Ends
<1>28. ASSUME NEW a \in Actors, ReleaseObserves(a) PROVE Follow'
  BY <1>28 DEF ReleaseObserves, Observes, Fault
<1>29. ASSUME NEW a \in Actors, ReleaseWrites(a) PROVE Follow'
  BY <1>29 DEF ReleaseWrites, GoOn, Ends, WriteRow, MayMove
<1>30. ASSUME NEW a \in Actors, ReleaseRuns(a) PROVE Follow'
  BY <1>30 DEF ReleaseRuns, Ends, WriteRow, MayMove
<1>31. ASSUME CreatorDies PROVE Follow'
  BY <1>31 DEF CreatorDies, Fault
<1>32. ASSUME BudgetMoves PROVE Follow'
  BY <1>32 DEF BudgetMoves
<1>33. ASSUME WorkMoves PROVE Follow'
  BY <1>33 DEF WorkMoves
<1>34. ASSUME MachineLost PROVE Follow'
  BY <1>34 DEF MachineLost, Fault
<1>35. ASSUME UNCHANGED vars PROVE Follow'
  BY <1>35 DEF vars
<1>36. Follow'
  BY <1>1, <1>2, <1>3, <1>4, <1>5, <1>6, <1>7, <1>8, <1>9, <1>10, <1>11,
     <1>12, <1>13, <1>14, <1>15, <1>16, <1>17, <1>18, <1>19, <1>20, <1>21,
     <1>22, <1>23, <1>24, <1>25, <1>26, <1>27, <1>28, <1>29, <1>30, <1>31,
     <1>32, <1>33, <1>34, <1>35
  DEF Next, Provisions, Asks, GoesOn
<1>37. QED
  BY <1>0, <1>36

LEMMA Inductive == Spec => []Inv
  BY InitInv, NextInv, PTL DEF Spec

(* A row with an endpoint closes only over a destroyed machine, or with    *)
(* the failed destroy in the event log, whatever the requests, the sweeps  *)
(* of any number of control planes and the budget do at the same time      *)
(* (teardown_box, _correct_running).                                       *)
THEOREM ClosesClean == Spec => EndpointsCloseClean
<1> DEFINE Clean ==
      ~BlindClose /\ row \in {"running", "stopped", "paused"} /\ row' = "torn_down"
        => machine' = "gone" \/ undestroyed'
<1>1. Inv /\ [Next]_vars => [Clean]_vars
  <2> SUFFICES ASSUME Inv, Next, ~BlindClose, row \in {"running", "stopped", "paused"},
                      row' = "torn_down"
               PROVE  machine' = "gone" \/ undestroyed'
    OBVIOUS
  <2> USE DEF WriteRow, MayMove
  <2>1. creator = "done"
    BY DEF Inv, Recorded
  <2>2. ~(Provisions \/ CreatorDies)
    BY <2>1 DEF Provisions, Create, CreateFails, CreateStarts, CreateRecords, CreatorDies
  <2>3. ~\E c \in Clients : Asks(c)
    BY DEF Asks, Wake, StartBox, Stop, Teardown, Unpause, Reads
  <2>4. ~\E s \in Sweepers : Sweep(s)
    BY DEF Sweep, SweepSleeps, SweepCorrects, SweepBudgets, Reads, Passes
  <2>5. ~(BudgetMoves \/ WorkMoves \/ MachineLost)
    BY DEF BudgetMoves, WorkMoves, MachineLost
  <2>6. PICK a \in Actors : GoesOn(a)
    BY <2>2, <2>3, <2>4, <2>5 DEF Next
  <2>7. Closes(a) \/ CorrectWrites(a)
    BY <2>6 DEF GoesOn, WakeObserves, WakeObservesNothing, WakeStarts, WakeFails, WakeWrites,
       StopPauses, StopFails, StopWrites, Destroys, DestroyFails, CorrectObserves, Observes,
       BudgetPauses, BudgetKills, BudgetWaitsForQuiet, BudgetSleeps,
       ReleaseObserves, ReleaseWrites, ReleaseRuns
  <2>8. CASE Closes(a)
    <3>1. a \in Clients /\ seen[a] # "provisioning" /\ step[a] = "close"
      BY <2>1, <2>8 DEF Closes, Inv, SweepersFollow, BlindClose, Actors
    <3>2. machine = "gone" \/ undestroyed
      BY <3>1 DEF Inv, ClosersFollow
    <3>3. QED
      BY <2>8, <3>2 DEF Closes
  <2>9. CASE CorrectWrites(a)
    <3>1. step[a] = "correct.write" /\ obs[a] = "gone" /\ machine' = machine
      BY <2>9 DEF CorrectWrites, Settled
    <3>2. QED
      BY <3>1 DEF Inv, VerdictsHold
  <2>10. QED
    BY <2>7, <2>8, <2>9
<1>2. Spec => [][Clean]_vars
  BY <1>1, Inductive, PTL DEF Spec
<1>3. QED
  BY <1>2 DEF EndpointsCloseClean

-----------------------------------------------------------------------------
(* The front door: it keeps a busy box awake.  Awake below, which follows  *)
(* a heartbeat through its round, is inductive.                            *)

(* What Door assumes of its constants.                                     *)
Timed == Doorway!TicksAssumption /\ Doorway!BoundsAssumption

(* The longest that the heartbeat may yet take to touch the box.           *)
Left(k) ==
    IF k.at = "gap" THEN (IF k.spoke THEN k.timer ELSE k.timer + Beat + Answer)
    ELSE IF k.at = "beat" /\ ~k.spoke THEN k.timer + Answer
    ELSE IF k.at = "ask" /\ ~k.spoke THEN k.timer ELSE 0

(* A timer never runs for longer than what it times.                       *)
Punctual(k) ==
    /\ k.at = "gap" => k.timer <= Gap
    /\ k.at = "beat" => k.timer <= Beat
    /\ k.at = "ask" => k.timer <= Answer
Timers == \A c \in Conversations : Punctual(conv[c])

(* A heartbeat in its gap has touched the box at the gap's beginning, or   *)
(* failed to.                                                              *)
JustTouched ==
    \A c \in Conversations :
        conv[c].at = "gap" /\ box = "up" =>
            quiet + conv[c].timer <= Floor + Gap \/ troubles >= 1

(* While a turn works on an awake box, the heartbeat is bound to touch it  *)
(* before it has been quiet for long, unless the turn is young; each       *)
(* trouble costs one cycle.                                                *)
Bound == Floor + Doorway!Cycle + troubles * Doorway!Cycle
Grace == Gap + troubles * Doorway!Cycle
NotedOf(c) ==
    Doorway!Open(c) /\ box = "up" /\ turn[c] # 0 =>
        \/ quiet + Left(conv[c]) <= Bound
        \/ turn[c] + Left(conv[c]) <= Grace
NotedSoon == \A c \in Conversations : NotedOf(c)

Awake == Doorway!TypeOK /\ Timers /\ JustTouched /\ NotedSoon

ConvType ==
    [at : {"closed", "beat", "ask", "look", "touch", "gap"},
     timer : 0..(Beat + Gap + Answer), spoke : BOOLEAN, why : {"none", "words", "working", "silence"}, crossed : BOOLEAN]

(* The constants, as numbers.                                              *)
LEMMA Ticks ==
    ASSUME Timed
    PROVE  /\ Beat \in Nat /\ Gap \in Nat /\ Answer \in Nat /\ Floor \in Nat
           /\ Beat >= 1 /\ Gap >= 1 /\ Answer >= 1
           /\ IdleAfter \in Nat /\ MaxWords \in Nat /\ MaxTroubles \in Nat
           /\ Doorway!Cycle \in Nat /\ Doorway!Cycle = Gap + Beat + Answer
           /\ Floor + Doorway!Cycle + Doorway!Cycle < IdleAfter
           /\ Doorway!OldTurn \in Nat /\ Doorway!OldTurn >= 1
           /\ Doorway!OldTurn = Gap + Doorway!Cycle + 1
BY DEF Timed, Doorway!TicksAssumption, Doorway!BoundsAssumption, Doorway!Cycle,
   Doorway!OldTurn

(* What some troubles cost, in ticks.                                      *)
LEMMA Costs ==
    ASSUME Timed, NEW n \in Nat
    PROVE  /\ n * Doorway!Cycle \in Nat
                  /\ (n + 1) * Doorway!Cycle = n * Doorway!Cycle + Doorway!Cycle
           /\ n >= 1 => n * Doorway!Cycle >= Doorway!Cycle
           /\ n >= 2 => n * Doorway!Cycle >= Doorway!Cycle + Doorway!Cycle
<1>1. Doorway!Cycle \in Nat BY Ticks
<1>2. n * Doorway!Cycle \in Nat BY <1>1
<1>3. (n + 1) * Doorway!Cycle = n * Doorway!Cycle + Doorway!Cycle BY <1>1
<1>4. ASSUME n >= 1 PROVE n * Doorway!Cycle >= Doorway!Cycle
  <2>1. PICK k \in Nat : n = k + 1
    <3>1. n - 1 \in Nat /\ n = (n - 1) + 1 BY <1>4
    <3> QED BY <3>1
  <2>2. n * Doorway!Cycle = k * Doorway!Cycle + Doorway!Cycle /\ k * Doorway!Cycle \in Nat
    BY <2>1, <1>1
  <2> QED BY <2>2, <1>1
<1>5. ASSUME n >= 2 PROVE n * Doorway!Cycle >= Doorway!Cycle + Doorway!Cycle
  <2>1. PICK k \in Nat : n = k + 2
    <3>1. n - 2 \in Nat /\ n = (n - 2) + 2 BY <1>5
    <3> QED BY <3>1
  <2>2. n * Doorway!Cycle = k * Doorway!Cycle + Doorway!Cycle + Doorway!Cycle
            /\ k * Doorway!Cycle \in Nat
    BY <2>1, <1>1
  <2> QED BY <2>2, <1>1
<1> QED BY <1>2, <1>3, <1>4, <1>5

(* TypeOK, but for the record of each heartbeat.                           *)
DoorTyped ==
    /\ box \in {"up", "asleep"} /\ quiet \in 0..IdleAfter /\ sweep \in BOOLEAN
    /\ turn \in [Conversations -> 0..Doorway!OldTurn]
    /\ words \in 0..MaxWords /\ troubles \in 0..MaxTroubles

LEMMA TypeParts ==
    ASSUME Timed
    PROVE  Doorway!TypeOK <=> DoorTyped /\ conv \in [Conversations -> ConvType]
BY DEF Doorway!TypeOK, DoorTyped, ConvType

LEMMA ClosedConv ==
    ASSUME Timed
    PROVE  Doorway!Closed \in ConvType
BY Ticks DEF Doorway!Closed, ConvType

(* A heartbeat stays of its type wherever it goes.                         *)
LEMMA ConvChanges ==
    ASSUME Timed, NEW k \in ConvType
    PROVE  /\ \A b \in BOOLEAN : [k EXCEPT !.spoke = b] \in ConvType
           /\ \A at \in {"beat", "ask", "touch", "gap"},
                  timer \in 0..(Beat + Gap + Answer) :
                [k EXCEPT !.at = at, !.timer = timer] \in ConvType
           /\ \A at \in {"look", "touch"}, why \in {"words", "working", "silence"} :
                [k EXCEPT !.at = at, !.timer = 0, !.why = why, !.spoke = FALSE,
                    !.crossed = FALSE]
                  \in ConvType
           /\ [k EXCEPT !.at = "touch", !.crossed = TRUE] \in ConvType
           /\ [k EXCEPT !.crossed = TRUE] \in ConvType
           /\ \A timer \in 0..(Beat + Gap + Answer) :
                  [k EXCEPT !.timer = timer] \in ConvType
<1>1. \A b \in BOOLEAN : [k EXCEPT !.spoke = b] \in ConvType BY DEF ConvType
<1>2. \A at \in {"beat", "ask", "touch", "gap"}, timer \in 0..(Beat + Gap + Answer) :
          [k EXCEPT !.at = at, !.timer = timer] \in ConvType
  BY DEF ConvType
<1>3. ASSUME NEW at \in {"look", "touch"}, NEW why \in {"words", "working", "silence"}
      PROVE  [k EXCEPT !.at = at, !.timer = 0, !.why = why, !.spoke = FALSE,
                 !.crossed = FALSE]
                  \in ConvType
  <2>1. 0 \in 0..(Beat + Gap + Answer) BY Ticks
  <2>2. FALSE \in BOOLEAN OBVIOUS
  <2> QED BY <2>1, <2>2 DEF ConvType
<1>4. [k EXCEPT !.at = "touch", !.crossed = TRUE] \in ConvType BY DEF ConvType
<1>5. [k EXCEPT !.crossed = TRUE] \in ConvType BY DEF ConvType
<1>6. \A timer \in 0..(Beat + Gap + Answer) : [k EXCEPT !.timer = timer] \in ConvType
  BY DEF ConvType
<1> QED BY <1>1, <1>2, <1>3, <1>4, <1>5, <1>6

(* The types hold at first and after every step.                           *)
LEMMA DoorTypeInit ==
    ASSUME Timed
    PROVE  Doorway!Init => Doorway!TypeOK
<1> SUFFICES ASSUME Doorway!Init PROVE Doorway!TypeOK OBVIOUS
<1>1. sweep \in BOOLEAN BY Zenon DEF Doorway!Init
<1>2. DoorTyped BY <1>1, Ticks DEF Doorway!Init, DoorTyped
<1>3. conv \in [Conversations -> ConvType] BY ClosedConv DEF Doorway!Init
<1> QED BY <1>2, <1>3, TypeParts

LEMMA ConvNext ==
    ASSUME Timed, conv \in [Conversations -> ConvType], [Doorway!Next]_(Doorway!vars)
    PROVE  conv' \in [Conversations -> ConvType]
<1> USE Ticks
<1>1. ASSUME NEW c \in Conversations, Doorway!Opens(c)
      PROVE conv' \in [Conversations -> ConvType]
  <2>1. [Doorway!Closed EXCEPT !.at = "beat", !.timer = Beat] \in ConvType
    <3>1. Beat \in 0..(Beat + Gap + Answer) OBVIOUS
    <3>2. Doorway!Closed \in ConvType BY ClosedConv
    <3> QED BY <3>1, <3>2, ConvChanges
  <2> QED BY <1>1, <2>1 DEF Doorway!Opens
<1>2. ASSUME NEW c \in Conversations, NEW keepalive \in BOOLEAN,
                 Doorway!Heard(c, keepalive)
      PROVE  conv' \in [Conversations -> ConvType]
  <2>1. \A b \in BOOLEAN : [conv[c] EXCEPT !.spoke = b] \in ConvType BY ConvChanges
  <2>2. (conv[c].spoke \/ ~keepalive) \in BOOLEAN BY Zenon
  <2>3. [conv[c] EXCEPT !.spoke = (conv[c].spoke \/ ~keepalive)] \in ConvType
    BY <2>1, <2>2
  <2>4. conv' = [conv EXCEPT ![c] = [conv[c] EXCEPT !.spoke = (conv[c].spoke
            \/ ~keepalive)]]
    BY <1>2 DEF Doorway!Heard
  <2> QED BY <2>3, <2>4
<1>3. ASSUME NEW c \in Conversations, NEW at \in {"beat", "ask", "touch", "gap"},
             NEW timer \in {0, Beat, Answer, Gap}, Doorway!Goes(c, at, timer)
      PROVE  conv' \in [Conversations -> ConvType]
  <2>1. [conv[c] EXCEPT !.at = at, !.timer = timer] \in ConvType
    <3>1. timer \in 0..(Beat + Gap + Answer) OBVIOUS
    <3> QED BY <3>1, ConvChanges
  <2>2. conv' = [conv EXCEPT ![c] = [conv[c] EXCEPT !.at = at, !.timer = timer]]
    BY <1>3 DEF Doorway!Goes
  <2> QED BY <2>1, <2>2
<1>4. ASSUME NEW c \in Conversations, NEW why \in {"words", "working", "silence"},
                 Doorway!Decides(c, why)
      PROVE  conv' \in [Conversations -> ConvType]
  <2> DEFINE k == [conv[c] EXCEPT !.at = IF why = "silence" THEN "look" ELSE "touch",
          !.timer = 0,
                                  !.why = why, !.spoke = FALSE, !.crossed = FALSE]
  <2>1. k \in ConvType
    <3>1. (IF why = "silence" THEN "look" ELSE "touch") \in {"look", "touch"} OBVIOUS
    <3> QED BY <3>1, ConvChanges
  <2>2. conv' = [conv EXCEPT ![c] = k] BY <1>4 DEF Doorway!Decides
  <2> QED BY <2>1, <2>2
<1>5. ASSUME NEW c \in Conversations, conv' = [conv EXCEPT ![c] = Doorway!Closed]
      PROVE  conv' \in [Conversations -> ConvType]
  BY <1>5, ClosedConv
<1>6. ASSUME NEW c \in Conversations,
                 conv' = [conv EXCEPT ![c].at = "touch", ![c].crossed = TRUE]
      PROVE  conv' \in [Conversations -> ConvType]
  <2>1. [conv[c] EXCEPT !.at = "touch", !.crossed = TRUE] \in ConvType BY DEF ConvType
  <2>2. conv' = [conv EXCEPT ![c] = [conv[c] EXCEPT !.at = "touch", !.crossed = TRUE]]
    BY <1>6
  <2> QED BY <2>1, <2>2
<1>7. ASSUME Doorway!StopBox PROVE conv' \in [Conversations -> ConvType]
  <2>1. \A c \in Conversations : [conv[c] EXCEPT !.crossed = TRUE] \in ConvType
    BY DEF ConvType
  <2> QED BY <1>7, <2>1 DEF Doorway!StopBox
<1>8. CASE Doorway!Tick
  <2>1. ASSUME NEW c \in Conversations, Doorway!Open(c)
        PROVE [conv[c] EXCEPT !.timer = @ - 1] \in ConvType
    <3>1. conv[c].timer \in 0..(Beat + Gap + Answer) /\ conv[c].timer # 0
      BY <1>8, <2>1 DEF Doorway!Tick, Doorway!Due, Doorway!Open, ConvType
    <3>2. conv[c].timer - 1 \in 0..(Beat + Gap + Answer) BY <3>1
    <3> QED BY <3>2 DEF ConvType
  <2> QED BY <1>8, <2>1 DEF Doorway!Tick
<1>9. CASE UNCHANGED conv BY <1>9
<1>10. ASSUME NEW c \in Conversations, Doorway!Heartbeat(c)
       PROVE conv' \in [Conversations -> ConvType]
  <2>1. CASE Doorway!BeatEnds(c) BY <2>1, <1>3, <1>4 DEF Doorway!BeatEnds
  <2>2. CASE Doorway!Settles(c) BY <2>2, <1>3, <1>4 DEF Doorway!Settles
  <2>3. CASE Doorway!Looks(c) BY <2>3, <1>3, <1>5, <1>6 DEF Doorway!Looks
  <2>4. CASE Doorway!Touches(c) BY <2>4, <1>3 DEF Doorway!Touches
  <2>5. CASE Doorway!GapEnds(c) BY <2>5, <1>3 DEF Doorway!GapEnds
  <2> QED BY <1>10, <2>1, <2>2, <2>3, <2>4, <2>5 DEF Doorway!Heartbeat
<1>11. ASSUME NEW c \in Conversations, Doorway!Says(c) \/ Doorway!Pings(c)
       PROVE conv' \in [Conversations -> ConvType]
  BY <1>11, <1>2 DEF Doorway!Says, Doorway!Pings
<1>12. ASSUME NEW c \in Conversations, Doorway!HangsUp(c)
       PROVE conv' \in [Conversations -> ConvType]
  BY <1>12, <1>5 DEF Doorway!HangsUp
<1>13. ASSUME NEW c \in Conversations, Doorway!TurnEnds(c) PROVE UNCHANGED conv
  BY <1>13 DEF Doorway!TurnEnds
<1>14. Doorway!SweepFinds \/ UNCHANGED Doorway!vars => UNCHANGED conv
  BY DEF Doorway!SweepFinds, Doorway!vars
<1>15. Doorway!SweepSleeps \/ Doorway!PersonSleeps => Doorway!StopBox
  BY DEF Doorway!SweepSleeps, Doorway!PersonSleeps
<1> QED
  BY <1>1, <1>7, <1>8, <1>9, <1>10, <1>11, <1>12, <1>13, <1>14, <1>15 DEF Doorway!Next

LEMMA DoorTypeNext ==
    ASSUME Timed
    PROVE  Doorway!TypeOK /\ [Doorway!Next]_(Doorway!vars) => Doorway!TypeOK'
<1> SUFFICES ASSUME DoorTyped, [Doorway!Next]_(Doorway!vars) PROVE DoorTyped'
  <2> SUFFICES ASSUME Doorway!TypeOK, [Doorway!Next]_(Doorway!vars), DoorTyped'
      PROVE Doorway!TypeOK'
    BY TypeParts
  <2>1. conv' \in [Conversations -> ConvType] BY TypeParts, ConvNext
  <2> QED BY <2>1 DEF Doorway!TypeOK, DoorTyped, ConvType
<1> USE Ticks DEF DoorTyped
<1>a. Doorway!Wake => box' = "up" /\ quiet' \in 0..IdleAfter
  BY DEF Doorway!Wake, Doorway!Addressed
<1>1. ASSUME NEW c \in Conversations, Doorway!Opens(c) PROVE DoorTyped'
  BY <1>1, <1>a DEF Doorway!Opens, Doorway!Speaks
<1>2. ASSUME NEW c \in Conversations, Doorway!Says(c) PROVE DoorTyped'
  <2>1. 1 \in 0..Doorway!OldTurn OBVIOUS
  <2>2. turn' \in [Conversations -> 0..Doorway!OldTurn] BY <1>2, <2>1 DEF Doorway!Says
  <2> QED BY <1>2, <2>2 DEF Doorway!Says, Doorway!Speaks
<1>3. ASSUME NEW c \in Conversations, Doorway!Pings(c) PROVE DoorTyped'
  BY <1>3 DEF Doorway!Pings
<1>4. ASSUME NEW c \in Conversations, Doorway!HangsUp(c) PROVE DoorTyped'
  BY <1>4 DEF Doorway!HangsUp, Doorway!Speaks, Doorway!NoTrouble
<1>5. ASSUME NEW c \in Conversations, Doorway!TurnEnds(c) PROVE DoorTyped'
  BY <1>5 DEF Doorway!TurnEnds
<1>6. ASSUME NEW c \in Conversations, Doorway!BeatEnds(c) PROVE DoorTyped'
  BY <1>6 DEF Doorway!BeatEnds
<1>7. ASSUME NEW c \in Conversations, Doorway!Settles(c) PROVE DoorTyped'
  BY <1>7 DEF Doorway!Settles, Doorway!Trouble, Doorway!NoTrouble
<1>8. ASSUME NEW c \in Conversations, Doorway!Looks(c) PROVE DoorTyped'
  BY <1>8 DEF Doorway!Looks, Doorway!Trouble, Doorway!NoTrouble
<1>9. ASSUME NEW c \in Conversations, Doorway!Touches(c) PROVE DoorTyped'
  <2>1. box' \in {"up", "asleep"} /\ quiet' \in 0..IdleAfter
    BY <1>9, <1>a DEF Doorway!Touches
  <2>2. words' \in 0..MaxWords /\ troubles' \in 0..MaxTroubles
    BY <1>9 DEF Doorway!Touches, Doorway!Trouble, Doorway!NoTrouble
  <2> QED BY <1>9, <2>1, <2>2 DEF Doorway!Touches
<1>10. ASSUME NEW c \in Conversations, Doorway!GapEnds(c) PROVE DoorTyped'
  BY <1>10 DEF Doorway!GapEnds
<1>11. CASE Doorway!SweepFinds BY <1>11 DEF Doorway!SweepFinds
<1>12. CASE Doorway!SweepSleeps
  <2>1. sweep' \in BOOLEAN BY <1>12, Zenon DEF Doorway!SweepSleeps
  <2> QED BY <1>12, <2>1 DEF Doorway!SweepSleeps, Doorway!StopBox, Doorway!NoTrouble
<1>13. CASE Doorway!PersonSleeps
  BY <1>13 DEF Doorway!PersonSleeps, Doorway!StopBox, Doorway!Speaks
<1>14. CASE Doorway!Tick
  <2>1. quiet' \in 0..IdleAfter BY <1>14 DEF Doorway!Tick
  <2>2. turn' \in [Conversations -> 0..Doorway!OldTurn] BY <1>14 DEF Doorway!Tick
  <2> QED BY <1>14, <2>1, <2>2 DEF Doorway!Tick
<1>15. CASE UNCHANGED Doorway!vars BY <1>15 DEF Doorway!vars
<1> QED
  BY <1>1, <1>2, <1>3, <1>4, <1>5, <1>6, <1>7, <1>8, <1>9, <1>10, <1>11, <1>12, <1>13,
     <1>14, <1>15 DEF Doorway!Next, Doorway!Heartbeat

(* Every step keeps the timers within what they time.                      *)
LEMMA TimersNext ==
    ASSUME Timed
    PROVE  Doorway!TypeOK /\ Timers /\ [Doorway!Next]_(Doorway!vars) => Timers'
<1> SUFFICES ASSUME Doorway!TypeOK, Timers, [Doorway!Next]_(Doorway!vars)
    PROVE Timers' OBVIOUS
<1> USE Ticks DEF Doorway!TypeOK, Timers, Punctual
<1>1. ASSUME NEW c \in Conversations, Doorway!Opens(c) PROVE Timers'
  BY <1>1 DEF Doorway!Opens, Doorway!Closed
<1>2. ASSUME NEW c \in Conversations, Doorway!Says(c) PROVE Timers'
  BY <1>2 DEF Doorway!Says, Doorway!Heard
<1>3. ASSUME NEW c \in Conversations, Doorway!Pings(c) PROVE Timers'
  BY <1>3 DEF Doorway!Pings, Doorway!Heard
<1>4. ASSUME NEW c \in Conversations, Doorway!HangsUp(c) PROVE Timers'
  BY <1>4 DEF Doorway!HangsUp, Doorway!Closed
<1>5. ASSUME NEW c \in Conversations, Doorway!TurnEnds(c) PROVE Timers'
  BY <1>5 DEF Doorway!TurnEnds
<1>6. ASSUME NEW c \in Conversations, Doorway!BeatEnds(c) PROVE Timers'
  BY <1>6 DEF Doorway!BeatEnds, Doorway!Decides, Doorway!Goes
<1>7. ASSUME NEW c \in Conversations, Doorway!Settles(c) PROVE Timers'
  BY <1>7 DEF Doorway!Settles, Doorway!Decides, Doorway!Goes
<1>8. ASSUME NEW c \in Conversations, Doorway!Looks(c) PROVE Timers'
  <2>1. \A d \in Conversations \ {c} : conv'[d] = conv[d]
    BY <1>8 DEF Doorway!Looks, Doorway!Goes
  <2>2. conv'[c].at \in {"closed", "touch"}
    BY <1>8 DEF Doorway!Looks, Doorway!Closed, Doorway!Goes
  <2> QED BY <2>1, <2>2
<1>9. ASSUME NEW c \in Conversations, Doorway!Touches(c) PROVE Timers'
  BY <1>9 DEF Doorway!Touches, Doorway!Goes
<1>10. ASSUME NEW c \in Conversations, Doorway!GapEnds(c) PROVE Timers'
  BY <1>10 DEF Doorway!GapEnds, Doorway!Goes
<1>11. CASE Doorway!SweepFinds BY <1>11 DEF Doorway!SweepFinds
<1>12. CASE Doorway!SweepSleeps BY <1>12 DEF Doorway!SweepSleeps, Doorway!StopBox
<1>13. CASE Doorway!PersonSleeps BY <1>13 DEF Doorway!PersonSleeps, Doorway!StopBox
<1>14. CASE Doorway!Tick BY <1>14 DEF Doorway!Tick, Doorway!Open, Doorway!Due
<1>15. CASE UNCHANGED Doorway!vars BY <1>15 DEF Doorway!vars
<1> QED
  BY <1>1, <1>2, <1>3, <1>4, <1>5, <1>6, <1>7, <1>8, <1>9, <1>10, <1>11, <1>12, <1>13,
     <1>14, <1>15 DEF Doorway!Next, Doorway!Heartbeat

(* Every step keeps what a gap says of the box.                            *)
LEMMA JustTouchedNext ==
    ASSUME Timed
    PROVE  Doorway!TypeOK /\ Timers /\ JustTouched /\ [Doorway!Next]_(Doorway!vars)
               => JustTouched'
<1> SUFFICES ASSUME Doorway!TypeOK, Timers, JustTouched, [Doorway!Next]_(Doorway!vars)
    PROVE JustTouched' OBVIOUS
<1> USE Ticks DEF Doorway!TypeOK, Timers, Punctual, JustTouched
<1>0. ASSUME Doorway!Wake
      PROVE \A d \in Conversations : conv[d].at = "gap"
                => quiet' + conv[d].timer <= Floor + Gap \/ troubles >= 1
  BY <1>0 DEF Doorway!Wake, Doorway!Addressed
<1>1. ASSUME NEW c \in Conversations, Doorway!Opens(c) PROVE JustTouched'
  BY <1>1, <1>0 DEF Doorway!Opens, Doorway!Closed, Doorway!Speaks
<1>2. ASSUME NEW c \in Conversations, Doorway!Says(c) PROVE JustTouched'
  BY <1>2 DEF Doorway!Says, Doorway!Heard, Doorway!Speaks
<1>3. ASSUME NEW c \in Conversations, Doorway!Pings(c) PROVE JustTouched'
  BY <1>3 DEF Doorway!Pings, Doorway!Heard
<1>4. ASSUME NEW c \in Conversations, Doorway!HangsUp(c) PROVE JustTouched'
  BY <1>4 DEF Doorway!HangsUp, Doorway!Closed, Doorway!Speaks, Doorway!NoTrouble
<1>5. ASSUME NEW c \in Conversations, Doorway!TurnEnds(c) PROVE JustTouched'
  BY <1>5 DEF Doorway!TurnEnds
<1>6. ASSUME NEW c \in Conversations, Doorway!BeatEnds(c) PROVE JustTouched'
  BY <1>6 DEF Doorway!BeatEnds, Doorway!Decides, Doorway!Goes
<1>7. ASSUME NEW c \in Conversations, Doorway!Settles(c) PROVE JustTouched'
  BY <1>7 DEF Doorway!Settles, Doorway!Decides, Doorway!Goes, Doorway!Trouble,
     Doorway!NoTrouble
<1>8. ASSUME NEW c \in Conversations, Doorway!Looks(c) PROVE JustTouched'
  BY <1>8 DEF Doorway!Looks, Doorway!Closed, Doorway!Goes, Doorway!Trouble,
     Doorway!NoTrouble
<1>9. ASSUME NEW c \in Conversations, Doorway!Touches(c) PROVE JustTouched'
  <2>1. CASE Doorway!Wake /\ Doorway!NoTrouble
    <3>1. quiet' <= Floor BY <2>1 DEF Doorway!Wake, Doorway!Addressed
    <3>2. ASSUME NEW d \in Conversations, conv'[d].at = "gap"
          PROVE  quiet' + conv'[d].timer <= Floor + Gap \/ troubles' >= 1
      <4>1. CASE d = c
        <5>1. conv'[d].timer = Gap BY <1>9, <4>1 DEF Doorway!Touches, Doorway!Goes
        <5> QED BY <5>1, <3>1, <2>1 DEF Doorway!Wake, Doorway!Addressed
      <4>2. CASE d # c
        <5>1. conv'[d] = conv[d] BY <1>9, <4>2 DEF Doorway!Touches, Doorway!Goes
        <5> QED BY <5>1, <3>2, <2>1, <1>0 DEF Doorway!NoTrouble
      <4> QED BY <4>1, <4>2
    <3> QED BY <3>2
  <2>2. CASE Doorway!Trouble BY <1>9, <2>2 DEF Doorway!Touches, Doorway!Trouble
  <2> QED BY <1>9, <2>1, <2>2 DEF Doorway!Touches
<1>10. ASSUME NEW c \in Conversations, Doorway!GapEnds(c) PROVE JustTouched'
  BY <1>10 DEF Doorway!GapEnds, Doorway!Goes
<1>11. CASE Doorway!SweepFinds BY <1>11 DEF Doorway!SweepFinds
<1>12. CASE Doorway!SweepSleeps
  BY <1>12 DEF Doorway!SweepSleeps, Doorway!StopBox, Doorway!NoTrouble
<1>13. CASE Doorway!PersonSleeps
  BY <1>13 DEF Doorway!PersonSleeps, Doorway!StopBox, Doorway!Speaks
<1>14. CASE Doorway!Tick BY <1>14 DEF Doorway!Tick, Doorway!Open, Doorway!Due
<1>15. CASE UNCHANGED Doorway!vars BY <1>15 DEF Doorway!vars
<1> QED
  BY <1>1, <1>2, <1>3, <1>4, <1>5, <1>6, <1>7, <1>8, <1>9, <1>10, <1>11, <1>12, <1>13,
     <1>14, <1>15 DEF Doorway!Next, Doorway!Heartbeat

LEMMA LeftBound ==
    ASSUME Timed, NEW k \in ConvType, Punctual(k)
    PROVE  Left(k) \in 0..Doorway!Cycle
<1>1. k.timer \in Nat BY Ticks DEF ConvType
<1> QED BY <1>1, Ticks DEF Left, Punctual

(* A trouble moves both bounds by one cycle, and nothing else moves them.  *)
LEMMA Grows ==
    ASSUME Timed, Doorway!TypeOK
    PROVE  /\ Bound \in Nat /\ Grace \in Nat /\ Bound >= Floor + Doorway!Cycle
                  /\ Grace >= Gap
           /\ troubles >= 1 => Grace >= Gap + Doorway!Cycle
           /\ UNCHANGED troubles => UNCHANGED <<Bound, Grace>>
           /\ Doorway!Trouble
                  => Bound' = Bound + Doorway!Cycle /\ Grace' = Grace + Doorway!Cycle
<1>1. troubles \in Nat /\ troubles * Doorway!Cycle \in Nat
          /\ (troubles + 1) * Doorway!Cycle = troubles * Doorway!Cycle + Doorway!Cycle
  BY Ticks, Costs DEF Doorway!TypeOK
<1>2. troubles >= 1 => troubles * Doorway!Cycle >= Doorway!Cycle BY <1>1, Costs
<1>3. UNCHANGED troubles => UNCHANGED <<Bound, Grace>> BY DEF Bound, Grace
<1>4. Doorway!Trouble => Bound' = Bound + Doorway!Cycle /\ Grace' = Grace + Doorway!Cycle
  <2> SUFFICES ASSUME Doorway!Trouble
      PROVE Bound' = Bound + Doorway!Cycle /\ Grace' = Grace + Doorway!Cycle OBVIOUS
  <2>1. Bound' = Floor + Doorway!Cycle + (troubles + 1) * Doorway!Cycle
            /\ Grace' = Gap + (troubles + 1) * Doorway!Cycle
    BY DEF Doorway!Trouble, Bound, Grace
  <2> QED BY <2>1, <1>1, Ticks DEF Bound, Grace
<1> QED BY <1>1, <1>2, <1>3, <1>4, Ticks DEF Bound, Grace

(* Nothing of a conversation changed but the trouble there was.            *)
LEMMA NotedKept ==
    ASSUME Timed, Doorway!TypeOK, Doorway!TypeOK', Timers, Timers',
               NEW c \in Conversations, NotedOf(c),
           UNCHANGED troubles \/ Doorway!Trouble,
           Doorway!Open(c)'
               => Doorway!Open(c) /\ turn'[c] = turn[c]
                   /\ Left(conv'[c]) <= Left(conv[c]),
           box' = "up" => (box = "up" /\ quiet' <= quiet) \/ quiet' <= Floor
    PROVE  NotedOf(c)'
<1> SUFFICES ASSUME Doorway!Open(c)', box' = "up", turn'[c] # 0
             PROVE  quiet' + Left(conv'[c]) <= Bound'
                        \/ turn'[c] + Left(conv'[c]) <= Grace'
  BY DEF NotedOf
<1>1. Left(conv[c]) \in 0..Doorway!Cycle /\ Left(conv'[c]) \in 0..Doorway!Cycle
          /\ quiet \in Nat /\ quiet' \in Nat /\ turn[c] \in Nat
  <2>1. conv[c] \in ConvType /\ conv'[c] \in ConvType BY DEF Doorway!TypeOK, ConvType
  <2>2. Punctual(conv[c]) /\ Punctual(conv'[c]) BY DEF Timers
  <2> QED BY <2>1, <2>2, LeftBound, Ticks DEF Doorway!TypeOK
<1>2. /\ Bound \in Nat /\ Grace \in Nat /\ Bound' \in Nat /\ Grace' \in Nat
      /\ Bound >= Floor + Doorway!Cycle /\ Bound' >= Bound /\ Grace' >= Grace
  BY Grows, Ticks
<1>3. CASE quiet' <= Floor BY <1>1, <1>2, <1>3, Ticks
<1>4. CASE box = "up" /\ quiet' <= quiet
  <2>1. quiet + Left(conv[c]) <= Bound \/ turn[c] + Left(conv[c]) <= Grace
    BY <1>4 DEF NotedOf
  <2> QED BY <1>1, <1>2, <1>4, <2>1
<1> QED BY <1>3, <1>4

(* Every step keeps the touch near: it is the heart of the argument.       *)
LEMMA NotedNext ==
    ASSUME Timed
    PROVE  Doorway!TypeOK /\ Timers /\ JustTouched /\ NotedSoon
               /\ [Doorway!Next]_(Doorway!vars) /\ Doorway!TypeOK' /\ Timers'
                      => NotedSoon'
<1> SUFFICES ASSUME Doorway!TypeOK, Timers, JustTouched, NotedSoon,
                        [Doorway!Next]_(Doorway!vars), Doorway!TypeOK', Timers',
                    NEW d \in Conversations
             PROVE  NotedOf(d)'
  BY DEF NotedSoon
<1>a. NotedOf(d) /\ turn[d] \in Nat /\ quiet \in Nat /\ quiet' \in Nat
  BY Ticks DEF Doorway!TypeOK, NotedSoon
<1>b. conv[d] \in ConvType /\ conv'[d] \in ConvType /\ Punctual(conv[d])
    /\ Punctual(conv'[d])
  BY DEF Doorway!TypeOK, ConvType, Timers
<1>c. Left(conv[d]) \in 0..Doorway!Cycle /\ Left(conv'[d]) \in 0..Doorway!Cycle
  BY <1>b, LeftBound
<1>d. Doorway!Wake => box' = "up" /\ quiet' <= Floor
  BY Ticks DEF Doorway!Wake, Doorway!Addressed, Doorway!TypeOK
<1>e. Doorway!NoTrouble \/ Doorway!Speaks => UNCHANGED troubles
  BY DEF Doorway!NoTrouble, Doorway!Speaks
<1>f. ASSUME turn'[d] = turn[d], UNCHANGED troubles \/ Doorway!Trouble,
             Doorway!Open(d)'
                 => Doorway!Open(d)
                     /\ Left(conv'[d]) <= Left(conv[d]), UNCHANGED <<box, quiet>>
      PROVE  NotedOf(d)'
  BY <1>f, <1>a, NotedKept
<1>g. ASSUME turn'[d] = turn[d], UNCHANGED troubles
    \/ Doorway!Trouble, conv'[d] = conv[d],
             UNCHANGED <<box, quiet>>
      PROVE  NotedOf(d)'
  <2>1. Doorway!Open(d)' => Doorway!Open(d) /\ Left(conv'[d]) <= Left(conv[d])
    BY <1>g, <1>c, Ticks DEF Doorway!Open
  <2> QED BY <1>f, <1>g, <2>1
<1>h. ASSUME quiet' <= Floor, UNCHANGED troubles \/ Doorway!Trouble PROVE NotedOf(d)'
  <2>1. Bound' \in Nat /\ Bound' >= Floor + Doorway!Cycle BY <1>h, Grows, Ticks
  <2> QED BY <2>1, <1>h, <1>a, <1>c, Ticks DEF NotedOf
<1>i. ASSUME box' = "asleep" PROVE NotedOf(d)' BY <1>i DEF NotedOf
<1>1. ASSUME NEW c \in Conversations, Doorway!Opens(c) PROVE NotedOf(d)'
  BY <1>1, <1>d, <1>e, <1>h DEF Doorway!Opens
<1>2. ASSUME NEW c \in Conversations, Doorway!Says(c) PROVE NotedOf(d)'
  <2>1. CASE c # d
    <3>1. conv'[d] = conv[d] /\ turn'[d] = turn[d]
      BY <1>2, <2>1 DEF Doorway!Says, Doorway!Heard, Doorway!TypeOK
    <3> QED BY <1>2, <3>1, <1>e, <1>g DEF Doorway!Says
  <2>2. CASE c = d
    <3>1. /\ conv'[d].at = conv[d].at /\ conv'[d].timer = conv[d].timer
                 /\ conv'[d].spoke = TRUE
      BY <1>2, <2>2 DEF Doorway!Says, Doorway!Heard, Doorway!TypeOK
    <3>2. Left(conv'[d]) <= Left(conv[d]) BY <3>1, <1>b, Ticks DEF Left, ConvType
    <3>3. CASE turn[d] # 0
      <4>1. turn'[d] = turn[d] BY <1>2, <2>2, <3>3 DEF Doorway!Says, Doorway!TypeOK
      <4>2. Doorway!Open(d)' => Doorway!Open(d) BY <3>1 DEF Doorway!Open
      <4> QED BY <1>2, <4>1, <4>2, <3>2, <1>e, <1>f DEF Doorway!Says
    <3>4. CASE turn[d] = 0
      <4>1. turn'[d] = 1 /\ UNCHANGED <<box, quiet, Bound, Grace>>
        <5>1. UNCHANGED <<box, quiet, troubles>> BY <1>2, <1>e DEF Doorway!Says
        <5> QED BY <1>2, <2>2, <3>4, <5>1, Grows DEF Doorway!Says, Doorway!TypeOK
      <4>2. Bound \in Nat /\ Grace \in Nat /\ Bound >= Floor + Doorway!Cycle
                /\ Grace >= Gap
            /\ (troubles >= 1 => Grace >= Gap + Doorway!Cycle)
        BY Grows
      <4>3. CASE conv[d].at = "gap" /\ box = "up"
        <5>1. quiet + conv[d].timer <= Floor + Gap \/ troubles >= 1
          BY <4>3 DEF JustTouched
        <5>2. Left(conv'[d]) = conv[d].timer /\ conv[d].timer \in Nat
                  /\ conv[d].timer <= Gap
          BY <3>1, <4>3, <1>b, Ticks DEF Left, Punctual, ConvType
        <5> QED BY <4>1, <4>2, <5>1, <5>2, <1>a, Ticks DEF NotedOf
      <4>4. CASE conv[d].at # "gap"
        <5>1. Left(conv'[d]) = 0 BY <3>1, <4>4 DEF Left
        <5> QED BY <4>1, <4>2, <5>1, Ticks DEF NotedOf
      <4>5. CASE box # "up" BY <4>1, <4>5 DEF NotedOf
      <4> QED BY <4>3, <4>4, <4>5
    <3> QED BY <3>3, <3>4
  <2> QED BY <2>1, <2>2
<1>3. ASSUME NEW c \in Conversations, Doorway!Pings(c) PROVE NotedOf(d)'
  <2>1. /\ conv'[d].at = conv[d].at /\ conv'[d].timer = conv[d].timer
        /\ conv'[d].spoke <=> conv[d].spoke
    BY <1>3 DEF Doorway!Pings, Doorway!Heard, Doorway!TypeOK
  <2>2. Left(conv'[d]) = Left(conv[d])
    BY <2>1 DEF Left
  <2>3. Doorway!Open(d)' => Doorway!Open(d) BY <2>1 DEF Doorway!Open
  <2> QED BY <1>3, <2>2, <2>3, <1>c, <1>f, Ticks DEF Doorway!Pings
<1>4. ASSUME NEW c \in Conversations, Doorway!HangsUp(c) PROVE NotedOf(d)'
  <2>1. CASE c = d
    <3>1. ~Doorway!Open(d)'
      BY <1>4, <2>1 DEF Doorway!HangsUp, Doorway!Open, Doorway!Closed, Doorway!TypeOK
    <3> QED BY <3>1 DEF NotedOf
  <2>2. CASE c # d
    <3>1. conv'[d] = conv[d] BY <1>4, <2>2 DEF Doorway!HangsUp, Doorway!TypeOK
    <3> QED BY <1>4, <3>1, <1>e, <1>g DEF Doorway!HangsUp
  <2> QED BY <2>1, <2>2
<1>5. ASSUME NEW c \in Conversations, Doorway!TurnEnds(c) PROVE NotedOf(d)'
  <2>1. CASE c = d
    <3>1. turn'[d] = 0 BY <1>5, <2>1 DEF Doorway!TurnEnds, Doorway!TypeOK
    <3> QED BY <3>1 DEF NotedOf
  <2>2. CASE c # d
    <3>1. turn'[d] = turn[d] BY <1>5, <2>2 DEF Doorway!TurnEnds, Doorway!TypeOK
    <3> QED BY <1>5, <3>1, <1>g DEF Doorway!TurnEnds
  <2> QED BY <2>1, <2>2
<1>6. ASSUME NEW c \in Conversations, Doorway!Heartbeat(c), c # d, ~Doorway!Touches(c)
      PROVE NotedOf(d)'
  <2>1. conv'[d] = conv[d]
    BY <1>6 DEF Doorway!Heartbeat, Doorway!BeatEnds, Doorway!Settles, Doorway!Looks,
       Doorway!GapEnds, Doorway!Decides, Doorway!Goes, Doorway!TypeOK
  <2>2. UNCHANGED <<box, quiet, turn>> /\ (UNCHANGED troubles \/ Doorway!Trouble)
    BY <1>6, <1>e DEF Doorway!Heartbeat, Doorway!BeatEnds, Doorway!Settles,
       Doorway!Looks, Doorway!GapEnds
  <2> QED BY <2>1, <2>2, <1>g
<1>7. Doorway!BeatEnds(d) => NotedOf(d)'
  <2> SUFFICES ASSUME Doorway!BeatEnds(d) PROVE NotedOf(d)' OBVIOUS
  <2>1. Left(conv'[d]) <= Left(conv[d])
    <3>1. CASE conv[d].spoke
      <4>1. conv'[d].at = "touch"
        BY <3>1 DEF Doorway!BeatEnds, Doorway!Decides, Doorway!TypeOK
      <4>2. Left(conv'[d]) = 0 BY <4>1 DEF Left
      <4> QED BY <4>2, <1>c, Ticks
    <3>2. CASE ~conv[d].spoke
      <4>1. conv[d].timer = 0 /\ conv[d].at = "beat" BY <3>2 DEF Doorway!BeatEnds
      <4>2. conv'[d].at = "ask" /\ conv'[d].timer = Answer /\ ~conv'[d].spoke
        BY <3>2 DEF Doorway!BeatEnds, Doorway!Goes, Doorway!TypeOK
      <4> QED BY <4>1, <4>2, <3>2, Ticks DEF Left
    <3> QED BY <3>1, <3>2
  <2>2. Doorway!Open(d) BY DEF Doorway!BeatEnds, Doorway!Open
  <2>3. UNCHANGED <<box, quiet, turn, troubles>> BY DEF Doorway!BeatEnds
  <2> QED BY <2>1, <2>2, <2>3, <1>f
<1>8. Doorway!Settles(d) => NotedOf(d)'
  <2> SUFFICES ASSUME Doorway!Settles(d) PROVE NotedOf(d)' OBVIOUS
  <2>1. UNCHANGED <<box, quiet, turn>> /\ (UNCHANGED troubles \/ Doorway!Trouble)
    BY <1>e DEF Doorway!Settles
  <2>2. Doorway!Open(d) BY DEF Doorway!Settles, Doorway!Open
  <2>3. ASSUME NEW why, Doorway!Decides(d, why) PROVE NotedOf(d)'
    <3>1. conv'[d].at \in {"look", "touch"} BY <2>3 DEF Doorway!Decides, Doorway!TypeOK
    <3>2. Left(conv'[d]) = 0 BY <3>1 DEF Left
    <3>3. Left(conv'[d]) <= Left(conv[d]) BY <3>2, <1>c, Ticks
    <3> QED BY <2>1, <2>2, <3>3, <1>f
  <2>4. ASSUME ~Doorway!HermesWorks PROVE NotedOf(d)'
    <3>1. turn[d] = 0 BY <2>4 DEF Doorway!HermesWorks
    <3> QED BY <2>1, <3>1 DEF NotedOf
  <2> QED BY <2>3, <2>4 DEF Doorway!Settles
<1>9. Doorway!Looks(d) => NotedOf(d)'
  <2> SUFFICES ASSUME Doorway!Looks(d) PROVE NotedOf(d)' OBVIOUS
  <2>1. UNCHANGED <<box, quiet, turn>> /\ (UNCHANGED troubles \/ Doorway!Trouble)
    BY <1>e DEF Doorway!Looks
  <2>2. Doorway!Open(d) BY DEF Doorway!Looks, Doorway!Open
  <2>3. conv'[d].at \in {"closed", "touch"}
    BY DEF Doorway!Looks, Doorway!Goes, Doorway!Closed, Doorway!TypeOK
  <2>4. Left(conv'[d]) = 0 BY <2>3 DEF Left
  <2>5. Left(conv'[d]) <= Left(conv[d]) BY <2>4, <1>c, Ticks
  <2> QED BY <2>1, <2>2, <2>5, <1>f
<1>10. ASSUME NEW c \in Conversations, Doorway!Touches(c) PROVE NotedOf(d)'
  <2>1. CASE Doorway!Wake /\ Doorway!NoTrouble BY <2>1, <1>d, <1>e, <1>h
  <2>2. CASE Doorway!Trouble /\ UNCHANGED <<box, quiet>>
    <3>1. CASE c # d
      <4>1. conv'[d] = conv[d]
        BY <1>10, <3>1 DEF Doorway!Touches, Doorway!Goes, Doorway!TypeOK
      <4> QED BY <1>10, <2>2, <4>1, <1>g DEF Doorway!Touches
    <3>2. CASE c = d
      <4>1. conv[d].at = "touch" /\ turn'[d] = turn[d]
        BY <1>10, <3>2 DEF Doorway!Touches
      <4>2. Left(conv[d]) = 0 BY <4>1 DEF Left
      <4>3. Bound' = Bound + Doorway!Cycle /\ Grace' = Grace + Doorway!Cycle
                /\ Bound \in Nat /\ Grace \in Nat
        BY <2>2, Grows
      <4>4. Doorway!Open(d) BY <4>1 DEF Doorway!Open
      <4> QED BY <2>2, <4>1, <4>2, <4>3, <4>4, <1>a, <1>c, Ticks DEF NotedOf
    <3> QED BY <3>1, <3>2
  <2> QED BY <1>10, <2>1, <2>2 DEF Doorway!Touches
<1>11. Doorway!GapEnds(d) => NotedOf(d)'
  <2> SUFFICES ASSUME Doorway!GapEnds(d) PROVE NotedOf(d)' OBVIOUS
  <2>1. UNCHANGED <<box, quiet, turn, troubles>> /\ Doorway!Open(d)
    BY DEF Doorway!GapEnds, Doorway!Open
  <2>2. conv'[d].at = "beat" /\ conv'[d].timer = Beat
            /\ (conv'[d].spoke <=> conv[d].spoke)
    BY DEF Doorway!GapEnds, Doorway!Goes, Doorway!TypeOK
  <2>3. conv[d].at = "gap" /\ conv[d].timer = 0 BY DEF Doorway!GapEnds
  <2>4. Left(conv'[d]) <= Left(conv[d]) BY <2>2, <2>3, Ticks DEF Left
  <2> QED BY <2>1, <2>4, <1>f
<1>12. CASE Doorway!SweepFinds
  <2>1. UNCHANGED <<box, quiet, conv, turn, troubles>> BY <1>12 DEF Doorway!SweepFinds
  <2> QED BY <2>1, <1>g
<1>13. CASE Doorway!SweepSleeps \/ Doorway!PersonSleeps
  <2>1. box' = "asleep"
    BY <1>13 DEF Doorway!SweepSleeps, Doorway!PersonSleeps, Doorway!StopBox,
       Doorway!TypeOK
  <2> QED BY <2>1, <1>i
<1>14. CASE Doorway!Tick
  <2> SUFFICES ASSUME Doorway!Open(d)', box' = "up", turn'[d] # 0
               PROVE  quiet' + Left(conv'[d]) <= Bound'
                          \/ turn'[d] + Left(conv'[d]) <= Grace'
    BY DEF NotedOf
  <2>1. UNCHANGED <<box, troubles>> /\ quiet' <= quiet + 1
    BY <1>14, <1>a, Ticks DEF Doorway!Tick, Doorway!TypeOK
  <2>2. turn[d] # 0 /\ turn'[d] \in Nat /\ turn'[d] <= turn[d] + 1
    BY <1>14, <1>a, Ticks DEF Doorway!Tick, Doorway!TypeOK
  <2>3. Doorway!Open(d) BY <1>14 DEF Doorway!Tick, Doorway!Open, Doorway!TypeOK
  <2>4. conv'[d] = [conv[d] EXCEPT !.timer = conv[d].timer - 1]
    BY <1>14, <2>3 DEF Doorway!Tick
  <2>5. conv'[d].at = conv[d].at /\ conv'[d].spoke = conv[d].spoke
        /\ conv'[d].timer = conv[d].timer - 1
    BY <2>4, <1>b DEF ConvType
  <2>6. \/ conv[d].at = "gap"
        \/ conv[d].at \in {"beat", "ask"} /\ ~conv[d].spoke
    BY <1>14, <2>3, <1>b DEF Doorway!Tick, Doorway!Due, Doorway!Open, ConvType
  <2>7. Left(conv'[d]) = Left(conv[d]) - 1 BY <2>5, <2>6, <1>b, Ticks DEF Left, ConvType
  <2>8. Bound' = Bound /\ Grace' = Grace /\ Bound \in Nat /\ Grace \in Nat
    BY <2>1, Grows
  <2>9. quiet + Left(conv[d]) <= Bound \/ turn[d] + Left(conv[d]) <= Grace
    BY <2>1, <2>2, <2>3, <1>a DEF NotedOf
  <2> QED BY <2>1, <2>2, <2>7, <2>8, <2>9, <1>a, <1>c, Ticks
<1>15. CASE UNCHANGED Doorway!vars
  <2>1. UNCHANGED <<box, quiet, conv, turn, troubles>> BY <1>15 DEF Doorway!vars
  <2> QED BY <2>1, <1>g
<1> QED
  BY <1>1, <1>2, <1>3, <1>4, <1>5, <1>6, <1>7, <1>8, <1>9, <1>10, <1>11, <1>12, <1>13,
     <1>14, <1>15 DEF Doorway!Next, Doorway!Heartbeat

(* So Awake is inductive, and a box with an old turn has not been quiet    *)
(* long enough to count as idle.                                           *)
LEMMA AwakeInit ==
    ASSUME Timed
    PROVE  Doorway!Init => Awake
<1> SUFFICES ASSUME Doorway!Init PROVE Awake OBVIOUS
<1>1. Doorway!TypeOK BY DoorTypeInit
<1>2. \A c \in Conversations : conv[c] = Doorway!Closed BY DEF Doorway!Init
<1>3. Timers /\ JustTouched /\ NotedSoon
  BY <1>2 DEF Timers, Punctual, JustTouched, NotedSoon, NotedOf,
     Doorway!Open, Doorway!Closed
<1> QED BY <1>1, <1>3 DEF Awake

LEMMA AwakeNext ==
    ASSUME Timed
    PROVE  Awake /\ [Doorway!Next]_(Doorway!vars) => Awake'
BY DoorTypeNext, TimersNext, JustTouchedNext, NotedNext DEF Awake

LEMMA AwakeMeans ==
    ASSUME Timed
    PROVE  Awake => Doorway!BusyBoxIsNotIdle
<1> SUFFICES ASSUME Awake, NEW c \in Conversations, Doorway!Open(c), box = "up",
                        turn[c] > Gap + troubles * Doorway!Cycle
             PROVE  ~Doorway!Idle
  BY DEF Doorway!BusyBoxIsNotIdle
<1>1. Doorway!TypeOK /\ Timers /\ NotedSoon BY DEF Awake
<1>2. conv[c] \in ConvType /\ Punctual(conv[c])
  BY <1>1 DEF Doorway!TypeOK, ConvType, Timers
<1>3. Left(conv[c]) \in 0..Doorway!Cycle BY <1>2, LeftBound
<1>4. turn[c] \in 0..Doorway!OldTurn /\ quiet \in Nat /\ troubles \in Nat
  BY <1>1, Ticks DEF Doorway!TypeOK
<1>5. troubles * Doorway!Cycle \in Nat
          /\ (troubles >= 2 => troubles * Doorway!Cycle >= Doorway!Cycle + Doorway!Cycle)
  BY <1>4, Costs
<1>6. troubles \in {0, 1}
  <2>1. ~(troubles >= 2) BY <1>4, <1>5, Ticks
  <2> QED BY <2>1, <1>4
<1>7. troubles * Doorway!Cycle <= Doorway!Cycle BY <1>6, Ticks
<1>8. quiet + Left(conv[c]) <= Floor + Doorway!Cycle + troubles * Doorway!Cycle
  <2>1. turn[c] # 0 BY <1>4, <1>5, Ticks
  <2>2. \/ quiet + Left(conv[c]) <= Bound
        \/ turn[c] + Left(conv[c]) <= Grace
    BY <1>1, <2>1 DEF NotedSoon, NotedOf
  <2> QED BY <1>3, <1>4, <1>5, <2>2, Ticks DEF Bound, Grace
<1> QED BY <1>3, <1>4, <1>5, <1>7, <1>8, Ticks DEF Doorway!Idle

(* The sweep never takes a box for idle while a turn that is older than the*)
(* gap works on it under an open conversation, though one heartbeat may    *)
(* fail (Liveness, keep_awake, idle_boxes). A turn is not told apart after *)
(* one cycle more, so of two failures and more this says nothing.          *)
THEOREM BusyBoxStaysBusy ==
    Doorway!Spec => []BusyBoxIsNotIdle
<1>1. Timed BY DoorAssumption DEF Timed
<1>2. Doorway!Spec => []Awake BY <1>1, AwakeInit, AwakeNext, PTL DEF Doorway!Spec
<1>3. Awake => BusyBoxIsNotIdle BY <1>1, AwakeMeans DEF BusyBoxIsNotIdle
<1> QED BY <1>2, <1>3, PTL

-----------------------------------------------------------------------------
(* Updates: one that is done has moved everybody.  InTurn below is         *)
(* inductive.                                                              *)

(* What Rollouts assumes of its constants, but for what TLC alone needs.   *)
Counted == Rolls!RefsAssumption /\ Rolls!BuildsAssumption /\ Rolls!BoundsAssumption

BeforeRolling == {"deploy", "release", "mark", "list"}

(* An update that has not been accepted has no thread; its thread has      *)
(* listed nobody before it rolls, and rests when it is done.               *)
FreshOf(i) == build[i].status = "none" => roll[i] = Rolls!Idle
NothingOf(i) == roll[i].at \in BeforeRolling => roll[i].listed = {} /\ roll[i].todo = {}
DoneOf(i) ==
    build[i].status = "done" =>
        roll[i].at = "idle" /\ roll[i].todo = {} /\ build[i].image = roll[i].target

(* Whom it listed had a machine, and keeps it or is torn down; whom it is  *)
(* through with runs its image, unless another moved them after.           *)
SettledOf(i) == \A b \in roll[i].listed : status[b] \in {"settled", "torn_down"}
MovedOf(i) ==
    \A b \in roll[i].listed \ roll[i].todo :
        image[b] = roll[i].target \/ b \in elsewhere[i]

Good(i) == FreshOf(i) /\ NothingOf(i) /\ DoneOf(i) /\ SettledOf(i) /\ MovedOf(i)
InTurn == Rolls!TypeOK /\ \A i \in Builds : Good(i)

(* The types of a row and of a thread, and those of the rest.              *)
RollStates == {"idle", "deploy", "release", "mark", "list", "roll", "reimage"}
BuildRows == [status : {"none", "building", "rolling", "done", "failed"}, ref : Refs,
              image : Nat, stale : BOOLEAN]
Rollers == [at : RollStates, target : Nat, listed : SUBSET Boxes, todo : SUBSET Boxes]
Others ==
    /\ status \in [Boxes -> {"absent", "provisioning", "settled", "torn_down"}]
    /\ image \in [Boxes -> Nat]
    /\ releases \in Seq(Refs)
    /\ upgrade \in [at : {"idle", "turn", "reimage"}, box : Boxes \cup {0}, target : Nat]
    /\ mishaps \in 0..MaxMishaps /\ moves \in 0..MaxMoves
    /\ elsewhere \in [Builds -> SUBSET Boxes]

LEMMA RollTypes ==
    Rolls!TypeOK <=>
        Others /\ build \in [Builds -> BuildRows] /\ roll \in [Builds -> Rollers]
BY DEF Rolls!TypeOK, Others, BuildRows, Rollers, RollStates

(* A thread and a row stay of their types wherever they go.                *)
LEMMA RollerMoves ==
    ASSUME NEW r \in Rollers, NEW n \in Nat, NEW S \in SUBSET Boxes
    PROVE  /\ \A at \in RollStates : [r EXCEPT !.at = at] \in Rollers
           /\ [r EXCEPT !.at = "mark", !.target = n] \in Rollers
           /\ [r EXCEPT !.at = "roll", !.listed = S, !.todo = S] \in Rollers
           /\ [r EXCEPT !.at = "roll", !.todo = S] \in Rollers
BY DEF Rollers, RollStates

LEMMA IdleRoller == Rolls!Idle \in Rollers
BY DEF Rolls!Idle, Rollers, RollStates

LEMMA RowMoves ==
    ASSUME NEW r \in BuildRows
    PROVE  /\ \A ref \in Refs : [r EXCEPT !.status = "building", !.ref = ref] \in BuildRows
           /\ [r EXCEPT !.status = "rolling"] \in BuildRows
           /\ [r EXCEPT !.stale = TRUE] \in BuildRows
           /\ \A s \in {"done", "failed"}, n \in Nat :
                [r EXCEPT !.status = s, !.image = n] \in BuildRows
<1>1. [r EXCEPT !.stale = TRUE] \in BuildRows
  <2>1. TRUE \in BOOLEAN OBVIOUS
  <2> QED BY <2>1 DEF BuildRows
<1> QED BY <1>1 DEF BuildRows

LEMMA FinishType ==
    ASSUME build \in [Builds -> BuildRows], roll \in [Builds -> Rollers],
           NEW i \in Builds, NEW outcome \in {"done", "failed"},
           Rolls!FinishBuild(i, outcome)
    PROVE  build' \in [Builds -> BuildRows] /\ roll' \in [Builds -> Rollers]
<1> DEFINE n == IF outcome = "done" THEN roll[i].target ELSE 0
           r == IF outcome = "done" THEN [roll[i] EXCEPT !.at = "idle"] ELSE Rolls!Idle
<1>1. roll[i] \in Rollers /\ build[i] \in BuildRows OBVIOUS
<1>2. n \in Nat BY <1>1 DEF Rollers
<1>3. "idle" \in RollStates BY DEF RollStates
<1>4. r \in Rollers
  <2>1. {} \in SUBSET Boxes OBVIOUS
  <2> QED BY <1>1, <1>2, <1>3, <2>1, RollerMoves, IdleRoller
<1>5. roll' = [roll EXCEPT ![i] = r] BY DEF Rolls!FinishBuild
<1>6. build' = [build EXCEPT ![i] = [build[i] EXCEPT !.status = outcome, !.image = n]]
  BY DEF Rolls!FinishBuild
<1>7. [build[i] EXCEPT !.status = outcome, !.image = n] \in BuildRows
  BY <1>1, <1>2, RowMoves
<1>8. roll' \in [Builds -> Rollers]
  <2> HIDE DEF r
  <2> QED BY <1>4, <1>5
<1>9. build' \in [Builds -> BuildRows] BY <1>6, <1>7
<1> QED BY <1>8, <1>9

LEMMA MovedType ==
    ASSUME Others, roll \in [Builds -> Rollers], NEW b, NEW by, Rolls!MovedElsewhere(b, by)
    PROVE  elsewhere' \in [Builds -> SUBSET Boxes]
<1>1. \A i \in Builds : b \in roll[i].listed \ roll[i].todo => b \in Boxes
  <2>1. \A i \in Builds : roll[i].listed \in SUBSET Boxes BY DEF Rollers
  <2> QED BY <2>1
<1>2. \A i \in Builds : elsewhere[i] \in SUBSET Boxes BY DEF Others
<1> QED BY <1>1, <1>2 DEF Rolls!MovedElsewhere

LEMMA GoesType ==
    ASSUME roll \in [Builds -> Rollers], NEW i \in Builds, NEW at \in RollStates,
           Rolls!Goes(i, at)
    PROVE  roll' \in [Builds -> Rollers]
<1>1. roll[i] \in Rollers /\ 0 \in Nat /\ {} \in SUBSET Boxes OBVIOUS
<1>2. [roll[i] EXCEPT !.at = at] \in Rollers BY <1>1, RollerMoves
<1>3. roll' = [roll EXCEPT ![i] = [roll[i] EXCEPT !.at = at]] BY DEF Rolls!Goes
<1> QED BY <1>2, <1>3

LEMMA PassesType ==
    ASSUME roll \in [Builds -> Rollers], NEW i \in Builds, Rolls!Passes(i)
    PROVE  roll' \in [Builds -> Rollers]
<1> DEFINE rest == roll[i].todo \ {Rolls!Turn(i)}
<1>1. roll[i] \in Rollers /\ 0 \in Nat OBVIOUS
<1>2. rest \in SUBSET Boxes BY <1>1 DEF Rollers
<1>3. [roll[i] EXCEPT !.at = "roll", !.todo = rest] \in Rollers
  <2> HIDE DEF rest
  <2> QED BY <1>1, <1>2, RollerMoves
<1>4. roll' = [roll EXCEPT ![i] = [roll[i] EXCEPT !.at = "roll", !.todo = rest]]
  BY DEF Rolls!Passes
<1> QED BY <1>3, <1>4

(* The types hold at first and after every step.                           *)
LEMMA RollTypeInit ==
    ASSUME Counted
    PROVE  Rolls!Init => Rolls!TypeOK
<1> SUFFICES ASSUME Rolls!Init PROVE Rolls!TypeOK OBVIOUS
<1> USE DEF Counted, Rolls!RefsAssumption, Rolls!BoundsAssumption
<1>1. Others BY DEF Rolls!Init, Others, Rolls!Resting
<1>2. roll \in [Builds -> Rollers] BY IdleRoller DEF Rolls!Init
<1>3. [status |-> "none", ref |-> First, image |-> 0, stale |-> FALSE] \in BuildRows
  <2>1. FALSE \in BOOLEAN OBVIOUS
  <2> QED BY <2>1 DEF BuildRows
<1>4. build \in [Builds -> BuildRows] BY <1>3 DEF Rolls!Init
<1> QED BY <1>1, <1>2, <1>4, RollTypes

LEMMA RollTypeNext ==
    ASSUME Counted
    PROVE  Rolls!TypeOK /\ [Rolls!Next]_(Rolls!vars) => Rolls!TypeOK'
<1> SUFFICES ASSUME Others, build \in [Builds -> BuildRows], roll \in [Builds -> Rollers],
                    [Rolls!Next]_(Rolls!vars)
             PROVE  /\ Others' /\ build' \in [Builds -> BuildRows]
                    /\ roll' \in [Builds -> Rollers]
  <2> SUFFICES ASSUME Rolls!TypeOK, [Rolls!Next]_(Rolls!vars) PROVE Rolls!TypeOK' OBVIOUS
  <2>1. Others /\ build \in [Builds -> BuildRows] /\ roll \in [Builds -> Rollers]
    BY RollTypes
  <2>2. Others' /\ build' \in [Builds -> BuildRows] /\ roll' \in [Builds -> Rollers]
    BY <2>1
  <2> QED BY <2>2 DEF Rolls!TypeOK, Others, BuildRows, Rollers, RollStates
<1> DEFINE Kinds == build' \in [Builds -> BuildRows] /\ roll' \in [Builds -> Rollers]
<1> USE DEF Counted, Rolls!BoundsAssumption, Others, Rolls!bounds
<1>a. Rolls!Newest \in Nat BY DEF Rolls!Newest
<1>b. \A i \in Builds : roll[i] \in Rollers /\ build[i] \in BuildRows OBVIOUS
<1>c. \A i \in Builds : build[i].ref \in Refs /\ roll[i].target \in Nat
  BY <1>b DEF BuildRows, Rollers
<1>d. \A i \in Builds : Append(releases, build[i].ref) \in Seq(Refs) BY <1>c
<1>e. Rolls!Trouble => mishaps' \in 0..MaxMishaps /\ moves' \in 0..MaxMoves
  BY DEF Rolls!Trouble
<1>f. Rolls!Moves => mishaps' \in 0..MaxMishaps /\ moves' \in 0..MaxMoves
  BY DEF Rolls!Moves
<1>g. RollStates = {"idle", "deploy", "release", "mark", "list", "roll", "reimage"}
  BY DEF RollStates
<1>1. ASSUME NEW i \in Builds, NEW ref \in Refs, Rolls!StartBuild(i, ref)
      PROVE  Others' /\ Kinds
  <2>1. build' \in [Builds -> BuildRows]
    <3>1. [build[i] EXCEPT !.status = "building", !.ref = ref] \in BuildRows
      BY <1>b, RowMoves
    <3>2. build' = [build EXCEPT ![i] = [build[i] EXCEPT !.status = "building", !.ref = ref]]
      BY <1>1 DEF Rolls!StartBuild
    <3> QED BY <3>1, <3>2
  <2>2. roll' \in [Builds -> Rollers] BY <1>1, <1>g, GoesType DEF Rolls!StartBuild
  <2> QED BY <1>1, <2>1, <2>2 DEF Rolls!StartBuild
<1>2. ASSUME NEW i \in Builds, Rolls!Deployed(i) PROVE Others' /\ Kinds
  <2>1. roll' \in [Builds -> Rollers] BY <1>2, <1>g, GoesType DEF Rolls!Deployed
  <2> QED BY <1>2, <1>d, <2>1 DEF Rolls!Deployed
<1>3. ASSUME NEW i \in Builds, Rolls!BuildFails(i) PROVE Others' /\ Kinds
  <2>1. Kinds BY <1>3, FinishType DEF Rolls!BuildFails
  <2>2. releases' \in Seq(Refs) BY <1>3, <1>d DEF Rolls!BuildFails
  <2> QED BY <1>3, <1>e, <2>1, <2>2 DEF Rolls!BuildFails
<1>4. ASSUME NEW i \in Builds, Rolls!ReadsRelease(i) PROVE Others' /\ Kinds
  <2>1. [roll[i] EXCEPT !.at = "mark", !.target = Rolls!Newest] \in Rollers
    <3>1. {} \in SUBSET Boxes OBVIOUS
    <3> QED BY <1>a, <1>b, <3>1, RollerMoves
  <2>2. roll' = [roll EXCEPT ![i] = [roll[i] EXCEPT !.at = "mark", !.target = Rolls!Newest]]
    BY <1>4 DEF Rolls!ReadsRelease
  <2>3. roll' \in [Builds -> Rollers] BY <2>1, <2>2
  <2> QED BY <1>4, <2>3 DEF Rolls!ReadsRelease
<1>5. ASSUME NEW i \in Builds, Rolls!MarksRolling(i) PROVE Others' /\ Kinds
  <2>1. roll' \in [Builds -> Rollers] BY <1>5, <1>g, GoesType DEF Rolls!MarksRolling
  <2>2. [build[i] EXCEPT !.status = "rolling"] \in BuildRows BY <1>b, RowMoves
  <2>3. build' = [build EXCEPT ![i] = [build[i] EXCEPT !.status = "rolling"]]
    BY <1>5 DEF Rolls!MarksRolling
  <2>4. build' \in [Builds -> BuildRows] BY <2>2, <2>3
  <2> QED BY <1>5, <2>1, <2>4 DEF Rolls!MarksRolling
<1>6. ASSUME NEW i \in Builds, Rolls!ListsBoxes(i) PROVE Others' /\ Kinds
  <2> DEFINE settled == {b \in Boxes : status[b] = "settled"}
  <2>1. settled \in SUBSET Boxes /\ 0 \in Nat OBVIOUS
  <2>2. roll' = [roll EXCEPT ![i] =
                   [roll[i] EXCEPT !.at = "roll", !.listed = settled, !.todo = settled]]
    BY <1>6 DEF Rolls!ListsBoxes
  <2> HIDE DEF settled
  <2>3. [roll[i] EXCEPT !.at = "roll", !.listed = settled, !.todo = settled] \in Rollers
    BY <1>b, <2>1, RollerMoves
  <2>4. roll' \in [Builds -> Rollers] BY <2>2, <2>3
  <2> QED BY <1>6, <2>4 DEF Rolls!ListsBoxes
<1>7. ASSUME NEW i \in Builds, Rolls!FindsGone(i) PROVE Others' /\ Kinds
  <2>1. Kinds BY <1>7, FinishType DEF Rolls!FindsGone
  <2> QED BY <1>7, <2>1 DEF Rolls!FindsGone
<1>8. ASSUME NEW i \in Builds, Rolls!FindsCurrent(i) PROVE Others' /\ Kinds
  <2>1. roll' \in [Builds -> Rollers]
    BY <1>8, <1>g, GoesType, PassesType DEF Rolls!FindsCurrent
  <2>2. mishaps' \in 0..MaxMishaps BY <1>8, <1>e DEF Rolls!FindsCurrent
  <2> QED BY <1>8, <2>1, <2>2 DEF Rolls!FindsCurrent
<1>9. ASSUME NEW i \in Builds, Rolls!FindsBehind(i) PROVE Others' /\ Kinds
  <2>1. roll' \in [Builds -> Rollers] BY <1>9, <1>g, GoesType DEF Rolls!FindsBehind
  <2> QED BY <1>9, <2>1 DEF Rolls!FindsBehind
<1>10. ASSUME NEW i \in Builds, Rolls!Reimaged(i) PROVE Others' /\ Kinds
  <2>1. elsewhere' \in [Builds -> SUBSET Boxes] BY <1>10, MovedType DEF Rolls!Reimaged
  <2>2. image' \in [Boxes -> Nat] BY <1>10, <1>c DEF Rolls!Reimaged
  <2>3. roll' \in [Builds -> Rollers] BY <1>10, PassesType DEF Rolls!Reimaged
  <2> QED BY <1>10, <2>1, <2>2, <2>3 DEF Rolls!Reimaged
<1>11. ASSUME NEW i \in Builds, Rolls!ReimageFails(i) PROVE Others' /\ Kinds
  <2>1. Kinds BY <1>11, FinishType DEF Rolls!ReimageFails
  <2>2. elsewhere' \in [Builds -> SUBSET Boxes] BY <1>11, MovedType DEF Rolls!ReimageFails
  <2>3. image' \in [Boxes -> Nat] BY <1>11, <1>c DEF Rolls!ReimageFails
  <2>4. mishaps' \in 0..MaxMishaps /\ moves' \in 0..MaxMoves
    BY <1>11, <1>e DEF Rolls!ReimageFails
  <2>5. UNCHANGED <<status, releases, upgrade>> BY <1>11 DEF Rolls!ReimageFails
  <2> QED BY <2>1, <2>2, <2>3, <2>4, <2>5
<1>12. ASSUME NEW i \in Builds, Rolls!Rolled(i) PROVE Others' /\ Kinds
  <2>1. Kinds BY <1>12, FinishType DEF Rolls!Rolled
  <2> QED BY <1>12, <2>1 DEF Rolls!Rolled
<1>13. ASSUME NEW i \in Builds, Rolls!Raises(i) PROVE Others' /\ Kinds
  <2>1. Kinds BY <1>13, FinishType DEF Rolls!Raises
  <2> QED BY <1>13, <1>e, <2>1 DEF Rolls!Raises
<1>14. ASSUME NEW i \in Builds, Rolls!GrowsStale(i) PROVE Others' /\ Kinds
  <2>1. [build[i] EXCEPT !.stale = TRUE] \in BuildRows BY <1>b, RowMoves
  <2>2. build' = [build EXCEPT ![i] = [build[i] EXCEPT !.stale = TRUE]]
    BY <1>14 DEF Rolls!GrowsStale
  <2>3. build' \in [Builds -> BuildRows] BY <2>1, <2>2
  <2> QED BY <1>14, <2>3 DEF Rolls!GrowsStale
<1>15. ASSUME NEW b \in Boxes, NEW target \in Rolls!FleetImages,
              Rolls!AcceptUpgrade(b, target)
       PROVE  Others' /\ Kinds
  <2>1. target \in Nat BY <1>a DEF Rolls!FleetImages
  <2> QED BY <1>15, <1>f, <2>1 DEF Rolls!AcceptUpgrade
<1>16. ASSUME NEW b \in Boxes, Rolls!MakeBox(b) PROVE Others' /\ Kinds
  <2>1. PICK m \in Rolls!FleetImages : image' = [image EXCEPT ![b] = m]
    BY <1>16 DEF Rolls!MakeBox
  <2>2. m \in Nat BY <1>a DEF Rolls!FleetImages
  <2> QED BY <1>16, <2>1, <2>2 DEF Rolls!MakeBox
<1>17. ASSUME NEW b \in Boxes, Rolls!BoxSettles(b) PROVE Others' /\ Kinds
  BY <1>17 DEF Rolls!BoxSettles
<1>18. ASSUME NEW b \in Boxes, Rolls!Teardown(b) PROVE Others' /\ Kinds
  BY <1>18, <1>f DEF Rolls!Teardown
<1>19. ASSUME Rolls!UpgradeLooks PROVE Others' /\ Kinds
  BY <1>19 DEF Rolls!UpgradeLooks, Rolls!Resting
<1>20. ASSUME Rolls!Upgraded PROVE Others' /\ Kinds
  <2>1. elsewhere' \in [Builds -> SUBSET Boxes] BY <1>20, MovedType DEF Rolls!Upgraded
  <2>2. image' \in [Boxes -> Nat] BY <1>20 DEF Rolls!Upgraded
  <2>3. mishaps' \in 0..MaxMishaps /\ moves' \in 0..MaxMoves
    BY <1>20, <1>e DEF Rolls!Upgraded
  <2> QED BY <1>20, <2>1, <2>2, <2>3 DEF Rolls!Upgraded, Rolls!Resting
<1>21. ASSUME Rolls!Crash PROVE Others' /\ Kinds
  <2>1. releases' \in Seq(Refs) BY <1>21, <1>d DEF Rolls!Crash
  <2>2. roll' \in [Builds -> Rollers] BY <1>21, IdleRoller DEF Rolls!Crash
  <2> QED BY <1>21, <1>e, <2>1, <2>2 DEF Rolls!Crash, Rolls!Resting
<1>22. ASSUME UNCHANGED Rolls!vars PROVE Others' /\ Kinds BY <1>22 DEF Rolls!vars
<1> QED
  BY <1>1, <1>2, <1>3, <1>4, <1>5, <1>6, <1>7, <1>8, <1>9, <1>10, <1>11, <1>12, <1>13,
     <1>14, <1>15, <1>16, <1>17, <1>18, <1>19, <1>20, <1>21, <1>22 DEF Rolls!Next,
     Rolls!RollStep

(* What a step of Next does to one update: it may start, finish, or go on. *)
LEMMA FinishKeeps ==
    ASSUME Counted, Rolls!TypeOK, NEW i \in Builds, NEW outcome \in {"done", "failed"},
               Rolls!FinishBuild(i, outcome)
    PROVE  /\ \A j \in Builds : j # i => build'[j] = build[j] /\ roll'[j] = roll[j]
           /\ build'[i].status = outcome /\ roll'[i].at = "idle"
           /\ outcome = "failed" => roll'[i] = Rolls!Idle
           /\ outcome = "done" =>
                /\ roll'[i].target = roll[i].target /\ roll'[i].listed = roll[i].listed
                /\ roll'[i].todo = roll[i].todo /\ build'[i].image = roll[i].target
BY DEF Rolls!TypeOK, Rolls!FinishBuild, Rolls!Idle

LEMMA PassKeeps ==
    ASSUME Counted, Rolls!TypeOK, NEW i \in Builds, Rolls!Passes(i)
    PROVE  /\ \A j \in Builds : j # i => roll'[j] = roll[j]
           /\ roll'[i].at = "roll" /\ roll'[i].target = roll[i].target
           /\ roll'[i].listed = roll[i].listed
           /\ roll'[i].todo = roll[i].todo \ {Rolls!Turn(i)}
BY DEF Rolls!TypeOK, Rolls!Passes

LEMMA GoesKeeps ==
    ASSUME Counted, Rolls!TypeOK, NEW i \in Builds, NEW at, Rolls!Goes(i, at)
    PROVE  /\ \A j \in Builds : j # i => roll'[j] = roll[j]
           /\ roll'[i].at = at /\ roll'[i].target = roll[i].target
           /\ roll'[i].listed = roll[i].listed /\ roll'[i].todo = roll[i].todo
BY DEF Rolls!TypeOK, Rolls!Goes

LEMMA MovedKeeps ==
    ASSUME Counted, Rolls!TypeOK, NEW b, NEW by, Rolls!MovedElsewhere(b, by)
    PROVE  \A i \in Builds :
              /\ elsewhere[i] \subseteq elsewhere'[i]
              /\ i # by /\ b \in roll[i].listed \ roll[i].todo => b \in elsewhere'[i]
BY DEF Rolls!MovedElsewhere

(* An update that a step does not touch, whatever becomes of its agents.   *)
LEMMA Kept ==
    ASSUME Counted, Rolls!TypeOK, NEW j \in Builds, Good(j), roll'[j] = roll[j],
           build'[j].status = build[j].status, build'[j].image = build[j].image,
           \A b \in Boxes : status[b] \in {"settled", "torn_down"}
               => status'[b] \in {"settled", "torn_down"},
           elsewhere[j] \subseteq elsewhere'[j],
           \A b \in roll[j].listed \ roll[j].todo : image'[b] = image[b]
               \/ b \in elsewhere'[j]
    PROVE  Good(j)'
<1>1. roll[j].listed \subseteq Boxes BY DEF Rolls!TypeOK
<1>2. FreshOf(j)' /\ NothingOf(j)' /\ DoneOf(j)' BY DEF Good, FreshOf, NothingOf, DoneOf
<1>3. SettledOf(j)' BY <1>1 DEF Good, SettledOf
<1>4. MovedOf(j)' BY DEF Good, MovedOf
<1> QED BY <1>2, <1>3, <1>4 DEF Good

(* One that has nothing listed.                                            *)
LEMMA Empty ==
    ASSUME Counted, NEW j \in Builds, roll'[j].listed = {}, roll'[j].todo = {},
           build'[j].status \notin {"none", "done"}
    PROVE  Good(j)'
BY DEF Good, FreshOf, NothingOf, DoneOf, SettledOf, MovedOf

(* One that goes on, or comes to its end.                                  *)
LEMMA GoesElsewhere ==
    ASSUME Counted, Rolls!TypeOK, NEW i \in Builds, Good(i),
               roll'[i].at \in {"roll", "reimage", "idle"},
           roll'[i].target = roll[i].target, roll'[i].listed = roll[i].listed,
           build'[i].status # "none", UNCHANGED <<status, image, elsewhere>>,
           build'[i].status = "done" =>
               roll'[i].at = "idle" /\ roll'[i].todo = {}
                   /\ build'[i].image = roll[i].target,
           \A b \in roll[i].todo \ roll'[i].todo : image[b] = roll[i].target
    PROVE  Good(i)'
<1>1. FreshOf(i)' /\ NothingOf(i)' /\ DoneOf(i)'
  BY DEF FreshOf, NothingOf, DoneOf, BeforeRolling
<1>2. SettledOf(i)' BY DEF Good, SettledOf
<1>3. MovedOf(i)' BY DEF Good, MovedOf
<1> QED BY <1>1, <1>2, <1>3 DEF Good

(* Every step keeps each update good.                                      *)
LEMMA GoodNext ==
    ASSUME Counted, Rolls!TypeOK, \A i \in Builds : Good(i), [Rolls!Next]_(Rolls!vars),
               NEW j \in Builds
    PROVE  Good(j)'
<1>a. Good(j) OBVIOUS
<1>b. ASSUME roll'[j] = roll[j], build'[j] = build[j],
    UNCHANGED <<status, image, elsewhere>>
      PROVE  Good(j)'
  BY <1>b, <1>a, Kept
<1>c. ASSUME NEW i \in Builds, Rolls!FinishBuild(i, "failed"), UNCHANGED status,
             i # j => /\ elsewhere[j] \subseteq elsewhere'[j]
                      /\ \A b \in roll[j].listed \ roll[j].todo : image'[b] = image[b]
                             \/ b \in elsewhere'[j]
      PROVE  Good(j)'
  <2>1. CASE i = j
    <3>1. roll'[j] = Rolls!Idle /\ build'[j].status = "failed"
      BY <1>c, <2>1, FinishKeeps
    <3>2. roll'[j].listed = {} /\ roll'[j].todo = {} BY <3>1 DEF Rolls!Idle
    <3> QED BY <3>1, <3>2, Empty
  <2>2. CASE i # j
    <3>1. build'[j] = build[j] /\ roll'[j] = roll[j] BY <1>c, <2>2, FinishKeeps
    <3> QED BY <3>1, <2>2, <1>a, <1>c, Kept
  <2> QED BY <2>1, <2>2
<1>d. ASSUME UNCHANGED <<image, elsewhere>>
      PROVE  /\ elsewhere[j] \subseteq elsewhere'[j]
             /\ \A b \in roll[j].listed \ roll[j].todo : image'[b] = image[b]
                    \/ b \in elsewhere'[j]
  BY <1>d
<1>e. ASSUME NEW b, NEW by, by # j, Rolls!MovedElsewhere(b, by), NEW m,
    image' = [image EXCEPT ![b] = m]
      PROVE  /\ elsewhere[j] \subseteq elsewhere'[j]
             /\ \A c \in roll[j].listed \ roll[j].todo : image'[c] = image[c]
                    \/ c \in elsewhere'[j]
  <2>1. elsewhere[j] \subseteq elsewhere'[j]
            /\ (b \in roll[j].listed \ roll[j].todo => b \in elsewhere'[j])
    BY <1>e, MovedKeeps
  <2>2. \A c \in Boxes : c # b => image'[c] = image[c] BY <1>e DEF Rolls!TypeOK
  <2>3. roll[j].listed \subseteq Boxes BY DEF Rolls!TypeOK
  <2> QED BY <2>1, <2>2, <2>3
<1>f. ASSUME NEW i \in Builds, NEW at, Rolls!Goes(i, at), i # j, build' = build,
             UNCHANGED <<status, image, elsewhere>>
      PROVE  Good(j)'
  BY <1>f, <1>b, GoesKeeps
<1>1. ASSUME NEW i \in Builds, NEW ref \in Refs, Rolls!StartBuild(i, ref) PROVE Good(j)'
  <2>1. CASE i = j
    <3>1. roll[j] = Rolls!Idle BY <1>1, <2>1, <1>a DEF Rolls!StartBuild, Good, FreshOf
    <3>2. roll'[j].listed = {} /\ roll'[j].todo = {}
      BY <1>1, <2>1, <3>1, GoesKeeps DEF Rolls!StartBuild, Rolls!Idle
    <3>3. build'[j].status = "building" BY <1>1, <2>1 DEF Rolls!StartBuild, Rolls!TypeOK
    <3> QED BY <3>2, <3>3, Empty
  <2>2. CASE i # j
    <3>1. build'[j] = build[j] BY <1>1, <2>2 DEF Rolls!StartBuild, Rolls!TypeOK
    <3>2. roll'[j] = roll[j] BY <1>1, <2>2, GoesKeeps DEF Rolls!StartBuild
    <3> QED BY <1>1, <3>1, <3>2, <1>b DEF Rolls!StartBuild
  <2> QED BY <2>1, <2>2
<1>2. ASSUME NEW i \in Builds, Rolls!Deployed(i) PROVE Good(j)'
  <2>1. CASE i = j
    <3>1. roll[j].at = "deploy" BY <1>2, <2>1 DEF Rolls!Deployed, Rolls!At
    <3>2. roll[j].listed = {} /\ roll[j].todo = {}
              /\ build[j].status \notin {"none", "done"}
      BY <3>1, <1>a DEF Good, FreshOf, NothingOf, DoneOf, BeforeRolling, Rolls!Idle
    <3> QED BY <1>2, <2>1, <3>2, GoesKeeps, Empty DEF Rolls!Deployed
  <2>2. CASE i # j BY <1>2, <2>2, <1>f DEF Rolls!Deployed
  <2> QED BY <2>1, <2>2
<1>3. ASSUME NEW i \in Builds, Rolls!BuildFails(i) PROVE Good(j)'
  BY <1>3, <1>c, <1>d DEF Rolls!BuildFails
<1>4. ASSUME NEW i \in Builds, Rolls!ReadsRelease(i) PROVE Good(j)'
  <2>1. CASE i = j
    <3>1. roll[j].at = "release" BY <1>4, <2>1 DEF Rolls!ReadsRelease, Rolls!At
    <3>2. roll[j].listed = {} /\ roll[j].todo = {}
              /\ build[j].status \notin {"none", "done"}
      BY <3>1, <1>a DEF Good, FreshOf, NothingOf, DoneOf, BeforeRolling, Rolls!Idle
    <3>3. roll'[j].listed = {} /\ roll'[j].todo = {}
      BY <1>4, <2>1, <3>2 DEF Rolls!ReadsRelease, Rolls!TypeOK
    <3> QED BY <1>4, <3>2, <3>3, Empty DEF Rolls!ReadsRelease
  <2>2. CASE i # j
    <3>1. roll'[j] = roll[j] BY <1>4, <2>2 DEF Rolls!ReadsRelease, Rolls!TypeOK
    <3> QED BY <1>4, <3>1, <1>b DEF Rolls!ReadsRelease
  <2> QED BY <2>1, <2>2
<1>5. ASSUME NEW i \in Builds, Rolls!MarksRolling(i) PROVE Good(j)'
  <2>1. CASE i = j
    <3>1. roll[j].at = "mark" BY <1>5, <2>1 DEF Rolls!MarksRolling, Rolls!At
    <3>2. roll[j].listed = {} /\ roll[j].todo = {}
      BY <3>1, <1>a DEF Good, NothingOf, BeforeRolling
    <3>3. build'[j].status = "rolling"
      BY <1>5, <2>1 DEF Rolls!MarksRolling, Rolls!TypeOK
    <3> QED BY <1>5, <2>1, <3>2, <3>3, GoesKeeps, Empty DEF Rolls!MarksRolling
  <2>2. CASE i # j
    <3>1. build'[j] = build[j] BY <1>5, <2>2 DEF Rolls!MarksRolling, Rolls!TypeOK
    <3>2. roll'[j] = roll[j] BY <1>5, <2>2, GoesKeeps DEF Rolls!MarksRolling
    <3> QED BY <1>5, <3>1, <3>2, <1>b DEF Rolls!MarksRolling
  <2> QED BY <2>1, <2>2
<1>6. ASSUME NEW i \in Builds, Rolls!ListsBoxes(i) PROVE Good(j)'
  <2>1. CASE i = j
    <3>1. roll[j].at = "list" BY <1>6, <2>1 DEF Rolls!ListsBoxes, Rolls!At
    <3>2. build[j].status \notin {"none", "done"}
      BY <3>1, <1>a DEF Good, FreshOf, DoneOf, Rolls!Idle
    <3>3. /\ roll'[j].at = "roll" /\ roll'[j].listed = roll'[j].todo
          /\ \A b \in roll'[j].listed : status[b] = "settled"
      <4> DEFINE settled == {b \in Boxes : status[b] = "settled"}
      <4>1. roll' = [roll EXCEPT ![j] =
                       [roll[j] EXCEPT !.at = "roll", !.listed = settled, !.todo = settled]]
        BY <1>6, <2>1 DEF Rolls!ListsBoxes
      <4>2. \A b \in settled : status[b] = "settled" OBVIOUS
      <4>3. roll \in [Builds -> Rollers] BY RollTypes
      <4> HIDE DEF settled
      <4> QED BY <4>1, <4>2, <4>3 DEF Rollers
    <3>4. build' = build /\ status' = status BY <1>6 DEF Rolls!ListsBoxes
    <3>5. FreshOf(j)' /\ NothingOf(j)' /\ DoneOf(j)'
      BY <3>2, <3>3, <3>4 DEF FreshOf, NothingOf, DoneOf, BeforeRolling
    <3>6. SettledOf(j)' BY <3>3, <3>4 DEF SettledOf
    <3>7. MovedOf(j)' BY <3>3 DEF MovedOf
    <3> QED BY <3>5, <3>6, <3>7 DEF Good
  <2>2. CASE i # j
    <3>1. roll'[j] = roll[j] BY <1>6, <2>2 DEF Rolls!ListsBoxes, Rolls!TypeOK
    <3> QED BY <1>6, <3>1, <1>b DEF Rolls!ListsBoxes
  <2> QED BY <2>1, <2>2
<1>7. ASSUME NEW i \in Builds, Rolls!FindsGone(i) PROVE Good(j)'
  BY <1>7, <1>c, <1>d DEF Rolls!FindsGone
<1>g. ASSUME roll[j].at \in {"roll", "reimage"}
      PROVE  build[j].status \notin {"none", "done"}
  BY <1>g, <1>a DEF Good, FreshOf, DoneOf, Rolls!Idle
<1>8. ASSUME NEW i \in Builds, Rolls!FindsCurrent(i) PROVE Good(j)'
  <2>1. CASE i = j
    <3>1. roll[j].at = "roll" /\ image[Rolls!Turn(j)] = roll[j].target
      BY <1>8, <2>1 DEF Rolls!FindsCurrent, Rolls!HasTurn, Rolls!At
    <3>2. UNCHANGED <<status, image, build, elsewhere>> BY <1>8 DEF Rolls!FindsCurrent
    <3>3. CASE Rolls!Passes(j)
      <4>1. /\ roll'[j].at = "roll" /\ roll'[j].target = roll[j].target
            /\ roll'[j].listed = roll[j].listed
                   /\ roll'[j].todo = roll[j].todo \ {Rolls!Turn(j)}
        BY <3>3, PassKeeps
      <4> QED BY <3>1, <3>2, <4>1, <1>a, <1>g, GoesElsewhere
    <3>4. CASE Rolls!Goes(j, "reimage")
      <4>1. /\ roll'[j].at = "reimage" /\ roll'[j].target = roll[j].target
            /\ roll'[j].listed = roll[j].listed /\ roll'[j].todo = roll[j].todo
        BY <3>4, GoesKeeps
      <4> QED BY <3>1, <3>2, <4>1, <1>a, <1>g, GoesElsewhere
    <3> QED BY <1>8, <2>1, <3>3, <3>4 DEF Rolls!FindsCurrent
  <2>2. CASE i # j
    <3>1. roll'[j] = roll[j] BY <1>8, <2>2, PassKeeps, GoesKeeps DEF Rolls!FindsCurrent
    <3> QED BY <1>8, <3>1, <1>b DEF Rolls!FindsCurrent
  <2> QED BY <2>1, <2>2
<1>9. ASSUME NEW i \in Builds, Rolls!FindsBehind(i) PROVE Good(j)'
  <2>1. CASE i = j
    <3>1. roll[j].at = "roll"
      BY <1>9, <2>1 DEF Rolls!FindsBehind, Rolls!HasTurn, Rolls!At
    <3>2. UNCHANGED <<status, image, build, elsewhere>> BY <1>9 DEF Rolls!FindsBehind
    <3>3. /\ roll'[j].at = "reimage" /\ roll'[j].target = roll[j].target
          /\ roll'[j].listed = roll[j].listed /\ roll'[j].todo = roll[j].todo
      BY <1>9, <2>1, GoesKeeps DEF Rolls!FindsBehind
    <3> QED BY <3>1, <3>2, <3>3, <1>a, <1>g, GoesElsewhere
  <2>2. CASE i # j BY <1>9, <2>2, <1>f DEF Rolls!FindsBehind
  <2> QED BY <2>1, <2>2
<1>10. ASSUME NEW i \in Builds, Rolls!Reimaged(i) PROVE Good(j)'
  <2>1. CASE i = j
    <3>1. roll[j].at = "reimage" BY <1>10, <2>1 DEF Rolls!Reimaged, Rolls!At
    <3>2. UNCHANGED <<status, build>> BY <1>10 DEF Rolls!Reimaged
    <3>3. /\ roll'[j].at = "roll" /\ roll'[j].target = roll[j].target
          /\ roll'[j].listed = roll[j].listed
                 /\ roll'[j].todo = roll[j].todo \ {Rolls!Turn(j)}
      BY <1>10, <2>1, PassKeeps DEF Rolls!Reimaged
    <3>4. elsewhere[j] \subseteq elsewhere'[j] BY <1>10, MovedKeeps DEF Rolls!Reimaged
    <3>5. roll[j].listed \subseteq Boxes BY DEF Rolls!TypeOK
    <3>6. \A b \in Boxes :
              image'[b] = IF b = Rolls!Turn(j) THEN roll[j].target ELSE image[b]
      BY <1>10, <2>1 DEF Rolls!Reimaged, Rolls!TypeOK
    <3>7. build[j].status \notin {"none", "done"} BY <3>1, <1>g
    <3>8. MovedOf(j)' BY <1>a, <3>3, <3>4, <3>5, <3>6 DEF Good, MovedOf
    <3>9. SettledOf(j)' BY <1>a, <3>2, <3>3 DEF Good, SettledOf
    <3>10. FreshOf(j)' /\ NothingOf(j)' /\ DoneOf(j)'
      BY <3>2, <3>3, <3>7 DEF FreshOf, NothingOf, DoneOf, BeforeRolling
    <3> QED BY <3>8, <3>9, <3>10 DEF Good
  <2>2. CASE i # j
    <3>1. roll'[j] = roll[j] BY <1>10, <2>2, PassKeeps DEF Rolls!Reimaged
    <3>2. /\ elsewhere[j] \subseteq elsewhere'[j]
          /\ \A c \in roll[j].listed \ roll[j].todo : image'[c] = image[c]
                 \/ c \in elsewhere'[j]
      BY <1>10, <2>2, <1>e DEF Rolls!Reimaged
    <3>3. build' = build /\ status' = status BY <1>10 DEF Rolls!Reimaged
    <3> QED BY <3>1, <3>2, <3>3, <1>a, Kept
  <2> QED BY <2>1, <2>2
<1>11. ASSUME NEW i \in Builds, Rolls!ReimageFails(i) PROVE Good(j)'
  <2>1. Rolls!FinishBuild(i, "failed") /\ UNCHANGED status
    BY <1>11 DEF Rolls!ReimageFails
  <2>2. \/ UNCHANGED <<image, elsewhere>>
        \/ image' = [image EXCEPT ![Rolls!Turn(i)] = roll[i].target]
               /\ Rolls!MovedElsewhere(Rolls!Turn(i), i)
    BY <1>11 DEF Rolls!ReimageFails
  <2>3. i # j => /\ elsewhere[j] \subseteq elsewhere'[j]
                 /\ \A c \in roll[j].listed \ roll[j].todo : image'[c] = image[c]
                        \/ c \in elsewhere'[j]
    BY <2>2, <1>d, <1>e
  <2> QED BY <2>1, <2>3, <1>c
<1>12. ASSUME NEW i \in Builds, Rolls!Rolled(i) PROVE Good(j)'
  <2>0. UNCHANGED <<status, image, elsewhere>> BY <1>12 DEF Rolls!Rolled
  <2>1. CASE i = j
    <3>1. roll[j].at = "roll" /\ roll[j].todo = {} /\ Rolls!FinishBuild(j, "done")
      BY <1>12, <2>1 DEF Rolls!Rolled, Rolls!At
    <3>2. /\ build'[j].status = "done" /\ roll'[j].at = "idle"
                 /\ roll'[j].target = roll[j].target
          /\ roll'[j].todo = roll[j].todo /\ roll'[j].listed = roll[j].listed
          /\ build'[j].image = roll[j].target
      BY <3>1, FinishKeeps
    <3> QED BY <2>0, <3>1, <3>2, <1>a, GoesElsewhere
  <2>2. CASE i # j
    <3>1. build'[j] = build[j] /\ roll'[j] = roll[j]
      BY <1>12, <2>2, FinishKeeps DEF Rolls!Rolled
    <3> QED BY <2>0, <3>1, <1>b
  <2> QED BY <2>1, <2>2
<1>13. ASSUME NEW i \in Builds, Rolls!Raises(i) PROVE Good(j)'
  BY <1>13, <1>c, <1>d DEF Rolls!Raises
<1>14. ASSUME NEW i \in Builds, Rolls!GrowsStale(i) PROVE Good(j)'
  <2>1. build'[j].status = build[j].status /\ build'[j].image = build[j].image
    BY <1>14 DEF Rolls!GrowsStale, Rolls!TypeOK
  <2>2. UNCHANGED <<roll, status, image, elsewhere>> BY <1>14 DEF Rolls!GrowsStale
  <2> QED BY <2>1, <2>2, <1>a, Kept
<1>15. ASSUME NEW b \in Boxes, NEW target \in Rolls!FleetImages,
                  Rolls!AcceptUpgrade(b, target)
       PROVE Good(j)'
  BY <1>15, <1>b DEF Rolls!AcceptUpgrade
<1>16. ASSUME NEW b \in Boxes, Rolls!MakeBox(b) PROVE Good(j)'
  <2>1. status[b] = "absent" /\ status' = [status EXCEPT ![b] = "provisioning"]
        /\ UNCHANGED <<roll, build, elsewhere>>
    BY <1>16 DEF Rolls!MakeBox
  <2>2. \A c \in roll[j].listed : c # b /\ c \in Boxes
    BY <2>1, <1>a DEF Good, SettledOf, Rolls!TypeOK
  <2>3. \A c \in Boxes : c # b => image'[c] = image[c]
    BY <1>16 DEF Rolls!MakeBox, Rolls!TypeOK
  <2>4. \A c \in Boxes : status[c] \in {"settled", "torn_down"}
            => status'[c] \in {"settled", "torn_down"}
    BY <2>1 DEF Rolls!TypeOK
  <2> QED BY <2>1, <2>2, <2>3, <2>4, <1>a, Kept
<1>17. ASSUME NEW b \in Boxes, Rolls!BoxSettles(b) \/ Rolls!Teardown(b) PROVE Good(j)'
  <2>1. UNCHANGED <<roll, build, image, elsewhere>>
    BY <1>17 DEF Rolls!BoxSettles, Rolls!Teardown
  <2>2. \A c \in Boxes : status[c] \in {"settled", "torn_down"}
            => status'[c] \in {"settled", "torn_down"}
    BY <1>17 DEF Rolls!BoxSettles, Rolls!Teardown, Rolls!TypeOK
  <2> QED BY <2>1, <2>2, <1>a, Kept
<1>18. CASE Rolls!UpgradeLooks BY <1>18, <1>b DEF Rolls!UpgradeLooks
<1>19. CASE Rolls!Upgraded
  <2>1. UNCHANGED <<roll, build, status>> BY <1>19 DEF Rolls!Upgraded
  <2>2. /\ elsewhere[j] \subseteq elsewhere'[j]
        /\ \A c \in roll[j].listed \ roll[j].todo : image'[c] = image[c]
               \/ c \in elsewhere'[j]
    <3>1. 0 # j BY DEF Counted, Rolls!BuildsAssumption
    <3> QED BY <1>19, <3>1, <1>d, <1>e DEF Rolls!Upgraded
  <2> QED BY <2>1, <2>2, <1>a, Kept
<1>20. CASE Rolls!Crash
  <2>1. UNCHANGED <<build, status, image, elsewhere>> BY <1>20 DEF Rolls!Crash
  <2>2. CASE roll[j].at = "idle"
    <3>1. roll'[j] = roll[j] BY <1>20, <2>2 DEF Rolls!Crash, Rolls!At
    <3> QED BY <2>1, <3>1, <1>b
  <2>3. CASE roll[j].at # "idle"
    <3>1. roll'[j] = Rolls!Idle BY <1>20, <2>3 DEF Rolls!Crash, Rolls!At
    <3>2. build[j].status \notin {"none", "done"}
      BY <2>3, <1>a DEF Good, FreshOf, DoneOf, Rolls!Idle
    <3>3. roll'[j].listed = {} /\ roll'[j].todo = {} BY <3>1 DEF Rolls!Idle
    <3> QED BY <2>1, <3>2, <3>3, Empty
  <2> QED BY <2>2, <2>3
<1>21. CASE UNCHANGED Rolls!vars BY <1>21, <1>b DEF Rolls!vars
<1> QED
  BY <1>1, <1>2, <1>3, <1>4, <1>5, <1>6, <1>7, <1>8, <1>9, <1>10, <1>11, <1>12, <1>13,
     <1>14, <1>15, <1>16, <1>17, <1>18, <1>19, <1>20, <1>21 DEF Rolls!Next,
     Rolls!RollStep

LEMMA InTurnInit ==
    ASSUME Counted
    PROVE  Rolls!Init => InTurn
<1> SUFFICES ASSUME Rolls!Init PROVE InTurn OBVIOUS
<1>1. Rolls!TypeOK BY RollTypeInit
<1>2. \A i \in Builds : Good(i)
  BY DEF Rolls!Init, Rolls!Idle, Good, FreshOf, NothingOf, DoneOf, SettledOf, MovedOf
<1> QED BY <1>1, <1>2 DEF InTurn

LEMMA InTurnNext ==
    ASSUME Counted
    PROVE  InTurn /\ [Rolls!Next]_(Rolls!vars) => InTurn'
<1> SUFFICES ASSUME InTurn, [Rolls!Next]_(Rolls!vars) PROVE InTurn' OBVIOUS
<1>1. Rolls!TypeOK /\ \A i \in Builds : Good(i) BY DEF InTurn
<1>2. Rolls!TypeOK' BY <1>1, RollTypeNext
<1>3. \A j \in Builds : Good(j)' BY <1>1, GoodNext
<1> QED BY <1>2, <1>3 DEF InTurn

LEMMA InTurnMeans ==
    ASSUME Counted
    PROVE  InTurn => Rolls!DoneMeansMoved
BY DEF InTurn, Good, DoneOf, MovedOf, Rolls!DoneMeansMoved

(* An update that is reported done left no agent behind, whatever failed,  *)
(* crashed or moved an agent meanwhile (update_hermes, upgrade_box).       *)
THEOREM DoneUpdatesMovedAll ==
    Rolls!Spec => []DoneMeansMoved
<1>1. Counted BY RolloutsAssumption DEF Counted
<1>2. Rolls!Spec => []InTurn BY <1>1, InTurnInit, InTurnNext, PTL DEF Rolls!Spec
<1>3. InTurn => DoneMeansMoved BY <1>1, InTurnMeans DEF DoneMeansMoved
<1> QED BY <1>2, <1>3, PTL
=============================================================================
