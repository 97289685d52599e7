---------------------------- MODULE AlertsProofs ----------------------------
(***************************************************************************)
(* Theorems about Alerts for any planes, events, places, tries and faults. *)
(*                                                                         *)
(* A row is given up for the count its reader claimed it with, and not for *)
(* the sends there were.  That the count is never ahead of the sends rests *)
(* on what is on its way between a send and its note: a row's attempts,    *)
(* and the sends in hand that are not noted, are together no more than the *)
(* sends there were.  From the same invariant every step of the planes is  *)
(* a step of AlertPromise, or none.                                        *)
(***************************************************************************)
EXTENDS Alerts, FiniteSetTheorems, TLAPS

(* The sends of a delivery that some plane has in hand and has not noted.  *)
Sent(d) ==
    {x \in Planes \X Work : x[2] \in hand[x[1]] /\ x[2].d = d /\ x[2].result # None}

(* A delivery had n sends, or one that told it all.                        *)
Within(d, n) == tries[d] = MaxAttempts \/ n <= tries[d]

SendsAreCounted ==
    \A d \in Deliveries :
        IsFiniteSet(Sent(d)) /\ Within(d, attempts[d] + Cardinality(Sent(d)))

(* What a plane read, or claimed, or sent, is not ahead of the sends.      *)
ReadersAreBehind ==
    /\ \A p \in Planes : \A r \in found[p] : Within(r.d, r.attempts)
    /\ \A p \in Planes : \A w \in hand[p] :
         /\ Within(w.d, IF w.result = None THEN w.attempts ELSE w.attempts + 1)
         /\ w.result = "final" => tries[w.d] = MaxAttempts

(* Whatever is in the outbox or with a plane is of a queued event, and     *)
(* whatever went well arrived.                                             *)
OfQueuedEvents ==
    /\ \A d \in Deliveries : status[d] # "none" => d[1] \in queued
    /\ \A p \in Planes : \A r \in found[p] : r.d[1] \in queued
    /\ \A p \in Planes : \A w \in hand[p] :
         w.d[1] \in queued /\ (w.result = "ok" => w.d \in arrived)

Inv ==
    /\ TypeOK
    /\ SendsAreCounted
    /\ ReadersAreBehind
    /\ OfQueuedEvents
    /\ GivenUpAfterEveryTry
-----------------------------------------------------------------------------
LEMMA TypeInit == Init => TypeOK
  BY BoundsAssumption DEF Init, TypeOK

(* A send goes well only when it arrived.                                  *)
LEMMA OutcomeTypes ==
  \A w \in Work : \A o \in Outcomes(w) :
    o[1] \in Results /\ o[2] \in BOOLEAN /\ (o[1] = "ok" => o[2])
<1> SUFFICES ASSUME NEW w \in Work, NEW o \in Outcomes(w)
             PROVE  o[1] \in Results /\ o[2] \in BOOLEAN /\ (o[1] = "ok" => o[2])
  OBVIOUS
<1>1. o = <<"ok", TRUE>> \/ o = <<"error", TRUE>> \/ o = <<"error", FALSE>> \/ o = <<"final", FALSE>>
  BY DEF Outcomes
<1>2. /\ <<"ok", TRUE>>[1] = "ok" /\ <<"ok", TRUE>>[2] = TRUE
      /\ <<"error", TRUE>>[1] = "error" /\ <<"error", TRUE>>[2] = TRUE
      /\ <<"error", FALSE>>[1] = "error" /\ <<"error", FALSE>>[2] = FALSE
      /\ <<"final", FALSE>>[1] = "final" /\ <<"final", FALSE>>[2] = FALSE
  OBVIOUS
<1>3. QED
  BY <1>1, <1>2 DEF Results

LEMMA TypeNext == TypeOK /\ [Next]_vars => TypeOK'
<1> SUFFICES ASSUME TypeOK, [Next]_vars PROVE TypeOK'
  OBVIOUS
<1> USE BoundsAssumption DEF TypeOK, outbox, senders, world
<1>1. ASSUME NEW e \in Events, Threshold(e) PROVE TypeOK'
  BY <1>1 DEF Threshold
<1>2. ASSUME NEW new \in SUBSET Deliveries, Queues(new)
      PROVE  /\ attempts' \in [Deliveries -> Nat]
             /\ fresh' \subseteq Deliveries /\ due' \subseteq Deliveries
  BY <1>2 DEF Queues
<1>3. ASSUME NEW p \in Planes, Sweeps(p) PROVE TypeOK'
  <2>1. New \in SUBSET Deliveries
    BY DEF New, Deliveries, AlertTargets
  <2>2. /\ attempts' \in [Deliveries -> Nat]
        /\ fresh' \subseteq Deliveries /\ due' \subseteq Deliveries
    BY <1>2, <1>3, <2>1 DEF Sweeps, QueueAlerts
  <2>3. DueNow \subseteq Reading
    <3>1. ASSUME NEW d \in due'
          PROVE  [d |-> d, attempts |-> attempts'[d], fresh |-> d \in fresh'] \in Reading
      BY <2>2, <3>1 DEF Reading
    <3>2. QED
      BY <3>1 DEF DueNow
  <2>4. status' \in [Deliveries -> {"none", "pending", "sent", "failed", "replaced"}]
    BY <1>3 DEF Sweeps, QueueAlerts
  <2>5. QED
    BY <1>3, <2>2, <2>3, <2>4 DEF Sweeps, QueueAlerts
<1>4. ASSUME NEW p \in Planes, NEW r \in found[p], Claims(p, r) PROVE TypeOK'
  <2>1. r \in Reading
    OBVIOUS
  <2>2. [d |-> r.d, attempts |-> r.attempts, current |-> r.d[2] = hook, result |-> None] \in Work
    BY <2>1 DEF Reading, Work
  <2>3. found' \in [Planes -> SUBSET Reading]
    <3>1. CASE MayClaim(r)
      BY <1>4, <3>1 DEF Claims, Outrun
    <3>2. CASE ~MayClaim(r)
      BY <1>4, <3>2 DEF Claims
    <3>3. QED
      BY <3>1, <3>2
  <2>4. hand' \in [Planes -> SUBSET Work]
    BY <1>4, <2>2 DEF Claims
  <2>5. QED
    BY <1>4, <2>3, <2>4 DEF Claims
<1>5. ASSUME NEW p \in Planes, ClaimsNothing(p) \/ Crash(p) PROVE TypeOK'
  BY <1>5 DEF ClaimsNothing, Crash
<1>6. ASSUME NEW p \in Planes, NEW w \in hand[p], Sends(p, w) PROVE TypeOK'
  <2>1. w \in Work /\ w.d \in Deliveries
    BY DEF Work
  <2>2. PICK o \in Outcomes(w) :
        /\ hand' = [hand EXCEPT ![p] = (@ \ {w}) \cup {[w EXCEPT !.result = o[1]]}]
        /\ arrived' = IF o[2] THEN arrived \cup {w.d} ELSE arrived
        /\ tries' = [tries EXCEPT ![w.d] =
                        IF o[1] = "final" \/ @ = MaxAttempts THEN MaxAttempts ELSE @ + 1]
    BY <1>6 DEF Sends
  <2>3. o[1] \in Results
    BY OutcomeTypes
  <2>4. [w EXCEPT !.result = o[1]] \in Work
    BY <2>1, <2>3 DEF Work
  <2>5. hand' \in [Planes -> SUBSET Work]
    BY <2>2, <2>4
  <2>6. tries' \in [Deliveries -> 0..MaxAttempts]
    BY <2>1, <2>2
  <2>7. QED
    BY <1>6, <2>1, <2>2, <2>5, <2>6 DEF Sends
<1>7. ASSUME NEW p \in Planes, NEW w \in hand[p], Notes(p, w) PROVE TypeOK'
  <2>1. w.d \in Deliveries
    BY DEF Work
  <2>2. Verdict(w) \in {"pending", "sent", "failed"}
    BY DEF Verdict
  <2>3. QED
    BY <1>7, <2>1, <2>2 DEF Notes
<1>8. ASSUME NEW d \in Deliveries, ComesDue(d) PROVE TypeOK'
  BY <1>8 DEF ComesDue
<1>9. CASE PutAlerts
  <2>1. PICK url \in Urls \cup {None} : SetOrgAlerts(url)
    BY <1>9 DEF PutAlerts
  <2>2. CASE url = None
    BY <1>9, <2>1, <2>2 DEF PutAlerts, SetOrgAlerts
  <2>3. CASE url # None
    <3>1. Taken(url) \in SUBSET Deliveries
      <4>1. url \in Urls
      BY <2>3
    <4>2. ASSUME NEW x \in Taken(url) PROVE x \in Deliveries
      <5>1. PICK e \in Events : x = <<e, url>>
        BY <4>2 DEF Taken
      <5>2. QED
        BY <4>1, <5>1 DEF Deliveries
    <4>3. QED
      BY <4>2
    <3>2. /\ attempts' \in [Deliveries -> Nat]
          /\ fresh' \subseteq Deliveries /\ due' \subseteq Deliveries
      BY <1>2, <2>1, <2>3, <3>1 DEF SetOrgAlerts
    <3>3. QED
      BY <1>9, <2>1, <2>3, <3>2 DEF PutAlerts, SetOrgAlerts
  <2>4. QED
    BY <2>2, <2>3
<1>10. CASE UNCHANGED vars
  BY <1>10 DEF vars
<1>11. QED
  BY <1>1, <1>3, <1>4, <1>5, <1>6, <1>7, <1>8, <1>9, <1>10 DEF Next, SweepStep

LEMMA InvInit == Init => Inv
<1> SUFFICES ASSUME Init PROVE Inv
  OBVIOUS
<1>1. \A d \in Deliveries : Sent(d) = {}
  BY DEF Init, Sent
<1>2. SendsAreCounted
  BY <1>1, FS_EmptySet DEF Init, SendsAreCounted, Within
<1>3. ReadersAreBehind /\ OfQueuedEvents /\ GivenUpAfterEveryTry
  BY DEF Init, ReadersAreBehind, OfQueuedEvents, GivenUpAfterEveryTry
<1>4. QED
  BY <1>2, <1>3, TypeInit DEF Inv
-----------------------------------------------------------------------------
(* Steps that send nothing and note nothing: rows may be queued again with *)
(* all their tries, and what is in hand may be forgotten.                  *)
LEMMA CountsKeep ==
  ASSUME Inv, TypeOK', tries' = tries,
         \A d \in Deliveries : attempts'[d] = attempts[d] \/ attempts'[d] = 0,
         \A p \in Planes : \A w \in hand'[p] : w \in hand[p] \/ w.result = None
  PROVE  SendsAreCounted'
<1> SUFFICES ASSUME NEW d \in Deliveries
             PROVE  IsFiniteSet(Sent(d)') /\ Within(d, attempts[d] + Cardinality(Sent(d)))'
  BY DEF SendsAreCounted
<1>1. Sent(d)' \in SUBSET Sent(d)
  BY DEF Sent
<1>2. IsFiniteSet(Sent(d)) /\ Within(d, attempts[d] + Cardinality(Sent(d)))
  BY DEF Inv, SendsAreCounted
<1>3. /\ IsFiniteSet(Sent(d)') /\ Cardinality(Sent(d)') <= Cardinality(Sent(d))
      /\ Cardinality(Sent(d)) \in Nat /\ Cardinality(Sent(d)') \in Nat
  BY <1>1, <1>2, FS_Subset, FS_CardinalityType
<1>4. attempts[d] \in Nat /\ attempts'[d] \in Nat /\ tries[d] \in Nat
  BY DEF Inv, TypeOK
<1>5. attempts'[d] <= attempts[d]
  BY <1>4
<1>6. QED
  BY <1>2, <1>3, <1>4, <1>5 DEF Within

(* A send of w, as it goes with o, and the note that follows it.           *)
LEMMA SendCounts ==
  ASSUME Inv, TypeOK', NEW p \in Planes, NEW w \in hand[p], Sends(p, w)
  PROVE  SendsAreCounted' /\ ReadersAreBehind' /\ OfQueuedEvents'
<1> USE BoundsAssumption, PlacesAssumption
<1>1. TypeOK /\ w \in Work /\ w.d \in Deliveries /\ w.attempts \in Nat
  BY DEF Inv, TypeOK, Work
<1>2. PICK o \in Outcomes(w) :
        /\ hand' = [hand EXCEPT ![p] = (@ \ {w}) \cup {[w EXCEPT !.result = o[1]]}]
        /\ arrived' = IF o[2] THEN arrived \cup {w.d} ELSE arrived
        /\ tries' = [tries EXCEPT ![w.d] =
                        IF o[1] = "final" \/ @ = MaxAttempts THEN MaxAttempts ELSE @ + 1]
  BY DEF Sends
<1>3. o[1] \in Results /\ (o[1] = "ok" => o[2]) /\ o[1] # None
  BY <1>1, OutcomeTypes DEF Results
<1> DEFINE sent == [w EXCEPT !.result = o[1]]
<1>4. sent \in Work /\ sent.d = w.d /\ sent.attempts = w.attempts /\ sent.result = o[1]
  BY <1>1, <1>3 DEF Work
<1> HIDE DEF sent
<1>5. /\ \A q \in Planes \ {p} : hand'[q] = hand[q]
      /\ hand'[p] = (hand[p] \ {w}) \cup {sent}
  BY <1>1, <1>2 DEF TypeOK, sent
<1>6. /\ \A d \in Deliveries : tries[d] \in 0..MaxAttempts /\ tries'[d] \in 0..MaxAttempts
      /\ \A d \in Deliveries : d # w.d => tries'[d] = tries[d]
      /\ tries[w.d] = MaxAttempts => tries'[w.d] = MaxAttempts
      /\ o[1] = "final" => tries'[w.d] = MaxAttempts
      /\ tries'[w.d] # MaxAttempts => tries'[w.d] = tries[w.d] + 1
  BY <1>1, <1>2 DEF TypeOK
<1>7. \A d \in Deliveries, n \in Nat : Within(d, n) => Within(d, n)'
  BY <1>6 DEF Within
<1>8. \A n \in Nat : Within(w.d, n) => Within(w.d, n + 1)'
  BY <1>1, <1>6 DEF Within
<1>9. w.result = None /\ UNCHANGED <<queued, status, attempts, found>>
  BY DEF Sends, outbox
<1>10. SendsAreCounted'
  <2> SUFFICES ASSUME NEW d \in Deliveries
               PROVE  IsFiniteSet(Sent(d)') /\ Within(d, attempts[d] + Cardinality(Sent(d)))'
    BY DEF SendsAreCounted
  <2>1. IsFiniteSet(Sent(d)) /\ Within(d, attempts[d] + Cardinality(Sent(d)))
    BY DEF Inv, SendsAreCounted
  <2>2. Cardinality(Sent(d)) \in Nat /\ attempts[d] \in Nat
    BY <1>1, <2>1, FS_CardinalityType DEF TypeOK
  <2>3. CASE d # w.d
    <3>1. Sent(d)' = Sent(d)
      BY <1>4, <1>5, <2>3 DEF Sent
    <3>2. attempts'[d] + Cardinality(Sent(d)') = attempts[d] + Cardinality(Sent(d))
      BY <1>9, <3>1
    <3>3. QED
      BY <1>7, <2>1, <2>2, <3>1, <3>2
  <2>4. CASE d = w.d
    <3>1. Sent(d)' = Sent(d) \cup {<<p, sent>>}
      BY <1>3, <1>4, <1>5, <1>9, <2>4 DEF Sent
    <3>2. /\ IsFiniteSet(Sent(d)')
          /\ Cardinality(Sent(d)') \in {Cardinality(Sent(d)), Cardinality(Sent(d)) + 1}
      BY <2>1, <3>1, FS_AddElement
    <3>3. tries'[d] = MaxAttempts \/ attempts[d] + Cardinality(Sent(d)) + 1 <= tries'[d]
      BY <1>8, <2>1, <2>2, <2>4 DEF Within
    <3>4. QED
      BY <1>6, <1>9, <2>2, <3>2, <3>3 DEF Within
  <2>5. QED
    BY <2>3, <2>4
<1>11. ReadersAreBehind'
  <2>1. ASSUME NEW q \in Planes, NEW r \in found'[q] PROVE Within(r.d, r.attempts)'
    <3>1. r \in found[q] /\ r \in Reading
      BY <1>1, <1>9, <2>1 DEF TypeOK
    <3>2. QED
      BY <1>7, <3>1 DEF Inv, ReadersAreBehind, Reading
  <2>2. ASSUME NEW q \in Planes, NEW v \in hand'[q]
        PROVE  /\ Within(v.d, IF v.result = None THEN v.attempts ELSE v.attempts + 1)'
               /\ v.result = "final" => tries'[v.d] = MaxAttempts
    <3>1. CASE v \in hand[q]
      <4>1. v \in Work /\ v.d \in Deliveries /\ v.attempts \in Nat
        BY <1>1, <3>1 DEF TypeOK, Work
      <4>2. /\ Within(v.d, IF v.result = None THEN v.attempts ELSE v.attempts + 1)
            /\ v.result = "final" => tries[v.d] = MaxAttempts
        BY <3>1 DEF Inv, ReadersAreBehind
      <4>3. QED
        BY <1>6, <1>7, <4>1, <4>2
    <3>2. CASE v = sent
      <4>1. Within(w.d, w.attempts)
        BY <1>9 DEF Inv, ReadersAreBehind
      <4>2. Within(w.d, w.attempts + 1)'
        BY <1>1, <1>8, <4>1
      <4>3. QED
        BY <1>3, <1>4, <1>6, <3>2, <4>2
    <3>3. QED
      BY <1>5, <2>2, <3>1, <3>2
  <2>3. QED
    BY <2>1, <2>2 DEF ReadersAreBehind
<1>12. OfQueuedEvents'
  <2>1. ASSUME NEW q \in Planes, NEW v \in hand'[q]
        PROVE  v.d[1] \in queued /\ (v.result = "ok" => v.d \in arrived')
    <3>1. CASE v \in hand[q]
      BY <1>2, <3>1 DEF Inv, OfQueuedEvents
    <3>2. CASE v = sent
      BY <1>2, <1>3, <1>4, <3>2 DEF Inv, OfQueuedEvents
    <3>3. QED
      BY <1>5, <2>1, <3>1, <3>2
  <2>2. QED
    BY <1>9, <2>1 DEF Inv, OfQueuedEvents
<1>13. QED
  BY <1>10, <1>11, <1>12

(* A note of w: the row's attempts grow by the send that is noted.         *)
LEMMA NoteCounts ==
  ASSUME Inv, TypeOK', NEW p \in Planes, NEW w \in hand[p], Notes(p, w)
  PROVE  SendsAreCounted' /\ GivenUpAfterEveryTry'
<1> USE BoundsAssumption
<1>1. TypeOK /\ w \in Work /\ w.d \in Deliveries /\ w.attempts \in Nat /\ w.result # None
  BY DEF Inv, TypeOK, Work, Notes
<1>2. /\ tries' = tries /\ hand' = [hand EXCEPT ![p] = @ \ {w}]
      /\ \A d \in Deliveries : d # w.d => attempts'[d] = attempts[d] /\ status'[d] = status[d]
      /\ attempts'[w.d] = attempts[w.d] \/ attempts'[w.d] = attempts[w.d] + 1
      /\ status'[w.d] = status[w.d] \/ status'[w.d] = Verdict(w)
  BY <1>1 DEF Notes, TypeOK, world
<1>3. SendsAreCounted'
  <2> SUFFICES ASSUME NEW d \in Deliveries
               PROVE  IsFiniteSet(Sent(d)') /\ Within(d, attempts[d] + Cardinality(Sent(d)))'
    BY DEF SendsAreCounted
  <2>1. IsFiniteSet(Sent(d)) /\ Within(d, attempts[d] + Cardinality(Sent(d)))
    BY DEF Inv, SendsAreCounted
  <2>2. Cardinality(Sent(d)) \in Nat /\ attempts[d] \in Nat /\ tries[d] \in Nat
    BY <1>1, <2>1, FS_CardinalityType DEF TypeOK
  <2>3. Sent(d)' = Sent(d) \ {<<p, w>>}
    BY <1>1, <1>2 DEF Sent, TypeOK
  <2>4. /\ IsFiniteSet(Sent(d)')
        /\ Cardinality(Sent(d)') = IF <<p, w>> \in Sent(d) THEN Cardinality(Sent(d)) - 1
                                   ELSE Cardinality(Sent(d))
    <3>1. /\ IsFiniteSet(Sent(d) \ {<<p, w>>})
          /\ Cardinality(Sent(d) \ {<<p, w>>}) =
                IF <<p, w>> \in Sent(d) THEN Cardinality(Sent(d)) - 1 ELSE Cardinality(Sent(d))
      BY <2>1, FS_RemoveElement
    <3>2. QED
      BY <2>3, <3>1
  <2>5. d = w.d => <<p, w>> \in Sent(d)
    BY <1>1 DEF Sent
  <2>6. attempts'[d] + Cardinality(Sent(d)') <= attempts[d] + Cardinality(Sent(d))
    BY <1>2, <2>2, <2>4, <2>5
  <2>7. attempts'[d] + Cardinality(Sent(d)') \in Int
    BY <1>2, <2>2, <2>4
  <2>8. QED
    BY <1>2, <2>1, <2>2, <2>4, <2>6, <2>7 DEF Within
<1>4. GivenUpAfterEveryTry'
  <2> SUFFICES ASSUME Verdict(w) = "failed" PROVE tries[w.d] = MaxAttempts
    BY <1>1, <1>2 DEF Inv, GivenUpAfterEveryTry
  <2>1. w.result = "final" \/ w.attempts + 1 >= MaxAttempts
    BY DEF Verdict, GivesUp
  <2>2. Within(w.d, w.attempts + 1) /\ (w.result = "final" => tries[w.d] = MaxAttempts)
    BY <1>1 DEF Inv, ReadersAreBehind
  <2>3. tries[w.d] \in 0..MaxAttempts
    BY <1>1 DEF TypeOK
  <2>4. QED
    BY <1>1, <2>1, <2>2, <2>3 DEF Within
<1>5. QED
  BY <1>3, <1>4

LEMMA InvNext == Inv /\ [Next]_vars => Inv'
<1> SUFFICES ASSUME Inv, [Next]_vars PROVE Inv'
  OBVIOUS
<1> USE DEF outbox, senders, world
<1>1. TypeOK /\ TypeOK'
  BY TypeNext DEF Inv
<1>2. CASE UNCHANGED vars
  BY <1>1, <1>2 DEF vars, Inv, SendsAreCounted, Within, Sent, ReadersAreBehind, OfQueuedEvents,
     GivenUpAfterEveryTry
<1>3. ASSUME NEW e \in Events, Threshold(e) PROVE Inv'
  <2>1. SendsAreCounted'
    BY <1>1, <1>3, CountsKeep DEF Threshold
  <2>2. QED
    BY <1>1, <1>3, <2>1 DEF Threshold, Inv, Within, ReadersAreBehind, OfQueuedEvents,
       GivenUpAfterEveryTry
<1>4. \A d \in Deliveries : Within(d, 0) /\ Within(d, attempts[d])
  <2> SUFFICES ASSUME NEW d \in Deliveries PROVE Within(d, 0) /\ Within(d, attempts[d])
    OBVIOUS
  <2>1. IsFiniteSet(Sent(d)) /\ Within(d, attempts[d] + Cardinality(Sent(d)))
    BY DEF Inv, SendsAreCounted
  <2>2. Cardinality(Sent(d)) \in Nat /\ attempts[d] \in Nat /\ tries[d] \in Nat
    BY <1>1, <2>1, FS_CardinalityType DEF TypeOK
  <2>3. QED
    BY <2>1, <2>2 DEF Within
<1>5. ASSUME NEW p \in Planes, Sweeps(p) PROVE Inv'
  <2>1. New \in SUBSET Deliveries /\ \A d \in New : d[1] \in recorded
    BY <1>1 DEF New, Deliveries, AlertTargets, TypeOK
  <2>2. /\ \A d \in Deliveries : attempts'[d] = attempts[d] \/ attempts'[d] = 0
        /\ \A d \in Deliveries : status'[d] = status[d] \/ (d \in New /\ status'[d] = "pending")
        /\ queued' = recorded /\ queued \subseteq recorded /\ due' \subseteq Deliveries
        /\ UNCHANGED <<hand, tries, arrived>>
    <3>1. QueueAlerts /\ UNCHANGED <<hand, tries, arrived>>
      BY <1>5 DEF Sweeps
    <3>2. \A d \in Deliveries : attempts'[d] = attempts[d] \/ attempts'[d] = 0
      BY <3>1 DEF QueueAlerts, Queues
    <3>3. \A d \in Deliveries : status'[d] = status[d] \/ (d \in New /\ status'[d] = "pending")
      BY <3>1 DEF QueueAlerts
    <3>4. queued' = recorded /\ queued \subseteq recorded /\ due' \subseteq Deliveries
      BY <1>1, <3>1 DEF QueueAlerts, TypeOK
    <3>5. QED
      BY <3>1, <3>2, <3>3, <3>4
  <2>3. SendsAreCounted'
    BY <1>1, <2>2, CountsKeep
  <2>4. ASSUME NEW q \in Planes, NEW r \in found'[q]
        PROVE  Within(r.d, r.attempts)' /\ r.d[1] \in queued'
    <3>1. CASE r \in found[q]
      BY <2>2, <3>1 DEF Inv, ReadersAreBehind, OfQueuedEvents, Within
    <3>2. CASE r \notin found[q]
      <4>1. r \in DueNow
        BY <1>1, <1>5, <2>4, <3>2 DEF Sweeps, TypeOK
      <4>2. PICK d \in due' : status'[d] = "pending" /\
               r = [d |-> d, attempts |-> attempts'[d], fresh |-> d \in fresh']
        BY <4>1 DEF DueNow
      <4>3. d \in Deliveries /\ r.d = d /\ r.attempts = attempts'[d]
        BY <2>2, <4>2
      <4>4. Within(d, attempts[d])'
        BY <1>4, <2>2, <4>3 DEF Within
      <4>5. d[1] \in queued'
        BY <2>1, <2>2, <4>2, <4>3 DEF Inv, OfQueuedEvents
      <4>6. QED
        BY <4>3, <4>4, <4>5
    <3>3. QED
      BY <3>1, <3>2
  <2>5. ReadersAreBehind'
    BY <2>2, <2>4 DEF Inv, ReadersAreBehind, Within
  <2>6. OfQueuedEvents'
    BY <2>1, <2>2, <2>4 DEF Inv, OfQueuedEvents
  <2>7. GivenUpAfterEveryTry'
    BY <2>2 DEF Inv, GivenUpAfterEveryTry
  <2>8. QED
    BY <1>1, <2>3, <2>5, <2>6, <2>7 DEF Inv
<1>6. ASSUME NEW p \in Planes, NEW r \in found[p], Claims(p, r) PROVE Inv'
  <2> DEFINE w == [d |-> r.d, attempts |-> r.attempts, current |-> r.d[2] = hook, result |-> None]
  <2>1. /\ w.d = r.d /\ w.attempts = r.attempts /\ w.result = None
        /\ None # "final" /\ None # "ok"
    BY PlacesAssumption
  <2>2. Within(r.d, r.attempts) /\ r.d[1] \in queued
    BY DEF Inv, ReadersAreBehind, OfQueuedEvents
  <2>3. /\ \A q \in Planes : found'[q] \subseteq found[q]
        /\ \A q \in Planes : hand'[q] \subseteq hand[q] \cup {w}
        /\ UNCHANGED <<tries, attempts, queued, status, arrived>>
    <3>1. CASE MayClaim(r)
      BY <1>1, <1>6, <3>1 DEF Claims, TypeOK
    <3>2. CASE ~MayClaim(r)
      BY <1>1, <1>6, <3>2 DEF Claims, TypeOK
    <3>3. QED
      BY <3>1, <3>2
  <2> HIDE DEF w
  <2>4. SendsAreCounted'
    BY <1>1, <2>1, <2>3, CountsKeep
  <2>5. ReadersAreBehind'
    BY <2>1, <2>2, <2>3 DEF Inv, ReadersAreBehind, Within
  <2>6. OfQueuedEvents'
    BY <2>1, <2>2, <2>3 DEF Inv, OfQueuedEvents
  <2>7. QED
    BY <1>1, <2>3, <2>4, <2>5, <2>6 DEF Inv, GivenUpAfterEveryTry
<1>7. ASSUME NEW p \in Planes, ClaimsNothing(p) \/ Crash(p) PROVE Inv'
  <2>1. /\ \A q \in Planes : found'[q] \subseteq found[q] /\ hand'[q] \subseteq hand[q]
        /\ UNCHANGED <<tries, attempts, queued, status, arrived>>
    BY <1>1, <1>7 DEF ClaimsNothing, Crash, TypeOK
  <2>2. SendsAreCounted'
    BY <1>1, <2>1, CountsKeep
  <2>3. QED
    BY <1>1, <2>1, <2>2 DEF Inv, ReadersAreBehind, OfQueuedEvents, Within, GivenUpAfterEveryTry
<1>8. ASSUME NEW p \in Planes, NEW w \in hand[p], Sends(p, w) PROVE Inv'
  <2>1. GivenUpAfterEveryTry'
    BY <1>1, <1>8 DEF Sends, Inv, GivenUpAfterEveryTry, TypeOK, Work
  <2>2. QED
    BY <1>1, <1>8, <2>1, SendCounts DEF Inv
<1>9. ASSUME NEW p \in Planes, NEW w \in hand[p], Notes(p, w) PROVE Inv'
  <2>1. /\ \A q \in Planes : hand'[q] \subseteq hand[q]
        /\ UNCHANGED <<found, tries, queued, arrived>>
        /\ \A d \in Deliveries : status[d] = "none" => status'[d] = "none"
    BY <1>1, <1>9 DEF Notes, Spoken, TypeOK
  <2>2. ReadersAreBehind' /\ OfQueuedEvents'
    BY <1>1, <2>1 DEF Inv, ReadersAreBehind, OfQueuedEvents, Within
  <2>3. QED
    BY <1>1, <1>9, <2>2, NoteCounts DEF Inv
<1>10. ASSUME NEW d \in Deliveries, ComesDue(d) PROVE Inv'
  <2>1. SendsAreCounted'
    BY <1>1, <1>10, CountsKeep DEF ComesDue
  <2>2. QED
    BY <1>1, <1>10, <2>1 DEF ComesDue, Inv, Within, ReadersAreBehind, OfQueuedEvents,
       GivenUpAfterEveryTry
<1>11. CASE PutAlerts
  <2>1. /\ \A d \in Deliveries : attempts'[d] = attempts[d] \/ attempts'[d] = 0
        /\ \A d \in Deliveries : status'[d] \in {status[d], "pending", "replaced"}
        /\ \A d \in Deliveries : status'[d] # "none" => d[1] \in queued
        /\ UNCHANGED <<found, hand, tries, arrived, queued>>
    <3>1. PICK url \in Urls \cup {None} : SetOrgAlerts(url)
      BY <1>11 DEF PutAlerts
    <3>2. CASE url = None
      BY <1>11, <3>1, <3>2 DEF PutAlerts, SetOrgAlerts, Inv, OfQueuedEvents
    <3>3. CASE url # None
      <4>1. status' = [d \in Deliveries |-> IF d \in Left(url) THEN "replaced"
                            ELSE IF d \in Taken(url) THEN "pending" ELSE status[d]]
        BY <3>1, <3>3 DEF SetOrgAlerts
      <4>2. ASSUME NEW d \in Deliveries, d \in Left(url) \/ d \in Taken(url)
            PROVE  d[1] \in queued
        <5>1. CASE d \in Left(url)
          BY <5>1 DEF Left, Inv, OfQueuedEvents
        <5>2. CASE d \in Taken(url)
          <6>1. PICK e \in Events : d = <<e, url>> /\ Tried(e) \ {url} # {}
            BY <5>2 DEF Taken
          <6>2. PICK u \in Urls : status[<<e, u>>] = "pending"
            BY <6>1 DEF Tried
          <6>3. <<e, u>> \in Deliveries
            BY DEF Deliveries
          <6>4. e \in queued
            BY <6>2, <6>3 DEF Inv, OfQueuedEvents
          <6>5. QED
            BY <6>1, <6>4
        <5>3. QED
          BY <4>2, <5>1, <5>2
      <4>3. QED
        BY <1>11, <3>1, <3>3, <4>1, <4>2 DEF PutAlerts, SetOrgAlerts, Queues, Inv, OfQueuedEvents
    <3>4. QED
      BY <3>2, <3>3
  <2>2. SendsAreCounted'
    BY <1>1, <2>1, CountsKeep
  <2>3. QED
    BY <1>1, <2>1, <2>2 DEF Inv, ReadersAreBehind, OfQueuedEvents, Within, GivenUpAfterEveryTry
<1>12. QED
  BY <1>2, <1>3, <1>5, <1>6, <1>7, <1>8, <1>9, <1>10, <1>11 DEF Next, SweepStep

THEOREM Inductive == Spec => []Inv
  BY InvInit, InvNext, PTL DEF Spec

(* The type invariant.                                                     *)
THEOREM TypeCorrect == Spec => []TypeOK
<1>1. Inv => TypeOK
  BY DEF Inv
<1>2. QED
  BY <1>1, Inductive, PTL

(* An alert is given up only after every try, or when its webhook was gone *)
(* (alerts.py, _note), also when slow sweeps of any planes overlap.        *)
THEOREM EveryTryIsMade == Spec => []GivenUpAfterEveryTry
<1>1. Inv => GivenUpAfterEveryTry
  BY DEF Inv
<1>2. QED
  BY <1>1, Inductive, PTL
-----------------------------------------------------------------------------
(* AlertPromise *)

(* What the planes keep is the promise of the outbox, step by step.        *)
LEMMA StepsKeepThePromise == Inv /\ [Next]_vars => [Promise!Next]_(Promise!vars)
<1> SUFFICES ASSUME Inv, [Next]_vars PROVE Promise!Next \/ UNCHANGED Promise!vars
  OBVIOUS
<1> USE DEF outbox, senders, world, Promise!vars
<1>1. TypeOK /\ TypeOK'
  BY TypeNext DEF Inv
<1>2. CASE UNCHANGED vars
  BY <1>2 DEF vars
<1>3. ASSUME NEW p \in Planes, Sweeps(p) PROVE Promise!Queue
  <2> DEFINE new == recorded \ queued
  <2>1. new \in SUBSET (Events \ queued) /\ queued' = queued \cup new
    BY <1>1, <1>3 DEF Sweeps, QueueAlerts, TypeOK
  <2>2. \A d \in Deliveries : d \in New <=> d[1] \in new /\ d[2] \in Promise!Webhook(hook)
    BY DEF New, Deliveries, AlertTargets, Promise!Webhook, Inv, OfQueuedEvents
  <2>3. status' = [d \in Events \X Urls |-> IF d[1] \in new /\ d[2] \in Promise!Webhook(hook)
                                            THEN "pending" ELSE status[d]]
    BY <1>3, <2>2 DEF Sweeps, QueueAlerts, Deliveries
  <2>4. QED
    BY <1>3, <2>1, <2>3 DEF Promise!Queue, Sweeps
<1>4. ASSUME NEW p \in Planes, NEW w \in hand[p], Sends(p, w)
      PROVE  (Promise!Arrive(w.d) /\ w.d \in Events \X Urls) \/ UNCHANGED Promise!vars
  BY <1>1, <1>4 DEF Sends, Promise!Arrive, Inv, OfQueuedEvents, TypeOK, Work, Deliveries
<1>5. ASSUME NEW p \in Planes, NEW w \in hand[p], Notes(p, w)
      PROVE  (Promise!Settle(w.d) /\ w.d \in Events \X Urls) \/ UNCHANGED Promise!vars
  <2>1. w.d \in Events \X Urls /\ w.d \in Deliveries
    BY <1>1 DEF TypeOK, Work, Deliveries
  <2>2. CASE Spoken(w.d)
    <3>1. CASE Verdict(w) = "pending"
      BY <1>1, <1>5, <2>1, <2>2, <3>1 DEF Notes, Spoken, TypeOK
    <3>2. CASE Verdict(w) = "sent"
      BY <1>1, <1>5, <2>1, <2>2, <3>2 DEF Notes, Spoken, Verdict, Promise!Settle, Inv, OfQueuedEvents
    <3>3. CASE Verdict(w) = "failed"
      BY <1>1, <1>5, <2>1, <2>2, <3>3 DEF Notes, Spoken, Promise!Settle
    <3>4. QED
      BY <3>1, <3>2, <3>3 DEF Verdict
  <2>3. CASE ~Spoken(w.d)
    BY <1>5, <2>3 DEF Notes
  <2>4. QED
    BY <2>2, <2>3
<1>6. CASE PutAlerts
  <2>1. PICK url \in Urls \cup {None} : SetOrgAlerts(url)
    BY <1>6 DEF PutAlerts
  <2>2. UNCHANGED <<queued, arrived>> /\ hook' = url
    BY <1>6, <2>1 DEF PutAlerts, SetOrgAlerts
  <2>3. CASE url = None
    BY <2>1, <2>2, <2>3 DEF SetOrgAlerts, Promise!Move, Promise!Next
  <2>4. CASE url # None
    <3>1. \A e \in Events : Promise!Tried(e) = Tried(e)
      BY DEF Promise!Tried, Tried
    <3>2. ASSUME NEW d \in Deliveries
          PROVE  /\ d \in Left(url) <=> d[2] \in Tried(d[1]) \ {url}
                 /\ d \in Taken(url) <=> /\ d[2] = url /\ Tried(d[1]) \ {url} # {}
                                         /\ status[d] \in {"none", "replaced"}
      <4>1. PICK e \in Events, u \in Urls : d = <<e, u>>
        BY DEF Deliveries
      <4>2. QED
        BY <4>1 DEF Left, Taken, Tried
    <3>3. status' = [d \in Events \X Urls |->
                IF d[2] \in Promise!Tried(d[1]) \ {url} THEN "replaced"
                ELSE IF d[2] = url /\ Promise!Tried(d[1]) \ {url} # {}
                        /\ status[d] \in {"none", "replaced"}
                THEN "pending" ELSE status[d]]
      <4>1. \A d \in Deliveries : Promise!Tried(d[1]) = Tried(d[1])
        BY <3>1 DEF Deliveries
      <4>2. status' = [d \in Deliveries |-> IF d \in Left(url) THEN "replaced"
                            ELSE IF d \in Taken(url) THEN "pending" ELSE status[d]]
        BY <2>1, <2>4 DEF SetOrgAlerts
      <4>3. QED
        BY <3>2, <4>1, <4>2 DEF Deliveries
    <3>4. QED
      BY <2>2, <2>4, <3>3 DEF Promise!Move, Promise!Next
  <2>5. QED
    BY <2>3, <2>4
<1>7. ASSUME \/ \E e \in Events : Threshold(e)
             \/ \E p \in Planes : ClaimsNothing(p) \/ Crash(p)
             \/ \E p \in Planes : \E r \in found[p] : Claims(p, r)
             \/ \E d \in Deliveries : ComesDue(d)
      PROVE  UNCHANGED Promise!vars
  BY <1>7 DEF Threshold, ClaimsNothing, Crash, Claims, ComesDue
<1>8. QED
  BY <1>2, <1>3, <1>4, <1>5, <1>6, <1>7 DEF Next, SweepStep, Promise!Next

(* The sweeps, claims and notes of any number of planes, with crashes and  *)
(* a webhook that moves, do only what the outbox promises: queued once,    *)
(* sent only if it arrived, settled once, taken along by a new webhook.    *)
THEOREM PromiseIsKept == Spec => Promise!Init /\ [][Promise!Next]_(Promise!vars)
<1>1. Init => Promise!Init
  BY DEF Init, Promise!Init, Deliveries
<1>2. QED
  BY <1>1, StepsKeepThePromise, Inductive, PTL DEF Spec
=============================================================================
