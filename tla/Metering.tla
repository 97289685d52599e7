----------------------------- MODULE Metering -----------------------------
(***************************************************************************)
(* What a machine's time and disk are billed (flotta/metering.py).         *)
(*                                                                         *)
(* Nothing passes through a machine, so a sweep works out afterwards when  *)
(* it was up: from the box's lifecycle events, corrected by one reading of *)
(* the machine, for every whole hour from the box's mark to the last that  *)
(* is over.  The control plane may die between any two of its writes, two  *)
(* of them may sweep at once while one replaces the other, the log may     *)
(* miss that the machine went down or came up, and people start, stop and  *)
(* destroy the box between the steps.                                      *)
(*                                                                         *)
(* Time is in ticks, an hour has HourTicks of them.  Prices, sizes and     *)
(* exchange rates are left out.                                            *)
(***************************************************************************)
EXTENDS Integers, Sequences, SequencesExt, FiniteSets

CONSTANTS
    Sweeps,      \* sweeps that may run at once
    HourTicks,
    MaxNow,      \* bound: the last tick
    MaxEvents,   \* bound: lifecycle events written
    Never        \* no moment

BoundsAssumption ==
    /\ HourTicks \in Nat \ {0} /\ MaxNow \in Nat /\ MaxEvents \in Nat /\ Never \notin Int

Times == 0..MaxNow
Hours == 0..(MaxNow \div HourTicks)
Start(h) == h * HourTicks
HourOf(t) == (t \div HourTicks) * HourTicks

VARIABLES
    now,
    up, lastUp, lastDown,  \* the machine, and what the substrate says of it
    row,        \* the box's status
    destroyed,  \* when it was
    log,        \* its lifecycle events
    mark,       \* how far it has been metered
    seconds,    \* the usage rows: machine time by hour
    disk,       \* and the disk's
    sweep,      \* the sweeps
    was,        \* history: the ticks the machine was up
    first,      \* history: where counting started
    fooled      \* history: it changed while the log was wrong, or a reading outlived it

machine == <<up, lastUp, lastDown, was>>
vars == <<now, machine, row, destroyed, log, mark, seconds, disk, sweep, first, fooled>>

NoSweep == [at |-> "idle"]
Event(isUp, when) == [up |-> isUp, ts |-> now, when |-> when]
NoRow == -1

TypeOK ==
    /\ now \in Times /\ up \in BOOLEAN /\ {lastUp, lastDown} \subseteq Times
    /\ row \in {"running", "stopped", "torn_down"} /\ destroyed \in Times \cup {Never}
    /\ \A i \in DOMAIN log : log[i].ts \in Times /\ log[i].when \in Times
    /\ mark \in Times \cup {Never}
    /\ seconds \in [Hours -> NoRow..MaxNow] /\ disk \in [Hours -> NoRow..HourTicks]
    /\ \A p \in Sweeps : sweep[p].at \in {"idle", "inspect", "correct", "spans", "hours", "mark"}
    /\ was \subseteq Times

(* A box whose creation has just ended.                                    *)
Init ==
    /\ now = 0 /\ up = TRUE /\ lastUp = 0 /\ lastDown = 0 /\ row = "running" /\ destroyed = Never
    /\ log = <<[up |-> TRUE, ts |-> 0, when |-> 0]>> /\ mark = Never
    /\ seconds = [h \in Hours |-> NoRow] /\ disk = [h \in Hours |-> NoRow]
    /\ sweep = [p \in Sweeps |-> NoSweep] /\ was = {}
    /\ first = Never /\ fooled = FALSE

metered == <<mark, seconds, disk, first>>

-----------------------------------------------------------------------------
(* The machine and those who move it. *)

(* A tick is longer than a sweep takes to come to the box and read it.     *)
Tick ==
    /\ \A p \in Sweeps : sweep[p].at \notin {"inspect", "correct"}
    /\ now < MaxNow /\ now' = now + 1
    /\ was' = IF up THEN was \cup {now} ELSE was
    /\ UNCHANGED <<up, lastUp, lastDown, row, destroyed, log, metered, sweep, fooled>>

Moves(isUp) ==
    /\ up' = isUp /\ lastUp' = (IF isUp THEN now ELSE lastUp)
    /\ lastDown' = (IF isUp THEN lastDown ELSE now) /\ UNCHANGED was
Room == Len(log) < MaxEvents
Missed == Last(log).up # up

(* start_box, wake_box, stop_box: what is done is written down.  A wake of *)
(* a row that says running starts the machine and writes nothing; a budget *)
(* that kills or sleeps the machine writes it, and leaves the row as it is *)
(* (_settle_paused_machine).                                               *)
Starts ==
    /\ row \in {"running", "stopped"} /\ ~up /\ Moves(TRUE) /\ row' = "running"
    /\ IF row = "stopped"
       THEN Room /\ log' = Append(log, Event(TRUE, now)) /\ fooled' = (fooled \/ Missed)
       ELSE UNCHANGED log /\ fooled' = TRUE
    /\ UNCHANGED <<now, destroyed, metered, sweep>>
Stops ==
    /\ row = "running" /\ up /\ Room /\ Moves(FALSE) /\ row' \in {row, "stopped"}
    /\ log' = Append(log, Event(FALSE, now))
    /\ fooled' = (fooled \/ Missed)
    /\ UNCHANGED <<now, destroyed, metered, sweep>>
TearsDown ==
    /\ row # "torn_down" /\ Room /\ row' = "torn_down" /\ destroyed' = now
    /\ IF up THEN Moves(FALSE) ELSE UNCHANGED machine
    /\ log' = Append(log, Event(FALSE, now))
    /\ fooled' = (fooled \/ Missed)
    /\ UNCHANGED <<now, metered, sweep>>

(* The substrate stops or starts it by itself.                             *)
Unseen ==
    /\ row # "torn_down" /\ Moves(~up) /\ fooled' = (fooled \/ Missed)
    /\ UNCHANGED <<now, row, destroyed, log, metered, sweep>>

(* _correct_running: the other sweep, of rows that claim to run.           *)
RowCorrected ==
    /\ row = "running" /\ ~up /\ Room /\ row' = "stopped"
    /\ log' = Append(log, Event(FALSE, lastDown))
    /\ UNCHANGED <<now, machine, destroyed, metered, sweep, fooled>>

-----------------------------------------------------------------------------
(* What the log says. *)

(* lifecycle_events: those since, and the last before.                     *)
LifecycleEvents(since) ==
    LET before == {i \in DOMAIN log : log[i].ts <= since}
        from == IF before = {} THEN 1 ELSE CHOOSE i \in before : \A j \in before : j <= i
    IN SubSeq(log, from, Len(log))

(* _spans: when it was up, a span never beginning before the last ended.   *)
Span(l, r) == IF r > l THEN <<[from |-> l, to |-> r]>> ELSE <<>>
Reads(read, e) ==
    IF e.up /\ read.since = Never
    THEN [read EXCEPT !.since = IF read.spans # <<>> /\ Last(read.spans).to > e.when
                                THEN Last(read.spans).to ELSE e.when]
    ELSE IF ~e.up /\ read.since # Never
    THEN [spans |-> read.spans \o Span(read.since, e.when), since |-> Never]
    ELSE read
Spans(events, end) ==
    LET read[i \in 0..Len(events)] ==
            IF i = 0 THEN [spans |-> <<>>, since |-> Never] ELSE Reads(read[i - 1], events[i])
        all == read[Len(events)]
    IN IF all.since = Never THEN all.spans ELSE all.spans \o Span(all.since, end)

Common(s, l, r) ==
    LET a == IF s.from > l THEN s.from ELSE l  b == IF s.to < r THEN s.to ELSE r
    IN IF b > a THEN b - a ELSE 0
Overlap(spans, l, r) ==
    LET sum[i \in 0..Len(spans)] == IF i = 0 THEN 0 ELSE sum[i - 1] + Common(spans[i], l, r)
    IN sum[Len(spans)]

-----------------------------------------------------------------------------
(* The sweep, meter_machines, of the one box. *)

Set(p, s) == sweep' = [sweep EXCEPT ![p] = s]
world == <<now, machine, destroyed>>

(* The row and the mark are read; an hour still open closes nothing.       *)
ClosedAlready(hour) == mark # Never /\ mark >= hour
Begins(p) ==
    LET closed == HourOf(now) IN
    /\ sweep[p].at = "idle"
    /\ IF row = "torn_down" THEN mark # Never ELSE ~ClosedAlready(closed)
    /\ Set(p, [at |-> IF row = "torn_down" THEN "spans" ELSE "inspect", row |-> row, now |-> IF row = "torn_down" THEN 0 ELSE now,
               closed |-> closed, mark |-> mark, hour |-> mark, alive |-> destroyed,
               up |-> FALSE, lastUp |-> 0, lastDown |-> 0, spans |-> <<>>])
    /\ UNCHANGED <<world, row, log, metered, fooled>>

(* The machine is read once.  Counting starts at the first reading, at the *)
(* last of them if several overlap.                                        *)
Ahead(closed) == first # Never /\ first > closed
Inspects(p) ==
    /\ sweep[p].at = "inspect"
    /\ IF sweep[p].mark = Never
       THEN /\ mark' = sweep[p].closed /\ Set(p, NoSweep)
            /\ first' = (IF Ahead(sweep[p].closed) THEN first ELSE sweep[p].closed) /\ UNCHANGED <<seconds, disk>>
       ELSE /\ Set(p, [sweep[p] EXCEPT !.at = "correct", !.up = up, !.lastUp = lastUp, !.lastDown = lastDown])
            /\ UNCHANGED metered
    /\ UNCHANGED <<world, row, log, fooled>>
(* _correct_from_substrate: what the log missed is written down as of when *)
(* the substrate says, but never before what the log last said, nor later  *)
(* than the sweep began.                                                   *)
Clamp(reported, last, at) ==
    LET t == IF reported > last THEN reported ELSE last IN IF t < at THEN t ELSE at
Corrected(s) == [s EXCEPT !.at = "spans", !.now = 0, !.up = FALSE, !.lastUp = 0, !.lastDown = 0]
Corrects(p) ==
    LET s == sweep[p]  events == LifecycleEvents(s.mark)  last == Last(events)
        wrong == events # <<>> /\ last.up # s.up IN
    /\ s.at = "correct" /\ (wrong => Room)
    /\ log' = IF wrong
              THEN Append(log, Event(s.up, Clamp(IF s.up THEN s.lastUp ELSE s.lastDown, last.when, s.now)))
              ELSE log
    (* A row that slept becomes running, so that it can be put to sleep.  If  *)
    (* it has moved meanwhile that is refused, and the sweep ends there.      *)
    /\ IF wrong /\ s.up /\ s.row = "stopped"
       THEN IF row = "stopped" THEN row' = "running" /\ Set(p, Corrected(s))
            ELSE Set(p, NoSweep) /\ UNCHANGED row
       ELSE Set(p, Corrected(s)) /\ UNCHANGED row
    /\ fooled' = (fooled \/ (wrong /\ row = "torn_down"))
    /\ UNCHANGED <<world, metered>>

(* _write_hours.                                                           *)
ReadsSpans(p) ==
    LET s == sweep[p] IN
    /\ s.at = "spans"
    /\ Set(p, [s EXCEPT !.at = IF s.hour < s.closed THEN "hours" ELSE "mark",
                        !.spans = Spans(LifecycleEvents(s.mark), s.closed)])
    /\ UNCHANGED <<world, row, log, metered, fooled>>

(* record_machine_usage: a key already written does nothing.               *)
MutRecord(rows, h, n) == [rows EXCEPT ![h] = IF @ = NoRow THEN n ELSE @ + n]
Record(rows, h, n) == [rows EXCEPT ![h] = IF @ = NoRow THEN n ELSE @]

(* How much of an hour the disk was held.                                  *)
Held(s) ==
    LET end == s.hour + HourTicks IN
    IF s.alive = Never \/ s.alive >= end THEN HourTicks ELSE s.alive - s.hour

(* One hour's two rows; it may end between them.                           *)
WritesHour(p) ==
    LET s == sweep[p]  h == s.hour \div HourTicks
        n == Overlap(s.spans, s.hour, s.hour + HourTicks)
        next == s.hour + HourTicks IN
    /\ s.at = "hours"
    /\ seconds' = IF n > 0 THEN Record(seconds, h, n) ELSE seconds
    /\ \/ /\ disk' = IF Held(s) > 0 THEN Record(disk, h, Held(s)) ELSE disk
          /\ Set(p, [s EXCEPT !.hour = next, !.at = IF next < s.closed THEN "hours" ELSE "mark"])
       \/ UNCHANGED disk /\ Set(p, NoSweep)
    /\ UNCHANGED <<world, row, log, mark, first, fooled>>

(* The mark moves, or goes with a box that is gone.                        *)
MovesMark(p) ==
    LET s == sweep[p] IN
    /\ s.at = "mark"
    /\ mark' = IF s.row = "torn_down" /\ s.closed >= s.alive THEN Never ELSE s.closed
    /\ Set(p, NoSweep)
    /\ UNCHANGED <<world, row, log, seconds, disk, first, fooled>>
(* The substrate cannot be read, or the control plane dies.               *)
Dies(p) ==
    /\ sweep[p].at # "idle" /\ Set(p, NoSweep)
    /\ UNCHANGED <<world, row, log, metered, fooled>>

Next ==
    \/ Tick \/ Starts \/ Stops \/ TearsDown \/ Unseen \/ RowCorrected
    \/ \E p \in Sweeps :
         \/ Begins(p) \/ Inspects(p) \/ Corrects(p) \/ ReadsSpans(p)
         \/ WritesHour(p) \/ MovesMark(p) \/ Dies(p)

Spec == Init /\ [][Next]_vars

-----------------------------------------------------------------------------
(* Properties *)

Metered(h) ==
    /\ first # Never /\ Start(h) >= first
    /\ IF mark # Never THEN Start(h) < mark
       ELSE row = "torn_down" /\ Start(h) < destroyed
Amount(n) == IF n = NoRow THEN 0 ELSE n

(* An hour that is metered is billed for the ticks the machine was up in   *)
(* it, no more and no fewer, whatever died, was repeated or overlapped, as *)
(* long as the log never missed two changes in a row and no reading of the *)
(* machine outlived it (_write_hours, _correct_from_substrate).            *)
TimeIsExact ==
    \A h \in Hours : Metered(h) /\ ~fooled =>
        Amount(seconds[h]) = Cardinality({t \in was : Start(h) <= t /\ t < Start(h + 1)})

(* The disk is billed for every metered hour until the box was destroyed,  *)
(* and for none of the time after (_meter_box).                            *)
DiskIsExact ==
    \A h \in Hours : Metered(h) =>
        Amount(disk[h]) = IF destroyed = Never \/ destroyed >= Start(h + 1) THEN HourTicks
                          ELSE destroyed - Start(h)
=============================================================================
