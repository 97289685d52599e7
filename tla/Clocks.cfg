\* Schedules: two control planes sweep the schedules of one agent, both reading and
\* acting as late as they like, while people edit them and tear it down; one fault.
\* Metering: two sweeps, two hours of two ticks, three events.
\* Time runs out, so the system may stop: no deadlock check.
CONSTANTS
    Planes = {p1, p2}
    Boxes = {b1}
    MaxTriggers = 2
    Crons = {{1, 2}, {2}}
    MaxTime = 2
    Window = 0
    Cap = 1
    MaxFaults = 1
    HourTicks = 2
    MaxNow = 4
    MaxEvents = 3
    Never = Never
SPECIFICATION MCSpec
CONSTRAINT NotFooled
SYMMETRY Symmetry
INVARIANTS
    OneOutcomePerTime
    TeardownLeavesNoFire
    HoursAreExact
PROPERTIES
    NothingIsPassedOver
CHECK_DEADLOCK FALSE
