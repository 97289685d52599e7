\* Two control planes over one store, as during a rolling deploy; one box
\* with two runs and one fault (a kill among them).
SPECIFICATION Spec
CONSTANTS
    Planes = {p1, p2}
    Boxes = {b1}
    MaxRuns = 2
    MaxConcurrent = 1
    Timeout = 1
    Lag = 0
    Deadline = 1
    MaxStops = 0
    QueueCap = 1
    MaxFires = 1
    MaxFaults = 1
SYMMETRY Symmetry
INVARIANTS
    OneRunningRunPerBox
    OneDeliverer
PROPERTIES
    ReaperOverrulesNobody
    VerdictStands
    StartsInOrder
