\* One agent, two runs, and a control plane that may be stopped once and
\* killed once while it claims, delivers or writes a verdict: what it started
\* ends all the same, and the run that waits behind it is served.
SPECIFICATION FairSpec
CONSTANTS
    Planes = {p1}
    Boxes = {b1}
    MaxRuns = 2
    MaxConcurrent = 1
    Timeout = 1
    Lag = 0
    Deadline = 1
    MaxStops = 1
    QueueCap = 1
    MaxFires = 0
    MaxFaults = 1
PROPERTIES
    EveryStartedRunEnds
    EveryWaitingRunIsServed
