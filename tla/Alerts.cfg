\* Two control planes, one threshold, a webhook that may move,
\* be removed and come back; two tries; one crash.
CONSTANTS
    Planes = {p1, p2}
    Events = {e1}
    Urls = {u1, u2}
    None = None
    MaxAttempts = 2
    MaxMoves = 2
    MaxFaults = 1
SPECIFICATION FairSpec
INVARIANTS
    GivenUpAfterEveryTry
PROPERTIES PromiseKept
