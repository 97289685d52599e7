\* Models: two calls of one agent and one of another under an org's budget, which
\* is set, replaced or removed once; a new day; one fault.
\* Tools: two calls at once, two sign-ins by one of two people, an access token
\* that stops working, an entry that moves once and one call that fails.
\* A call is made once, so the system may stop: no deadlock check.
CONSTANTS
    c1 = c1  c2 = c2  c3 = c3
    busy = busy  other = other  org = org
    Calls = {c1, c2, c3}
    Boxes = {busy, other}
    BoxOf <- MCBoxOf
    Wants <- MCWants
    Budgets = {org}
    Covers <- MCCovers
    Models = {0, 1}
    Unknown = Unknown
    None = None
    MaxLimit = 1
    MaxDay = 1
    MaxEdits = 1
    MaxFaults = 1
    People = {p1, p2}
    Addresses = {a1, a2}
    Tools = {c1, c2}
    Desks = {d1}
    MaxSignIns = 2
    MaxAgeings = 1
    MaxMoves = 1
    MaxTroubles = 1
    MaxTurns = 2
    MaxUpsets = 3
SPECIFICATION MCSpec
SYMMETRY Symmetry
INVARIANTS
    OverrunIsBounded
    BilledOnce
    SignInsAreKept
    SentWhereItIsFor
CHECK_DEADLOCK FALSE
