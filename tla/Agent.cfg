\* Making: two agents one after another, of two names, two requests at once, one
\* fault.  Files: one server, two texts, two requests or threads at once and four in all;
\* two moves of the box, one command that fails or one crash.
\* Environment: two models, two sizes, two requests or threads at once and three in
\* all; two changes made elsewhere or events gone stale, one failed write or crash.
\* Requests run out, so the system may stop: no deadlock check.
CONSTANTS
    Servers = {crm}
    Names = {n1}
    Texts = {t1}
    Workers = {w1, w2}
    None = None
    MaxRequests = 4
    MaxMoves = 2
    MaxTroubles = 1
    Models = {m1, m2}
    First = m1
    Sizes = {s1, s2}
    Least = s1
    EnvRequests = 3
    EnvMoves = 2
    EnvTroubles = 1
    MaxUpsets = 5
    EnvUpsets = 4
    MaxBoxes = 2
    Identities = {n2, n3}
    MaxMachines = 2
    MaxFaults = 1
SPECIFICATION MCSpec
CONSTRAINT Owned
SYMMETRY Symmetry
INVARIANTS
    ServersAreFound
    ShownIsFollowed
    AgentIsAsRecorded
    MachinesAreTheirs
PROPERTIES
    DestroysItsOwn
CHECK_DEADLOCK FALSE
