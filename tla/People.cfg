\* Accounts: the default org and an agency, two people, two links, a request that
\* redeems and two of administrators, three times at most; one trouble, four in all.
\* GitHub: one desk, one refresh beside another; two people with an account each or
\* one account, two installations of it; two clients; three links, claims and
\* failures together.
\* Links run out, so the system may stop: no deadlock check.
CONSTANTS
    ann = ann  bob = bob  home = home  agency = agency
    People = {ann, bob}
    Orgs = {home, agency}
    Home = home
    Founders <- MCFounders
    Offered = {"owner", "member"}
    Clicks = {k1}
    Desks = {d1, d2}
    k1 = k1  d1 = d1  d2 = d2
    None = None
    MaxLinks = 2
    MaxSessions = 2
    MaxRequests = 3
    MaxTroubles = 1
    Tenants = {fleet, client}
    Operator = fleet
    Clients = {c1, c2}
    Persons = {p1, p2}
    Staff = {p1, p2}
    FleetOwner = boss
    Handles = {a1, a2}
    MaxInstalls = 2
    MaxClaims = 2
    Hands = {h1}
    Threads = {d1, d2}
    MaxFailures = 1
    MaxUpsets = 3
    MaxChanges = 4
SPECIFICATION MCSpec
SYMMETRY Symmetry
INVARIANTS
    ConnectionsAreTheirs
    SessionsOfMembers
PROPERTIES
    RemovedStaysOut
    TokensAreTheirs
CHECK_DEADLOCK FALSE
