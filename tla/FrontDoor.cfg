\* Access: one person, two agents of two clients and an agent after them, one
\* credential at a time.  Talk: the agency's socket and a client's, two sessions,
\* one approval, a frame each way.
\* Questions and agents run out, so the system may stop: no deadlock check.
CONSTANTS
    a1 = a1  a2 = a2  k1 = k1  k2 = k2  s1 = s1  s2 = s2
    People = {p}
    Roles = {"member", "client_user"}
    Addresses = {a1, a2}
    Clients = {k1, k2}
    ClientOf <- MCClientOf
    Ports = {n1, n2}
    MaxBoxes = 2
    MaxCredentials = 1
    TicketTtl = 2
    TokenTtl = 3
    Sockets = {s}
    None = None
    Gates = {s1, s2}
    TicketsOf <- MCTicketsOf
    MaxSessions = 2
    MaxAsks = 1
    MaxFrames = 1
    MaxForgotten = 1
SPECIFICATION MCSpec
SYMMETRY Symmetry
INVARIANTS
    ClientsStayApart
PROPERTIES
    WakesItsOwn
    
CHECK_DEADLOCK FALSE
