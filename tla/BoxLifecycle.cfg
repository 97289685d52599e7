\* One request beside one reconcile loop, one fault: what must happen, and
\* what no step may do.  The budget of the box pauses it or kills.
CONSTANTS
    Clients = {c1}
    Sweepers = {s1}
    Stopping = {"pause", "kill"}
    MaxFaults = 1
SPECIFICATION FairSpec
PROPERTIES
    EndpointsCloseClean
    ProvisionSettles
    HeldBoxIsPaused
    KillStopsTheMachine
