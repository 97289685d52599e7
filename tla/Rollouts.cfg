\* Two agents and a third made meanwhile, two updates, one failure or crash,
\* and two agents upgraded singly or destroyed.
SPECIFICATION RollSpec
CONSTANTS
    Boxes = {1, 2, 3}
    Made = {1, 2}
    Refs = {r1, r2}
    First = r1
    Builds = {1, 2}
    MaxMishaps = 1
    MaxMoves = 1
INVARIANTS
    DoneMeansMoved
PROPERTY
    UpdatesGiveWay
CHECK_DEADLOCK FALSE
