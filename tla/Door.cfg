\* Two conversations with one box, three things said or done, and a touch,
\* an answer or a lookup that fails.
SPECIFICATION DoorSpec
CONSTANTS
    Conversations = {c1, c2}
    Beat = 2
    Gap = 1
    Answer = 1
    Floor = 1
    IdleAfter = 10
    MaxWords = 3
    MaxTroubles = 1
INVARIANTS
    BusyBoxIsNotIdle
PROPERTIES
    ForgottenTabsLetItSleep
