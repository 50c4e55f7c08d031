CONSTANTS
    LaunchOptions <- Mixed
    MaxLaunches = 3
    MaxAborts = 3
SPECIFICATION Spec
INVARIANTS
    GameKeepsWhatItNeeds
    NoSessionLost
    AbortIsFinal
CHECK_DEADLOCK FALSE
