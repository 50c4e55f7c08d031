CONSTANTS
    MaxTasks = 4
    MaxLaunches = 3
SPECIFICATION ServerFairSpec
INVARIANTS
    ServerIsKept
PROPERTIES
    EndIsNoticed
CHECK_DEADLOCK FALSE
