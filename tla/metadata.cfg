CONSTANTS
    meta = meta
    minecraft = minecraft
    v1 = v1
    a = a
    b = b
    None = None
    Offline <- LastOffline
    Index <- meta
    Versions = {v1}
    ListOf <- OneList
    Jobs = {a, b}
    MaxRev = 2
    MaxAborts = 1
    MaxDamaged = 1
SPECIFICATION FairSpec
INVARIANTS
    LoadedIsCurrent
PROPERTIES
    EveryLoadEnds
CHECK_DEADLOCK FALSE
