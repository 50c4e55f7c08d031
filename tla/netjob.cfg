CONSTANTS
    t1 = t1
    t2 = t2
    t3 = t3
    Tasks <- TwoTasks
    Kinds = {"concurrent"}
    Limits <- OneOrTwoSlots
    MaxStarts = 2
    MaxAborts = 1
    MaxManual = 1
    MaxChanges = 1
SPECIFICATION NetFairSpec
INVARIANTS
    NoDownloadLost
PROPERTIES
    AllDownloaded
    EndsOrAsks
CHECK_DEADLOCK FALSE
