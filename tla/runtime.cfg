CONSTANTS
    import = import
    install = install
    launch = launch
    refresh = refresh
    instances = instances
    instanceA = instanceA
    interactive = interactive
    account = account
    Ids <- FourIds
    Keys <- FourKeys
    High <- LaunchIsHigh
    Unchecked <- ImportIsUnchecked
    MaxActive = 2
    Writes <- OperationWrites
    Retry <- OneKeyTwice
    MaxRecords = 2
    JournalSize = 1
    MaxRestarts = 1
SPECIFICATION FairSpec
INVARIANTS
    LeasesExclusive
    NoIdleSlot
    OneTaskPerKey
PROPERTIES
    StartedOnceOrNever
    LeaseSpec
    EndSurvives
    EveryTaskEnds
CHECK_DEADLOCK FALSE
