CONSTANTS
    import = import
    install = install
    launch = launch
    refresh = refresh
    instances = instances
    instanceA = instanceA
    interactive = interactive
    account = account
    Ids <- FourIds
    Keys <- FourKeys
    High <- LaunchIsHigh
    Unchecked <- ImportIsUnchecked
    MaxActive = 2
    Writes <- OperationWrites
    Retry <- NoRetry
    MaxRecords = 3
    JournalSize = 3
    MaxRestarts = 0
SPECIFICATION Spec
INVARIANTS
    WritesQueueUp
CHECK_DEADLOCK FALSE
