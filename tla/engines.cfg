CONSTANTS
    library = library
    asset = asset
    Downloads = {library}
    Mirrors = {library}
    MaxAttempts = 3
    MaxRestartAttempts = 1
    MaxGids = 2
    MaxUpsets = 2
    MaxTasks = 2
SPECIFICATION FairSpec
INVARIANTS
    WaitsAreWatched
    EndsOnce
    SilenceExplained
PROPERTIES
    EveryDownloadEnds
CHECK_DEADLOCK FALSE
