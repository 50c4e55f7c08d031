CONSTANTS
    a = a
    b = b
    Loaded = Loaded
    None = None
    Requests = {a, b}
    Mirrors = {a}
    AcceptLocal = {b}
    MaxRetries = 2
    MaxRev = 2
    MaxRedirects = 1
    MaxChanges = 1
    MaxStops = 1
SPECIFICATION FairSpec
INVARIANTS
    HitIsTrue
    AbortSticks
PROPERTIES
    EveryRequestEnds
CHECK_DEADLOCK FALSE
