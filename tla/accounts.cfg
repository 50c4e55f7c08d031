CONSTANTS
    a1 = a1
    a2 = a2
    a3 = a3
    NoAccount = NoAccount
    AbortedFlow = AbortedFlow
    Accounts <- ThreeAccounts
    Loaded <- TwoAccounts
    ProfileOf <- SharedProfile
    Owners <- AllButSecond
    Outcomes = {"Online", "Offline", "Expired"}
    Acts = {"request", "prepare", "refresh", "login", "abort", "remove", "default", "launch"}
    MaxActs = 2
SPECIFICATION FairSpec
INVARIANTS
    ListConsistent
    ActivityCoversBusy
    StatesAreTrue
PROPERTIES
    QueueServed
CHECK_DEADLOCK FALSE
