CONSTANTS
    a = a
    b = b
    c = c
    red = red
    blue = blue
    s1 = s1
    Ids = {a, b, c}
    Groups = {red, blue}
    Stagings = {s1}
    FirstDirs <- MCFirstDirs
    Files <- MCFiles
    MaxBackoff = 2
    MaxActs = 2
    MaxUpsets = 1
SPECIFICATION FairSpec
INVARIANTS
    InstancesAreListed
    GroupsAreKept
PROPERTIES
    EveryStagingEnds
CHECK_DEADLOCK FALSE
