CONSTANTS
    a = a
    aOff = aOff
    aDup = aDup
    aDup2 = aDup2
    b = b
    Order <- MCOrder
    Spares <- MCSpares
    Toggled <- MCToggled
    Present = {a}
    Given = {a, aOff, b}
    MaxConcurrent = 2
    MaxChanges = 2
    MaxSwitches = 2
SPECIFICATION FolderFairSpec
INVARIANTS
    ListIsTrue
    DetailsAreTrue
PROPERTIES
    FolderSettles
CHECK_DEADLOCK FALSE
