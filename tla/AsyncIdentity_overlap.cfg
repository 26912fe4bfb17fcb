SPECIFICATION FairSpec
CONSTANTS
    Goroutines = {g1, g2, g3}
    Patient = FALSE
    MaxChanges = 9
    None = None
INVARIANT FlagHasOwner
PROPERTY StartsAreEnded
CHECK_DEADLOCK FALSE
