SPECIFICATION FairSpec
CONSTANTS
    Files = {f1, f2}
    MaxLength = 4
    BlockSize = 2
    Faults = {"shrink", "write", "seek", "close"}
    MaxStarts = 2
    MaxSeeks = 1
    None = None
INVARIANT EosMeansComplete
PROPERTY ImplementsCopy
PROPERTY StreamEnds
CHECK_DEADLOCK FALSE
