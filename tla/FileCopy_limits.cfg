SPECIFICATION Spec
CONSTANTS
    Files = {f1}
    MaxLength = 3
    BlockSize = 2
    Faults = {"shrink", "grow"}
    MaxStarts = 1
    MaxSeeks = 1
    None = None
INVARIANT RestartsWhenStopped
PROPERTY ImplementsCopy
CHECK_DEADLOCK FALSE
