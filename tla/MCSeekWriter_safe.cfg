SPECIFICATION Spec
CONSTANTS
    PartSize = 2
    MaxSize = 5
    Values <- MCValues
    Lengths <- MCLengths
    Gaps = FALSE
    Reuse = FALSE
    Failures = TRUE
    LateFailures = FALSE
    NoObject = NoObject
INVARIANT UploadsStored
INVARIANT OnlyLastShort
INVARIANT NothingMissing
PROPERTY ImplementsFile
CHECK_DEADLOCK FALSE
