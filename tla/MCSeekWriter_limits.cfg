SPECIFICATION Spec
CONSTANTS
    PartSize = 2
    MaxSize = 5
    Values <- MCValues
    Lengths <- MCLengths
    Gaps = TRUE
    Reuse = TRUE
    Failures = TRUE
    LateFailures = TRUE
    NoObject = NoObject
INVARIANT NothingMissing
PROPERTY ImplementsFile
CHECK_DEADLOCK FALSE
