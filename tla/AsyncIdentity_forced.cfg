SPECIFICATION Spec
CONSTANTS
    Goroutines = {g1, g2}
    Patient = FALSE
    MaxChanges = 7
    None = None
PROPERTY ForcedIsAsync
PROPERTY AsyncIsEnded
CHECK_DEADLOCK FALSE
