SPECIFICATION Spec
CONSTANTS
    c1 = c1
    c2 = c2
    w1 = w1
    w2 = w2
    Clients = {c1, c2}
    Watchers = {w1, w2}
    Transitions <- MCAll
    Failures = FALSE
    Quiet = FALSE
    NoClient = NoClient
    Free = Free
    MaxGen = 2
    MaxChanges = 10
    MaxChunks = 1
INVARIANTS PadOnElement NeverCrashes OneClient OneStream PlayingServes
CHECK_DEADLOCK FALSE
