SPECIFICATION Spec
CONSTANTS
    c1 = c1
    c2 = c2
    w1 = w1
    w2 = w2
    Clients = {c1, c2}
    Watchers = {w1, w2}
    Transitions <- MCAll
    Failures = TRUE
    Quiet = FALSE
    NoClient = NoClient
    Free = Free
    MaxGen = 2
    MaxChanges = 12
    MaxChunks = 2
SYMMETRY MCSymmetry
INVARIANT AtMostOneWatcher
INVARIANT InOrder
CHECK_DEADLOCK FALSE
