SPECIFICATION FairSpec
CONSTANTS
    c1 = c1
    c2 = c2
    w1 = w1
    w2 = w2
    Clients = {c1, c2}
    Watchers = {w1, w2}
    Transitions <- MCPause
    Failures = FALSE
    Quiet = FALSE
    NoClient = NoClient
    Free = Free
    MaxGen = 1
    MaxChanges = 4
    MaxChunks = 1
PROPERTY PauseReturns
CHECK_DEADLOCK FALSE
