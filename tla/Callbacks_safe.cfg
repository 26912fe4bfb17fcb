SPECIFICATION FairSpec
CONSTANTS
    None = None
    Threads = {t1, t2}
    Callbacks = {c1, c2}
    Addresses = {a1, a2}
    Kinds <- AllKinds
    Slips = {"second watch", "second wait", "never called"}
    ThreadCached = TRUE
    MaxDepth = 2
INVARIANT LiveWhileCallable
INVARIANT NeverPanics
INVARIANT NothingLost
INVARIANT ProfileNamesProbes
PROPERTY RemovedIsReleased
CHECK_DEADLOCK FALSE
