SPECIFICATION Spec
CONSTANTS
    None = None
    Threads = {t1, t2}
    Callbacks = {c1, c2}
    Addresses = {a1, a2}
    Kinds = {"probe"}
    Slips = {}
    ThreadCached = FALSE
    MaxDepth = 2
INVARIANT NeverPanics
CHECK_DEADLOCK FALSE
