SPECIFICATION Spec
CONSTANTS
    None = None
    Threads = {t1, t2}
    Callbacks = {c1, c2}
    Addresses = {a1, a2}
    Kinds = {"watch", "clock", "private", "collect"}
    Slips = {"second watch", "second wait", "early free"}
    ThreadCached = TRUE
    MaxDepth = 2
INVARIANTS NeverPanics NothingForgotten
CHECK_DEADLOCK FALSE
