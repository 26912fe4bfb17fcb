SPECIFICATION Spec
CONSTANTS
    p1 = p1
    p2 = p2
    k1 = k1
    k2 = k2
    f1 = f1
    f2 = f2
    i1 = i1
    i2 = i2
    i3 = i3
    i4 = i4
    t1 = t1
    t2 = t2
    None = None
    Pads = {p1}
    Kinds = {k1}
    Funcs = {f1, f2}
    Infos = {i1, i2, i3}
    Threads = {t1}
    Replaceable = {k1}
    Serialised = TRUE
SYMMETRY MCSymmetry
INVARIANT NeverPanics
CHECK_DEADLOCK FALSE
