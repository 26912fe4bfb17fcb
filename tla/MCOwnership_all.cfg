SPECIFICATION Spec
CONSTANTS
    o1 = o1
    o2 = o2
    t1 = t1
    t2 = t2
    NoObject = NoObject
    Objects = {o1, o2}
    Threads = {t1, t2}
    Uses <- MCMixed
    MaxRefs = 4
SYMMETRY MCSymmetry
INVARIANT BalancedAlive
INVARIANT BalancedFreed
