CONSTANTS
    Holders = {h1, h2}
    Objects = {o}
    Structures = {s}
    Memory = {m}
    Threads = {t1, t2}
    Rows <- MCRows
    Divergent <- MCDivergent
    Careful = TRUE
    NoItem = NoItem
    MaxClaims = 2
SPECIFICATION Spec
SYMMETRY MCSymmetry
INVARIANTS AliveWhileClaimed FreedWhenUnclaimed CallsSafe KeptLoansValid
