SPECIFICATION Spec
CONSTANTS
    a1 = a1
    a2 = a2
    q1 = q1
    q2 = q2
    q3 = q3
    s1 = s1
    s2 = s2
    s3 = s3
    None = None
    Awaiters = {a1}
    Producers = {q1}
    Structs = {s1}
    GoAnswers = {s1}
    Sharers = {}
    Bare = {}
SYMMETRY MCSymmetry
INVARIANT AnswersFreedOnce
CHECK_DEADLOCK FALSE
