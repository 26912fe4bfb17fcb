SPECIFICATION FairSpec
CONSTANTS
    a1 = a1
    a2 = a2
    q1 = q1
    q2 = q2
    q3 = q3
    s1 = s1
    s2 = s2
    s3 = s3
    None = None
    Awaiters = {a1, a2}
    Producers = {q1, q2, q3}
    Structs = {s1, s2, s3}
    GoAnswers = {s3}
    Sharers = {q3}
    Bare = {q2, q3}
INVARIANT NeverPanics
INVARIANT WaitNeverBlocks
INVARIANT InUseAlive
INVARIANT ReplyAccessible
INVARIANT FreedOnce
INVARIANT NoLeak
PROPERTY ImplementsFuture
PROPERTY AwaitReturns
CHECK_DEADLOCK FALSE
