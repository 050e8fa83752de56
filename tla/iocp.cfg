SPECIFICATION FairSpec
CONSTANTS
    t1 = t1
    t2 = t2
    a = a
    b = b
    Threads = {t1, t2}
    Outsiders = {main}
    Ops = {a, b}
    Programs <- MCPrograms
    MaxParts = 2
    Null = null
INVARIANTS CompletedAlone WorkAccounting
PROPERTY OperationsComplete
CHECK_DEADLOCK FALSE
