SPECIFICATION FairSpec
CONSTANTS
    Threads = {t1, t2, t3}
    Kind = "https"
    Calls = {"recv", "send", "close"}
    MaxStarts = 3
CHECK_DEADLOCK FALSE
INVARIANTS
    TypeOK
    RefCounts
    DeletedIsUnused
    LastIsAlone
PROPERTIES
    ContextGoes
