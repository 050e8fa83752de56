SPECIFICATION FairSpec
CONSTANTS
    c1 = c1
    c2 = c2
    c3 = c3
    Clients = {c1, c2, c3}
    Programs <- MCPrograms
    Chunk = 4
    Nil = nil
INVARIANTS ListIsQueue ToldIsTrue
PROPERTY EveryCallReturns
CHECK_DEADLOCK FALSE
