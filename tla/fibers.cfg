SPECIFICATION FairSpec
CONSTANTS
    Threads = {t1, t2, t3}
    Acceptor = acceptor
    Servers = {s1}
    Clients = {k}
    Nobody = nobody
    MaxCalls = 2
CHECK_DEADLOCK FALSE
INVARIANTS
    TypeOK
    OneStack
    CompletionFindsFiber
PROPERTY CallReturns
