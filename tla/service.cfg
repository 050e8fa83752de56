SPECIFICATION FairSpec
CONSTANTS
    Threads = {t1, t2}
    Outsiders = {main}
    Ops = {a, b}
    Null = null
    Usages = {"single", "rerun", "open"}
    ExplicitStop = TRUE
    SyscallMayFail = TRUE
INVARIANTS
    TypeOK
    WorkAccounting
    OneOwner
    NothingDropped
    OneDispatcher
    OneInterrupt
    ZeroIsFinal
PROPERTIES
    ImplementsCompletionPort
    StopReachesEveryThread
    QueuedIsServed
    DrainedServiceStops
    PollingContinues
CHECK_DEADLOCK FALSE
