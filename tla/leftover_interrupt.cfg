SPECIFICATION Spec
CONSTANTS
    Threads = {t1}
    Outsiders = {main}
    Ops = {a, b}
    Null = null
    Usages = {"rerun"}
    ExplicitStop = FALSE
    SyscallMayFail = FALSE
INVARIANT LeftoverInterruptsIgnored
CHECK_DEADLOCK FALSE
