SPECIFICATION Spec
CONSTANTS
    Threads = {t1, t2}
    Kind = "https"
    Calls = {"recv", "send", "shutdown"}
    MaxStarts = 4
CHECK_DEADLOCK FALSE
INVARIANT AssertHolds
