SPECIFICATION Spec
CONSTANTS
    Threads = {t1, t2}
    Demux = t1
    Duplex = "full"
INVARIANT NoFatalError
