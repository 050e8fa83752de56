SPECIFICATION FairSpec
CONSTANTS
    Threads = {t1, t2}
    Demux = t1
    Duplex = "lone"
INVARIANTS
    TypeOK
    MasksAgree
    NoFatalError
    CountedFirst
    OneCompletion
PROPERTY ReadyIsServed
