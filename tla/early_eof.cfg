SPECIFICATION Spec
CONSTANTS
    c1 = c1
    c2 = c2
    c3 = c3
    Clients = {c1, c2, c3}
    Programs <- EarlyEofPrograms
    Chunk = 4
    Nil = nil
INVARIANT EofEndsTheLines
CHECK_DEADLOCK FALSE
