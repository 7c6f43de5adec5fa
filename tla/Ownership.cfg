SPECIFICATION Spec
CONSTANTS
    Calls = {c1}
    Buffers = {b1}
    Iterators = {i1}
    Contents = {empty, x, y}
    EMPTY = empty
    NULL = NULL
INVARIANTS
    TypeOK
    ArgumentsAlive
    FreedOnce
    LeaksAreKnown
    OnlyBuffersAreReadLate
    EndedIteratorsLeave
\* the program may stop calling
CHECK_DEADLOCK FALSE
