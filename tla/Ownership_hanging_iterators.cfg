SPECIFICATION Spec
CONSTANTS
    Calls = {c1}
    Buffers = {b1}
    Iterators = {i1}
    Contents = {empty, x}
    EMPTY = empty
    NULL = NULL
INVARIANTS
    HangingIteratorsSurvive
CHECK_DEADLOCK FALSE
