SPECIFICATION Spec
CONSTANTS
    Calls = {c1, c2}
    Keys = {k1, k2}
    Values = {v1, empty}
    Empty = empty
    MaxOps = 2
    NULL = NULL
    NoRow = NoRow
SYMMETRY MCSymmetry
INVARIANTS
    TypeOK
    AckedWritesSucceeded
    AckedMeansOpened
    LastOfBatchWins
    GetReturnsWhatWasAsked
PROPERTY ImplementsContract
\* every call may have returned: only open() is left then
CHECK_DEADLOCK FALSE
