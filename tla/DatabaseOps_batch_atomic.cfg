SPECIFICATION Spec
CONSTANTS
    Calls = {c1}
    Keys = {k1, k2}
    Values = {v1, empty}
    Empty = empty
    MaxOps = 2
    NULL = NULL
    NoRow = NoRow
INVARIANT BatchIsAtomic
CHECK_DEADLOCK FALSE
