SPECIFICATION Spec
CONSTANTS
    Limits <- MCLimits
    HighWaterMarks = {1, 9}
    MaxRows = 5
    MaxBatch = 3
    MaxEmpty = 1
INVARIANTS
    LimitRespected
