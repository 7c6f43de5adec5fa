SPECIFICATION FairSpec
CONSTANTS
    Limits <- MCLimits
    HighWaterMarks = {0, 1, 2, 9}
    MaxRows = 6
    MaxBatch = 3
    MaxEmpty = 1
INVARIANTS
    TypeOK
    RowsInOrder
    RowsAccounted
    EndMeansEnd
PROPERTIES
    ErrorIsFinal
    ImplementsCursor
    NextReturns
