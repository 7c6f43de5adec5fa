CONSTANTS
    Threads = 2
    MaxIterators = 2
    Closes = {c1, c2}
    BatchRows = 2
    NULL = NULL
    HighWaterMarks <- EitherMark
SPECIFICATION Spec
SYMMETRY CloseSymmetry
INVARIANTS
    TypeOK
    WorkerInOnePlace
    EndedMeansEnding
    EndNeverOvertakesRead
    PendingCloseIsWaiting
    CloseWaitsForIterators
    NoCallIsLost
PROPERTIES
    StrandedForever
    ImplementsContract
\* the program may stop calling: an idle event loop is no deadlock
CHECK_DEADLOCK FALSE
