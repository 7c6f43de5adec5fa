CONSTANTS
    Threads = 1
    MaxIterators = 2
    Closes = {c1, c2}
    BatchRows = 1
    NULL = NULL
    HighWaterMarks <- OneOfEach
SPECIFICATION FairSpec
PROPERTIES
    NextReturns
    EndReturnsUnlessStranded
    CloseReturnsUnlessBlocked
\* the program may stop calling: an idle event loop is no deadlock
CHECK_DEADLOCK FALSE
