SPECIFICATION FairSpec
CONSTANTS
    Pool = {t1}
    Main = main
    Loggers = {f}
    NULL = NULL
    Levels <- MCLevels
    BatchLengths = {0, 1}
    BufferLengths = {1}
    MaxLogs = 4
    MaxFlushes = 1
    MaxRegisters = 2
INVARIANTS
    TypeOK
    QueueBounded
    LossIsAnnounced
    WakeUpPending
PROPERTIES
    ImplementsLossyLog
    Drained
\* the program may stop calling, and the process ends
CHECK_DEADLOCK FALSE
