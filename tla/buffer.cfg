SPECIFICATION FairSpec
CONSTANTS
    Row <- ThreeRows
    BufferCapacity = 1
    BatchSize = 2
    MaxRetries = 1
INVARIANTS
    TypeOK
    NothingLeftBehind
    DuplicatesOnlyAfterLostAck
    AtMostOneCopyPerAttempt
    SupersededByNewer
    CountersBalance
PROPERTIES
    SettledIsFinal
    RefinesLifecycle
    CloseReturns
    AcceptedRowsSettle
