SPECIFICATION Spec
CONSTANTS
    QueryIds = {q1, q2, q3}
    MaxLength = 5
    Rows <- NumberedRows
    Batches <- AllBatches
INVARIANTS
    LoopIsDedupe
