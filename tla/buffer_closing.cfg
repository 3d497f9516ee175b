SPECIFICATION Spec
CONSTANTS
    Row <- OneRow
    BufferCapacity = 1
    BatchSize = 1
    MaxRetries = 0
INVARIANTS
    ClosingRowsAreCounted
