SPECIFICATION LoopSpec
CONSTANTS
    Rows = 5
    MaxSize = 4
    Budget = 3
    Inputs <- AllInputs
INVARIANTS
    Contiguous
    ChunksAreGreedy
