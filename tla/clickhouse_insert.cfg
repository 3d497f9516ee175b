SPECIFICATION Spec
CONSTANTS
    Rows = 3
    Flushes = 2
    MaxSize = 3
    Budget = 3
    Inputs <- AllInputs
    MaxRetries = 2
    Window = 6
INVARIANTS
    ReplaysAreDropped
    CommittedIsWritten
    NewestIsShown
