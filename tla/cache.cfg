SPECIFICATION Spec
CONSTANTS
    Readers = {r1, r2}
    TTL = 3
    Second = 2
    Latency = 1
    MaxTime = 5
SYMMETRY Symmetry
INVARIANTS
    ListFromItsBucket
    BoundedStaleness
    ExitCodeTells
