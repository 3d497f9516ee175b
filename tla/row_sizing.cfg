SPECIFICATION Spec
CONSTANTS
    TextBytes = 6
    PlanBytes = 7
    MaxParts = 3
    MaxTicks = 1000
    Bits = 12
    Millisecond = 10
    Second = 100
    Minute = 200
    Hour = 400
    Day = 800
    Events <- AllEvents
    Capture = "slow_or_failed"
    MinWall = 200
    MaxField = 5
    SmallField = 3
    PreviewBytes = 3
    Radix = 6
    Framing = 2
    Budget = 7
    ClampMaxIterations = 9
INVARIANTS
    FieldsValidAndCapped
    WallTimeToTheMillisecond
    SlowPlansKept
    PreviewOfWholeText
    ClampFits
    EarlierFieldsFirst
