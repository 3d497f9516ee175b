SPECIFICATION Spec
CONSTANTS
    Ids = {a, b}
    Pruners = {p1, p2}
    RetentionDays = 1
    OptimizeDays = 1
    MaintainRetention = 1
    DayLength = 2
    MaxTime = 6
    JobLength = 1
SYMMETRY Symmetry
INVARIANTS
    SuccessIsComplete
    MaintainedIsClean
    JobsAreDisjoint
PROPERTIES
    RetainedRowsSurvive
