SPECIFICATION Spec
CONSTANTS
    Ids = {1, 2, 3}
    Query <- NoCopies
    Wall <- AllWalls
    FailedIds = {1, 3}
    Skew <- AllSkews
    DayLength = 2
    Width = 2
    MaxTime = 3
    MaxPages = 4
    ListTTL = 2
    Views <- DefaultView
    Clients = {"cli"}
    Limits = {1}
    CliMaxLimit = 3
    apiDefaultLimit = 2
    apiMaxLimit = 2
    apiMaxOffset = 1
    uiLimit = 1
    maxUIPages = 2
    defaultListLimit = 2
    maxListLimit = 3
INVARIANTS
    NextLeadsOn
CHECK_DEADLOCK FALSE
