SPECIFICATION Spec
CONSTANTS
    Ids = {1, 2, 3}
    Query <- Copies
    Wall <- AllWalls
    FailedIds = {2, 3}
    Skew <- AllSkews
    DayLength = 2
    Width = 2
    MaxTime = 3
    MaxPages = 3
    ListTTL = 2
    Views <- AllViews
    Clients = {"cli", "ui"}
    Limits = {3}
    CliMaxLimit = 3
    apiDefaultLimit = 2
    apiMaxLimit = 2
    apiMaxOffset = 2
    uiLimit = 1
    maxUIPages = 2
    defaultListLimit = 2
    maxListLimit = 3
INVARIANTS
    NoRowPassedOver
    LastPageIsLast
    NextLeadsOn
    EveryRowOpens
CHECK_DEADLOCK FALSE
