SPECIFICATION Spec
CONSTANTS
    Unset = Unset
    Nothing = Nothing
    Requests <- MCRequests
    Budget = 2
    DeletionWait = 3
    Pods = {1, 2}
    MaxReplicas = 2
    Disturbances = 1
    Answer <- MCAnswer
    ErrorMessage = "error"
INVARIANTS
    QuietClusterIsHealthy
    BudgetKept
    StreamedAnswerIsWhole
    ExposureAsAsked
PROPERTIES
    YieldsWhatWasSeen
    SetupEnds
CHECK_DEADLOCK FALSE
