SPECIFICATION SharedSpec
CONSTANTS
    Procs = {1, 2, 3}
    Workers = {1, 2, 3}
    Probes = {2}
    Unasked = Unasked
    MaxRefused = 1
    Kinds = {"object", "secret", "configmap", "gateway", "operator", "dsc", "namespace", "project"}
    Values = {"a", "b"}
    Data <- MCData
    Found = Found
    Absent = Absent
    Nothing = Nothing
INVARIANTS
    LeftoverNeedsCause
    CreatorKeepsIt
    UserNeedsOneSwitchAtATime
PROPERTIES
    FoundIsNotRemoved
CHECK_DEADLOCK FALSE
