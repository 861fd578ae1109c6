SPECIFICATION SessionSpec
CONSTANTS
    Workers = {w1, w2}
    Spares = {s1}
    Controller = c
    Nobody = Nobody
    Tests <- MCTests
    Modes = {"raw", "serverless"}
    Options <- MCOptions
    Loggers = {"root", "basic", "pkg", "pkg.mod"}
    Root = "root"
    Basic = "basic"
    Chain <- MCChain
    Messages = {"m", "odd", "secret"}
    Unpicklable = {"odd"}
    Unloadable = {"secret"}
    MaxRecords = 2
INVARIANTS
    LossNeedsReplacement
    UnknownNeedsFinisher
    ControllerIsUndisturbed
    RecordsWrittenOnce
CHECK_DEADLOCK FALSE
