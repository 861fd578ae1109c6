SPECIFICATION Spec
CONSTANTS
    Fields <- MCFields
    Values <- MCValues
    Removed = "Removed"
    Original <- MCOriginal
    Fixtures <- MCFixtures
    Scope <- MCScope
    Patch <- MCPatch
    Want <- MCWant
    Careful = {"kueue", "llama", "headed", "graph"}
    Waits <- MCWaits
    WaitsAfter = {"controller", "subscription"}
    Requests <- MCRequests
    None = None
    MaxTests = 3
INVARIANT NoFalsePositive
CHECK_DEADLOCK FALSE
