SPECIFICATION Spec
CONSTANTS
    Writers = {basic, auth, metrics}
    Attempts = 5
INVARIANT NoEntryDropped
CHECK_DEADLOCK FALSE
