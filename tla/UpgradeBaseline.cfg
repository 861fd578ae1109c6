SPECIFICATION Spec
CONSTANTS
    Writers = {basic, auth, metrics, car}
    Attempts = 2
INVARIANTS
    LossNeedsSplitRead
    GivesUpAfterOthers
PROPERTY EveryWriterEnds
CHECK_DEADLOCK FALSE
