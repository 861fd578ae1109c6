SPECIFICATION Spec
CONSTANTS
    Users = {author, ann, Bob}
    Author = author
    Members = {author, ann}
    MixedCase = {Bob}
    Nobody = Nobody
    PlainCommands = {"verified"}
    Bodies <- MCBodies
    WelcomeBody <- MCWelcome
    RepoLabels <- MCRepoLabels
    Slots = {s1, s2}
    MaxEvents = 3
INVARIANTS
    LabelsWereAsked
    ApprovalWasAsked
    CrashNeedsDisturbance
    UndisturbedRunIsAtomic
    LgtmIsApproved
SYMMETRY SlotSymmetry
CHECK_DEADLOCK FALSE
