SPECIFICATION Spec
CONSTANTS
    Users = {author, ann, Bob}
    Author = author
    Members = {author, ann, Bob}
    MixedCase = {Bob}
    Nobody = Nobody
    PlainCommands = {"verified"}
    Bodies <- FewBodies
    WelcomeBody <- MCWelcome
    RepoLabels <- MCRepoLabels
    Slots = {s1, s2}
    MaxEvents = 3
INVARIANT CancelRemovesLabel
CHECK_DEADLOCK FALSE
