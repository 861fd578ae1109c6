SPECIFICATION Spec
CONSTANTS
    Users = {author, ann}
    Author = author
    Members = {author, ann}
    MixedCase = {}
    Nobody = Nobody
    PlainCommands = {"verified"}
    Bodies <- FewBodies
    WelcomeBody <- MCWelcome
    RepoLabels <- MCRepoLabels
    Slots = {s1, s2}
    MaxEvents = 3
INVARIANT CancelRevokesApproval
CHECK_DEADLOCK FALSE
