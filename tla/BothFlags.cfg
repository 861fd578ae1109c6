SPECIFICATION Spec
CONSTANTS
    Services <- MCServices
    Resources <- MCResources
    Needs <- MCNeeds
    Within <- MCWithin
    Stack <- MCStack
    Home = "home"
    New = {"new"}
    Adopts = {"gateway"}
    Baselined = {"isvc", "auth"}
    Tests <- MCTests
    Order <- MCOrder
    NoTest = NoTest
    MaxSessions = 3
    MaxFaults = 2
INVARIANT PreTestsHaveTheirService
CHECK_DEADLOCK FALSE
