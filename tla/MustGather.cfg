SPECIFICATION Spec
CONSTANTS
    Items <- MCItems
    Names = {"route", "other"}
    Places = {"a", "b"}
    PlaceOf <- MCPlaceOf
    NameOf <- MCNameOf
    SkipMarked = {}
    Instants = {1, 9}
    MaxSessions = 2
INVARIANTS
    DirIsTheItems
    WindowCoversTest
    BundleIsItsTests
PROPERTY ItemBundlesKept
CHECK_DEADLOCK FALSE
