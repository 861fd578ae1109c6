SPECIFICATION SizeSpec
CONSTANTS
    Sizes = {0, 20, 21, 50, 51, 100, 101, 300, 301, 1000, 1001}
    MaxPushes = 3
INVARIANTS
    AtMostOneSizeLabel
PROPERTY SettlesOnItsSize
CHECK_DEADLOCK FALSE
