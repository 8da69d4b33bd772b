SPECIFICATION Spec
CONSTANTS
    Ranks = {0, 1}
    LOWEST_GEAR = 1
    Slacks = {0, 300, 1000}
    Programs <- RebornOnly
PROPERTIES
    MispredictionSpeedsUp
CHECK_DEADLOCK FALSE
