SPECIFICATION Spec
CONSTANTS
    Ranks = {0, 1}
    LOWEST_GEAR = 2
    Slacks = {0, 300}
    Programs <- AllVersions
INVARIANTS
    TypeOK
    KnowsItsGear
PROPERTIES
    BusiestIsNotSlowed
    LongestSpeedsUp
    GearSettles
    BusiestReturnsToTop
CHECK_DEADLOCK FALSE
