SPECIFICATION Spec
CONSTANTS
    NumFreqs = 3
    Freq <- ThreeGears
    HistEntries = 3
    MinComp = 2
    MinComm = 2
    BlockingBuffer = 2
    Works = {12, 24}
    Arrivals = {3, 6, 8, 11}
INVARIANTS
    SlowedArrivesInTime
PROPERTIES
    GearSettles
