SPECIFICATION Spec
CONSTANTS
    Clients = {1, 2}
    numGears = 2
    Sites <- Lone
INVARIANTS
    QueryTellsGear
CHECK_DEADLOCK FALSE
