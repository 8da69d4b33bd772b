SPECIFICATION Spec
CONSTANTS
    Clients = {1, 2}
    numGears = 2
    Sites <- AllSites
INVARIANTS
    TypeOK
    LastSetWins
    FirstAnswersAreFresh
    OwnSocketTellsGear
PROPERTIES
    SetsOnlyWhatWasAsked
    CallsReturn
CHECK_DEADLOCK FALSE
