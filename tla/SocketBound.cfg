SPECIFICATION Spec
CONSTANTS
    APIC_IDS = 256
    Ranks = {0, 1, 2}
    CpuInfos <- Nodes
    Masks <- OwnCoresOrSocket
    Collapse = TRUE
    MASK_INTS = 1
    Slowest = 1
    Fastest = 0
    Programs = 2
INVARIANTS
    TypeOK
    FindsItsCore
    StartsInKnownGear
    EndsInFastestGear
    GovernedBeforeShifted
    IdleCoresSlow
    LostSemaphoreHoldsSocket
PROPERTIES
    EndsClean
