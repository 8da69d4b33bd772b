SPECIFICATION Spec
CONSTANTS
    APIC_IDS = 256
    Ranks = {0, 1, 2}
    CpuInfos <- OneNode
    Masks <- AnyCore
    Collapse = FALSE
    MASK_INTS = 32
    Slowest = 1
    Fastest = 0
    Programs = 1
INVARIANTS
    StartsInKnownGear
