SPECIFICATION Spec
CONSTANTS
    NumFreqs = 3
    Freq <- PlainFreqs
    HistEntries = 1
    MinComp = 2
    MinComm = 2
    BlockingBuffer = 2
    Hashes = {0, 1}
    Sites = {0, 1}
    CompTimes = {2, 4}
    CommTimes = {1, 4}
    EpochTime = 99
    AlgoWords = {{"adagio"}}
    ModWords = {{}}
    TraceWords = {{}}
    FreqArgs = {}
    BindArgs = {{}}
    cores_per_socket = 1
    BadNode = {FALSE}
INVARIANTS
    FinalizeReturns
