SPECIFICATION Spec
CONSTANTS
    NumFreqs = 3
    Freq <- PlainFreqs
    HistEntries = 3
    MinComp = 2
    MinComm = 2
    BlockingBuffer = 2
    Hashes = {0, 1}
    Sites = {1}
    CompTimes = {2, 4, 6}
    CommTimes = {1, 3, 5}
    EpochTime = 99
    AlgoWords = {{"andante"}}
    ModWords = {{}}
    TraceWords = {{}}
    FreqArgs = {}
    BindArgs = {{}}
    cores_per_socket = 1
    BadNode = {FALSE}
INVARIANTS
    SlowedMeetsDeadline
    SlowestThatMeets
    CriticalTaskRunsFastest
