SPECIFICATION Spec
CONSTANTS
    NumFreqs = 4
    Freq <- TurboFreqs
    HistEntries = 1
    MinComp = 2
    MinComm = 2
    BlockingBuffer = 2
    Hashes = {0, 1}
    Sites = {0, 1}
    CompTimes = {4}
    CommTimes = {1, 4}
    EpochTime = 99
    AlgoWords = {{}, {"fermata"}, {"adagio"}, {"miser"}, {"miser", "andante"}, {"fixedfreq", "fermata"}, {"none"}}
    ModWords = {{}, {"bigcomm"}, {"turboboost"}}
    TraceWords = {{}, {"thresh"}, {"pcontrol"}, {"all"}}
    FreqArgs = {1, 2}
    BindArgs = {{}, {0}, {1}, {2}}
    cores_per_socket = 1
    BadNode = {TRUE, FALSE}
INVARIANTS
    StaysBelowTopGear
PROPERTIES
    FakeFreqLeavesCoreAlone
    SlowedIsRestored
