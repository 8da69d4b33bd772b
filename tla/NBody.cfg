SPECIFICATION Spec
CONSTANTS
    numProcs = 3
    numParticles = 3
    timeSteps = 2
    Positions <- Places
    Center <- Middle
    LoadBalanceFreqs <- Freqs
INVARIANTS
    ReplicasAgree
    CountsMatch
    MovedOncePerStep
    MedianSplits
PROPERTIES
    Termination
\* The ranks stop when they are done.
CHECK_DEADLOCK FALSE
