SPECIFICATION RotationFairSpec
CONSTANTS
    Nodes = {n1, n2}
    Epochs = {e0, e1, e2, e3}
    Default = e0
    Procs = {p1}
    NoEpoch = NoEpoch
    Concurrent = FALSE
    SubsetRuns = TRUE
    MaxFaults = 3
INVARIANTS NoNodeStranded RotationInv
PROPERTIES PendingResolved
