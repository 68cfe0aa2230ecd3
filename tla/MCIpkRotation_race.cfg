SPECIFICATION RotationSpec
CONSTANTS
    Nodes = {n1}
    Epochs = {e0, e1, e2, e3}
    Default = e0
    Procs = {p1, p2}
    NoEpoch = NoEpoch
    Concurrent = TRUE
    SubsetRuns = FALSE
    MaxFaults = 1
SYMMETRY KeySymmetry
PROPERTIES PendingKeyKept
