SPECIFICATION Spec
CONSTANTS
    Procs = {matd, cli}
    Egress = {lan, thread}
    Epoch = 2
    Modulus = 64
    Gdc = 3
    Width = 3
    Files <- MCFiles
    None = None
    MaxOps = 6
    PowerCuts = 1
SYMMETRY MCSymmetry
INVARIANTS
    GuardSound
    AppliedOnce
PROPERTIES
    CounterAlwaysNewer
CHECK_DEADLOCK FALSE
