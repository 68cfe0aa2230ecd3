CONSTANTS
    MaxId = 4
    Inodes = {i1, i2, i3}
    NoFile = NoFile
    Blank = Blank
    Torn = Torn
    Procs = {p1, p2}
    Devices = {d1, d2}
    None = None
    ExplicitIds = {2}
    MaxCommands = 3
    MaxRacing = 2
    MaxCrashes = 1
SYMMETRY Symmetry
SPECIFICATION Spec
INVARIANT HandedOutIsNew
INVARIANT LedgerSound
INVARIANT FallbackIsClean
CHECK_DEADLOCK FALSE
