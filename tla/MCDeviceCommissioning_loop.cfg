SPECIFICATION FairSpec
CONSTANTS
    Ids = {f1, f2}
    None = None
    Supported = 2
    IndexModulus = 3
    MaxSaveFaults = 1
    MaxRestarts = 1
INVARIANTS WindowsSound RollbackSparesConfirmed NoSessionInherits PurgeKeepsRowsApart
PROPERTIES LapsedWindowCloses
