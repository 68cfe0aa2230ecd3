CONSTANTS
    n1 = n1
    n2 = n2
    mat = mat
    Matd = matd
    Nothing = Nothing
    g1 = g1
    g2 = g2
    k1 = k1
    k2 = k2
    Groups = {g1, g2}
    Keysets = {k1, k2}
    Nodes = {n1, n2}
    Lists <- MCLists
    Worlds <- MCWorlds
    Processes = {mat, matd}
    IdModulus = 65536
    MaxKeys = 1
    GroupCap = 2
    AclCap = 3
    MaxVisits = 2
    MaxAgain = 2
    MaxTrouble = 1
SYMMETRY Symmetry
SPECIFICATION ProvisionSpec
INVARIANT StoreWellFormed
INVARIANT ProvisionedStays
INVARIANT ProvisionDelivers
INVARIANT RemoveSparesOthers
PROPERTY TableSpec
CHECK_DEADLOCK FALSE
