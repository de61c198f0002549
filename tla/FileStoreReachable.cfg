SPECIFICATION Spec
CONSTANTS
    root = root
    d1 = d1
    f1 = f1
    g1 = g1
    g2 = g2
    Root = root
    Dirs = {d1}
    Files = {g1, g2}
    ParentOf <- MCParentOf
    NoPath = NoPath
    InitialSource <- MCSources
    DeleteSource = TRUE
    Requests = {}
    MaxContent = 2
    MaxId = 3
    MaxRequests = 0
    MaxImports = 2
    MaxRebuilds = 0
    MaxCrashes = 0
    MaxFaults = 0
INVARIANTS
    ImportedStaysReachable
CHECK_DEADLOCK FALSE
