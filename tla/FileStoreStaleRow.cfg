SPECIFICATION Spec
CONSTANTS
    root = root
    d1 = d1
    f1 = f1
    g1 = g1
    g2 = g2
    Root = root
    Dirs = {d1}
    Files = {f1}
    ParentOf <- MCParentOf
    NoPath = NoPath
    InitialSource <- MCSource
    DeleteSource = TRUE
    Requests = {"upload"}
    MaxContent = 2
    MaxId = 3
    MaxRequests = 2
    MaxImports = 0
    MaxRebuilds = 1
    MaxCrashes = 0
    MaxFaults = 0
INVARIANTS
    DerivedDataIsCurrent
CHECK_DEADLOCK FALSE
