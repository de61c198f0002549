SPECIFICATION Spec
CONSTANTS
    root = root
    d1 = d1
    f1 = f1
    g1 = g1
    g2 = g2
    Root = root
    Dirs = {d1}
    Files = {f1, g1}
    ParentOf <- MCParentOf
    NoPath = NoPath
    InitialSource <- MCSource
    DeleteSource = TRUE
    Requests = {"upload", "mkdir", "delete"}
    MaxContent = 3
    MaxId = 4
    MaxRequests = 2
    MaxImports = 2
    MaxRebuilds = 1
    MaxCrashes = 1
    MaxFaults = 1
CONSTRAINT
    Casts
INVARIANTS
    TypeOK
    IndexMatchesDisk
    SourceBehindCopy
PROPERTIES
    ImplementsContents
    RebuildRepairs
CHECK_DEADLOCK FALSE
