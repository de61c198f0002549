SPECIFICATION Spec
CONSTANTS
    k1 = k1
    k2 = k2
    k3 = k3
    v1 = v1
    v2 = v2
    Keys = {k1, k2}
    Vaults = {v1}
    VaultOf <- MCVaultOf
    Requests = {w1}
    Imports = {w2}
    Deleters = {d1, d2}
    QueueSize = 1
    MaxVersion = 2
    MaxEmpty = 1
    MaxRebuilds = 0
    MaxDeletions = 2
    MaxFailures = 1
    MaxLost = 0
    MaxStops = 1
CONSTRAINT
    FilesOrDeletions
INVARIANTS
    TypeOK
    BookkeepingIsExact
    FreshThumbnails
    QuiesceIsBarrier
PROPERTIES
    ImplementsGate
