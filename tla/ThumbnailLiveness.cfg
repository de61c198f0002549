SPECIFICATION FairSpec
CONSTANTS
    k1 = k1
    k2 = k2
    k3 = k3
    v1 = v1
    v2 = v2
    Keys = {k1, k2, k3}
    Vaults = {v1, v2}
    VaultOf <- MCVaultOf
    Requests = {w1}
    Imports = {}
    Deleters = {d1, d2}
    QueueSize = 1
    MaxVersion = 1
    MaxEmpty = 0
    MaxRebuilds = 2
    MaxDeletions = 2
    MaxFailures = 0
    MaxLost = 1
    MaxStops = 1
CONSTRAINT
    RebuildOrDeletions
PROPERTIES
    CacheStaysEmpty
    StopDrains
    RebuildEnds
    LeftoversGo
