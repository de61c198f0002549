SPECIFICATION Spec
CONSTANTS
    k1 = k1
    k2 = k2
    k3 = k3
    v1 = v1
    v2 = v2
    Keys = {k1}
    Vaults = {v1}
    VaultOf <- MCVaultOf
    Requests = {w1}
    Imports = {}
    Deleters = {}
    QueueSize = 1
    MaxVersion = 3
    MaxEmpty = 0
    MaxRebuilds = 1
    MaxDeletions = 0
    MaxFailures = 0
    MaxLost = 0
    MaxStops = 0
INVARIANTS
    FreshThumbnails
