SPECIFICATION Spec
CONSTANTS
    i1 = i1
    i2 = i2
    x1 = x1
    v1 = v1
    v2 = v2
    d1 = d1
    d2 = d2
    Tasks = {i1}
    Vaults = {v1}
    Deleters = {d1}
    VaultOf <- MCVaults
    KindOf <- MCKinds
    NoTask = NoTask
    NoVault = NoVault
    MaxAttempts = 1
    MaxLostWrites = 0
    MaxRestarts = 0
INVARIANTS
    NoTaskAfterDeletion
