SPECIFICATION FairSpec
CONSTANTS
    i1 = i1
    i2 = i2
    x1 = x1
    v1 = v1
    v2 = v2
    d1 = d1
    d2 = d2
    Tasks = {i1, i2, x1}
    Vaults = {v1, v2}
    Deleters = {d1, d2}
    VaultOf <- MCVaults
    KindOf <- MCKinds
    NoTask = NoTask
    NoVault = NoVault
    MaxAttempts = 1
    MaxLostWrites = 1
    MaxRestarts = 1
CONSTRAINT
    Casts
INVARIANTS
    TypeOK
    ExclusiveSlots
    BarriersDrain
    DeletedRowsStayDeleted
    RunningRowsHaveWorker
    DeferredResumeHasOwner
PROPERTIES
    TerminalIsFinal
    ImplementsGate
    ShutdownDrains
    DeferredResumeHonoured
