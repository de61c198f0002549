SPECIFICATION FairSpec
CONSTANTS
    v1 = v1
    v2 = v2
    c1 = c1
    c2 = c2
    c3 = c3
    r1 = r1
    r2 = r2
    Vaults = {v1, v2}
    Creators = {c1, c2, c3}
    Clients = {r1, r2}
    PurposeOf <- MCPurposeOf
    VaultFor <- MCVaultFor
    MaxSessions = 2
    ScryptSlots = 1
    Lifetime = 1
    MaxTime = 2
INVARIANTS
    TypeOK
    KeysAreExact
PROPERTIES
    ExpiredKeysGo
CONSTRAINT
    MCBound
