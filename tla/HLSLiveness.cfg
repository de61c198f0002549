SPECIFICATION FairSpec
CONSTANTS
    a = a
    b = b
    r1 = r1
    r2 = r2
    r3 = r3
    r4 = r4
    p = p
    q = q
    rep = rep
    out = out
    del = del
    down = down
    Sessions = {a, b}
    Viewers = {r1, r3}
    OwnerOf <- MCOwnerOf
    PathOf <- MCPathOf
    Paths = {p}
    Writers = {rep, down}
    KindOf <- MCKindOf
    FilesOf <- MCFilesOf
    LogoutOf <- MCLogoutOf
    NoPath = NoPath
    NoWriter = NoWriter
    MaxStreams = 1
    MaxStarts = 2
    MaxFallbacks = 1
    MaxVersion = 2
CONSTRAINT
    MCLive
INVARIANTS
    SlotsAreExact
PROPERTIES
    StartsAnswered
    StopsComplete
    BarrierReleased
