SPECIFICATION Spec
CONSTANTS
    a = a
    b = b
    r1 = r1
    r2 = r2
    r3 = r3
    r4 = r4
    p = p
    q = q
    rep = rep
    out = out
    del = del
    down = down
    Sessions = {a, b}
    Viewers = {r1, r2, r3, r4}
    OwnerOf <- MCOwnerOf
    PathOf <- MCPathOf
    Paths = {p, q}
    Writers = {rep, out, del, down}
    KindOf <- MCKindOf
    FilesOf <- MCFilesOf
    LogoutOf <- MCLogoutOf
    NoPath = NoPath
    NoWriter = NoWriter
    MaxStreams = 2
    MaxStarts = 2
    MaxFallbacks = 0
    MaxVersion = 2
CONSTRAINT
    MCBound
INVARIANTS
    TypeOK
    OneStreamPerFile
    NoStrandedReference
    LoggedOutOwnsNothing
    EndedLeavesNothing
    BarrierIsExclusive
PROPERTIES
    ImplementsLease
