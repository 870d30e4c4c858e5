SPECIFICATION Spec
CONSTANTS
    f1 = f1
    f2 = f2
    Users = {u1,u2}
    Docs = {d1,d2}
    Files = {f1}
    FileOf <- OneFile
    Handlers = {h1}
    Sweepers = {s1}
    Expirers = {}
    PinLimit = 1
    ShareLimit = 1
    WarnBatch = 1
    MaxRequests = Unbounded
    Unbounded = Unbounded
    MaxCrashes = 0
    MaxFaults = 0
    NoOne = NoOne
    NoDoc = NoDoc
    NoFile = NoFile
SYMMETRY Symmetry
INVARIANTS
    TypeOK
    PinnedIsKept
    TrashIsUnread
PROPERTIES
    OnlyExpiredVanish
CHECK_DEADLOCK FALSE
