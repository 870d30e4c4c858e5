SPECIFICATION FairSpec
CONSTANTS
    f1 = f1
    f2 = f2
    Users = {u1}
    Docs = {d1,d2}
    Files = {f1}
    FileOf <- OneFile
    Handlers = {h1,h2}
    Sweepers = {s1}
    Expirers = {e1}
    PinLimit = 1
    ShareLimit = 1
    WarnBatch = 1
    MaxRequests = 2
    Unbounded = Unbounded
    MaxCrashes = 1
    MaxFaults = 1
    NoOne = NoOne
    NoDoc = NoDoc
    NoFile = NoFile
INVARIANTS
    OneRowPerFile
    FlaggedAfterMessage
PROPERTIES
    EventuallySwept
CHECK_DEADLOCK FALSE
