SPECIFICATION RoomsSpec
CONSTANTS
    u1 = u1  u2 = u2  u3 = u3  u4 = u4  d1 = d1  d2 = d2  d3 = d3  h1 = h1  h2 = h2
    Users = {u1, u2, u3, u4}
    Docs = {d1, d2, d3}
    Owner <- MCOwner
    Handlers = {h1, h2}
    MaxMembers = 2
    MaxDocs = 1
    MaxRequests = 5
    Nobody = Nobody
    Speakers = {u1, u3}
    MaxMessages = 2
    Kept = 2
    MaxClicks = 2
SYMMETRY Perms
CHECK_DEADLOCK FALSE
INVARIANTS
    Typed
    RoomIsBounded
    QuotaIsBounded
    OneHost
    TalkIsKept
PROPERTIES
    ClosedOnPurpose
