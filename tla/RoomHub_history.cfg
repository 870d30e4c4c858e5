SPECIFICATION HubSpec
CONSTANTS
    c1 = c1  c2 = c2  c3 = c3
    u1 = u1  u2 = u2
    Clients = {c1, c2, c3}
    HubUsers = {u1, u2}
    UserOf <- Owner
    SendCap = 1
    QueueCap = 1
    NoClient = NoClient
CHECK_DEADLOCK FALSE
INVARIANT
    HistoryIsSafe
