SPECIFICATION Spec
CONSTANTS
    u1 = u1  u2 = u2
    Users = {u1, u2}
    MaxMessages = 2
    Kept = 2
    MaxClicks = 2
    Nobody = Nobody
CHECK_DEADLOCK FALSE
INVARIANT HistoryIsInOrder
