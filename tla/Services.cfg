SPECIFICATION ServicesSpec
CONSTANTS
    m1 = m1  m2 = m2  m3 = m3  n1 = n1  n2 = n2
    Orders = {m1, m2}
    Requests = {n1, n2}
    Month = 1
    LastDay = 2
    MaxGifts = 1
    Nothing = Nothing
    Pairs = {m1, m2, m3}
    AccessLife = 1
    ShortLife = 1
    LongLife = 3
    MaxFails = 2
    LastMoment = 2
    MaxFaults = 1
    MaxCodes = 1
    MaxRequests = 4
    Calls = {m1, m2, m3, n1, n2}
    Slots = 2
    CallLimit = 1
    Window = 3
    LastInstant = 4
    Sets = {m1, m2}
    CardLimit = 2
    QuizLimit = 1
    MaxSets = 1
    Qualities = {1, 5}
    LastCardDay = 1
    MaxCardRequests = 5
    Questions = {m1}
    Week = 2
    DayLength = 2
    Chunks = {9}
    LastHour = 4
    MaxActions = 3
    KeyLimit = 1
    MaxCalls = 2
    MaxCrashes = 1
SYMMETRY Symmetry
CHECK_DEADLOCK FALSE
INVARIANTS
    Typed
    TierIsPaid
    NoMonthUnpaid
    RevokedStaysOut
    SessionHasOneToken
    LimitsHold
    RecordsAreTrue
    CachesAreCurrent
