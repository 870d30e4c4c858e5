SPECIFICATION AssistantSpec
CONSTANTS
    m1 = m1  m2 = m2  n1 = n1  n2 = n2  c1 = c1  c2 = c2
    Handlers = {n1, n2}
    Names = {m1, m2}
    Contents = {c1, c2}
    MaxFaults = 1
    KeptMessages = 3
    KeptPairs = 2
    TierPairs = 1
    Lanes = 2
    MaxTasks = 2
    Priorities <- MCPriorities
    PoolSize = 2
    MaxTokens = 2
    MaxRequests = 3
    MaxParts = 1
    Polls = 2
    MaxMade = 2
    MaxMakings = 3
    VideoLimit = 1
    MessageImages = 2
    MaxUploads = 4
    Sockets = {n1, n2, m1}
    Users = {"user", "admin"}
    Admins = {"admin"}
    UserOf <- MCUserOf
    Cap = 1
    MaxMessages = 2
    TargetTokens = 4
    WindowSize = 4
    WindowOverlap = 1
    Sizes = {1, 3, 5}
    MaxBlocks = 4
    MaxWords = 12
    Texts = {"a1", "a2", "a3", "b1"}
    Documents = {"a", "b"}
    DocOf <- MCDocOf
    Smoothing = 60
    Whole = 15249024
    TopK = 2
    PerDocument = 1
    Boosts = {0, 300000}
    Loops = {l1}
    Askers = {n1, n2}
    Slips = {p1}
    Workers = {m1, m2}
    MaxDepth = 2
    MaxCalls = 2
    HourLimit = 1
    MemoryCap = 1
    MaxFacts = 2
    None = None
SYMMETRY Symmetry
CHECK_DEADLOCK FALSE
INVARIANTS
    Typed
    SessionsAreHonest
    ToolsRunOnce
    ProvidersKeepFaith
    MaterialIsWhole
    AttachmentsAreKept
    FeedbackIsServed
