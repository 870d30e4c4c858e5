SPECIFICATION FairSpec
CONSTANTS
    Jobs = {j1}
    Workers = {w1, w2}
    TextChunks = {t1, t2}
    ImageChunks = {i1}
    MaxAttempts = 3
    MaxCrashes = 2
    MaxFaults = 2
    Punctual = TRUE
    NoJob = NoJob
INVARIANTS
    ExclusiveJob
    AttemptsBounded
    ReadyIsComplete
    OutcomesAgree
PROPERTIES
    SettledIsFinal
    ImplementsIntake
    EventuallySettles
CHECK_DEADLOCK FALSE
