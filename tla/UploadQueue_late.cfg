SPECIFICATION FairSpec
CONSTANTS
    Jobs = {j1}
    Workers = {w1, w2}
    TextChunks = {t1}
    ImageChunks = {}
    MaxAttempts = 2
    MaxCrashes = 0
    MaxFaults = 0
    Punctual = FALSE
    NoJob = NoJob
INVARIANTS
    AttemptsBoundedWhenLate
PROPERTIES
    Converges
CHECK_DEADLOCK FALSE
