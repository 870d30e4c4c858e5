SPECIFICATION Spec
CONSTANTS
    Jobs = {j1}
    Workers = {w1}
    TextChunks = {t1}
    ImageChunks = {}
    MaxAttempts = 2
    MaxCrashes = 1
    MaxFaults = 1
    Punctual = TRUE
    NoJob = NoJob
INVARIANTS
    ModerationNeverFailsOpen
CHECK_DEADLOCK FALSE
