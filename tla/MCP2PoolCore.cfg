SPECIFICATION Spec
CONSTANTS
    Worker = {w1, w2}
    FullMemory = TRUE
    Epoch = 2
    Lag = 1
    Required = 2
    StartHeight = 6
    MaxHeight = 8
    MaxBatch = 1
    OldTemplates = 1
    Finder = {f1, f2}
    Budget <- MCBudget
CHECK_DEADLOCK FALSE
INVARIANTS
    HashIsOfItsSeed
    TemplateFollowsMinerData
    LastFoundBlockIsSubmitted
PROPERTIES
    CatchesUp
    StopAfterSeedEnds
