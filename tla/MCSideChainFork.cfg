SPECIFICATION Spec
CONSTANTS
    Block <- ForkBlocks
    Info <- ForkInfo
    After <- ForkAfter
    ByBroadcast = {4, 6}
    Own = {9, 10}
    Window = 3
    UncleDepth = 2
    PruneSlack = 2
    Workers = 2
    TopHeight = 6
    Aging = FALSE
    DepthModulus = 1024
    MinDifficulty = 1
    MainLag = 2
    MainSpan = 3
    StartHeight = 2
    MaxHeight = 2
CHECK_DEADLOCK FALSE
INVARIANTS
    NothingIsForgotten
    TipIsBest
    BroadcastDiscipline
    OwnBlockWouldVerify
    TemplateFresh
    NeverAddedTwice
