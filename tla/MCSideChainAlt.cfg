SPECIFICATION Spec
CONSTANTS
    Block <- AltBlocks
    Info <- AltInfo
    After <- AltAfter
    ByBroadcast = {10}
    Own = {11}
    Window = 2
    UncleDepth = 1
    PruneSlack = 1
    Workers = 1
    TopHeight = 9
    Aging = TRUE
    DepthModulus = 1024
    MinDifficulty = 1
    MainLag = 1
    MainSpan = 2
    StartHeight = 2
    MaxHeight = 3
CHECK_DEADLOCK FALSE
INVARIANTS
    TypeOK
    PruningIsSafe
    DepthIsDistance
    HeaviestRecentWins
