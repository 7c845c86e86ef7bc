SPECIFICATION Spec
CONSTANTS
    Wallets = {1, 2}
    ClockSteps <- MCClockSteps
    Window = 3
    UncleDepth = 2
    UnclePenalty = 20
    TargetTime = 2
    MinDifficulty = 7
    TimeModulus = 8
    CutPart = 3
    MaxBlocks = 6
    MaxFork = 1
CHECK_DEADLOCK FALSE
INVARIANTS
    PayoutIsRight
    CumulativeIsWorkDone
    FastClockIsIgnored
