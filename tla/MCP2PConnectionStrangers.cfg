SPECIFICATION Spec
CONSTANTS
    Node = {a, b}
    Setups <- TalkingStrangers
    Synced = {a}
    MaxConnections = 1
CHECK_DEADLOCK FALSE
INVARIANTS
    NoAnswersAfterInvalidSolution
