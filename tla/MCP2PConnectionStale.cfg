SPECIFICATION Spec
CONSTANTS
    Node = {a, b}
    Setups <- Peers
    Synced = {a}
    MaxConnections = 1
CHECK_DEADLOCK FALSE
INVARIANTS
    OldBlocksAreNoTips
