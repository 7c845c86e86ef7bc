SPECIFICATION Spec
CONSTANTS
    Node = {a, b}
    Setups <- Everyone
    Synced = {a}
    MaxConnections = 2
CHECK_DEADLOCK FALSE
INVARIANTS
    HonestPeersGetAlong
    SolutionsAreCurrent
    StrangersAreKeptOut
PROPERTIES
    HandshakeSucceeds
    StrangersPart
