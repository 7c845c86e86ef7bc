SPECIFICATION Spec
CONSTANTS
    p1 = p1
    p2 = p2
    Peer = {p1, p2}
    Block = {1, 2, 3, 4, 5}
    Anc <- MCAnc
    RingSize = 2
    CacheSize = 2
    Setups <- MCSetups
CHECK_DEADLOCK FALSE
INVARIANTS
    BansAreForMissingSeeds
    SeenMeansHere
PROPERTIES
    BlocksArrive
