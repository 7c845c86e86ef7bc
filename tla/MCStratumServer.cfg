SPECIFICATION Spec
CONSTANTS
    Client = {c1, c2}
    Miner = {a, b}
    Honest = {a}
    OldTemplates = 2
    JobsSize = 2
    BadPoints <- MCBadPoints
    GoodPoints = 1
    BanThreshold <- MCBanThreshold
    Budget <- MCBudget
CHECK_DEADLOCK FALSE
INVARIANTS
    UniqueWork
    HonestMinersAreSafe
    CountedShareReachesChain
PROPERTIES
    RefinesHistory
    EventuallyOnLatest
