SPECIFICATION Spec
CONSTANTS
    t1 = t1
    t2 = t2
    t3 = t3
    t4 = t4
    e0 = e0
    e1 = e1
    Txs = {t1, t2, t3, t4}
    Fee <- MCFee
    Weight <- MCWeight
    Delay = 1
    MaxTxs = 3
    ExtraNonces <- MCExtraNonces
    ZeroNonce = e0
    Inputs <- MCInputs
    Supply = 600
    EmissionDivisor = 1
    MinReward = 60
    VarintBase = 4
    TxOverhead = 2
    OutputSize = 2
    NonceSize = 1
    NonceMaxSize = 2
CHECK_DEADLOCK FALSE
INVARIANTS
    RewardIsExact
    RoundingIsFair
    PaysTheRewardOfItsWeight
    PickingPays
    BranchLeadsToRoot
