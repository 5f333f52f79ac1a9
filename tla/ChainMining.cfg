SPECIFICATION FairSpec
CONSTANTS
    m1 = m1
    m2 = m2
    m3 = m3
    m4 = m4
    m5 = m5
    Miners = {m1, m2, m3, m4, m5}
    Answers = {"x", "y", "z"}
    Opinion <- Opinions
    Committers = {m1}
    MaxRequests = 4
    Handlers = {"h1", "h2"}
    Joined <- FirstFour
    Endowment <- Rich
    Dev = FALSE
    MinStake = 1
    RewardPool = 3
    InitialMinerPool = 8
    HalvingEpochs = 1
    EpochBlocks = 2
    EarlyBirdLimits <- Limits
    ColdStart = 1
    Window = 0
    MaxHeight = 3
    None = None
INVARIANTS
    RewardHasMajority
    StatsNeverExceedPayments
PROPERTIES
    AffordableIsPaid
