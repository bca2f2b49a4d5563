CONSTANTS
    Accounts      <- MCAccounts
    Candidates    <- MCCandidates
    Proxies       = {}
    NameValue     <- MCNameValue
    Stakes        <- MCStakes
    InitStake     <- MCInitStake
    ProducerStake = 0
    FreeStake     = 2
    MaxVotePower  = 2
    MinActivated  = 2
    MaxVotes      = 2
    MaxWitness    = 1
    WitnessPart   = 3
    PayWindow     = 1
    MaxNow        = 3
    MaxTally      = 2
    MaxActivated  = 4
    MaxGone       = 0
    MaxUnpaid     = 4
    OracleAccounts = {"o1", "o2"}
    Callers       = {"o1", "o2"}
    RequestKeys   = {k1, k2}
    Slots         = {0, 1}
    TopOracles    = 2
    RequestPeriod = 1
    BaseRange     = 1
    Word          = 4
    Dapps         = {"d", "e"}
    DappAccounts  = {"una", "viv"}
    Senders       = {s1}
    Amounts       = {1}
    RewardRates   = {3}
    RateUnit      = 2
    ClaimPeriods  = {0}
    DefaultPeriod = 1
    MaxVolume     = 2
    NoDapp        = NoDapp
    Names         <- MCNames
    Bidders       = {"ann", "pat"}
    BidAmounts    = {8, 9, 10, 11, 12}
    NameOrder     <- MCNameOrder
    BidDay        = 1
    CloseWait     = 1
    NoBid         = NoBid
    Inflation     = 202
    OracleShare   = 65
    PunishmentRate = 2
    PayWord       = 64
    OtherRewards  = {18}
    VotePeriods   = {0}
    VotePeriod    = 1
    TopProducers  = 2
    ScheduleTime  = 0
    MaxBlocks     = 2
    MaxPunishment = 4
    MaxRate       = 3
    RamUsers      = {"ann", "pat"}
    Payments      = {1, 6, 11}
    ByteAmounts   = {3, 8}
    RamSizes      = {36}
    RamRates      = {0, 2}
    InitRam       = 30
    InitQuote     = 40
    CoreSupply    = 100
    RamWord       = 4
    MaxRam        = 40
    MaxStake      = 15
    None          = "none"
    NoRow         = NoRow

SPECIFICATION MCSpec

CONSTRAINT MCBounds

SYMMETRY MCSymmetry

INVARIANTS
    SystemTypeOK
    RequestsAccounted
    BucketsCovered
    CountersAddUp
    VotepaySharesAddUp
    NamesCustody
    BiddersWhole
    RamConserved
    RamNoProfit
CHECK_DEADLOCK FALSE
