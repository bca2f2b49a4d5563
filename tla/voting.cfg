CONSTANTS
    Accounts      <- MCAccounts
    Candidates    <- MCCandidates
    Proxies       <- MCProxies
    NameValue     <- MCNameValue
    Stakes        <- MCStakes
    InitStake     <- MCInitStake
    ProducerStake = 0
    FreeStake     = 2
    MaxVotePower  = 2
    MinActivated  = 2
    MaxVotes      = 1
    MaxWitness    = 1
    WitnessPart   = 3
    PayWindow     = 1
    MaxNow        = 2
    MaxTally      = 2
    MaxActivated  = 4
    MaxGone       = 1
    MaxUnpaid     = 4
    None          = "none"
    NoRow         = NoRow

SPECIFICATION MCSpec

CONSTRAINT MCBounds

INVARIANTS
    VotingTypeOK
    TalliesMatch
    VotesFollowStake
    ProxiesEnd
    VotepaySharesAddUp
    WitnessSharesAddUp
    WitnessTimeOnce
