CONSTANTS
    Users        <- MCUsers
    Voters       <- MCUsers
    RexAccount   = "eosio.rex"
    NamesAccount = "eosio.names"
    StakeAccount = "eosio.stake"
    FeeAccount   = "eosio.ramfee"
    Kinds        <- MCKinds
    Quantities   <- MCOrderQuantities
    Liquid       <- MCOrderLiquid
    Delegated    <- MCOrderStake
    RexRatio     = 1
    InitRent     = 1
    Reserve      = 10
    Maturity     = 1
    Term         = 1
    MaxLate      = 0
    MaxLoans     = 1
    NoRow        = NoRow

SPECIFICATION FairSpec

INVARIANTS
    OrdersCovered

PROPERTIES
    VoteStakeFollowed
    OrdersSettle
