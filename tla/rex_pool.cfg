CONSTANTS
    Users        <- MCUsers
    Voters       <- MCLender
    RexAccount   = "eosio.rex"
    NamesAccount = "eosio.names"
    StakeAccount = "eosio.stake"
    FeeAccount   = "eosio.ramfee"
    Kinds        <- MCKinds
    Quantities   <- MCPoolQuantities
    Liquid       <- MCPoolLiquid
    Delegated    <- MCNoStake
    RexRatio     = 1
    InitRent     = 1
    Reserve      = 10
    Maturity     = 1
    Term         = 1
    MaxLate      = 0
    MaxLoans     = 1
    NoRow        = NoRow

SPECIFICATION Spec

INVARIANTS
    TypeOK
    PoolMatchesLoans
    RexCustody
    WeightsMatchLoans
    MaintenanceSucceeds

PROPERTIES
    PriceNeverFalls
