CONSTANTS
    Accounts      <- MCAccounts
    StakeAccount  = "eosio.stake"
    Signers       <- MCUsers
    Res           <- MCRes
    Quantities    <- MCQuantities
    Liquid        <- MCUserLiquid
    Delay         = 1
    FreeStake     = 1
    ProducerStake = 1
    NotQueued     = NotQueued

SPECIFICATION Spec

INVARIANT
    CanUnstake
