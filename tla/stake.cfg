CONSTANTS
    Accounts      <- MCAccounts
    StakeAccount  = "eosio.stake"
    Signers       <- MCAccounts
    Res           <- MCRes
    Quantities    <- MCQuantities
    Liquid        <- MCLiquid
    Delay         = 1
    FreeStake     = 1
    ProducerStake = 1
    NotQueued     = NotQueued

SPECIFICATION Spec

CONSTRAINT MCBounds

INVARIANTS
    TypeOK
    StakeCustody
    StakesAgree

PROPERTIES
    RefundWaits
    OwnersDecide
