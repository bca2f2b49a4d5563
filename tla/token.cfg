CONSTANTS
    Accounts   <- MCAccounts
    Names      <- MCNames
    AuthSets   <- MCAuthSets
    Contract   <- MCContract
    Precisions <- MCPrecisions
    Quantities <- MCQuantities
    MaxAmount  <- MCMaxAmount
    NoRow      = NoRow

SPECIFICATION Spec

INVARIANTS
    TypeOK
    RowsMatchStat
    CirculationMatchesBurns
    CirculationWithinCap

PROPERTIES
    OnlySignersCharged
    LedgerSpec
