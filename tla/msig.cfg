CONSTANTS
    Keys         <- MCKeys
    Accounts     <- MCAccounts
    Levels       <- MCLevels
    ActorOf      <- MCActorOf
    Trxs         <- MCTrxs
    Expiration   <- MCExpiration
    Authorizes   <- MCAuthorizes
    Requests     <- MCRequests
    LegacyTables <- MCLegacyTables
    SlotsPerSec  = 2
    MaxTime      = 4
    NoRow        = NoRow
    NoHash       = NoHash

SPECIFICATION Spec

INVARIANTS
    TypeOK
    OneApprovalsRow

PROPERTIES
    AskedStays
    ExecutedWithConsent
