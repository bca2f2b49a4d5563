--------------------------- MODULE SystemContract ---------------------------
(***************************************************************************)
(* The system contract's voting, oracles, pay, name auction and RAM market *)
(* together, with the registry of dapps it pays by: one clock, one table   *)
(* of producers and one global state, on which their operations interleave.*)
(* Staking and REX have modules of their own (DelegateBandwidth, Rex).     *)
(***************************************************************************)
EXTENDS ProducerPay, RamMarket

systemVars == <<votingVars, oracleVars, dappVars, auctionVars, payVars, ramVars>>

SystemInit ==
    /\ VotingInit
    /\ OracleInit
    /\ DappInit
    /\ AuctionInit
    /\ PayInit
    /\ RamInit

VotingStep  == VotingNext /\ UNCHANGED <<oracleVars, dappVars, auctionVars, payVars, ramVars>>
OracleStep  == OracleNext /\ UNCHANGED <<votingVars, dappVars, auctionVars, payVars, ramVars>>
DappStep    == DappNext(now) /\ UNCHANGED <<votingVars, oracleVars, auctionVars, payVars, ramVars>>
AuctionStep == AuctionNext(now) /\ UNCHANGED <<votingVars, oracleVars, dappVars, payVars, ramVars>>
RamStep     == RamNext(now) /\ UNCHANGED <<votingVars, oracleVars, dappVars, auctionVars, payVars>>
PayStep     == PayNext /\ UNCHANGED ramVars

SystemNext ==
    \/ VotingStep
    \/ OracleStep
    \/ DappStep
    \/ AuctionStep
    \/ RamStep
    \/ PayStep

SystemSpec == SystemInit /\ [][SystemNext]_systemVars

\* Type correctness of every part.
SystemTypeOK ==
    /\ VotingTypeOK
    /\ OracleTypeOK
    /\ DappTypeOK
    /\ AuctionTypeOK
    /\ PayTypeOK
    /\ RamTypeOK
=============================================================================
