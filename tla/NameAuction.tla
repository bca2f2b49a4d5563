----------------------------- MODULE NameAuction -----------------------------
(***************************************************************************)
(* The auction of short account names: bidname, bidrefund and the claim in *)
(* newaccount (eosio.system.cpp), the daily close in onblock               *)
(* (producer_pay.cpp), and the way of the winning bids to the REX pool     *)
(* (rex.cpp), in two steps.  All the tokens are on one account,            *)
(* eosio.names.                                                            *)
(*                                                                         *)
(* A refund is paid by a deferred transaction that anybody may overtake:   *)
(* bidrefund asks for no authority, and finds nothing the second time.     *)
(* Actions take the time as a parameter, which who uses them passes.       *)
(***************************************************************************)
EXTENDS Integers, FiniteSets, Sums

CONSTANTS Names,        \* names that can be bid on
          Bidders,      \* accounts that bid
          BidAmounts,   \* amounts of bids
          NameOrder,    \* NameOrder[n]: the number a name stands for
          BidDay,       \* a day: since the last bid, and between two closes
          CloseWait,    \* the time from the activation of the chain to the first close (14 days)
          NoBid         \* no row in the table of bids

BidRow == [bidder : Bidders, bid : Int, at : Nat]

ASSUME AuctionAssumption ==
    /\ IsFiniteSet(Names)
    /\ IsFiniteSet(Bidders)
    /\ BidAmounts \subseteq Nat \ {0}
    /\ NameOrder \in [Names -> Nat]
    /\ \A m, n \in Names : NameOrder[m] = NameOrder[n] => m = n
    /\ {BidDay, CloseWait} \subseteq Nat
    /\ NoBid \notin BidRow

VARIABLES bids,       \* bids[n]: the row of name n, or NoBid; a closed bid is below zero
          refunds,    \* refunds[n][b]: what is to be refunded to b, 0 where there is no row
          taken,      \* the names that are accounts
          names,      \* what eosio.names holds
          proceeds,   \* namebid_proceeds of the REX pool
          rex,        \* rex_available()
          closed,     \* last_name_close
          idle,       \* history: the bids that closed when there was no REX to take them
          paid        \* history: paid[b]: what b paid in, without its refunds and the names it got

auctionVars == <<bids, refunds, taken, names, proceeds, rex, closed, idle, paid>>

AuctionInit ==
    /\ bids = [n \in Names |-> NoBid]
    /\ refunds = [n \in Names |-> [b \in Bidders |-> 0]]
    /\ taken = {}
    /\ names = 0
    /\ proceeds = 0
    /\ rex = FALSE
    /\ closed = 0
    /\ idle = 0
    /\ paid = [b \in Bidders |-> 0]
-----------------------------------------------------------------------------
(* The actions                                                             *)

\* Mutant: a second refund replaces the first.
Outbid_Replaced(n) == [refunds EXCEPT ![n][bids[n].bidder] = bids[n].bid]

\* The refunds once the highest bidder for n is outbid: amounts add up in one row.
Outbid(n) ==
    [refunds EXCEPT ![n][bids[n].bidder] = refunds[n][bids[n].bidder] + bids[n].bid]

\* bidname
BidName(b, n, bid, time) ==
    /\ n \notin taken
    /\ bids[n] # NoBid => /\ bids[n].bid > 0
                          /\ bid - bids[n].bid > bids[n].bid \div 10
                          /\ bids[n].bidder # b
    /\ refunds' = IF bids[n] = NoBid THEN refunds ELSE Outbid(n)
    /\ bids' = [bids EXCEPT ![n] = [bidder |-> b, bid |-> bid, at |-> time]]
    /\ names' = names + bid
    /\ paid' = [paid EXCEPT ![b] = paid[b] + bid]
    /\ UNCHANGED <<taken, proceeds, rex, closed, idle>>

\* bidrefund, by anybody or by the deferred transaction
BidRefund(b, n) ==
    /\ refunds[n][b] # 0
    /\ refunds[n][b] <= names
    /\ names' = names - refunds[n][b]
    /\ refunds' = [refunds EXCEPT ![n][b] = 0]
    /\ paid' = [paid EXCEPT ![b] = paid[b] - refunds[n][b]]
    /\ UNCHANGED <<bids, taken, proceeds, rex, closed, idle>>

\* newaccount by the winner of a closed auction
ClaimName(b, n) ==
    /\ n \notin taken
    /\ bids[n] # NoBid
    /\ bids[n].bidder = b
    /\ bids[n].bid < 0
    /\ bids' = [bids EXCEPT ![n] = NoBid]
    /\ taken' = taken \cup {n}
    /\ paid' = [paid EXCEPT ![b] = paid[b] + bids[n].bid]
    /\ UNCHANGED <<refunds, names, proceeds, rex, closed, idle>>

\* newaccount by the system account, whatever was bid
SystemName(n) ==
    /\ n \notin taken
    /\ taken' = taken \cup {n}
    /\ UNCHANGED <<bids, refunds, names, proceeds, rex, closed, idle, paid>>

\* The name with the highest bid that is open, which "highbid" finds.
IsHighest(n) ==
    /\ bids[n] # NoBid
    /\ bids[n].bid > 0
    /\ \A m \in Names : bids[m] # NoBid /\ m # n =>
          \/ bids[m].bid < bids[n].bid
          \/ bids[m].bid = bids[n].bid /\ NameOrder[n] < NameOrder[m]

\* May onblock close n now?
ToClose(n, time, activated) ==
    /\ time - closed > BidDay
    /\ IsHighest(n)
    /\ time - bids[n].at > BidDay
    /\ activated > 0
    /\ time - activated > CloseWait

\* The close in onblock, with channel_namebid_to_rex: at most one a day.
CloseHighest(time, activated) ==
    /\ IF \E n \in Names : ToClose(n, time, activated)
       THEN LET n == CHOOSE m \in Names : ToClose(m, time, activated)
            IN  /\ closed' = time
                /\ proceeds' = IF rex THEN proceeds + bids[n].bid ELSE proceeds
                /\ idle' = IF rex THEN idle ELSE idle + bids[n].bid
                /\ bids' = [bids EXCEPT ![n].bid = -bids[n].bid]
       ELSE UNCHANGED <<closed, proceeds, idle, bids>>
    /\ UNCHANGED <<refunds, taken, names, rex, paid>>

\* The first REX that is bought, which makes a pool, or fills it again.
OpenRex ==
    /\ ~rex
    /\ rex' = TRUE
    /\ UNCHANGED <<bids, refunds, taken, names, proceeds, closed, idle, paid>>

\* Mutant: the tokens move, and the pool still counts them as to come.
Channelled_Again ==
    /\ rex => proceeds <= names
    /\ names' = IF rex THEN names - proceeds ELSE names
    /\ UNCHANGED proceeds

\* The first step of runrex: tokens move only while there is REX, and the
\* proceeds are counted as channelled in any case.
Channelled ==
    /\ rex => proceeds <= names
    /\ names' = IF rex THEN names - proceeds ELSE names
    /\ proceeds' = 0

\* Any action that runs runrex.
ChannelProceeds ==
    /\ proceeds > 0
    /\ Channelled
    /\ UNCHANGED <<bids, refunds, taken, rex, closed, idle, paid>>

\* The action that sells the last REX, after it ran runrex.
SellAllRex ==
    /\ rex
    /\ Channelled
    /\ rex' = FALSE
    /\ UNCHANGED <<bids, refunds, taken, closed, idle, paid>>

AuctionNext(time) ==
    \/ \E b \in Bidders, n \in Names, bid \in BidAmounts : BidName(b, n, bid, time)
    \/ \E b \in Bidders, n \in Names : BidRefund(b, n)
    \/ \E b \in Bidders, n \in Names : ClaimName(b, n)
    \/ \E n \in Names : SystemName(n)
    \/ OpenRex
    \/ ChannelProceeds
    \/ SellAllRex

\* The auction by itself: blocks come at any times.
AuctionSpec ==
    AuctionInit /\ [][\E time, activated \in Nat :
                          AuctionNext(time) \/ CloseHighest(time, activated)]_auctionVars
-----------------------------------------------------------------------------
(* Properties                                                              *)

\* Type correctness: bids are never 0, refunds never below.
AuctionTypeOK ==
    /\ bids \in [Names -> BidRow \cup {NoBid}]
    /\ refunds \in [Names -> [Bidders -> Nat]]
    /\ taken \subseteq Names
    /\ {names, proceeds, closed, idle} \subseteq Nat
    /\ rex \in BOOLEAN
    /\ paid \in [Bidders -> Int]

OpenBid(n)     == IF bids[n] # NoBid /\ bids[n].bid > 0 THEN bids[n].bid ELSE 0
RefundsOf(n)   == SumOver(refunds[n], Bidders)

\* eosio.names holds the open bids, the refunds that are due, the proceeds that are on their
\* way to REX and the bids that closed while there was no REX: neither a refund nor the transfer
\* of the proceeds takes tokens that are owed to somebody else, or finds too few, and no
\* proceeds are forgotten when all REX is sold before they arrive.
NamesCustody ==
    names = SumOver([n \in Names |-> OpenBid(n) + RefundsOf(n)], Names) + proceeds + idle

\* What n stands for in b's account: its bid, open or won, and its refund.
BidOf(n, b) ==
    IF bids[n] # NoBid /\ bids[n].bidder = b
    THEN IF bids[n].bid > 0 THEN bids[n].bid ELSE -bids[n].bid
    ELSE 0
StakeIn(n, b) == BidOf(n, b) + refunds[n][b]

\* Each bidder's tokens are either its highest bids or refunds due to it: outbid again
\* and again on several names, refunded late or never, it never loses a bid.
BiddersWhole ==
    \A b \in Bidders : paid[b] = SumOver([n \in Names |-> StakeIn(n, b)], Names)
=============================================================================
