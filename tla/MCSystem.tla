------------------------------ MODULE MCSystem ------------------------------
(***************************************************************************)
(* A voter, two producers with an oracle each, an owner with a dapp or two,*)
(* two bidders and two users of RAM.  The parts of the contract are        *)
(* explored around one of them at a time.                                  *)
(***************************************************************************)
EXTENDS SystemContract, TLC

MCAccounts   == {"ann", "pat", "quinn"}
MCCandidates == {"pat", "quinn"}
MCNameValue  == [a \in MCAccounts |-> CASE a = "ann" -> 1 [] a = "pat" -> 2 [] OTHER -> 3]
MCInitStake  == [a \in MCAccounts |-> CASE a = "ann" -> 2 [] a = "pat" -> 1 [] OTHER -> NoRow]
MCStakes     == [a \in MCAccounts |-> {}]
MCNames      == {"m", "n"}
MCNameOrder  == [n \in MCNames |-> IF n = "m" THEN 1 ELSE 2]

MCSymmetry   == Permutations(RequestKeys)

VARIABLE part  \* what is explored around the voting

MCParts == {"blocks", "votes", "oracles", "dapps", "names", "ram"}
MCInit  == SystemInit /\ part \in MCParts
MCNext  ==
    /\ UNCHANGED part
    /\ \/ VotingStep
       \/ part # "ram" /\ PayStep
       \/ part = "oracles" /\ OracleStep
       \/ part = "dapps" /\ DappStep
       \/ part = "names" /\ AuctionStep
       \/ part = "ram" /\ RamStep
MCSpec == MCInit /\ [][MCNext]_<<systemVars, part>>

\* Before the chain is activated nothing else happens, where votes are not explored.
Idle   == /\ \A p \in Candidates : oracles[p] = NoRow
          /\ dapps = [d \in Dapps |-> NoDapp]
          /\ names = 0 /\ taken = {} /\ ~rex
Active == gstate.activated >= MinActivated /\ fills.vote = 1
Start  == /\ ~Active => Idle /\ now = 1
          /\ gstate.unpaid <= 2 /\ voters["pat"].unpaid = 0 /\ voteperiod = VotePeriod
          /\ schedule.size = 0

Replies == SumOver([p \in Candidates |-> IF oracles[p] = NoRow THEN 0
                                         ELSE oracles[p].failed + oracles[p].successful], Candidates)
Voted(ps) == Active => voters["ann"].producers = ps

Unclaimed == \A p \in Candidates : producers[p] # NoRow => producers[p].claimed = 1 /\ gstate.wrate <= 1

\* Dapps are only paid where they are explored.
DappsPaid == part = "dapps" \/ fills.dapp <= 1

MCBounds ==
  /\ DappsPaid
  /\ CASE part = "blocks"  -> /\ ~Active => now = 1
                              /\ voters["pat"].unpaid = 0 /\ voteperiod = VotePeriod
                              /\ voters["ann"].claimed = 0
       [] part = "votes"   -> /\ producers["pat"] = NoRow /\ blocks = 0 /\ schedule.size = 0
                              /\ ~Active => now = 1
                              /\ schedule.at <= 1
       [] part = "oracles" -> /\ Start /\ Voted(Candidates) /\ schedule.at <= 1 /\ unpaid["pat"] = 0
                              /\ blocks <= 1
                              /\ lost + Replies <= (IF Cardinality(OpenRequests) = 2 THEN 1 ELSE 2)
                              /\ voters["ann"].claimed = 0
                              /\ tangled => Replies = 0 /\ lost <= 1 /\ Cardinality(OpenRequests) <= 1
                              /\ gstate.wrate <= 2
                              /\ producers["pat"] # NoRow => producers["pat"].claimed = 1
       [] part = "dapps"   -> /\ Start /\ Voted({"quinn"}) /\ producers["pat"] = NoRow
                              /\ schedule.at <= 1 /\ blocks = 0 /\ Unclaimed
                              /\ orphaned.users + orphaned.transactions
                                     + (IF config.rate = RateUnit THEN 0 ELSE 1)
                                     + (IF config.period = DefaultPeriod THEN 0 ELSE 1) <= 1
                              /\ \/ now <= 2
                                 \/ config.period = DefaultPeriod /\ orphaned.users + orphaned.transactions = 0
                              /\ dapps["d"] # NoDapp => dapps["d"].owner = "una"
                              /\ linked["una"] # "e"
                              /\ dapps["e"] # NoDapp => dapps["e"].owner = "viv"
       [] part = "names"   -> /\ Start /\ Voted({"quinn"}) /\ producers["pat"] = NoRow
                              /\ blocks = 0 /\ issued = 0 /\ \A b \in Bidders : paid[b] <= 18
                              /\ bids["n"] # NoBid => bids["n"].bid \in {9, -9} /\ bids["n"].bidder = "ann"
                              /\ Unclaimed
       [] OTHER            -> now <= 2 /\ gstate.unpaid = 0 /\ \A p \in Candidates : producers[p] = NoRow
=============================================================================
