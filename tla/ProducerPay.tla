----------------------------- MODULE ProducerPay -----------------------------
(***************************************************************************)
(* Inflation and what it pays for (producer_pay.cpp): onblock, which       *)
(* counts the blocks, changes the schedule and closes name auctions, and   *)
(* the claims of producers, voters and dapps.                              *)
(*                                                                         *)
(* A claim first issues the inflation since a timer was last set and fills *)
(* a bucket of each kind by it, with tokens on an account of each kind.    *)
(* There are two timers, that of dapps and that of everybody else.         *)
(* Inflation is the same at all times here; in the code it grows with the  *)
(* supply.  A part is truncated where the code makes it a whole number.    *)
(***************************************************************************)
EXTENDS Oracle, DappRegistry, NameAuction

CONSTANTS Inflation,      \* tokens of the continuous rate in a unit of time
          OracleShare,    \* parts of 10000 for oracles (65)
          PunishmentRate, \* oracle_punishment_rate: tokens for a failed request (10000)
          PayWord,        \* what an int64_t holds (2^64)
          OtherRewards,   \* rewards that the tables of other registries may give
          VotePeriods,    \* periods setvclaimprd may be given
          VotePeriod,     \* vote_claim_period at first (30 days)
          TopProducers,   \* producers there may be on the schedule (21)
          ScheduleTime,   \* time between two updates of the schedule (120 slots)
          MaxBlocks,      \* bound on the blocks that are not paid
          MaxPunishment,  \* bound on a producer's pending punishment
          MaxRate         \* bound on the rate of the witness shares when a witness claims

ASSUME PayAssumption ==
    /\ {Inflation, PunishmentRate, VotePeriod, ScheduleTime, MaxBlocks, MaxPunishment,
        MaxRate} \subseteq Nat
    /\ OracleShare \in 0 .. 3250  \* it comes out of the community's
    /\ {PayWord, TopProducers} \subseteq Nat \ {0}
    /\ VotePeriods \subseteq Nat
    /\ OtherRewards \subseteq Int

VARIABLES buckets,    \* the buckets of _gstate
          vaults,     \* what the token accounts behind them hold
          fills,      \* when the timers were last set, or 0
          unpaid,     \* unpaid[p]: unpaid_blocks of producer p
          blocks,     \* total_unpaid_blocks
          voteperiod, \* vote_claim_period
          schedule,   \* the producers proposed, how many, and when it was last updated
          issued,     \* history: all tokens that inflation issued
          overdrawn   \* history: a dapp was paid more than its bucket held

payVars == <<buckets, vaults, fills, unpaid, blocks, voteperiod, schedule, issued,
             overdrawn>>

BucketNames == {"block", "vote", "witness", "transfers", "users", "oracle"}
VaultNames  == {"network", "infrastructure", "community", "marketing", "founding",
                "bpay", "vpay", "wpay", "dpay", "oracle"}

PayInit ==
    /\ buckets = [b \in BucketNames |-> 0]
    /\ vaults = [v \in VaultNames |-> 0]
    /\ fills = [vote |-> 0, dapp |-> 0]
    /\ unpaid = [p \in Candidates |-> 0]
    /\ blocks = 0
    /\ voteperiod = VotePeriod
    /\ schedule = [at |-> 0, size |-> 0, proposed |-> {}]
    /\ issued = 0
    /\ overdrawn = FALSE
-----------------------------------------------------------------------------
(* share_inflation, and its copy in claimdapprwd with a timer of its own   *)

Part(tokens, share) == (tokens * share) \div 10000

Due(timer)       == fills[timer] > 0 /\ now > fills[timer]
NewTokens(timer) == IF Due(timer) THEN Inflation * (now - fills[timer]) ELSE 0

\* The transfers need something to transfer, of which oracles get the least, and the
\* conversion to the uint32_t that counts their bucket fails when it does not fit.
CanShare(timer) ==
    Due(timer) => LET part == Part(NewTokens(timer), OracleShare)
                  IN  part > 0 /\ buckets.oracle + part < Word

\* A bucket that a share is added to before the sum is made a whole number.
Filled(bucket, tokens, share) ==
    LET sum == 10000 * bucket + tokens * share
    IN  IF sum >= 0 THEN sum \div 10000 ELSE -((-sum) \div 10000)

\* Mutant: the whole of the dapps' part goes into each of their buckets.
SharedBuckets_Whole(tokens) ==
    LET share == [block |-> 3000, transfers |-> 1000, users |-> 1000,
                  witness |-> 750, vote |-> 250, oracle |-> OracleShare]
    IN  [b \in BucketNames |-> Filled(buckets[b], tokens, share[b])]

\* The buckets once new tokens are shared out.
SharedBuckets(tokens) ==
    LET share == [block |-> 3000, transfers |-> 500, users |-> 500,
                  witness |-> 750, vote |-> 250, oracle |-> OracleShare]
    IN  [b \in BucketNames |-> Filled(buckets[b], tokens, share[b])]

\* The accounts: half goes to the network's account and half to the
\* infrastructure's, and from there to the others.
SharedVaults(tokens) ==
    LET part(share) == Part(tokens, share)
        gain == [network |-> part(5000) - (part(3000) + part(1000) + part(750) + part(250)),
                 infrastructure |-> part(5000) - (part(3250) + part(500) + part(1250)),
                 community |-> part(3250) - part(OracleShare),
                 marketing |-> part(500), founding |-> part(1250),
                 bpay |-> part(3000), dpay |-> part(1000), wpay |-> part(750),
                 vpay |-> part(250), oracle |-> part(OracleShare)]
    IN  [v \in VaultNames |-> vaults[v] + gain[v]]

\* The timers after a fill.
SetTimer(timer) == IF Due(timer) THEN [fills EXCEPT ![timer] = now] ELSE fills
-----------------------------------------------------------------------------
(* onblock                                                                 *)

\* The producers that update_elected_producers takes.
Elected ==
    {p \in Registered(VotingTables) :
        /\ Cardinality(Ahead(VotingTables, p)) < TopProducers
        /\ \A q \in Ahead(VotingTables, p) \cup {p} : producers[q].votes > 0 /\ producers[q].active}

\* update_elected_producers: the chain may refuse the proposal.
UpdateSchedule(accepted) ==
    schedule' = IF accepted /\ Cardinality(Elected) >= schedule.size
                THEN [at |-> now, size |-> Cardinality(Elected), proposed |-> Elected]
                ELSE [schedule EXCEPT !.at = now]

\* onblock of a block of p's, once the chain is activated; nothing happens before.
OnBlock(p, accepted) ==
    /\ gstate.activated >= MinActivated
    /\ blocks < MaxBlocks
    /\ fills' = [timer \in DOMAIN fills |-> IF fills[timer] = 0 THEN now ELSE fills[timer]]
    /\ IF p \in Registered(VotingTables)
       THEN unpaid' = [unpaid EXCEPT ![p] = unpaid[p] + 1] /\ blocks' = blocks + 1
       ELSE UNCHANGED <<unpaid, blocks>>
    /\ IF now - schedule.at > ScheduleTime
       THEN UpdateSchedule(accepted) /\ CloseHighest(now, gstate.thresh)
       ELSE UNCHANGED <<schedule, auctionVars>>
    /\ UNCHANGED <<votingVars, oracleVars, dappVars, buckets, vaults, voteperiod, issued, overdrawn>>
-----------------------------------------------------------------------------
(* claimrewards                                                            *)

Least(i, j) == IF i < j THEN i ELSE j

\* The total of the votepay shares once row has its share taken from it. The rate gets
\* the votes of a producer that had dropped out of the three day window.
ClaimedVotepay_Lapsed(g, row) ==
    UpdateTotalVotepay(g, -GrownVotepay(row, IF UpdatedAfter(row) THEN 0 ELSE row.votes), 0)
ClaimedVotepay(g, row) ==
    LET updated   == UpdatedAfter(row)
        voteshare == GrownVotepay(row, IF updated THEN 0 ELSE row.votes)
    IN  UpdateTotalVotepay(g, -voteshare, IF updated THEN row.votes ELSE 0)

\* Who is a witness when it claims: others before it on the list may not qualify.
ClaimsAsWitness(p) ==
    /\ Cardinality(Ahead(VotingTables, p)) < MaxWitness
    /\ HasPart(producers[p].votes, gstate.weight)

\* The part of the witness bucket that a share of the total stands for.
WitnessPay(share, total, bucket) ==
    IF total > 0 THEN Least((share * bucket) \div total, bucket) ELSE 0

\* What an oracle's successful requests earn: the product wraps.
OraclePay(row, bucket) ==
    IF successes > 0 THEN ((bucket * row.successful) % Word) \div successes ELSE 0

\* The punishment for the failed requests, and what is left of it once it is
\* taken from the oracle's pay, and from the block pay.
Punishment(row)                  == row.punishment + row.failed * PunishmentRate
LeftAfter(row, reward)           == Punishment(row) - Least(reward, Punishment(row))
LeftAfterBoth(row, reward, blockpay) ==
    LeftAfter(row, reward) - Least(blockpay, LeftAfter(row, reward))

\* What is left is added to what was pending, which it contains.
Punished(row, left) ==
    [row EXCEPT !.successful = 0, !.failed = 0, !.punishment = row.punishment + left]

\* claimrewards
ClaimRewards(p) ==
    LET row       == producers[p]
        shares    == IF ClaimsAsWitness(p) THEN 1 ELSE 0
        witness   == UpdateWitnesspay(row, shares).wshare
        grown     == UpdateTotalWitnesspay(gstate, 0, 0)
        filled    == SharedBuckets(NewTokens("vote"))
        held_     == SharedVaults(NewTokens("vote"))
        oracle    == oracles[p]
        earned    == IF oracle = NoRow THEN 0 ELSE OraclePay(oracle, filled.oracle)
        produced  == IF blocks > 0 THEN (filled.block * unpaid[p]) \div blocks ELSE 0
        blockpay  == IF oracle = NoRow THEN produced
                     ELSE produced - Least(produced, LeftAfter(oracle, earned))
        reward    == IF oracle = NoRow THEN 0 ELSE earned - Least(earned, Punishment(oracle))
        wpay      == WitnessPay(witness, grown.wtotal, filled.witness)
    IN  /\ gstate.activated >= MinActivated
        /\ p \in Registered(VotingTables)
        /\ row.active
        /\ CanShare("vote")
        /\ gstate.wrate < MaxRate
        /\ blockpay <= held_.bpay /\ wpay <= held_.wpay /\ reward <= held_.oracle
        /\ buckets' = [filled EXCEPT !.block = filled.block - blockpay,
                                     !.witness = filled.witness - wpay,
                                     !.oracle = filled.oracle - reward]
        /\ vaults' = [held_ EXCEPT !.bpay = held_.bpay - blockpay,
                                   !.wpay = held_.wpay - wpay,
                                   !.oracle = held_.oracle - reward]
        /\ fills' = SetTimer("vote")
        /\ issued' = issued + NewTokens("vote")
        /\ producers' = [producers EXCEPT ![p] = [row EXCEPT !.claimed = now,
                            !.vshare = 0, !.vat = now, !.wshare = 0, !.wat = now]]
        /\ gstate' = ClaimedVotepay(UpdateTotalWitnesspay(grown, -witness, shares), row)
        /\ blocks' = blocks - unpaid[p]
        /\ unpaid' = [unpaid EXCEPT ![p] = 0]
        /\ IF oracle = NoRow THEN UNCHANGED <<oracles, successes>>
           ELSE LET left == LeftAfterBoth(oracle, earned, produced)
                IN  /\ oracle.punishment + left <= MaxPunishment
                    /\ oracles' = [oracles EXCEPT ![p] = Punished(oracle, left)]
                    /\ successes' = successes - oracle.successful
        /\ UNCHANGED <<voters, now, withheld, below, gone, requests, lost, tangled,
                       dappVars, auctionVars, voteperiod, schedule, overdrawn>>
-----------------------------------------------------------------------------
(* The other claims                                                        *)

\* A number in an int64_t.
Wrapped(i) == ((i + PayWord \div 2) % PayWord) - PayWord \div 2

\* claimvoterwd: dividing by 0 votes fails, and so does the division of a product below 0.
ClaimVoterReward(a) ==
    LET filled  == SharedBuckets(NewTokens("vote"))
        held_   == SharedVaults(NewTokens("vote"))
        product == Wrapped(voters[a].unpaid * filled.vote)
        reward  == product \div gstate.unpaid
    IN  /\ CanShare("vote")
        /\ voters[a] # NoRow
        /\ now - voters[a].claimed > voteperiod
        /\ gstate.unpaid # 0
        /\ reward > 0
        /\ reward <= held_.vpay
        /\ buckets' = [filled EXCEPT !.vote = filled.vote - reward]
        /\ vaults' = [held_ EXCEPT !.vpay = held_.vpay - reward]
        /\ fills' = SetTimer("vote")
        /\ issued' = issued + NewTokens("vote")
        /\ gstate' = [gstate EXCEPT !.unpaid = gstate.unpaid - voters[a].unpaid]
        /\ voters' = [voters EXCEPT ![a].unpaid = 0, ![a].claimed = now]
        /\ UNCHANGED <<producers, now, withheld, below, gone, oracleVars, dappVars,
                       auctionVars, unpaid, blocks, voteperiod, schedule, overdrawn>>

\* The bucket that d is rewarded from.
BucketOf(d) == IF dapps[d].preference = "TokenCirculation" THEN "transfers" ELSE "users"

\* What claimdapprwd does in the system contract: it shares inflation and pays a reward
\* out of bucket b.  When its timer was set in this very block it returns and does nothing.
PayDapp(b, reward) ==
    LET filled == SharedBuckets(NewTokens("dapp"))
        held_  == SharedVaults(NewTokens("dapp"))
    IN  /\ gstate.activated >= MinActivated
        /\ Due("dapp")
        /\ CanShare("dapp")
        /\ reward > 0
        /\ reward <= held_.dpay
        /\ buckets' = [filled EXCEPT ![b] = filled[b] - reward]
        /\ vaults' = [held_ EXCEPT !.dpay = held_.dpay - reward]
        /\ fills' = SetTimer("dapp")
        /\ issued' = issued + NewTokens("dapp")
        /\ overdrawn' = (overdrawn \/ filled[b] < reward)
        /\ UNCHANGED <<votingVars, oracleVars, auctionVars, unpaid, blocks, voteperiod, schedule>>

\* claimdapprwd, with the registry that the chain has.
ClaimDappReward(owner, d) ==
    /\ dapps[d] # NoDapp
    /\ HasReward(d)
    /\ PayDapp(BucketOf(d), DappReward(d, SharedBuckets(NewTokens("dapp"))[BucketOf(d)]))
    /\ ClaimDapp(owner, d, now)

\* claimdapprwd, with another contract for its dapp_registry: the row and the
\* configuration it reads there may give any reward, and the inline claim is that
\* contract's own.
ClaimDappRewardElsewhere(b, reward) ==
    /\ PayDapp(b, reward)
    /\ UNCHANGED dappVars

\* setvclaimprd
SetVoteClaimPeriod(period) ==
    /\ voteperiod' = period
    /\ UNCHANGED <<votingVars, oracleVars, dappVars, auctionVars,
                   buckets, vaults, fills, unpaid, blocks, schedule, issued, overdrawn>>

PayNext ==
    \/ \E p \in Candidates \cup {None}, accepted \in BOOLEAN : OnBlock(p, accepted)
    \/ \E p \in Candidates : ClaimRewards(p)
    \/ \E a \in Accounts : ClaimVoterReward(a)
    \/ \E owner \in DappAccounts, d \in Dapps : ClaimDappReward(owner, d)
    \/ \E b \in {"transfers", "users"}, reward \in OtherRewards :
          ClaimDappRewardElsewhere(b, reward)
    \/ \E period \in VotePeriods : SetVoteClaimPeriod(period)
-----------------------------------------------------------------------------
(* Properties                                                              *)

\* Type correctness: no account is overdrawn, and the buckets that only whole
\* parts are taken of are not below zero.
PayTypeOK ==
    /\ buckets \in [BucketNames -> Int]
    /\ \A b \in BucketNames \ {"transfers", "users"} : buckets[b] >= 0
    /\ buckets.oracle < Word
    /\ vaults \in [VaultNames -> Nat]
    /\ fills \in [vote : Nat, dapp : Nat]
    /\ unpaid \in [Candidates -> Nat]
    /\ blocks \in Nat
    /\ voteperiod \in Nat
    /\ schedule \in [at : Nat, size : Nat, proposed : SUBSET Candidates]
    /\ issued \in Nat
    /\ overdrawn \in BOOLEAN

\* Every bucket is covered by the tokens on its account, whoever claims first, whichever of
\* the timers filled it, and however shares and punishments cut it: no claim takes tokens of
\* another kind.  The two buckets of dapps share an account, and halves are truncated: upwards
\* when one is below zero, which takes a reward rate above 1 or another registry.
BucketsCovered ==
    /\ vaults.bpay = buckets.block
    /\ vaults.vpay = buckets.vote
    /\ vaults.wpay = buckets.witness
    /\ vaults.oracle = buckets.oracle
    /\ ~overdrawn => vaults.dpay >= buckets.transfers + buckets.users

\* Every total that a claim is divided by is the sum of what its claimants have: the unpaid
\* blocks, the unpaid votes, the successful requests, the volumes and users of dapps (with
\* those of removed ones).  No sequence of votes, blocks, replies, renamings, removals and
\* claims makes the parts more than the whole.
CountersAddUp ==
    /\ blocks = SumOver(unpaid, Candidates)
    /\ gstate.unpaid = SumOver([a \in Accounts |->
                                   IF voters[a] = NoRow THEN 0 ELSE voters[a].unpaid], Accounts)
    /\ SuccessesAddUp
    /\ DappTotals

\* The rate is 5% a year (producer_pay.cpp, continuous_rate): no more is issued than
\* inflation since the chain was activated.
InflationAtRate == issued <= Inflation * (now - gstate.thresh)
=============================================================================
