# Verification of the Aladin contracts

TLA+ models of the EOSIO contracts in `src/contracts`, checked with TLC, and theorems about them, proved with TLAPS.
`PROJECT.json` maps each definition to the lines it translates and lists the runs, the hazards and the theorems.

## The system

The repository holds smart contracts for an EOSIO chain. The chain runs one action at a time; an action and the
inline actions it sends form one transaction, which commits whole or, when any check fails, not at all. There is no
concurrency inside a transaction. What is hard is what happens *between* transactions: anyone may call any action at
any time in any order, deferred transactions run late, fail or are cancelled, time passes between them, tables of
several contracts have to stay in step, and amounts are rounded and bounded.

| Component | State | Operations | What makes it correct |
|---|---|---|---|
| `eosio.token` | `stat` (supply, cap, issuer), `accounts` (balance rows and who pays for them) | create, issue, retire, burn, transfer, open, close | units are conserved and within the cap; only signers are charged |
| `eosio.msig` | `proposal`, `approvals2`, the legacy `approvals`, `invals` | propose, approve, unapprove, cancel, exec, invalidate | a transaction runs only with consent that still stands |
| staking (`delegate_bandwidth.cpp`) | `delband`, `userres`, `refunds`, `voters.staked`, a queued refund per account | delegatebw, undelegatebw, refund | `eosio.stake` covers stakes and refunds; refunds wait; the views of a stake agree |
| REX (`rex.cpp`) | `rexpool`, `rexfund`, `rexbal`, `rexqueue`, `cpuloan`, `netloan` | deposit, withdraw, buyrex, unstaketorex, sellrex, cnclrexorder, rent*, fund*/def*loan, updaterex, setrex, rexexec, consolidate, mvtosavings, mvfrsavings, closerex | `eosio.rex` covers everything owed; sell orders stay covered and are filled; nobody is diluted; maintenance cannot block |
| voting (`voting.cpp`) | `voters`, `producers`, `producers2`, vote totals, the witness list and its share rate | regproducer, unregprod, regproxy, voteproducer | a producer's votes are the sum of what is cast for it, proxies included; shares match the witness list |
| producer pay (`producer_pay.cpp`) | buckets and timers of the global rows, `producers.unpaid_blocks`, `voters.unpaid_votes` | onblock, claimrewards, claimdapprwd, claimvoterwd, setvclaimprd | no bucket pays more than was put into it; nobody is paid twice |
| oracle (`oracle.cpp`) | `oraclereq`, `oracleinfo` (pending and processed counters) | addrequest, reply, setoracle | each request is answered once, by the one entitled at that time; counters match the requests |
| `dapp_registry` | `dapps`, `accounts`, `users`, `summary` | add, remove, linkacc, unlinkacc, transfer, ontransfer, claim, setrewrate, setclaimprd | totals match the rows; shares add up to no more than the bucket |
| name auction (`eosio.system.cpp`, `onblock`) | `namebids`, `bidrefunds` | bidname, bidrefund, newaccount | bids and refunds are covered by `eosio.names`; a name goes to its highest bidder |
| RAM market | `rammarket`, `userres.ram_bytes`, the RAM totals | buyram, buyrambytes, sellram, setram, setramrate | bytes and tokens are conserved; selling never earns more than buying cost |
| the rest | none of their own, or one row per user | wrap, bios, native actions, domain, subdomain, notifier, resource limits | forwarding to the chain after an authorisation check |

How they interact: every movement of tokens is an inline `eosio.token` transfer. `changebw` (staking) and REX both move
`userres` weights and `voters.staked`; RAM fees and name bids are channelled into the REX pool; voting, staking and REX
bring each other's vote stake up to date; `onblock` closes name bids and counts blocks; `claimrewards` reads the
oracle's counters; `claimdapprwd` pays what the dapp registry's inline `claim` then resets. Deferred transactions
are sent by `changebw` (refund), `exec` (multisig) and `bidname` (bid refund).

## Modules

| Module | Models | Proofs |
|---|---|---|
| `TokenLedger` | abstract specification: what a token promises | |
| `EosioToken` | `eosio.token`, all actions; implements `TokenLedger` | `EosioToken_proofs` |
| `EosioMsig` | `eosio.msig`, all actions, both approvals tables | `EosioMsig_proofs` |
| `DelegateBandwidth` | staking, refunds, the deferred refund | `DelegateBandwidth_proofs` |
| `Rex` | the resource exchange, all actions | `Rex_proofs` |
| `Voting` | votes, proxies, producers, witnesses and the shares they are paid by | `Voting_proofs` |
| `Oracle` | requests and replies; extends `Voting`, whose producers name the oracles | `SystemContract_proofs` |
| `DappRegistry` | the registry of dapps and the reward of a dapp | `Ledgers_proofs` |
| `NameAuction` | bids, refunds, the close and the way to REX | `Ledgers_proofs` |
| `RamMarket` | trading RAM, the growth of its supply, the conversion | `Ledgers_proofs` |
| `ProducerPay` | `onblock`, inflation and its claims; composes `Oracle`, `DappRegistry` and `NameAuction` | `SystemContract_proofs` |
| `SystemContract` | the parts above on one clock and one table of producers | `SystemContract_proofs` |
| `Sums` | sums of functions over finite sets | `Sums_proofs` |
| `MC…` | the instances TLC checks | |

An operator has the name of the function or action it translates. A table is a function from its keys to rows or
`NoRow` (or to 0, where a row is erased when it becomes empty); an action's guards are its checks, in the order of
the code where the order shows. A step that would fail is not taken, because a failed transaction leaves nothing
behind. Definitions named `X_Something` and commented as mutants are wrong versions of `X`, used to see that each
property can fail.

**EosioToken.** One symbol code: codes never meet, as `stat` and `accounts` are scoped or keyed by them. Precision is
kept, since `close` ignores it and all else compares it. `issue` and its inline transfer are one step, with the authority
of the issuer in the inline action. `declared` (the cap given to `create`) and `signers` are history. Balances
refine the holdings of `TokenLedger`; the allowance is `max_supply - supply`, which `burn` may drive below zero, as it lowers the
cap and leaves `supply` as it was.

**EosioMsig.** Keys are proposer and name. `requested` and `provided` count how often a level is asked and list the
times at which it approved; a legacy row counts without times. Blocks are half seconds and expirations whole
seconds (`Sec`), which matters for `cancel` and `exec`. `Authorizes` stands for the chain's authority check: the sets
of levels that suffice for a transaction, closed upwards. A queued transaction occupies its sender id until the chain
runs or drops it. `consents` is history: who stands by which transaction, from `approve` to `unapprove` or `invalidate`.

**DelegateBandwidth.** `ChangeBw` is `changebw`: delband, userres, the refund per resource, the cancelled and sent
deferred transaction, the transfer of what the refund does not cover, and the voters row. The refund's clock stops at
`Delay`. The chain may run the queued refund at any time after the delay, and it may fail. `eosio.stake` itself may
stake and send what it has beyond its obligations (`spare`); `WithinSpare` states that it spends no more, which the code
leaves to its operators. RAM and REX are left out here; the REX side of a stake (`unstaketorex`) is in `Rex`.
`regproducer` reads the voters row of its account even where there is none. Here such an account is refused, as who has a row
and nothing staked is; `Voting` has both outcomes. Who registers, then stakes, is here only who staked, then registered.

**Rex.** Nearly every action begins with `runrex`, which acts for other accounts: it channels name bids, closes or
renews expired loans, and fills orders. So the tables are gathered in one record and the code's functions are operators
on it, composed as the code composes them; `Commit` writes the result, if the checks and inline transfers on the way succeed.
`RunRex` unrolls its loops for `max` up to 2, which is what every action but `rexexec` passes. Days are the unit of
time: maturity buckets and loans carry the days they have left, and loans that expire the same day are taken by number. The
order index is the sequence of owners of open orders. `BancorOutput` rounds the exact quotient down; the code computes
it in doubles, and the difference for amounts beyond 2^53 is not modelled. The refusal to queue orders of `b1` is left
out. Delegating again, which would add to `delband`, is in `DelegateBandwidth` only.

**Voting.** The handlers work on a record of the tables (`VotingTables`), and `CommitVotes` writes what comes out.
`UpdateVotes` is `update_votes` with its loops: it undoes a vote by `last_vote_weight`, leaves the old proxy, joins the new
one, and casts. `Recount` is the loop both it and `propagate_weight_change` run over producers; only the former floors
a producer's votes at 0, and only the latter refuses a producer without a row, which somebody whose weight is negative may vote for
(`failed`). `Propagate` unrolls the recursion once: it goes deeper only for an account that resigned as a proxy and uses one now,
and what is handed to such an account does not change its own weight (`VotesFollowStake`), so there is nothing to pass on. The witness
list is computed from the index before and after a vote, as the code does, which misses producers that deactivate.
Weights are whole numbers, where the code has doubles. `withheld` records the changes of at most 1 that are dropped,
`below` that a tally once was below zero, `gone` how often a producer was deactivated. `regproducer` reads the voters row of
an account that may have none; what is read there cannot be told from the code, so it may succeed or not.

**Oracle.** `Bump` is a `modify` of the row found by the index of accounts, which need not be the row that was counted when
the request came, as `setoracle` may have renamed it. Counters wrap at `Word`. `Orders` allows any order of oracles with as many
pending requests, which `std::sort` leaves open. The type of a request, its answer, and the call back to the caller's
contract are left out.

**DappRegistry.** `DappTransfer` is the token's notification and the inline `ontransfer` it leads to. A row of the table of
users is a member of its dapp's `users`. `claimdapprwd` reads the registry and the bucket, pays, and sends `claim`, which the
owner may also call directly. That is with the chain's registry; `dapp_registry` is an argument of `claimdapprwd`, and
`ClaimDappRewardElsewhere` is the action with any other contract. What that contract's tables hold is not in the repository, so the reward is any of
`OtherRewards`, out of either bucket of dapps, and the registry is left alone. `overdrawn` records a reward above what its bucket held.

**NameAuction.** Time is a parameter, given by the block that runs the action. `CloseHighest` is the part of `onblock`;
`Channelled` is `channel_to_rex` within `runrex`. Both ask whether there is REX, at different times: `OpenRex` and `SellAllRex`
stand for the REX actions that change the answer. `idle` is what closed without REX and is not for anybody,
`paid` what a bidder has in the auction. The deferred refund is a `bidrefund` that anybody may overtake, since the
action asks for no authority.

**RamMarket.** `Issued` and `Withdrawn` are the two halves of `convert`, with the power of 1/2 as a comparison of squares, so that
both truncations are those of the code and nothing else is rounded. The growth of RAM wraps at `RamWord`.

**ProducerPay.** `SharedBuckets` and `SharedVaults` are `share_inflation`, once for the buckets of `_gstate` and once for the token
accounts behind them, each with the truncations of its own. `ClaimRewards` pays blocks, witness time and requests, less
the punishments. `Inflation` is the same in every unit of time, and `issue` is never refused by the token's cap; in
the code it is a part of the supply. The sum of two doubles is taken exactly. `ClaimVoterReward` multiplies in 64 bits.

**SystemContract.** Each step of a part leaves the others alone, but for `ProducerPay`, whose actions span the parts they
are about: a claim reads the votes and resets the oracle's counters, `onblock` closes a name. Staking and REX have states of
their own kind and are not composed into it: `Voting` has what staking does to votes, and `NameAuction` what REX does to bids.

## What the runs show

Every pass run checks every reachable state of its instance. Deadlock is checked in all but `system` and `inflation`,
whose clock is bounded: at its end nothing may be left to do.

| Run | Instance | Shows |
|---|---|---|
| `token` | 3 accounts and a name that is none, 2 precisions, amounts -1..3, `MaxAmount` 2 | units are conserved through issue, retire and burn, in any order and with wrong precisions; the units that exist never exceed the cap; only signers lose units or pay for RAM; the contract implements `TokenLedger` |
| `msig` | one key used again and again, with and without a legacy row; 2 levels, one possibly asked twice; 4 half-second blocks | one approvals row per proposal; requests are never lost; `exec` needs consent that stands: not withdrawn, not invalidated in the same block or later, not given to an earlier proposal or for another transaction |
| `stake` | 2 users and `eosio.stake`, net and cpu, a refund delay of 1; one of them may register as a producer | `eosio.stake` covers stakes and refunds; the three views of a stake agree; refunds wait for the full delay after the last undelegation; nobody's tokens move without them |
| `stake_refund` | users only | *violated*: delegating to another account cancels the queued refund of an earlier undelegation |
| `stake_unstake` | users only | *violated*: who staked more than the free amount and is no producer cannot unstake, against the header's comment |
| `rex_pool` | 1 lender of 4 tokens, 1 renter of 2, one loan, fees, withdrawals of all, a name bid, `setrex` | the pool's totals match shares and loans; `eosio.rex` holds exactly what it owes; weights match stakes and loans; `runrex` never fails; REX never loses value |
| `rex_orders` | 2 lenders: one lends what it has staked (`unstaketorex`), the other buys and also rents; saving, consolidating, cancelling | open orders stay covered and queued once; votes follow `vote_stake` in every other step; every order is settled |
| `rex_votes` | 2 lenders, one of which buys before it lends a stake | *violated*: `unstaketorex` leaves the votes out of step with `vote_stake` |
| `voting` | `ann` and `bea` stake and may be proxies, `bea` and `quinn` may be producers; 2 times | tallies are the sum of what is cast, through proxies of any standing; recorded weights follow stakes; proxies form no cycle; votepay and witness shares add up to their totals, and no time counts twice |
| `system` | voter `ann`, producers `pat` and `quinn` with an oracle each, 2 requests, 2 dapps, 2 names, 2 users and 30 bytes of RAM; 3 times | buckets are covered by their accounts; the totals claims are divided by are the sums of the parts, votepay shares through votes and claims; requests, bids, refunds, bytes and tokens are accounted for; RAM trading does not pay |
| `inflation` | the instance of `system` | *violated*: the two timers issue the inflation of the same time twice, against the rate of 5% a year |

The bounds. A token amount of 2 and an allowance of as much already distinguish none, some and all; wrong amounts are
there to meet the checks. Two levels give a transaction that needs both and one that needs either; a third adds no new
relation between them. For REX, InitRent 1 makes a loan profitable from 4 unlent tokens on; `Reserve` is 10 tenths
instead of 2, because two tenths of so few lent tokens round to nothing; `RexRatio` 1 and whole tokens make rounding
happen in nearly every sale. A loan runs 1 day, REX matures after 1 day, and no day passes while an expired loan is
unprocessed (`MaxLate` 0). One loan suffices for an order to wait and for a renewal, refusal and closing; the order in which
several expire is not exercised by these instances.

`voting` explores time or proxies, not both (a variable `part`, chosen at first, and `MCBounds`): two producers with shares and a witness list of one while
time passes, or two accounts that take each other as proxies, resign and return, with one producer and one moment. Stakes of 0, 1, 2 and
3 give changes of weight that are dropped (1) and passed on (2); `MaxVotePower` 2 cuts the largest; tallies below zero are reached
(`below`). A second level of proxies needs two accounts, and a cycle would too. `WitnessPart` 3 and one place make
producers join and leave the list by their own votes and by those of others.

`system` has a variable `part` that is chosen at first and says which component runs around the voting and the pay: blocks
and claims, votes and claims, oracles, dapps, names, or RAM. `MCBounds` keeps each part to the cases it is there for; the state
space of all at once would be their product, and beyond the producers, the clock, the activation and the buckets, which every
part has, they share nothing. Amounts are such that the truncations show: 202 tokens a time unit divide by none of the shares.
`RewardRates` 3 of 2 is a rate above 1; the one of `OtherRewards` (18) exceeds a bucket filled for one time unit and not one filled for two; `Word` 4 makes the oracles' counters and their bucket wrap or overflow; bids of 8 to 12
lie on both sides of the 10% a bid must add; 30 bytes against 40 tokens and sales of 3 and 8 bytes make both roundings of a
conversion happen. Request keys are symmetric.

Fairness. Safety runs assume none: nothing on the chain has to happen. `rex_orders` uses `FairSpec` for `OrdersSettle`:
time passes, and `rexexec(2)` is called again and again while it has something to do. The code schedules no maintenance;
`rexexec` is open to everyone, any other REX action runs the same `runrex(2)`, and the ricardian contract promises the seller that an
order is executed in time, so this is the assumption under which the promise can be kept. Weak fairness of `RexExec(2)`
is written with its enabling condition `MaintenanceDue`, which TLC evaluates much faster than `ENABLED`.

`VoteStakeFollowed` excepts two steps: those that change a stake (`unstaketorex`, see `rex_votes`), and `closerex` of a share,
whose row may still have a vote stake if its purchase was rounded down to no REX at all.

## What is proved

For every value of the constants that meets the named assumptions, by TLAPS:

- **EosioToken**: `TypeOK`, `RowsMatchStat`, `CirculationMatchesBurns`, `CirculationWithinCap`, `OnlySignersCharged`, and
  that the contract implements `TokenLedger`. The inductive invariant adds that neither the supply nor the
  cap ever exceeds what was declared (`BelowDeclared`): `issue` keeps the supply within the cap of its time, and no action
  raises the cap, so what a `burn` leaves behind is still bounded. The argument is that each action changes at most
  two rows, so the sum of all holdings changes by what the stat row does (`Sums_proofs`).
- **EosioMsig**: `TypeOK`, `OneApprovalsRow`, `ExecutedWithConsent`, `AskedStays`. The invariant adds that no approval lies in
  the future, that every approval which counts has a consent that stands, and that a consent's hash names the
  proposal that is there. The second is what `exec` needs; the first makes an invalidation strictly later than
  the approvals it takes back.
- **DelegateBandwidth**: `TypeOK`, `StakeCustody`, `RefundWaits`, `StakesAgree`, `OwnersDecide`. The invariant adds that a refund's clock never runs ahead of
  the time since the last undelegation, and that `eosio.stake` has no refund row (`RefundsDated`), which is why
  rescheduling cannot pay a refund early. `StakesAgree` is kept because `changebw` adds the same amounts to one row of each of
  its three tables (`ChangeBwAgrees`), and `OwnersDecide` because it and `refund` touch the rows of the accounts they name and of nobody
  else (`ChangeBwOthers`, `PayRefundOthers`).
- **Rex**: `TypeOK`, `PoolMatchesLoans`, `RexCustody`, `WeightsMatchLoans`, `OrdersCovered`, `MaintenanceSucceeds`, `PriceNeverFalls`, `VoteStakeFollowed`.
  An action runs the maintenance in the middle of what it does, and its checks come at the end, so what holds is stated of
  a record of tables. `RexTablesInv` is kept by every operator: the totals of the pool are the sums of loans and
  shares, loans are numbered up to the last one, the buckets of a share add up, an open order is covered by matured REX and
  queued once. What does not hold in between is stated as differences, each of which an operator changes by a
  known amount: what `eosio.rex` holds beyond what it owes (`Gap`), a weight without what is rented (`OwnWeight`), and how far votes are
  from the vote stake (`VotesOff`). `Maintains` says what a step of `runrex` keeps of them and is proved of closing, renewing,
  filling and channelling in turn; it also says that no balance but that of `eosio.names` shrinks, which with `NameBidsHeld` is why
  maintenance cannot fail. `Lawful` says the same of a whole action. `RexInv` is that all of it holds of the tables committed.
  `PriceNeverFalls` rests on what the quotients are rounded to: a seller's proceeds and a buyer's REX are at most the exact share.
- **RamMarket**: `RamTypeOK`, `RamConserved`, `RamNoProfit`. The lemma they rest on, `ConvertedBound`, says that what comes out of a
  conversion is at most the exact quotient: `out * (from + in) <= to * in`, although the number of exchange tokens
  between its halves is rounded as well. Hence the product of the balances never falls in a trade, and it grows with the supply
  (`ProductKept`); with `RamConserved`, which gives the market's tokens, no sale can bring more than was paid.
- **DappRegistry**: `DappTypeOK`, and `DappTotals`, which `CountersAddUp` contains. Each action changes one row, so the sums
  change by what the totals do; a claim cannot take a total below zero because the row is one of the summands.
- **NameAuction**: `AuctionTypeOK`, `NamesCustody`, `BiddersWhole`. Each action changes the bid or the refunds of one name (`OneName`). The
  invariant adds that no proceeds are under way while there is no REX (`NoneWithoutRex`): the sale of the last REX channels
  them first.
- **Voting**: `VotingTypeOK`, `ProxiesEnd`, `VotesFollowStake`, `WitnessTimeOnce`, `TalliesMatch`, `VotepaySharesAddUp`, `WitnessSharesAddUp`. A handler is a chain of operators on the record of tables, so
  there is a lemma for each operator: what it leaves as it was, whose weight it records, and that the tables keep their types.
  The lemma about `UpdateVotes` composes them in the order of the code. The invariant (`VotingInv`) adds that the times of witness shares
  are past (`TimesOK`), without which a share could fall. `ProxiesEnd` is kept because who takes a proxy is no proxy, and a proxy that is taken uses
  none, so a new edge cannot close a cycle; and it is what `VotesFollowStake` needs, as a change handed on around a
  cycle would reach a weight that was already recorded.
  For `TalliesMatch`, `Shift` says by how much an operator moves each tally from what is cast or handed over. Only the proxy that is
  left or joined is moved, between `LeaveProxy` and the writing of the voter's row, by what the row then accounts for (`OffAlike`).
  The invariant (`TallyInv`) adds that votes are for producers that have a row, that nobody votes both through a proxy and by itself, that
  recorded weights are not negative, and that nothing is withheld for accounts without a row.
  For the shares, the invariant (`SharesInv`) adds that no producer has negative votes as long as no tally fell below zero, that every share
  and the total were updated in the past, and, until somebody is deactivated, that everybody is active. Whoever counts votes again
  (`Recount`) brings each row it changes up to now, adds to the total what those rows held until now, or drops them if they did not
  claim in time, and changes the rate by what their votes change, so that neither is cut off at 0 (`FlooredAdds`). `Pays` says that of an operator
  and is proved of each on the chain of `UpdateVotes`; updating the list of witnesses changes no votepay share (`UpdateWitnessesVotepay`), and
  the witness total by what those who leave had (`UpdateWitnessesKeeps`). Time passing adds as much to a total as to its rows (`TickShares`).
- **SystemContract**, with **Oracle** and **ProducerPay**: `SystemTypeOK`, `BucketsCovered`, `CountersAddUp`, `RequestsAccounted`, and
  that `NamesCustody`, `BiddersWhole`, `RamConserved` and `RamNoProfit` hold in the whole, and so do `ProxiesEnd`, `VotesFollowStake`, `WitnessTimeOnce`, `TalliesMatch` and
  `VotepaySharesAddUp`, where claims come between votes. The invariant (`SysInv`) is that of every part and what ties them together.
  `VotesInv` is `VotingInv`, `TallyInv`, the part of `SharesInv` that is about votepay (`VotepayInv`) and `UnpaidAgrees`. A claim takes
  the claimant's share from the total and sets the row to nothing (`ShareClaimed`), and counts its votes again if it had dropped
  out; that needs a strengthening: the share of a row that dropped out is 0 until its next claim. `UnpaidAgrees`: the unpaid
  votes are the sum of the voters', which each handler of `Voting` keeps because it adds to both or to none. `OracleInv`: what is pending, less what is open and what was `lost`, is a multiple of `Word`; as long as no account is
  `tangled`, that holds of each oracle by itself (`Orderly`), as one producer names each assigned account (`OneNaming`). It rests on
  `get_current_oracle` giving one oracle another as its standby: the ranges of slots are increasing (`UpperEndsAre`),
  so that the slot falls into one of them (`CurrentOracleFound`). `PayInv`: the accounts cover the buckets (`Covers`). A bucket is
  truncated once its share is added and an account gets truncated parts of a truncated half, and yet both grow by the same (`Splits`), because
  no bucket is below zero but those of dapps, while no transfer takes more than there is (`PartsFit`). A claim takes the same from
  both, and no payment is below zero that should not be. The claims change votes, oracles and pay at once, and have a lemma for each.

The assumptions are the `ASSUME`s of the modules: finite sets of accounts, amounts of the right sign, values for absent
rows that are no rows, accounts of the system that are nobody's, and an `eosio.rex` that holds nothing before REX begins
(`Liquid[RexAccount] = 0`: the account only ever receives what REX sends it), an `OracleShare` no larger than the community's
(3250), of which it is taken, and a `RateUnit` other than 0, by which rewards are divided. TLC evaluates them on every run.

Every invariant and action property of the passing runs has a theorem. Those about `Voting` hold of this component
by itself and in `SystemContract`, but for `WitnessSharesAddUp`, which is false there: `claimrewards` adds the rate of a witness
that the total has already.
Liveness (`OrdersSettle`) and `CanUnstake`, which uses `ENABLED` and which the code violates, are out of the prover's reach and stay with TLC. No module has a RECURSIVE operator;
sums are folds from `Sums`.

## What the code does that a reader may not expect

Met while modelling; the models have the behaviour of the code.

- `pending_punishment` is part of what is left of the punishment at a claim and is added to it again
  (`producer_pay.cpp:238`), so an unpaid punishment doubles with each claim.
- `oracle_bucket` is 32 bits wide. Once inflation has filled it, `share_inflation` fails, and with it every claim of producers
  and voters, until an oracle's claim could empty it, which fails too.
- `claimrewards` adds the rate of a witness at each claim of one, and `regproducer` and `unregprod` do not touch the list, so the rate of the
  total of witness shares may exceed the number of witnesses. Shares of the bucket are then too small, never too large.
- Removing a dapp leaves its volume and users in the totals, and nobody is owed that part any more. A reward rate above 1 is
  accepted and takes more than the bucket holds, from the other bucket on the same account.
- The reward of a dapp for unique users asks whether there were *transactions* of the other kind of dapps
  (`dapp_registry.hpp`, `get_dapp_rewards`): without any it is refused.
- `README.md:232` of the repository gives a month as the default claim period of dapps; the code has one day (`dapp_registry.cpp:12`).
- The system account may create a name that is being bid on. The bid stays open, and its bidder neither gets the name nor a refund.
- `buyrambytes` buys fewer bytes than it is asked for, as the price is that of selling them and a fee is taken
  (`delegate_bandwidth.cpp:83` says otherwise).
- Changes of weight of at most 1 are never passed on to producers or proxies, and a producer's votes are floored in one of two
  places, so the total weight of all votes drifts.

## Not modelled

- Transfer notifier and dummy app: they have no table a transfer changes, and forward what they are told. `DappTransfer` is the
  registry's side of a notification.
- Wrap, bios and native actions, resource limits and parameters: an authorisation check and an intrinsic of the
  chain, whose effect is not in the repository.
- Domain and subdomain: one row per user, touched by that user alone.
- The fees of RAM and of names within REX's pool are tokens that come from nowhere in `Rex` and go nowhere in `RamMarket`.
- Doubles beyond 2^53, and the rounding of the sum of a bucket and its share.
- Throughout: memos, logging, RAM payers outside the token contract, and notifications.

## Plan

1. Done: every contract with tables of its own that relate, except for what is listed above; proofs of the token, the multisig, staking,
   REX, the RAM market, the registry and the auction, of the weights, proxies, tallies and shares of voting, and of the system contract's
   requests, buckets and totals, with the tallies and votepay shares of voting in the whole.
2. An abstract specification of a bucket shared by claimants, which the buckets of `ProducerPay` are to implement.
