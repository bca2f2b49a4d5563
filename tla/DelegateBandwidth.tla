-------------------------- MODULE DelegateBandwidth --------------------------
(***************************************************************************)
(* Staking for bandwidth (delegate_bandwidth.cpp without the RAM market):  *)
(* the tokens delegated by one account to another, the tokens on their way *)
(* back in the refunds table, the deferred transaction that is to pay them *)
(* out, and the tokens eosio.stake holds for both.                         *)
(*                                                                         *)
(* Rows that are erased when they are empty (delband, userres without RAM, *)
(* refunds) are functions that read 0 where there is no row.  Time is      *)
(* counted from the events that matter, in units of which Delay make up    *)
(* refund_delay_sec, and stops counting there.  REX and the vote tallies   *)
(* are left out: no account holds REX, and what an account staked is       *)
(* followed up to the voters row.                                          *)
(***************************************************************************)
EXTENDS Integers, FiniteSets, Sums

CONSTANTS Accounts,       \* every account, stake_account among them
          StakeAccount,   \* stake_account, eosio.stake
          Signers,        \* the accounts that may authorise an action
          Res,            \* what is staked for: net and cpu
          Quantities,     \* the pairs of amounts an action may name
          Liquid,         \* Liquid[a]: the tokens a holds at first
          Delay,          \* refund_delay_sec
          FreeStake,      \* above it only producers may undelegate (1000000)
          ProducerStake,  \* a producer must have staked more (1000000000)
          NotQueued       \* no deferred transaction under an account's id

\* From, to, and what for.
Stakes  == Accounts \X Accounts \X Res
Amounts == [Res -> Int]

ASSUME AccountsAssumption ==
    /\ IsFiniteSet(Accounts)
    /\ IsFiniteSet(Res)
    /\ StakeAccount \in Accounts
    /\ Signers \subseteq Accounts
ASSUME AmountsAssumption ==
    /\ Quantities \subseteq Amounts
    /\ Liquid \in [Accounts -> Nat]
    /\ Delay \in Nat
    /\ FreeStake \in Nat
    /\ ProducerStake \in Nat
    /\ NotQueued \notin Nat

VARIABLES bal,        \* bal[a]: liquid tokens of a in eosio.token
          delband,    \* delband[<<from, to, r>>]: tokens staked for r
          totals,     \* totals[<<to, r>>]: net_weight and cpu_weight of userres
          refund,     \* refund[<<a, r>>]: tokens of a on their way back
          requested,  \* requested[a]: time since request_time of that row, 0 without one
          deferred,   \* deferred[a]: age of the queued refund, or NotQueued
          staked,     \* staked[a]: the voters row
          producer,   \* producer[a]: "none", "active" or "inactive"
          activated,  \* total_activated_stake has reached min_activated_stake
          signer,     \* history: who authorised the step, NotQueued for the chain
          quiet,      \* history: time since a last undelegated
          spare       \* history: what eosio.stake holds beyond its obligations

ledger   == <<bal, delband, totals, refund, staked, spare>>
schedule == <<requested, deferred, quiet>>
vars     == <<ledger, schedule, producer, activated, signer>>

Sum2(q)        == SumOver(q, Res)
AtLeastZero(n) == IF n < 0 THEN 0 ELSE n
Later(age)     == IF age < Delay THEN age + 1 ELSE age

\* A row in refunds exists as long as it is not empty.
Pending(a) == \E r \in Res : refund[<<a, r>>] > 0
-----------------------------------------------------------------------------
Init == /\ bal = Liquid
        /\ delband = [s \in Stakes |-> 0]
        /\ totals = [s \in Accounts \X Res |-> 0]
        /\ refund = [s \in Accounts \X Res |-> 0]
        /\ requested = [a \in Accounts |-> 0]
        /\ deferred = [a \in Accounts |-> NotQueued]
        /\ staked = [a \in Accounts |-> 0]
        /\ producer = [a \in Accounts |-> "none"]
        /\ activated = FALSE
        /\ signer = NotQueued
        /\ quiet = [a \in Accounts |-> Delay]
        /\ spare = Liquid[StakeAccount]

\* token::transfer as an inline action, for a positive amount.
Pay(from, to, amount) ==
    /\ from # to
    /\ bal[from] >= amount
    /\ bal' = [bal EXCEPT ![from] = @ - amount, ![to] = @ + amount]

\* Mutant: the weights of the owner change instead of the receiver's.
NewTotals_Owner(from, receiver, delta) ==
    [s \in Accounts \X Res |->
        IF s[1] = from THEN totals[s] + delta[s[2]] ELSE totals[s]]

\* userres of the receiver.
NewTotals(from, receiver, delta) ==
    [s \in Accounts \X Res |->
        IF s[1] = receiver THEN totals[s] + delta[s[2]] ELSE totals[s]]

\* del_tbl, in the scope of from.
NewDelband(from, receiver, delta) ==
    [s \in Stakes |->
        IF s[1] = from /\ s[2] = receiver THEN delband[s] + delta[s[3]] ELSE delband[s]]

\* Mutant: a stake larger than the refund leaves a negative amount.
LeftInRefund_Negative(from, delta, r) == refund[<<from, r>>] - delta[r]

\* What is left in from's refund of r once delta went through it.
LeftInRefund(from, delta, r) == AtLeastZero(refund[<<from, r>>] - delta[r])

\* Mutant: all of delta is paid, whatever the refund covers.
Uncovered_All(from, delta, r) == AtLeastZero(delta[r])

\* What of delta the refund does not cover: net_balance and cpu_balance.
Uncovered(from, delta, r) == AtLeastZero(delta[r] - refund[<<from, r>>])

\* Mutant: request_time is set when a refund is created, and then kept.
RestartsClock_Once(from, delta) == ~ Pending(from) /\ \E r \in Res : delta[r] < 0

\* request_time is set by every undelegation.
RestartsClock(from, delta) == \E r \in Res : delta[r] < 0

\* Mutant: a stake transferred to its receiver counts as its own.
Offsets_Transfer(from, receiver, delta, transfer) ==
    Sum2(delta) < 0 \/ from = receiver

\* is_delegating_to_self || is_undelegating: the refund takes part.
Offsets(from, receiver, delta, transfer) ==
    Sum2(delta) < 0 \/ (~ transfer /\ from = receiver)

\* The refund part of changebw.  When the refund does not take part, its row
\* stays, and yet the deferred transaction queued for it is cancelled.
UpdateRefund(from, payer, delta, offsets) ==
    IF payer = StakeAccount
    THEN /\ UNCHANGED <<bal, refund, requested, deferred>>
         /\ spare' = spare - Sum2(delta)
    ELSE LET left(r) == IF offsets THEN LeftInRefund(from, delta, r) ELSE refund[<<from, r>>]
             due     == IF offsets THEN Sum2([r \in Res |-> Uncovered(from, delta, r)])
                                   ELSE Sum2(delta)
             remains == \E r \in Res : left(r) > 0
         IN  /\ refund' = [s \in Accounts \X Res |->
                              IF s[1] = from THEN left(s[2]) ELSE refund[s]]
             /\ requested' = [requested EXCEPT ![from] =
                    IF ~ remains \/ (offsets /\ RestartsClock(from, delta)) THEN 0 ELSE @]
             /\ deferred' = [deferred EXCEPT ![from] =
                    IF offsets /\ remains THEN 0 ELSE NotQueued]
             /\ IF due > 0 THEN Pay(payer, StakeAccount, due) ELSE UNCHANGED bal
             /\ UNCHANGED spare

ChangeBw(source, receiver, delta, transfer) ==
    LET from == IF transfer THEN receiver ELSE source
    IN  /\ delband' = NewDelband(from, receiver, delta)
        /\ \A s \in Stakes : delband'[s] >= 0
        /\ totals' = NewTotals(from, receiver, delta)
        /\ \A s \in Accounts \X Res : totals'[s] >= 0
        /\ UpdateRefund(from, source, delta, Offsets(from, receiver, delta, transfer))
        /\ staked' = [staked EXCEPT ![from] = @ + Sum2(delta)]
        /\ staked'[from] >= 0
        /\ signer' = source

DelegateBw(from, receiver, q, transfer) ==
    /\ \A r \in Res : q[r] >= 0
    /\ Sum2(q) > 0
    /\ transfer => from # receiver
    /\ ChangeBw(from, receiver, q, transfer)
    /\ UNCHANGED <<producer, activated, quiet>>

\* An account that staked more than FreeStake must be a producer, and stops
\* being an active one.
UndelegateBw(from, receiver, q) ==
    /\ \A r \in Res : q[r] >= 0
    /\ Sum2(q) > 0
    /\ activated
    /\ staked[from] > FreeStake => producer[from] # "none"
    /\ producer' = IF staked[from] > FreeStake
                   THEN [producer EXCEPT ![from] = "inactive"] ELSE producer
    /\ ChangeBw(from, receiver, [r \in Res |-> -q[r]], FALSE)
    /\ quiet' = [quiet EXCEPT ![from] = 0]
    /\ UNCHANGED activated

\* The refund of owner is available.
Mature(owner) == requested[owner] >= Delay

PayRefund(owner) ==
    /\ Pending(owner)
    /\ Mature(owner)
    /\ Pay(StakeAccount, owner, Sum2([r \in Res |-> refund[<<owner, r>>]]))
    /\ refund' = [s \in Accounts \X Res |-> IF s[1] = owner THEN 0 ELSE refund[s]]
    /\ requested' = [requested EXCEPT ![owner] = 0]
    /\ UNCHANGED <<delband, totals, staked, spare, quiet, producer, activated>>

\* The owner's own refund action: a queued refund stays queued.
Refund(owner) ==
    /\ PayRefund(owner)
    /\ signer' = owner
    /\ UNCHANGED deferred

\* The chain runs the queued refund once its delay is over; it fails when there
\* is nothing to refund, and may fail for want of bandwidth.
RunDeferred(owner) ==
    /\ deferred[owner] = Delay
    /\ deferred' = [deferred EXCEPT ![owner] = NotQueued]
    /\ signer' = NotQueued
    /\ \/ PayRefund(owner)
       \/ UNCHANGED <<ledger, requested, quiet, producer, activated>>

\* Tokens sent by their owner, to eosio.stake perhaps, or by it.
Send(from, to, amount) ==
    /\ Pay(from, to, amount)
    /\ spare' = spare + (IF to = StakeAccount THEN amount ELSE 0)
                      - (IF from = StakeAccount THEN amount ELSE 0)
    /\ signer' = from
    /\ UNCHANGED <<delband, totals, refund, staked, schedule, producer, activated>>

\* regproducer and unregprod, as far as "undelegatebw" reads them.
RegProducer(a) ==
    /\ staked[a] > ProducerStake
    /\ producer' = [producer EXCEPT ![a] = "active"]
    /\ signer' = a
    /\ UNCHANGED <<ledger, schedule, activated>>

UnregProd(a) ==
    /\ producer[a] # "none"
    /\ producer' = [producer EXCEPT ![a] = "inactive"]
    /\ signer' = a
    /\ UNCHANGED <<ledger, schedule, activated>>

\* The first votes bring total_activated_stake to min_activated_stake.
Activate ==
    /\ activated' = TRUE
    /\ signer' = NotQueued
    /\ UNCHANGED <<ledger, schedule, producer>>

Tick ==
    /\ requested' = [a \in Accounts |-> IF Pending(a) THEN Later(requested[a]) ELSE 0]
    /\ deferred' = [a \in Accounts |->
                       IF deferred[a] = NotQueued THEN NotQueued ELSE Later(deferred[a])]
    /\ quiet' = [a \in Accounts |-> Later(quiet[a])]
    /\ signer' = NotQueued
    /\ UNCHANGED <<ledger, producer, activated>>

\* What an account that signs may do.
Transact(a) ==
    \/ \E to \in Accounts, q \in Quantities :
          \/ \E transfer \in BOOLEAN : DelegateBw(a, to, q, transfer)
          \/ UndelegateBw(a, to, q)
    \/ \E to \in Accounts : Send(a, to, 1)
    \/ Refund(a)
    \/ RegProducer(a)
    \/ UnregProd(a)

\* eosio.stake, whose stakes move no tokens, stakes and sends no more than it
\* has to spare.  Its operators have to see to that: the code does not.
WithinSpare == spare' >= 0

Next ==
    \/ \E a \in Signers : Transact(a) /\ WithinSpare
    \/ \E a \in Accounts : RunDeferred(a)
    \/ Activate
    \/ Tick

Spec == Init /\ [][Next]_vars
-----------------------------------------------------------------------------
(* Properties                                                              *)

\* Stakes, weights, refunds and balances are never negative, and a producer
\* row never goes away.
TypeOK ==
    /\ bal \in [Accounts -> Nat]
    /\ delband \in [Stakes -> Nat]
    /\ totals \in [Accounts \X Res -> Nat]
    /\ refund \in [Accounts \X Res -> Nat]
    /\ requested \in [Accounts -> 0 .. Delay]
    /\ deferred \in [Accounts -> (0 .. Delay) \cup {NotQueued}]
    /\ staked \in [Accounts -> Nat]
    /\ producer \in [Accounts -> {"none", "active", "inactive"}]
    /\ activated \in BOOLEAN
    /\ signer \in Accounts \cup {NotQueued}
    /\ quiet \in [Accounts -> 0 .. Delay]
    /\ spare \in Int

\* eosio.stake holds exactly what is staked and what is on its way back, and
\* what it was given besides: no path through changebw, which pays for a new
\* stake from a refund, from the balance, or from both, loses or makes tokens.
StakeCustody ==
    bal[StakeAccount] = SumOver(delband, Stakes) + SumOver(refund, Accounts \X Res) + spare

\* The three views of a stake agree: what an account votes with is what it
\* delegated, to whomever, and the weights that limit an account's bandwidth
\* are what was delegated to it, by whomever, with "transfer" or without.
StakesAgree ==
    \A a \in Accounts :
        /\ staked[a] = SumOver([s \in Stakes |-> IF s[1] = a THEN delband[s] ELSE 0], Stakes)
        /\ \A r \in Res : totals[<<a, r>>] = SumOver([b \in Accounts |-> delband[<<b, a, r>>]], Accounts)

\* Tokens of a on their way back.
Refunding(a) == Sum2([r \in Res |-> refund[<<a, r>>]])

\* "after an uninterrupted 3 day period without further unstaking": no refund
\* reaches its owner before Delay has passed since the owner's last
\* undelegation, whoever calls and however often the refund was rescheduled.
RefundWaits ==
    [][\A a \in Accounts :
          bal'[a] > bal[a] /\ Refunding(a)' < Refunding(a) => quiet[a] = Delay]_vars

\* Nobody's tokens go anywhere without the owner: a step the owner did not
\* sign neither takes liquid tokens, nor unstakes, nor uses up a refund other
\* than by paying it out in full.
OwnersDecide ==
    [][\A a \in Accounts \ {StakeAccount} : signer' # a =>
          /\ bal'[a] >= bal[a]
          /\ bal'[a] + Refunding(a)' >= bal[a] + Refunding(a)
          /\ \A to \in Accounts, r \in Res : delband'[<<a, to, r>>] >= delband[<<a, to, r>>]]_vars

\* "the system will attempt to automatically return the funds": the queued
\* refund is not withdrawn while there is a refund for it to pay, other than
\* by the chain that runs it.
RefundStaysQueued ==
    [][\A a \in Accounts :
          deferred[a] # NotQueued /\ deferred'[a] = NotQueued /\ Pending(a)'
              => signer' = NotQueued]_vars

\* "Else 'from' can unstake at any time": once the chain is activated, who has
\* a stake can undelegate it.
CanUnstake ==
    \A a \in Signers, to \in Accounts, r \in Res :
        activated /\ delband[<<a, to, r>>] > 0 =>
            ENABLED UndelegateBw(a, to, [x \in Res |-> IF x = r THEN 1 ELSE 0])
=============================================================================
