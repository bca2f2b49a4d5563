--------------------------------- MODULE Rex ---------------------------------
(***************************************************************************)
(* The resource exchange (rex.cpp).  Lenders pay tokens into a pool and    *)
(* hold a share of it, their REX; renters pay the pool a fee for having    *)
(* its tokens staked for them for a term; what is lent out cannot be sold, *)
(* and sell orders wait in a queue until enough of it has come back.       *)
(*                                                                         *)
(* Most actions first run the exchange's maintenance (runrex), on behalf   *)
(* of whoever is due.  The tables are therefore gathered in one record,    *)
(* which the operators named after the code's functions transform; an      *)
(* action commits the record that comes out, if the checks on the way hold. *)
(*                                                                         *)
(* A fund without a row reads 0.  Everything happens at whole days: a      *)
(* maturity bucket and a loan are followed by the days they have left, the *)
(* "bytime" index by the sequence of the owners of open orders.  The       *)
(* Bancor conversion, in doubles in the code, is exact and rounded down.   *)
(***************************************************************************)
EXTENDS Integers, Sequences, FiniteSets, Sums

CONSTANTS Users,         \* the accounts that lend, rent and hold bandwidth
          Voters,        \* those of them that vote as buying REX requires
          RexAccount,    \* rex_account, eosio.rex
          NamesAccount,  \* names_account, eosio.names
          StakeAccount,  \* stake_account, eosio.stake
          FeeAccount,    \* ramfee_account, eosio.ramfee
          Kinds,         \* what is rented: cpu and net
          Quantities,    \* Quantities[sort]: the amounts that actions of this sort may name
          Liquid,        \* Liquid[h]: the tokens h holds at first
          Delegated,     \* Delegated[<<from, to, kind>>]: what is staked at first
          RexRatio,      \* REX per token in an empty pool (10000)
          InitRent,      \* total_rent of an empty pool (20000.0000)
          Reserve,       \* tenths of what is lent that must stay unlent (2)
          Maturity,      \* days before bought REX may be sold (5)
          Term,          \* days of a loan (30)
          MaxLate,       \* bound: days a loan stays unprocessed after its term
          MaxLoans,      \* bound: loans that are ever made
          NoRow          \* no row in a table

Holders  == Users \cup {RexAccount, NamesAccount, StakeAccount, FeeAccount}
LoanNums == 1 .. MaxLoans
Days     == 0 .. Maturity
Stakes   == Users \X Users \X Kinds
Sorts    == {"deposit", "withdraw", "buy", "sell", "save", "unstake", "rent", "fund", "fee",
             "bid", "price"}

ASSUME UsersAssumption ==
    /\ IsFiniteSet(Users)
    /\ Voters \subseteq Users
    /\ Kinds = {"cpu", "net"}
    /\ Users \cap {RexAccount, NamesAccount, StakeAccount, FeeAccount} = {}
    /\ Cardinality({RexAccount, NamesAccount, StakeAccount, FeeAccount}) = 4
ASSUME AmountsAssumption ==
    /\ Quantities \in [Sorts -> SUBSET Int]
    /\ Liquid \in [Holders -> Nat] /\ Liquid[RexAccount] = 0
    /\ Delegated \in [Stakes -> Nat]
    /\ RexRatio \in Nat \ {0}
    /\ InitRent \in Nat \ {0}
    /\ Reserve \in 0 .. 10
    /\ Maturity \in Nat \ {0}
    /\ Term \in Nat \ {0}
    /\ MaxLate \in Nat
    /\ MaxLoans \in Nat

Pool  == [lent : Nat, unlent : Nat, rent : Nat, lendable : Nat, rex : Nat,
          namebid : Nat, loan_num : LoanNums \cup {0}]
Share == [vote_stake : Nat, rex : Nat, matured : Nat, growing : [Days -> Nat], savings : Nat]
Order == [requested : Nat, proceeds : Nat, stake_change : Int, is_open : BOOLEAN]
Loan  == [kind : Kinds, from : Users, receiver : Users, payment : Nat, balance : Nat,
          staked : Nat, left : -MaxLate .. Term]

ASSUME NoRowAssumption == NoRow \notin Pool \cup Share \cup Order \cup Loan

VARIABLES pool,     \* the row of rexpool, or NoRow
          fund,     \* fund[a]: rexfund
          held,     \* held[a]: the row of a in rexbal, or NoRow; its buckets by
                    \* the days until they mature, the one that never does apart
          order,    \* order[a]: the row of a in rexqueue, or NoRow
          queue,    \* the owners of the open orders, by order time
          loans,    \* loans[n]: the row of loan n in cpuloan or netloan, or NoRow
          weight,   \* weight[<<a, kind>>]: cpu_weight and net_weight of userres
          staked,   \* staked[a]: the voters row
          bal,      \* bal[h]: liquid tokens of h in eosio.token
          delband   \* delband[<<from, to, kind>>]: tokens staked in delband

vars == <<pool, fund, held, order, queue, loans, weight, staked, bal, delband>>

\* The tables that runrex works on.
Tables == [pool |-> pool, fund |-> fund, held |-> held, order |-> order, queue |-> queue,
           loans |-> loans, weight |-> weight, staked |-> staked, bal |-> bal]

Init == /\ pool = NoRow
        /\ fund = [a \in Users |-> 0]
        /\ held = [a \in Users |-> NoRow]
        /\ order = [a \in Users |-> NoRow]
        /\ queue = <<>>
        /\ loans = [n \in LoanNums |-> NoRow]
        /\ weight = [w \in Users \X Kinds |->
                        SumOver([a \in Users |-> Delegated[<<a, w[1], w[2]>>]], Users)]
        /\ staked = [a \in Users |->
                        SumOver([s \in Stakes |-> IF s[1] = a THEN Delegated[s] ELSE 0], Stakes)]
        /\ bal = Liquid
        /\ delband = Delegated
-----------------------------------------------------------------------------
(* The pool                                                                *)

\* rex_available
RexAvailable(t) == t.pool # NoRow /\ t.pool.rex > 0

\* rex_loans_available: no open order is waiting.
RexLoansAvailable(t) == RexAvailable(t) /\ t.queue = <<>>

\* What r REX are worth.
Worth(p, r) == (r * p.lendable) \div p.rex

\* get_bancor_output
BancorOutput(conin, conout, in) == (in * conout) \div (in + conin)

\* The checks of add_to_rex_pool.
CanAddToRexPool(p, payment) ==
    p # NoRow /\ p.rex > 0 => p.lendable > 0 /\ p.lendable + payment - p.lent >= 0

\* Mutant: the REX bought is rounded up.
AddToRexPool_Up(p, payment) ==
    IF p = NoRow \/ p.rex = 0
    THEN [lent |-> 0, unlent |-> payment, rent |-> InitRent, lendable |-> payment,
          rex |-> payment * RexRatio,
          namebid |-> IF p = NoRow THEN 0 ELSE p.namebid,
          loan_num |-> IF p = NoRow THEN 0 ELSE p.loan_num]
    ELSE [p EXCEPT !.lendable = p.lendable + payment,
                   !.unlent = p.lendable + payment - p.lent,
                   !.rex = ((p.lendable + payment) * p.rex + p.lendable - 1) \div p.lendable]

\* The pool once a purchase is paid into it: opened, refilled or grown.
AddToRexPool(p, payment) ==
    IF p = NoRow \/ p.rex = 0
    THEN [lent |-> 0, unlent |-> payment, rent |-> InitRent, lendable |-> payment,
          rex |-> payment * RexRatio,
          namebid |-> IF p = NoRow THEN 0 ELSE p.namebid,
          loan_num |-> IF p = NoRow THEN 0 ELSE p.loan_num]
    ELSE [p EXCEPT !.lendable = p.lendable + payment,
                   !.unlent = p.lendable + payment - p.lent,
                   !.rex = ((p.lendable + payment) * p.rex) \div p.lendable]

RexReceived(p, payment) ==
    AddToRexPool(p, payment).rex - (IF p = NoRow THEN 0 ELSE p.rex)

\* add_loan_to_rex_pool
AddLoan(p, payment, rented) ==
    [p EXCEPT !.rent = p.rent + payment,
              !.unlent = p.unlent - rented + payment,
              !.lent = p.lent + rented,
              !.lendable = p.unlent + payment + p.lent]

\* Mutant: the tokens of a loan come back, and still count as lent.
RemoveLoan_Lent(p, tokens) ==
    [p EXCEPT !.rent = p.rent - BancorOutput(p.unlent, p.rent, tokens),
              !.unlent = p.unlent + tokens,
              !.lendable = p.unlent + p.lent]

\* remove_loan_from_rex_pool
RemoveLoan(p, tokens) ==
    [p EXCEPT !.rent = p.rent - BancorOutput(p.unlent, p.rent, tokens),
              !.unlent = p.unlent + tokens,
              !.lent = p.lent - tokens,
              !.lendable = p.unlent + p.lent]

\* Mutant: an order is filled as long as there are tokens in the pool.
CanFill_Lent(p, r) == Worth(p, r) <= p.lendable

\* Mutant: the bound itself may not be reached.
CanFill_Below(p, r) == Worth(p, r) < p.unlent - (Reserve * p.lent) \div 10

\* An order may take what is unlent, but for a reserve.
CanFill(p, r) == Worth(p, r) <= p.unlent - (Reserve * p.lent) \div 10

\* The pool after r REX were sold.
TakeFromRexPool(p, r) ==
    [p EXCEPT !.rex = p.rex - r,
              !.lendable = p.lendable - Worth(p, r),
              !.unlent = p.lendable - Worth(p, r) - p.lent]

\* channel_to_rex, with its inline transfer.
ChannelToRex(t, from, amount) ==
    IF RexAvailable(t)
    THEN [t EXCEPT !.pool = [t.pool EXCEPT !.unlent = t.pool.unlent + amount,
                                           !.lendable = t.pool.lendable + amount],
                   !.bal = [t.bal EXCEPT ![from] = t.bal[from] - amount,
                                         ![RexAccount] = t.bal[RexAccount] + amount]]
    ELSE t
-----------------------------------------------------------------------------
(* The accounts                                                            *)

TransferToFund(t, a, amount) ==
    [t EXCEPT !.fund = [t.fund EXCEPT ![a] = t.fund[a] + amount]]

\* process_rex_maturities
ProcessMaturities(h) ==
    [h EXCEPT !.matured = h.matured + h.growing[0],
              !.growing = [h.growing EXCEPT ![0] = 0]]

\* REX put into the bucket of get_rex_maturity.
Grow(h, r) ==
    [h EXCEPT !.growing = [h.growing EXCEPT ![Maturity] = h.growing[Maturity] + r]]

\* vote_stake of a that bought received REX from the pool of t.
VoteStakeBought(t, a, payment, received) ==
    IF t.held[a] = NoRow THEN payment ELSE Worth(t.pool, t.held[a].rex + received)

\* add_to_rex_balance
AddToRexBalance(t, a, payment, received) ==
    LET old == IF t.held[a] = NoRow
               THEN [vote_stake |-> 0, rex |-> 0, matured |-> 0,
                     growing |-> [d \in Days |-> 0], savings |-> 0]
               ELSE t.held[a]
        new == [old EXCEPT !.rex = old.rex + received,
                           !.vote_stake = VoteStakeBought(t, a, payment, received)]
    IN  [t EXCEPT !.held = [t.held EXCEPT ![a] = Grow(ProcessMaturities(new), received)]]

\* What a's share counts for in its votes.
VoteStake(t, a) == IF t.held[a] = NoRow THEN 0 ELSE t.held[a].vote_stake

IsOpen(t, a)   == t.order[a] # NoRow /\ t.order[a].is_open
IsClosed(t, a) == t.order[a] # NoRow /\ ~ t.order[a].is_open

\* rex_in_sell_order
InSellOrder(t, a) == IF IsOpen(t, a) THEN t.order[a].requested ELSE 0

\* Mutant: what a filled order took from the vote stake stays in the votes.
UpdateRexAccount_FundOnly(t, a, proceeds, change) ==
    IF IsClosed(t, a)
    THEN [t EXCEPT !.fund = [t.fund EXCEPT ![a] = t.fund[a] + proceeds + t.order[a].proceeds],
                   !.staked = [t.staked EXCEPT ![a] = t.staked[a] + change],
                   !.order = [t.order EXCEPT ![a] = NoRow]]
    ELSE [t EXCEPT !.fund = [t.fund EXCEPT ![a] = t.fund[a] + proceeds],
                   !.staked = [t.staked EXCEPT ![a] = t.staked[a] + change]]

\* update_rex_account: an order filled since is settled with what is due now.
UpdateRexAccount(t, a, proceeds, change) ==
    IF IsClosed(t, a)
    THEN [t EXCEPT !.fund = [t.fund EXCEPT ![a] = t.fund[a] + proceeds + t.order[a].proceeds],
                   !.staked = [t.staked EXCEPT ![a] =
                                  t.staked[a] + change + t.order[a].stake_change],
                   !.order = [t.order EXCEPT ![a] = NoRow]]
    ELSE [t EXCEPT !.fund = [t.fund EXCEPT ![a] = t.fund[a] + proceeds],
                   !.staked = [t.staked EXCEPT ![a] = t.staked[a] + change]]

\* vote_stake of a once it sold r REX to the pool of t.
VoteStakeSold(t, a, r) == Worth(t.pool, t.held[a].rex) - Worth(t.pool, r)

\* fill_rex_order, for an order that can be filled.
FillRexOrder(t, a, r) ==
    [t EXCEPT !.pool = TakeFromRexPool(t.pool, r),
              !.held = [t.held EXCEPT ![a] =
                           [t.held[a] EXCEPT !.vote_stake = VoteStakeSold(t, a, r),
                                             !.rex = t.held[a].rex - r,
                                             !.matured = t.held[a].matured - r]]]

\* update_rex_stake: the share of a voter counts at its present worth.
UpdateRexStake(t, a) ==
    IF t.held[a] # NoRow /\ RexAvailable(t)
    THEN LET worth == Worth(t.pool, t.held[a].rex)
         IN  [t EXCEPT !.held = [t.held EXCEPT ![a] =
                                    [t.held[a] EXCEPT !.vote_stake = worth]],
                       !.staked = [t.staked EXCEPT ![a] =
                                      t.staked[a] + worth - t.held[a].vote_stake]]
    ELSE t
-----------------------------------------------------------------------------
(* Maintenance                                                             *)

\* Mutant: what is channelled is not taken off namebid_proceeds.
ChannelNameBids_Again(t) ==
    IF t.pool.namebid > 0 THEN ChannelToRex(t, NamesAccount, t.pool.namebid) ELSE t

\* Name bids that were closed since are channelled to the pool.
ChannelNameBids(t) ==
    IF t.pool.namebid > 0
    THEN LET c == ChannelToRex(t, NamesAccount, t.pool.namebid)
         IN  [c EXCEPT !.pool = [c.pool EXCEPT !.namebid = 0]]
    ELSE t

\* The weight a loan gives its receiver changes by delta.
UpdateWeight(t, loan, delta) ==
    LET w == <<loan.receiver, loan.kind>>
    IN  [t.weight EXCEPT ![w] = t.weight[w] + delta]

\* Mutant: the balance of a closed loan stays with the exchange.
CloseLoan_Keeps(t, n, p) ==
    [t EXCEPT !.pool = p,
              !.loans = [t.loans EXCEPT ![n] = NoRow],
              !.weight = UpdateWeight(t, t.loans[n], - t.loans[n].staked)]

\* Loan n ends, the pool becoming p, and its balance goes back to its maker.
CloseLoan(t, n, p) ==
    LET loan == t.loans[n]
    IN  [t EXCEPT !.pool = p,
                  !.loans = [t.loans EXCEPT ![n] = NoRow],
                  !.weight = UpdateWeight(t, loan, - loan.staked),
                  !.fund = [t.fund EXCEPT ![loan.from] = t.fund[loan.from] + loan.balance]]

\* Mutant: what was rented before is not taken back.
RenewLoan_Adds(t, n, p, rented) ==
    LET loan == t.loans[n]
    IN  [t EXCEPT !.pool = AddLoan(p, loan.payment, rented),
                  !.loans = [t.loans EXCEPT ![n] =
                                [loan EXCEPT !.staked = rented,
                                             !.left = loan.left + Term,
                                             !.balance = loan.balance - loan.payment]],
                  !.weight = UpdateWeight(t, loan, rented)]

\* update_renewed_loan: loan n starts another term, at the price of today.
RenewLoan(t, n, p, rented) ==
    LET loan == t.loans[n]
    IN  [t EXCEPT !.pool = AddLoan(p, loan.payment, rented),
                  !.loans = [t.loans EXCEPT ![n] =
                                [loan EXCEPT !.staked = rented,
                                             !.left = loan.left + Term,
                                             !.balance = loan.balance - loan.payment]],
                  !.weight = UpdateWeight(t, loan, rented - loan.staked)]

\* process_expired_loan
ProcessExpiredLoan(t, n) ==
    LET loan   == t.loans[n]
        p      == RemoveLoan(t.pool, loan.staked)
        rented == BancorOutput(p.rent, p.unlent, loan.payment)
    IN  IF loan.payment <= loan.balance /\ loan.payment < rented /\ RexLoansAvailable(t)
        THEN RenewLoan(t, n, p, rented)
        ELSE CloseLoan(t, n, p)

\* The loans of a kind whose term is over, and the first of them in the
\* "byexpr" index: at the same time, by number.
Expired(t, kind) ==
    {n \in LoanNums : t.loans[n] # NoRow /\ t.loans[n].kind = kind /\ t.loans[n].left <= 0}

FirstExpired(t, kind) ==
    CHOOSE n \in Expired(t, kind) : \A m \in Expired(t, kind) :
        \/ t.loans[n].left < t.loans[m].left
        \/ t.loans[n].left = t.loans[m].left /\ n <= m

ProcessLoan(t, kind) ==
    IF Expired(t, kind) = {} THEN t ELSE ProcessExpiredLoan(t, FirstExpired(t, kind))

\* The queue once the order of a, which is in it, is closed or erased: the
\* "bytime" index has closed orders at its end.
Dequeue(q, a) ==
    LET i == CHOOSE j \in DOMAIN q : q[j] = a
    IN  [j \in 1 .. Len(q) - 1 |-> IF j < i THEN q[j] ELSE q[j + 1]]

\* The order of a is filled and closed if it can be.
ProcessOrder(t, a) ==
    IF CanFill(t.pool, t.order[a].requested)
    THEN [FillRexOrder(t, a, t.order[a].requested) EXCEPT
             !.order = [t.order EXCEPT ![a] =
                 [t.order[a] EXCEPT
                     !.proceeds = Worth(t.pool, t.order[a].requested),
                     !.stake_change = VoteStakeSold(t, a, t.order[a].requested)
                                      - t.held[a].vote_stake,
                     !.is_open = FALSE]],
             !.queue = Dequeue(t.queue, a)]
    ELSE t

\* The first max orders of the queue are tried, and the others stay.
ProcessOrders(t, max) ==
    LET first == IF max > 0 /\ Len(t.queue) > 0 THEN ProcessOrder(t, t.queue[1]) ELSE t
    IN  IF max > 1 /\ Len(t.queue) > 1 THEN ProcessOrder(first, t.queue[2]) ELSE first

ProcessLoans(t, kind, max) ==
    LET first == IF max > 0 THEN ProcessLoan(t, kind) ELSE t
    IN  IF max > 1 THEN ProcessLoan(first, kind) ELSE first

\* runrex, for a max of up to 2, which is what the actions pass.
RunRex(t, max) ==
    ProcessOrders(ProcessLoans(ProcessLoans(ChannelNameBids(t), "cpu", max), "net", max), max)

\* The checks a transaction must pass on its way, its inline transfers included.
Acceptable(t) ==
    /\ \A w \in Users \X Kinds : t.weight[w] >= 0
    /\ \A a \in Users : t.staked[a] >= 0
    /\ \A h \in Holders : t.bal[h] >= 0

Commit(t) ==
    /\ Acceptable(t)
    /\ pool' = t.pool
    /\ fund' = t.fund
    /\ held' = t.held
    /\ order' = t.order
    /\ queue' = t.queue
    /\ loans' = t.loans
    /\ weight' = t.weight
    /\ staked' = t.staked
    /\ bal' = t.bal
-----------------------------------------------------------------------------
(* Actions of an account                                                   *)

Move(t, from, to, amount) ==
    [t EXCEPT !.bal = [t.bal EXCEPT ![from] = t.bal[from] - amount,
                                    ![to] = t.bal[to] + amount]]

Deposit(owner, amount) ==
    /\ amount > 0
    /\ Commit(TransferToFund(Move(Tables, owner, RexAccount, amount), owner, amount))
    /\ UNCHANGED delband

Withdraw(owner, amount) ==
    LET t == UpdateRexAccount(Tables, owner, 0, 0)
    IN  /\ amount > 0
        /\ t.fund[owner] >= amount
        /\ Commit(TransferToFund(Move(t, RexAccount, owner, amount), owner, -amount))
        /\ UNCHANGED delband

BuyRex(from, amount) ==
    LET received == RexReceived(pool, amount)
        paid     == [TransferToFund(Tables, from, -amount) EXCEPT
                        !.pool = AddToRexPool(pool, amount)]
        bought   == AddToRexBalance(paid, from, amount, received)
        change   == VoteStake(bought, from) - VoteStake(Tables, from)
    IN  /\ amount > 0
        /\ from \in Voters
        /\ fund[from] >= amount
        /\ CanAddToRexPool(pool, amount)
        /\ Commit(UpdateRexAccount(RunRex(bought, 2), from, 0, change))
        /\ UNCHANGED delband

\* The change of the vote stake that add_to_rex_balance returns is dropped:
\* the payment was part of the votes as a stake, and stays part of them.
UnstakeToRex(owner, receiver, from_cpu, from_net) ==
    LET payment  == from_cpu + from_net
        part(k)  == IF k = "cpu" THEN from_cpu ELSE from_net
        received == RexReceived(pool, payment)
        paid     == [Move(Tables, StakeAccount, RexAccount, payment) EXCEPT
                        !.pool = AddToRexPool(pool, payment),
                        !.weight = [w \in Users \X Kinds |->
                            IF w[1] = receiver THEN weight[w] - part(w[2]) ELSE weight[w]]]
        bought   == AddToRexBalance(paid, owner, payment, received)
    IN  /\ from_cpu >= 0 /\ from_net >= 0
        /\ payment > 0
        /\ owner \in Voters
        /\ \A k \in Kinds : part(k) <= delband[<<owner, receiver, k>>]
        /\ CanAddToRexPool(pool, payment)
        /\ Commit(UpdateRexAccount(RunRex(bought, 2), owner, 0, 0))
        /\ delband' = [s \in Stakes |-> IF s[1] = owner /\ s[2] = receiver
                                        THEN delband[s] - part(s[3]) ELSE delband[s]]

\* An order that cannot be filled is queued, or added to the one that is.
Enqueue(t, a, r) ==
    IF t.order[a] = NoRow
    THEN [t EXCEPT !.order = [t.order EXCEPT ![a] =
                       [requested |-> r, proceeds |-> 0, stake_change |-> 0, is_open |-> TRUE]],
                   !.queue = Append(t.queue, a)]
    ELSE [t EXCEPT !.order = [t.order EXCEPT ![a] =
                       [t.order[a] EXCEPT !.requested = t.order[a].requested + r]]]

\* The order is tried at once, before those that wait.
SellRex(from, r) ==
    LET run    == RunRex(Tables, 2)
        ripe   == [run EXCEPT !.held = [run.held EXCEPT ![from] = ProcessMaturities(run.held[from])]]
        sold   == UpdateRexAccount(FillRexOrder(ripe, from, r), from, Worth(ripe.pool, r),
                                   VoteStakeSold(ripe, from, r) - ripe.held[from].vote_stake)
        queued == Enqueue(UpdateRexAccount(ripe, from, 0, 0), from, r)
        next   == IF CanFill(ripe.pool, r) THEN sold ELSE queued
    IN  /\ pool # NoRow
        /\ held[from] # NoRow
        /\ r > 0
        /\ r <= ripe.held[from].matured
        /\ CanFill(ripe.pool, r) => Worth(ripe.pool, r) > 0
        /\ InSellOrder(next, from) <= next.held[from].matured
        /\ Commit(next)
        /\ UNCHANGED delband

CancelRexOrder(owner) ==
    /\ IsOpen(Tables, owner)
    /\ Commit([Tables EXCEPT !.order = [order EXCEPT ![owner] = NoRow],
                             !.queue = Dequeue(queue, owner)])
    /\ UNCHANGED delband

\* rentcpu and rentnet, with rent_rex
Rent(from, receiver, kind, payment, loan_fund) ==
    LET run    == RunRex(Tables, 2)
        rented == BancorOutput(run.pool.rent, run.pool.unlent, payment)
        num    == run.pool.loan_num + 1
        loan   == [kind |-> kind, from |-> from, receiver |-> receiver, payment |-> payment,
                   balance |-> loan_fund, staked |-> rented, left |-> Term]
        paid   == TransferToFund(run, from, - (payment + loan_fund))
    IN  /\ pool # NoRow
        /\ RexLoansAvailable(run)
        /\ payment > 0 /\ loan_fund >= 0
        /\ run.fund[from] >= payment + loan_fund
        /\ payment < rented
        /\ num \in LoanNums
        /\ Commit([paid EXCEPT
                      !.pool = [AddLoan(run.pool, payment, rented) EXCEPT !.loan_num = num],
                      !.loans = [run.loans EXCEPT ![num] = loan],
                      !.weight = UpdateWeight(run, loan, rented)])
        /\ UNCHANGED delband

\* A loan of from that is still running.
Running(from, n) == loans[n] # NoRow /\ loans[n].from = from /\ loans[n].left > 0

\* The balance of loan n changes by amount, which comes from the fund.
MoveToLoan(t, from, n, amount) ==
    [TransferToFund(t, from, -amount) EXCEPT
        !.loans = [t.loans EXCEPT ![n] =
                      [t.loans[n] EXCEPT !.balance = t.loans[n].balance + amount]]]

\* fundcpuloan and fundnetloan
FundLoan(from, n, amount) ==
    /\ amount > 0
    /\ fund[from] >= amount
    /\ Running(from, n)
    /\ Commit(MoveToLoan(Tables, from, n, amount))
    /\ UNCHANGED delband

\* defcpuloan and defnetloan
DefundLoan(from, n, amount) ==
    /\ amount > 0
    /\ Running(from, n)
    /\ loans[n].balance >= amount
    /\ Commit(MoveToLoan(Tables, from, n, -amount))
    /\ UNCHANGED delband

UpdateRex(owner) ==
    LET run   == RunRex(Tables, 2)
        worth == IF run.pool.rex > 0 THEN Worth(run.pool, run.held[owner].rex) ELSE 0
        new   == [run EXCEPT !.held = [run.held EXCEPT ![owner] =
                     ProcessMaturities([run.held[owner] EXCEPT !.vote_stake = worth])]]
    IN  /\ pool # NoRow
        /\ held[owner] # NoRow
        /\ Commit(UpdateRexAccount(new, owner, 0, worth - run.held[owner].vote_stake))
        /\ UNCHANGED delband

RexExec(max) ==
    /\ pool # NoRow
    /\ Commit(RunRex(Tables, max))
    /\ UNCHANGED delband

\* consolidate, with consolidate_rex_balance: all that is neither saved nor in
\* an open order starts to mature again.
Consolidate(owner) ==
    LET t == UpdateRexAccount(RunRex(Tables, 2), owner, 0, 0)
        h == t.held[owner]
        all == h.matured - InSellOrder(t, owner) + SumOver(h.growing, Days)
        new == [h EXCEPT !.matured = InSellOrder(t, owner),
                         !.growing = [d \in Days |-> 0]]
    IN  /\ pool # NoRow
        /\ held[owner] # NoRow
        /\ Commit([t EXCEPT !.held = [t.held EXCEPT ![owner] = Grow(new, all)]])
        /\ UNCHANGED delband

AtLeastZero(n) == IF n < 0 THEN 0 ELSE n

\* The growing REX that savings of r leave in bucket d: the last to mature are
\* saved first.
LeftGrowing(h, r, d) ==
    LET later == SumOver([e \in Days |-> IF e > d THEN h.growing[e] ELSE 0], Days)
    IN  AtLeastZero(h.growing[d] - AtLeastZero(r - later))

\* What growing REX do not cover of the savings comes from the mature ones.
Save(h, r) ==
    [h EXCEPT !.growing = [d \in Days |-> LeftGrowing(h, r, d)],
              !.matured = h.matured - AtLeastZero(r - SumOver(h.growing, Days)),
              !.savings = h.savings + r]

\* Mutant: REX that are for sale may be saved.
MvToSavings_Sold(owner, r) ==
    LET t   == UpdateRexAccount(RunRex(Tables, 2), owner, 0, 0)
        old == ProcessMaturities(t.held[owner])
        new == Save(old, r)
    IN  /\ pool # NoRow
        /\ held[owner] # NoRow
        /\ r > 0
        /\ r + old.savings <= old.rex
        /\ Commit([t EXCEPT !.held = [t.held EXCEPT ![owner] = new]])
        /\ UNCHANGED delband

MvToSavings(owner, r) ==
    LET t   == UpdateRexAccount(RunRex(Tables, 2), owner, 0, 0)
        old == ProcessMaturities(t.held[owner])
        new == Save(old, r)
    IN  /\ pool # NoRow
        /\ held[owner] # NoRow
        /\ r > 0
        /\ r + InSellOrder(t, owner) + old.savings <= old.rex
        /\ new.matured < old.matured => InSellOrder(t, owner) <= new.matured
        /\ Commit([t EXCEPT !.held = [t.held EXCEPT ![owner] = new]])
        /\ UNCHANGED delband

MvFrSavings(owner, r) ==
    LET t   == UpdateRexAccount(RunRex(Tables, 2), owner, 0, 0)
        h   == t.held[owner]
        new == [Grow(ProcessMaturities(h), r) EXCEPT !.savings = h.savings - r]
    IN  /\ pool # NoRow
        /\ held[owner] # NoRow
        /\ r > 0
        /\ r <= h.savings
        /\ Commit([t EXCEPT !.held = [t.held EXCEPT ![owner] = new]])
        /\ UNCHANGED delband

\* The rows of an account that holds no REX are erased.
CloseRex(owner) ==
    LET run == IF pool # NoRow THEN RunRex(Tables, 2) ELSE Tables
        t   == UpdateRexAccount(run, owner, 0, 0)
    IN  /\ t.held[owner] # NoRow => t.held[owner].rex = 0
        /\ Commit([t EXCEPT !.held = [t.held EXCEPT ![owner] = NoRow]])
        /\ UNCHANGED delband
-----------------------------------------------------------------------------
(* The rest of the system                                                  *)

\* Voting, and staking for bandwidth, bring a's vote stake up to date.
UpdateVoteStake(a) ==
    /\ Commit(UpdateRexStake(Tables, a))
    /\ UNCHANGED delband

\* buyram and sellram: a fee, paid to eosio.ramfee, goes on to the pool.
ChannelFee(a, amount) ==
    /\ amount > 0
    /\ Commit(ChannelToRex(Move(Tables, a, FeeAccount, amount), FeeAccount, amount))
    /\ UNCHANGED delband

\* onblock closes a name bid that was paid to eosio.names before.
ChannelNameBid(amount) ==
    /\ RexAvailable(Tables)
    /\ amount > 0
    /\ pool.namebid + amount <= bal[NamesAccount]
    /\ Commit([Tables EXCEPT !.pool = [pool EXCEPT !.namebid = pool.namebid + amount]])
    /\ UNCHANGED delband

\* setrex, by the system account.
SetRex(balance) ==
    /\ pool # NoRow
    /\ balance > 0
    /\ Commit([Tables EXCEPT !.pool = [pool EXCEPT !.rent = balance]])
    /\ UNCHANGED delband

\* A day passes.
Tick ==
    /\ \A n \in LoanNums : loans[n] # NoRow => loans[n].left > -MaxLate
    /\ held' = [a \in Users |->
           IF held[a] = NoRow THEN NoRow
           ELSE [held[a] EXCEPT !.growing = [d \in Days |->
                    IF d = 0 THEN held[a].growing[0] + held[a].growing[1]
                    ELSE IF d = Maturity THEN 0 ELSE held[a].growing[d + 1]]]]
    /\ loans' = [n \in LoanNums |->
           IF loans[n] = NoRow THEN NoRow ELSE [loans[n] EXCEPT !.left = loans[n].left - 1]]
    /\ UNCHANGED <<pool, fund, order, queue, weight, staked, bal, delband>>

Lend(a) ==
    \/ \E q \in Quantities["buy"] : BuyRex(a, q)
    \/ \E q \in Quantities["sell"] : SellRex(a, q)
    \/ \E q \in Quantities["save"] : MvToSavings(a, q) \/ MvFrSavings(a, q)
    \/ \E to \in Users, q, p \in Quantities["unstake"] : UnstakeToRex(a, to, q, p)
    \/ CancelRexOrder(a)
    \/ UpdateRex(a)
    \/ Consolidate(a)
    \/ CloseRex(a)

Borrow(a) ==
    \/ \E to \in Users, kind \in Kinds, q \in Quantities["rent"], p \in Quantities["fund"] :
          Rent(a, to, kind, q, p)
    \/ \E n \in LoanNums, q \in Quantities["fund"] : FundLoan(a, n, q) \/ DefundLoan(a, n, q)

Transact(a) ==
    \/ \E q \in Quantities["deposit"] : Deposit(a, q)
    \/ \E q \in Quantities["withdraw"] : Withdraw(a, q)
    \/ Lend(a)
    \/ Borrow(a)
    \/ \E q \in Quantities["fee"] : ChannelFee(a, q)
    \/ UpdateVoteStake(a)

Next ==
    \/ \E a \in Users : Transact(a)
    \/ \E q \in Quantities["bid"] : ChannelNameBid(q)
    \/ \E q \in Quantities["price"] : SetRex(q)
    \/ \E max \in 0 .. 2 : RexExec(max)
    \/ Tick

Spec == Init /\ [][Next]_vars

\* There is maintenance to do, and it would succeed.
MaintenanceDue ==
    pool # NoRow /\ LET t == RunRex(Tables, 2) IN t # Tables /\ Acceptable(t)

\* Time passes, and somebody keeps the exchange going: rexexec is open to all,
\* and most actions run the same maintenance.  The last conjunct is
\* WF_vars(RexExec(2)), MaintenanceDue being its enabling condition.
FairSpec ==
    /\ Spec
    /\ WF_vars(Tick)
    /\ []<>(~ MaintenanceDue) \/ []<><<RexExec(2)>>_vars
-----------------------------------------------------------------------------
(* Properties                                                              *)

SumUsers(f(_)) == SumOver([a \in Users |-> f(a)], Users)
SumLoans(f(_)) == SumOver([n \in LoanNums |-> IF loans[n] = NoRow THEN 0 ELSE f(n)], LoanNums)

\* No amount in the tables is negative, the unlent part of the pool included:
\* lending, renewing and selling never take more out of it than there is.
TypeOK ==
    /\ pool \in Pool \cup {NoRow}
    /\ fund \in [Users -> Nat]
    /\ held \in [Users -> Share \cup {NoRow}]
    /\ order \in [Users -> Order \cup {NoRow}]
    /\ queue \in Seq(Users)
    /\ loans \in [LoanNums -> Loan \cup {NoRow}]
    /\ weight \in [Users \X Kinds -> Nat]
    /\ staked \in [Users -> Nat]
    /\ bal \in [Holders -> Nat]
    /\ delband \in [Stakes -> Nat]

\* The pool's totals are the sums of what the accounts hold and of what the
\* loans took, through partial sales, renewals and the day it is sold out: a
\* pool without REX holds and lends nothing, so whoever refills it finds
\* nothing of other people's and forgets no loan.
PoolMatchesLoans ==
    pool # NoRow =>
        /\ pool.lendable = pool.lent + pool.unlent
        /\ pool.lent = SumLoans(LAMBDA n : loans[n].staked)
        /\ pool.rex = SumUsers(LAMBDA a : IF held[a] = NoRow THEN 0 ELSE held[a].rex)
        /\ pool.rex = 0 => pool.lendable = 0

\* eosio.rex holds exactly what the pool, the funds, the balances of the loans
\* and the proceeds of the orders that were filled and not yet settled come to.
RexCustody ==
    bal[RexAccount] =
        (IF pool = NoRow THEN 0 ELSE pool.unlent + pool.lent)
        + SumOver(fund, Users)
        + SumLoans(LAMBDA n : loans[n].balance)
        + SumUsers(LAMBDA a : IF order[a] = NoRow THEN 0 ELSE order[a].proceeds)

\* What an open order asks for is there, mature, when its turn comes, whatever
\* its owner saved, consolidated or sold meanwhile; the buckets of a share add
\* up; and the queue holds each open order once.
OrdersCovered ==
    /\ \A a \in Users : held[a] # NoRow =>
          held[a].rex = held[a].matured + SumOver(held[a].growing, Days) + held[a].savings
    /\ \A a \in Users : IsOpen(Tables, a) =>
          held[a] # NoRow /\ order[a].requested <= held[a].matured
    /\ {queue[i] : i \in DOMAIN queue} = {a \in Users : IsOpen(Tables, a)}
    /\ \A i, j \in DOMAIN queue : queue[i] = queue[j] => i = j

\* The weights that limit an account's bandwidth are what was delegated to it
\* and what is rented for it: no renewal counts twice, no closed loan lasts.
WeightsMatchLoans ==
    \A a \in Users, k \in Kinds :
        weight[<<a, k>>] =
            SumUsers(LAMBDA b : delband[<<b, a, k>>])
            + SumLoans(LAMBDA n : IF loans[n].receiver = a /\ loans[n].kind = k
                                  THEN loans[n].staked ELSE 0)

\* Maintenance never gets stuck: whatever is due, none of the checks and of the
\* inline transfers of runrex fails, which would block every other action too.
MaintenanceSucceeds == pool # NoRow => Acceptable(RunRex(Tables, 2))

\* A REX never loses value while anybody holds some: buying, selling, lending,
\* closing loans and rounding only ever favour those who stay.
PriceNeverFalls ==
    [][pool # NoRow /\ pool.rex > 0 /\ pool'.rex > 0 =>
          pool'.lendable * pool.rex >= pool.lendable * pool'.rex]_vars

\* What a delegated, and what its REX count for in its votes, but for the
\* part that a filled order has taken from its share and not yet from them.
Included(a) ==
    SumOver([s \in Stakes |-> IF s[1] = a THEN delband[s] ELSE 0], Stakes)
    + VoteStake(Tables, a)
    - (IF IsClosed(Tables, a) THEN order[a].stake_change ELSE 0)

\* "the amount of CORE_SYMBOL currently included in owner's vote": what an
\* account votes with is what it delegated and its vote_stake.
VoteStakeIncluded == \A a \in Users : staked[a] = Included(a)

\* The same, by steps: whatever is bought, sold, filled by others, settled or
\* revalued, in any order, votes follow vote_stake, as long as nothing is
\* unstaked to REX and no share is closed.
VoteStakeFollowed ==
    [][\A a \in Users :
          (\A s \in Stakes : delband'[s] = delband[s]) /\ (held[a] # NoRow => held'[a] # NoRow)
              => staked'[a] - staked[a] = Included(a)' - Included(a)]_vars

\* A sell order does not wait for ever: new loans and renewals stop while it
\* waits, the loans there are run out, and then all of the pool is for sale.
OrdersSettle == \A a \in Users : IsOpen(Tables, a) ~> ~ IsOpen(Tables, a)
=============================================================================
