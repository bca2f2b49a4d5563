------------------------------ MODULE Rex_proofs ------------------------------
(***************************************************************************)
(* Proofs about Rex for any number of users, loans and days, any amounts   *)
(* and any reserve.                                                        *)
(*                                                                         *)
(* Actions run the maintenance in the middle of what they do, and check    *)
(* only at the end.  What holds is therefore stated of a record of tables, *)
(* which every operator of Rex keeps (RexTablesInv), and what does not hold  *)
(* in between, of three differences (Gap, Rented, VotesOff) that each      *)
(* operator changes by a known amount, which add up to 0 in an action.     *)
(***************************************************************************)
EXTENDS Rex, FiniteSetTheorems, Sums_proofs

\* The tables on the way through an action, where a check may not have come yet.
RexTables ==
    [pool : Pool \cup {NoRow}, fund : [Users -> Nat], held : [Users -> Share \cup {NoRow}],
     order : [Users -> Order \cup {NoRow}], queue : Seq(Users),
     loans : [LoanNums -> Loan \cup {NoRow}], weight : [Users \X Kinds -> Int],
     staked : [Users -> Int], bal : [Holders -> Int]]

\* The columns that are summed.
RexIn(row)       == IF row = NoRow THEN 0 ELSE row.rex
ProceedsIn(row)  == IF row = NoRow THEN 0 ELSE row.proceeds
StakedIn(row)    == IF row = NoRow THEN 0 ELSE row.staked
BalanceIn(row)   == IF row = NoRow THEN 0 ELSE row.balance
RentedIn(row, w) == IF row = NoRow THEN 0
                    ELSE IF row.receiver = w[1] /\ row.kind = w[2] THEN row.staked ELSE 0

Shares(t)    == SumOver([a \in Users |-> RexIn(t.held[a])], Users)
Proceeds(t)  == SumOver([a \in Users |-> ProceedsIn(t.order[a])], Users)
Lent(t)      == SumOver([n \in LoanNums |-> StakedIn(t.loans[n])], LoanNums)
Balances(t)  == SumOver([n \in LoanNums |-> BalanceIn(t.loans[n])], LoanNums)
Rented(t, w) == SumOver([n \in LoanNums |-> RentedIn(t.loans[n], w)], LoanNums)
Funds(t)     == SumOver(t.fund, Users)
PoolTokens(p) == IF p = NoRow THEN 0 ELSE p.unlent + p.lent

\* Without a pool nobody has lent, rented or sold anything.
Unopened(t) ==
    t.pool = NoRow => /\ \A n \in LoanNums : t.loans[n] = NoRow
                      /\ \A a \in Users : t.held[a] = NoRow /\ t.order[a] = NoRow

\* The totals of the pool.
PoolAgrees(t) ==
    t.pool # NoRow =>
        /\ t.pool.lendable = t.pool.lent + t.pool.unlent
        /\ t.pool.lent = Lent(t)
        /\ t.pool.rex = Shares(t)
        /\ t.pool.rex = 0 => t.pool.lendable = 0

\* A loan was worth its price, and its number is taken.
LoanGood(row)   == row # NoRow => 0 < row.payment /\ row.payment < row.staked
LoansNumbered(t) ==
    \A n \in LoanNums : LoanGood(t.loans[n]) /\ (t.pool # NoRow /\ n > t.pool.loan_num
                                                    => t.loans[n] = NoRow)

\* The buckets of a share add up.
BucketsAdd(h) == h # NoRow => h.rex = h.matured + SumOver(h.growing, Days) + h.savings

\* An open order asks for mature REX of its owner and has not brought anything yet.
OrderCovered(o, h) ==
    o # NoRow /\ o.is_open =>
        /\ h # NoRow
        /\ 0 < o.requested
        /\ o.requested <= h.matured
        /\ o.proceeds = 0
        /\ o.stake_change = 0

RowsGood(t) == \A a \in Users : BucketsAdd(t.held[a]) /\ OrderCovered(t.order[a], t.held[a])

QueueAgrees(t) ==
    /\ \A i \in DOMAIN t.queue : IsOpen(t, t.queue[i])
    /\ \A a \in Users : IsOpen(t, a) => \E i \in DOMAIN t.queue : t.queue[i] = a
    /\ \A i, j \in DOMAIN t.queue : t.queue[i] = t.queue[j] => i = j

RexTablesInv(t) ==
    /\ t \in RexTables
    /\ Unopened(t)
    /\ PoolAgrees(t)
    /\ LoansNumbered(t)
    /\ RowsGood(t)
    /\ QueueAgrees(t)

\* What eosio.rex holds beyond what it owes.
Gap(t) == t.bal[RexAccount] - PoolTokens(t.pool) - Funds(t) - Balances(t) - Proceeds(t)

\* A weight without what is rented.
OwnWeight(t, w) == t.weight[w] - Rented(t, w)
DelegatedTo(w)  == SumOver([b \in Users |-> delband[<<b, w[1], w[2]>>]], Users)

NameBidsHeld(t) == t.pool # NoRow => t.pool.namebid <= t.bal[NamesAccount]

RexInv ==
    /\ TypeOK
    /\ RexTablesInv(Tables)
    /\ Gap(Tables) = 0
    /\ \A w \in Users \X Kinds : OwnWeight(Tables, w) = DelegatedTo(w)
    /\ NameBidsHeld(Tables)
-----------------------------------------------------------------------------
(* The prices                                                              *)

LEMMA QuotientMonotone ==
  ASSUME NEW m \in Nat, NEW n \in Nat, NEW d \in Nat \ {0}, m <= n
  PROVE  m \div d <= n \div d
<1> DEFINE a == m \div d
           b == n \div d
<1>1. a \in Nat /\ b \in Nat /\ d * a <= m /\ n < d * b + d
  OBVIOUS
<1> HIDE DEF a, b
<1>2. d * a <= d * (b + 1)
  BY <1>1
<1>3. d * a < d * (b + 1)
  BY <1>1
<1>4. a <= b + 1
  BY <1>1, <1>2, TimesCancels
<1>5. a # b + 1
  <2> SUFFICES ASSUME a = b + 1 PROVE FALSE
    OBVIOUS
  <2>1. d * (b + 1) < d * (b + 1) /\ d * (b + 1) \in Int
    BY <1>1, <1>3
  <2>2. QED
    BY <2>1
<1>6. QED
  BY <1>1, <1>4, <1>5 DEF a, b

\* What shares are worth is rounded down, grows with them, and comes to the pool for all.
LEMMA WorthBound ==
  ASSUME NEW p \in Pool, p.rex # 0, NEW r \in Nat
  PROVE  /\ Worth(p, r) \in Nat
         /\ p.rex * Worth(p, r) <= r * p.lendable
         /\ r <= p.rex => Worth(p, r) <= p.lendable
         /\ r = p.rex => Worth(p, r) = p.lendable
<1> DEFINE q == Worth(p, r)
<1>1. p.rex \in Nat \ {0} /\ p.lendable \in Nat
  BY DEF Pool
<1>2. r * p.lendable \in Nat
  BY <1>1, TimesNat
<1>3. q \in Nat /\ p.rex * q <= r * p.lendable
  BY <1>1, <1>2, QuotientBound DEF Worth
<1>4. ASSUME r <= p.rex PROVE q <= p.lendable
  <2>1. r * p.lendable <= p.rex * p.lendable
    BY <1>1, <1>4, TimesMonotone
  <2>2. p.rex * q <= p.rex * p.lendable
    <3> HIDE DEF q
    <3>1. p.rex * q \in Int /\ r * p.lendable \in Int /\ p.rex * p.lendable \in Int
      BY <1>1, <1>2, <1>3
    <3>2. QED
      BY <1>3, <2>1, <3>1
  <2> HIDE DEF q
  <2>3. QED
    BY <1>1, <1>3, <2>2, TimesCancels
<1>5. ASSUME r = p.rex PROVE q = p.lendable
  BY <1>1, <1>5 DEF Worth
<1>6. QED
  BY <1>3, <1>4, <1>5

LEMMA WorthMonotone ==
  ASSUME NEW p \in Pool, p.rex # 0, NEW r \in Nat, NEW s \in Nat, r <= s
  PROVE  Worth(p, r) <= Worth(p, s)
<1>1. p.rex \in Nat \ {0} /\ p.lendable \in Nat
  BY DEF Pool
<1>2. r * p.lendable \in Nat /\ s * p.lendable \in Nat /\ r * p.lendable <= s * p.lendable
  BY <1>1, TimesNat, TimesMonotone
<1>3. QED
  BY <1>1, <1>2, QuotientMonotone DEF Worth

\* A conversion never takes more than there is.
LEMMA BancorBound ==
  ASSUME NEW conin \in Nat, NEW conout \in Nat, NEW in \in Nat \ {0}
  PROVE  BancorOutput(conin, conout, in) \in 0 .. conout
<1> DEFINE q == BancorOutput(conin, conout, in)
           d == in + conin
<1>1. d \in Nat \ {0} /\ in <= d /\ in * conout \in Nat /\ d * conout \in Nat
  BY TimesNat
<1>2. in * conout <= d * conout
  BY <1>1, TimesMonotone
<1>3. q = (in * conout) \div d
  BY DEF BancorOutput
<1> HIDE DEF q, d
<1>4. q \in Nat /\ d * q <= in * conout
  BY <1>1, <1>3, QuotientBound
<1>5. d * q <= d * conout
  <2>1. d * q \in Nat
    BY <1>1, <1>4, TimesNat
  <2>2. QED
    BY <1>1, <1>2, <1>4, <2>1
<1>6. q <= conout
  BY <1>1, <1>4, <1>5, TimesCancels
<1>7. QED
  BY <1>4, <1>6 DEF q

LEMMA GrownPool ==
  ASSUME NEW p \in Pool, NEW payment, ~ (p = NoRow \/ p.rex = 0),
         NEW m \in Nat, m = p.lendable + payment,
         NEW u \in Nat, u = p.lendable + payment - p.lent,
         NEW w \in Nat, w = (m * p.rex) \div p.lendable
  PROVE  LET q == AddToRexPool(p, payment)
         IN  /\ q \in Pool /\ q.lendable = m /\ q.unlent = u /\ q.rex = w
             /\ q.lent = p.lent /\ q.namebid = p.namebid /\ q.loan_num = p.loan_num
<1> DEFINE q == AddToRexPool(p, payment)
<1>1. q = [p EXCEPT !.lendable = p.lendable + payment,
                    !.unlent = p.lendable + payment - p.lent,
                    !.rex = ((p.lendable + payment) * p.rex) \div p.lendable]
  BY DEF AddToRexPool
<1>2. /\ p.lendable + payment = m
      /\ p.lendable + payment - p.lent = u
      /\ ((p.lendable + payment) * p.rex) \div p.lendable = w
  BY Zenon
<1> HIDE DEF q
<1>3. q = [p EXCEPT !.lendable = m, !.unlent = u, !.rex = w]
  BY <1>1, <1>2
<1>4. QED
  BY <1>3 DEF Pool, q

\* A purchase: the pool grows by the payment, and by shares that are worth no more.
LEMMA PurchaseBound ==
  ASSUME NEW p \in Pool \cup {NoRow}, NEW payment \in Nat \ {0}, CanAddToRexPool(p, payment),
         p # NoRow => /\ p.lendable = p.lent + p.unlent
                      /\ p.rex = 0 => p.lendable = 0
  PROVE  LET q == AddToRexPool(p, payment)
         IN  /\ q \in Pool /\ q.rex \in Nat \ {0} /\ q.lendable = q.lent + q.unlent
             /\ q.lendable # 0
             /\ RexReceived(p, payment) \in Nat
             /\ q.rex = RexIn(p) + RexReceived(p, payment)
             /\ q.namebid = IF p = NoRow THEN 0 ELSE p.namebid
             /\ q.loan_num = IF p = NoRow THEN 0 ELSE p.loan_num
             /\ q.lent = IF p = NoRow THEN 0 ELSE p.lent
             /\ PoolTokens(q) = PoolTokens(p) + payment
             /\ p # NoRow /\ p.rex > 0 => q.lendable * p.rex >= p.lendable * q.rex
<1> DEFINE q == AddToRexPool(p, payment)
<1>0. RexRatio \in Nat \ {0} /\ InitRent \in Nat \ {0}
  BY AmountsAssumption
<1>1. NoRow \notin Pool /\ 0 \in LoanNums \cup {0}
  BY NoRowAssumption
<1>2. CASE p = NoRow \/ p.rex = 0
  <2>1. payment * RexRatio \in Nat \ {0}
    BY <1>0
  <2>2. q = [lent |-> 0, unlent |-> payment, rent |-> InitRent, lendable |-> payment,
             rex |-> payment * RexRatio,
             namebid |-> IF p = NoRow THEN 0 ELSE p.namebid,
             loan_num |-> IF p = NoRow THEN 0 ELSE p.loan_num]
    BY <1>2 DEF AddToRexPool
  <2> HIDE DEF q
  <2>3. /\ q.lent = 0 /\ q.unlent = payment /\ q.lendable = payment /\ q.rex = payment * RexRatio
        /\ q.namebid = IF p = NoRow THEN 0 ELSE p.namebid
        /\ q.loan_num = IF p = NoRow THEN 0 ELSE p.loan_num
    BY <2>2
  <2>4. p # NoRow => p.lent = 0 /\ p.unlent = 0 /\ p \in Pool
    BY <1>2 DEF Pool
  <2>5. q \in Pool
    BY <1>0, <1>1, <2>1, <2>2, <2>4 DEF Pool
  <2>6. RexIn(p) = 0 /\ PoolTokens(p) = 0 /\ PoolTokens(q) = payment
    BY <1>1, <1>2, <2>3, <2>4, <2>5 DEF RexIn, PoolTokens
  <2>7. RexReceived(p, payment) = q.rex
    BY <1>2, <2>1, <2>3 DEF RexReceived, q
  <2>8. QED
    BY <1>2, <2>1, <2>3, <2>4, <2>5, <2>6, <2>7 DEF q
<1>3. CASE p # NoRow /\ p.rex # 0
  <2>1. /\ p \in Pool /\ p.lendable \in Nat \ {0} /\ p.rex \in Nat \ {0} /\ p.lent \in Nat
        /\ p.unlent \in Nat
    BY <1>3 DEF Pool, CanAddToRexPool
  <2> HIDE DEF q
  <2> DEFINE m == p.lendable + payment
             w == (m * p.rex) \div p.lendable
  <2>2. m = p.lendable + payment /\ w = (m * p.rex) \div p.lendable
    OBVIOUS
  <2>3. m \in Nat /\ m * p.rex \in Nat /\ p.rex * p.lendable \in Nat /\ p.lendable <= m
    BY <2>1, TimesNat
  <2>4. w \in Nat /\ p.lendable * w <= m * p.rex
    BY <2>1, <2>3, QuotientBound
  <2>5. p.rex <= w
    <3>1. p.lendable * p.rex <= m * p.rex
      BY <2>1, <2>3, TimesMonotone
    <3>2. (p.lendable * p.rex) \div p.lendable <= w
      BY <2>1, <2>3, <3>1, QuotientMonotone
    <3>3. (p.lendable * p.rex) \div p.lendable = p.rex
      BY <2>1
    <3>4. QED
      BY <3>2, <3>3
  <2>6. p.lendable + payment - p.lent = p.unlent + payment /\ p.unlent + payment \in Nat
    BY <1>3, <2>1
  <2> HIDE DEF m, w
  <2>7. /\ q \in Pool /\ q.lendable = m /\ q.unlent = p.unlent + payment /\ q.rex = w
        /\ q.lent = p.lent /\ q.namebid = p.namebid /\ q.loan_num = p.loan_num
    <3>1. ~ (p = NoRow \/ p.rex = 0)
      BY <1>3
    <3> DEFINE u == p.unlent + payment
    <3>2. u \in Nat /\ u = p.lendable + payment - p.lent
      BY <2>6
    <3> HIDE DEF u
    <3>3. LET r == AddToRexPool(p, payment)
          IN  /\ r \in Pool /\ r.lendable = m /\ r.unlent = u /\ r.rex = w
              /\ r.lent = p.lent /\ r.namebid = p.namebid /\ r.loan_num = p.loan_num
      BY <2>1, <2>2, <2>3, <2>4, <3>1, <3>2, GrownPool
    <3>4. QED
      BY <3>3 DEF q, u
  <2>8. RexIn(p) = p.rex /\ RexReceived(p, payment) = w - p.rex
    BY <1>3, <2>7 DEF RexIn, RexReceived, q
  <2>9. PoolTokens(q) = PoolTokens(p) + payment /\ q.lendable = q.lent + q.unlent /\ q.lendable # 0
    BY <1>1, <1>3, <2>1, <2>2, <2>7 DEF PoolTokens
  <2>10. q.lendable * p.rex >= p.lendable * q.rex
    BY <2>4, <2>7
  <2>11. RexReceived(p, payment) \in Nat /\ q.rex \in Nat \ {0}
         /\ q.rex = RexIn(p) + RexReceived(p, payment)
    BY <2>1, <2>4, <2>5, <2>7, <2>8
  <2>12. QED
    BY <1>3, <2>7, <2>9, <2>10, <2>11 DEF q
<1>4. QED
  BY <1>2, <1>3
-----------------------------------------------------------------------------
(* The columns                                                             *)

LEMMA SetsFinite == IsFiniteSet(Users) /\ IsFiniteSet(LoanNums) /\ IsFiniteSet(Days)
<1>1. IsFiniteSet(LoanNums) /\ IsFiniteSet(Days)
  <2>1. 0 \in Int /\ 1 \in Int /\ Maturity \in Int /\ MaxLoans \in Int
    BY AmountsAssumption
  <2>2. QED
    BY <2>1, FS_Interval DEF LoanNums, Days
<1>2. QED
  BY <1>1, UsersAssumption

LEMMA NoRowApart ==
  /\ NoRow \notin Pool /\ NoRow \notin Share /\ NoRow \notin Order /\ NoRow \notin Loan
  BY NoRowAssumption

\* The fields of tables, and their rows.
LEMMA FieldTypes ==
  ASSUME NEW t \in RexTables
  PROVE  /\ t.pool \in Pool \cup {NoRow}
         /\ t.fund \in [Users -> Nat]
         /\ t.held \in [Users -> Share \cup {NoRow}]
         /\ t.order \in [Users -> Order \cup {NoRow}]
         /\ t.queue \in Seq(Users)
         /\ t.loans \in [LoanNums -> Loan \cup {NoRow}]
         /\ t.weight \in [Users \X Kinds -> Int]
         /\ t.staked \in [Users -> Int]
         /\ t.bal \in [Holders -> Int]
  BY DEF RexTables

LEMMA RowValues ==
  /\ \A h \in Share \cup {NoRow} : RexIn(h) \in Nat
  /\ \A o \in Order \cup {NoRow} : ProceedsIn(o) \in Nat
  /\ \A l \in Loan \cup {NoRow} :
        StakedIn(l) \in Nat /\ BalanceIn(l) \in Nat /\ \A w \in Users \X Kinds : RentedIn(l, w) \in Nat
  BY NoRowApart DEF Share, Order, Loan, RexIn, ProceedsIn, StakedIn, BalanceIn, RentedIn

LEMMA SumTypes ==
  ASSUME NEW t \in RexTables
  PROVE  /\ Shares(t) \in Nat /\ Proceeds(t) \in Nat /\ Funds(t) \in Nat
         /\ Lent(t) \in Nat /\ Balances(t) \in Nat
         /\ \A w \in Users \X Kinds : Rented(t, w) \in Nat
         /\ PoolTokens(t.pool) \in Nat
<1>1. \A a \in Users : RexIn(t.held[a]) \in Nat /\ ProceedsIn(t.order[a]) \in Nat /\ t.fund[a] \in Nat
  BY FieldTypes, RowValues
<1>2. \A n \in LoanNums : /\ StakedIn(t.loans[n]) \in Nat /\ BalanceIn(t.loans[n]) \in Nat
                          /\ \A w \in Users \X Kinds : RentedIn(t.loans[n], w) \in Nat
  BY FieldTypes, RowValues
<1>3. Shares(t) \in Nat
  <2> DEFINE f == [a \in Users |-> RexIn(t.held[a])]
  <2>1. \A a \in Users : f[a] \in Nat
    BY <1>1
  <2> HIDE DEF f
  <2>2. SumOver(f, Users) \in Nat
    BY <2>1, SetsFinite, SumOverNat
  <2>3. QED
    BY <2>2 DEF Shares, f
<1>4. Proceeds(t) \in Nat
  <2> DEFINE f == [a \in Users |-> ProceedsIn(t.order[a])]
  <2>1. \A a \in Users : f[a] \in Nat
    BY <1>1
  <2> HIDE DEF f
  <2>2. SumOver(f, Users) \in Nat
    BY <2>1, SetsFinite, SumOverNat
  <2>3. QED
    BY <2>2 DEF Proceeds, f
<1>5. Funds(t) \in Nat
  BY <1>1, SetsFinite, SumOverNat DEF Funds
<1>6. Lent(t) \in Nat
  <2> DEFINE f == [n \in LoanNums |-> StakedIn(t.loans[n])]
  <2>1. \A n \in LoanNums : f[n] \in Nat
    BY <1>2
  <2> HIDE DEF f
  <2>2. SumOver(f, LoanNums) \in Nat
    BY <2>1, SetsFinite, SumOverNat
  <2>3. QED
    BY <2>2 DEF Lent, f
<1>7. Balances(t) \in Nat
  <2> DEFINE f == [n \in LoanNums |-> BalanceIn(t.loans[n])]
  <2>1. \A n \in LoanNums : f[n] \in Nat
    BY <1>2
  <2> HIDE DEF f
  <2>2. SumOver(f, LoanNums) \in Nat
    BY <2>1, SetsFinite, SumOverNat
  <2>3. QED
    BY <2>2 DEF Balances, f
<1>8. ASSUME NEW w \in Users \X Kinds PROVE Rented(t, w) \in Nat
  <2> DEFINE f == [n \in LoanNums |-> RentedIn(t.loans[n], w)]
  <2>1. \A n \in LoanNums : f[n] \in Nat
    BY <1>2
  <2> HIDE DEF f
  <2>2. SumOver(f, LoanNums) \in Nat
    BY <2>1, SetsFinite, SumOverNat
  <2>3. QED
    BY <2>2 DEF Rented, f
<1>9. PoolTokens(t.pool) \in Nat
  <2>1. t.pool \in Pool \cup {NoRow}
    BY FieldTypes
  <2>2. QED
    BY <2>1 DEF PoolTokens, Pool
<1>10. QED
  BY <1>3, <1>4, <1>5, <1>6, <1>7, <1>8, <1>9

\* A share that changes changes the sum.
LEMMA SharesChange ==
  ASSUME NEW t \in RexTables, NEW u \in RexTables, NEW a \in Users,
         \A b \in Users \ {a} : u.held[b] = t.held[b]
  PROVE  Shares(u) = Shares(t) + RexIn(u.held[a]) - RexIn(t.held[a])
<1> DEFINE f == [b \in Users |-> RexIn(t.held[b])]
           h == [b \in Users |-> RexIn(u.held[b])]
<1>1. \A b \in Users : f[b] \in Int /\ h[b] \in Int
  BY FieldTypes, RowValues
<1>2. \A b \in Users \ {a} : f[b] = h[b]
  OBVIOUS
<1>3. f[a] = RexIn(t.held[a]) /\ h[a] = RexIn(u.held[a])
  OBVIOUS
<1> HIDE DEF f, h
<1>4. SumOver(h, Users) = SumOver(f, Users) + h[a] - f[a]
  BY <1>1, <1>2, SetsFinite, SumOverChange
<1>5. QED
  BY <1>3, <1>4 DEF Shares, f, h

LEMMA ProceedsChange ==
  ASSUME NEW t \in RexTables, NEW u \in RexTables, NEW a \in Users,
         \A b \in Users \ {a} : u.order[b] = t.order[b]
  PROVE  Proceeds(u) = Proceeds(t) + ProceedsIn(u.order[a]) - ProceedsIn(t.order[a])
<1> DEFINE f == [b \in Users |-> ProceedsIn(t.order[b])]
           h == [b \in Users |-> ProceedsIn(u.order[b])]
<1>1. \A b \in Users : f[b] \in Int /\ h[b] \in Int
  BY FieldTypes, RowValues
<1>2. \A b \in Users \ {a} : f[b] = h[b]
  OBVIOUS
<1>3. f[a] = ProceedsIn(t.order[a]) /\ h[a] = ProceedsIn(u.order[a])
  OBVIOUS
<1> HIDE DEF f, h
<1>4. SumOver(h, Users) = SumOver(f, Users) + h[a] - f[a]
  BY <1>1, <1>2, SetsFinite, SumOverChange
<1>5. QED
  BY <1>3, <1>4 DEF Proceeds, f, h

LEMMA FundsChange ==
  ASSUME NEW t \in RexTables, NEW u \in RexTables, NEW a \in Users, NEW q \in Int,
         u.fund = [t.fund EXCEPT ![a] = q]
  PROVE  Funds(u) = Funds(t) + q - t.fund[a]
<1> DEFINE f == t.fund
           h == u.fund
<1>1. \A b \in Users : f[b] \in Int /\ h[b] \in Int
  BY FieldTypes
<1>2. (\A b \in Users \ {a} : f[b] = h[b]) /\ h[a] = q
  BY FieldTypes
<1> HIDE DEF f, h
<1>3. SumOver(h, Users) = SumOver(f, Users) + h[a] - f[a]
  BY <1>1, <1>2, SetsFinite, SumOverChange
<1>4. QED
  BY <1>2, <1>3 DEF Funds, f, h

\* A loan that changes changes what is lent, the balances and what is rented for each account.
LEMMA LoansChange ==
  ASSUME NEW t \in RexTables, NEW u \in RexTables, NEW n \in LoanNums,
         \A m \in LoanNums \ {n} : u.loans[m] = t.loans[m]
  PROVE  /\ Lent(u) = Lent(t) + StakedIn(u.loans[n]) - StakedIn(t.loans[n])
         /\ Balances(u) = Balances(t) + BalanceIn(u.loans[n]) - BalanceIn(t.loans[n])
         /\ \A w \in Users \X Kinds :
               Rented(u, w) = Rented(t, w) + RentedIn(u.loans[n], w) - RentedIn(t.loans[n], w)
<1>0. \A m \in LoanNums : t.loans[m] \in Loan \cup {NoRow} /\ u.loans[m] \in Loan \cup {NoRow}
  BY FieldTypes
<1>1. Lent(u) = Lent(t) + StakedIn(u.loans[n]) - StakedIn(t.loans[n])
  <2> DEFINE f == [m \in LoanNums |-> StakedIn(t.loans[m])]
             h == [m \in LoanNums |-> StakedIn(u.loans[m])]
  <2>1. \A m \in LoanNums : f[m] \in Int /\ h[m] \in Int
    BY <1>0, RowValues
  <2>2. \A m \in LoanNums \ {n} : f[m] = h[m]
    OBVIOUS
  <2>3. f[n] = StakedIn(t.loans[n]) /\ h[n] = StakedIn(u.loans[n])
    OBVIOUS
  <2> HIDE DEF f, h
  <2>4. SumOver(h, LoanNums) = SumOver(f, LoanNums) + h[n] - f[n]
    BY <2>1, <2>2, SetsFinite, SumOverChange
  <2>5. QED
    BY <2>3, <2>4 DEF Lent, f, h
<1>2. Balances(u) = Balances(t) + BalanceIn(u.loans[n]) - BalanceIn(t.loans[n])
  <2> DEFINE f == [m \in LoanNums |-> BalanceIn(t.loans[m])]
             h == [m \in LoanNums |-> BalanceIn(u.loans[m])]
  <2>1. \A m \in LoanNums : f[m] \in Int /\ h[m] \in Int
    BY <1>0, RowValues
  <2>2. \A m \in LoanNums \ {n} : f[m] = h[m]
    OBVIOUS
  <2>3. f[n] = BalanceIn(t.loans[n]) /\ h[n] = BalanceIn(u.loans[n])
    OBVIOUS
  <2> HIDE DEF f, h
  <2>4. SumOver(h, LoanNums) = SumOver(f, LoanNums) + h[n] - f[n]
    BY <2>1, <2>2, SetsFinite, SumOverChange
  <2>5. QED
    BY <2>3, <2>4 DEF Balances, f, h
<1>3. ASSUME NEW w \in Users \X Kinds
      PROVE  Rented(u, w) = Rented(t, w) + RentedIn(u.loans[n], w) - RentedIn(t.loans[n], w)
  <2> DEFINE f == [m \in LoanNums |-> RentedIn(t.loans[m], w)]
             h == [m \in LoanNums |-> RentedIn(u.loans[m], w)]
  <2>1. \A m \in LoanNums : f[m] \in Int /\ h[m] \in Int
    BY <1>0, RowValues
  <2>2. \A m \in LoanNums \ {n} : f[m] = h[m]
    OBVIOUS
  <2>3. f[n] = RentedIn(t.loans[n], w) /\ h[n] = RentedIn(u.loans[n], w)
    OBVIOUS
  <2> HIDE DEF f, h
  <2>4. SumOver(h, LoanNums) = SumOver(f, LoanNums) + h[n] - f[n]
    BY <2>1, <2>2, SetsFinite, SumOverChange
  <2>5. QED
    BY <2>3, <2>4 DEF Rented, f, h
<1>4. QED
  BY <1>1, <1>2, <1>3
-----------------------------------------------------------------------------
(* What an operator changes: money, a row of an account, the pool, a loan  *)

LEMMA TablesHave ==
  ASSUME NEW t, RexTablesInv(t)
  PROVE  /\ t \in RexTables
         /\ Unopened(t) /\ PoolAgrees(t) /\ LoansNumbered(t) /\ RowsGood(t) /\ QueueAgrees(t)
  BY DEF RexTablesInv

LEMMA SameSums ==
  ASSUME NEW t, NEW u
  PROVE  /\ u.held = t.held => Shares(u) = Shares(t)
         /\ u.order = t.order => Proceeds(u) = Proceeds(t)
         /\ u.fund = t.fund => Funds(u) = Funds(t)
         /\ u.loans = t.loans => /\ Lent(u) = Lent(t) /\ Balances(u) = Balances(t)
                                 /\ \A w : Rented(u, w) = Rented(t, w)
  BY DEF Shares, Proceeds, Funds, Lent, Balances, Rented

LEMMA MoneyStep ==
  ASSUME NEW t, RexTablesInv(t), NEW u \in RexTables,
         u.pool = t.pool, u.held = t.held, u.order = t.order, u.queue = t.queue, u.loans = t.loans
  PROVE  RexTablesInv(u)
<1>1. /\ Unopened(u) /\ LoansNumbered(u) /\ RowsGood(u)
  BY TablesHave DEF Unopened, LoansNumbered, RowsGood
<1>2. PoolAgrees(u)
  BY TablesHave, SameSums DEF PoolAgrees
<1>3. QueueAgrees(u)
  BY TablesHave DEF QueueAgrees, IsOpen
<1>4. QED
  BY <1>1, <1>2, <1>3 DEF RexTablesInv

\* The rows of one account, and the pool by the shares it has more or less.
LEMMA AccountStep ==
  ASSUME NEW t, RexTablesInv(t), NEW u \in RexTables, NEW a \in Users,
         u.pool \in Pool, u.loans = t.loans,
         \A b \in Users \ {a} : u.held[b] = t.held[b] /\ u.order[b] = t.order[b],
         BucketsAdd(u.held[a]), OrderCovered(u.order[a], u.held[a]), QueueAgrees(u),
         u.pool.lendable = u.pool.lent + u.pool.unlent,
         u.pool.lent = (IF t.pool = NoRow THEN 0 ELSE t.pool.lent),
         u.pool.loan_num = (IF t.pool = NoRow THEN 0 ELSE t.pool.loan_num),
         u.pool.rex = RexIn(t.pool) + RexIn(u.held[a]) - RexIn(t.held[a]),
         u.pool.rex = 0 => u.pool.lendable = 0
  PROVE  RexTablesInv(u)
<1>1. t \in RexTables
  BY TablesHave
<1>2. u.pool # NoRow
  BY NoRowApart
<1>3. Lent(u) = Lent(t)
  BY SameSums
<1>4. Shares(u) = Shares(t) + RexIn(u.held[a]) - RexIn(t.held[a])
  BY <1>1, SharesChange
<1>5. Lent(t) = (IF t.pool = NoRow THEN 0 ELSE t.pool.lent) /\ Shares(t) = RexIn(t.pool)
  <2>1. CASE t.pool # NoRow
    BY <2>1, TablesHave DEF PoolAgrees, RexIn
  <2>2. CASE t.pool = NoRow
    <3>1. \A n \in LoanNums : t.loans[n] = NoRow
      BY <2>2, TablesHave DEF Unopened
    <3>2. \A b \in Users : t.held[b] = NoRow
      BY <2>2, TablesHave DEF Unopened
    <3>3. Lent(t) = 0
      <4> DEFINE f == [n \in LoanNums |-> StakedIn(t.loans[n])]
      <4>1. \A n \in LoanNums : f[n] \in Nat /\ f[n] = 0
        BY <3>1 DEF StakedIn
      <4> HIDE DEF f
      <4>2. SumOver(f, LoanNums) = 0
        BY <4>1, SetsFinite, SumOverNat
      <4>3. QED
        BY <4>2 DEF Lent, f
    <3>4. Shares(t) = 0
      <4> DEFINE f == [b \in Users |-> RexIn(t.held[b])]
      <4>1. \A b \in Users : f[b] \in Nat /\ f[b] = 0
        BY <3>2 DEF RexIn
      <4> HIDE DEF f
      <4>2. SumOver(f, Users) = 0
        BY <4>1, SetsFinite, SumOverNat
      <4>3. QED
        BY <4>2 DEF Shares, f
    <3>5. QED
      BY <2>2, <3>3, <3>4 DEF RexIn
  <2>3. QED
    BY <2>1, <2>2
<1>6. PoolAgrees(u)
  BY <1>3, <1>4, <1>5 DEF PoolAgrees
<1>7. Unopened(u)
  BY <1>2 DEF Unopened
<1>8. LoansNumbered(u)
  <2>1. \A n \in LoanNums : LoanGood(t.loans[n])
    BY TablesHave DEF LoansNumbered
  <2>2. ASSUME NEW n \in LoanNums, n > u.pool.loan_num PROVE t.loans[n] = NoRow
    BY <2>2, TablesHave DEF LoansNumbered, Unopened
  <2>3. QED
    BY <2>1, <2>2 DEF LoansNumbered
<1>9. RowsGood(u)
  BY TablesHave DEF RowsGood
<1>10. QED
  BY <1>6, <1>7, <1>8, <1>9 DEF RexTablesInv

\* The pool alone.
LEMMA PoolStep ==
  ASSUME NEW t, RexTablesInv(t), NEW u \in RexTables, t.pool # NoRow, u.pool \in Pool,
         u.held = t.held, u.order = t.order, u.queue = t.queue, u.loans = t.loans,
         u.pool.lendable = u.pool.lent + u.pool.unlent,
         u.pool.lent = t.pool.lent, u.pool.rex = t.pool.rex, u.pool.loan_num = t.pool.loan_num,
         u.pool.rex = 0 => u.pool.lendable = 0
  PROVE  RexTablesInv(u)
<1>1. u.pool # NoRow
  BY NoRowApart
<1>2. PoolAgrees(u)
  BY TablesHave, SameSums DEF PoolAgrees
<1>3. Unopened(u) /\ LoansNumbered(u) /\ RowsGood(u)
  BY <1>1, TablesHave DEF Unopened, LoansNumbered, RowsGood
<1>4. QueueAgrees(u)
  BY TablesHave DEF QueueAgrees, IsOpen
<1>5. QED
  BY <1>2, <1>3, <1>4 DEF RexTablesInv

\* One loan, and the pool by what it lends more or less.
LEMMA LoanStep ==
  ASSUME NEW t, RexTablesInv(t), NEW u \in RexTables, NEW n \in LoanNums,
         t.pool # NoRow, u.pool \in Pool,
         u.held = t.held, u.order = t.order, u.queue = t.queue,
         \A m \in LoanNums \ {n} : u.loans[m] = t.loans[m],
         LoanGood(u.loans[n]),
         u.pool.loan_num >= t.pool.loan_num,
         u.loans[n] # NoRow => n <= u.pool.loan_num,
         u.pool.lendable = u.pool.lent + u.pool.unlent,
         u.pool.lent = t.pool.lent + StakedIn(u.loans[n]) - StakedIn(t.loans[n]),
         u.pool.rex = t.pool.rex,
         u.pool.rex = 0 => u.pool.lendable = 0
  PROVE  RexTablesInv(u)
<1>1. u.pool # NoRow /\ t \in RexTables
  BY NoRowApart, TablesHave
<1>2. Lent(u) = Lent(t) + StakedIn(u.loans[n]) - StakedIn(t.loans[n])
  BY <1>1, LoansChange
<1>3. PoolAgrees(u)
  <2>1. Shares(u) = Shares(t)
    BY SameSums
  <2>2. t.pool.lent = Lent(t) /\ t.pool.rex = Shares(t)
    BY TablesHave DEF PoolAgrees
  <2>3. QED
    BY <1>2, <2>1, <2>2 DEF PoolAgrees
<1>4. Unopened(u) /\ RowsGood(u)
  BY <1>1, TablesHave DEF Unopened, RowsGood
<1>5. LoansNumbered(u)
  <2>1. t.pool.loan_num \in Int /\ u.pool.loan_num \in Int
    <3>1. t.pool \in Pool
      BY <1>1, FieldTypes
    <3>2. LoanNums \cup {0} \subseteq Int
      BY DEF LoanNums
    <3>3. QED
      BY <3>1, <3>2 DEF Pool
  <2>2. \A m \in LoanNums : LoanGood(t.loans[m]) /\ (m > t.pool.loan_num => t.loans[m] = NoRow)
    BY TablesHave DEF LoansNumbered
  <2>3. \A m \in LoanNums : LoanGood(u.loans[m])
    BY <2>2
  <2>4. ASSUME NEW m \in LoanNums, m > u.pool.loan_num PROVE u.loans[m] = NoRow
    <3>1. m \in Int
      BY DEF LoanNums
    <3>2. CASE m = n
      BY <2>1, <2>4, <3>1, <3>2
    <3>3. CASE m # n
      BY <2>1, <2>2, <2>4, <3>1, <3>3
    <3>4. QED
      BY <3>2, <3>3
  <2>5. QED
    BY <2>3, <2>4 DEF LoansNumbered
<1>6. QueueAgrees(u)
  BY TablesHave DEF QueueAgrees, IsOpen
<1>7. QED
  BY <1>3, <1>4, <1>5, <1>6 DEF RexTablesInv
-----------------------------------------------------------------------------
(* Maintenance: what it keeps                                              *)

\* What a has in its votes beyond the vote stake of its share and what a filled order took.
VotesOff(t, a) ==
    t.staked[a] - VoteStake(t, a) + (IF IsClosed(t, a) THEN t.order[a].stake_change ELSE 0)

\* A REX of q is worth what one of p is, or more.
NoCheaper(p, q) == q.rex > 0 => p.rex > 0 /\ q.lendable * p.rex >= p.lendable * q.rex

\* What every step of the maintenance keeps on its way from t to u.
Maintains(t, u) ==
    /\ RexTablesInv(u)
    /\ u.pool # NoRow
    /\ Gap(u) = Gap(t)
    /\ \A w \in Users \X Kinds : OwnWeight(u, w) = OwnWeight(t, w)
    /\ NameBidsHeld(t) => NameBidsHeld(u)
    /\ u.staked = t.staked
    /\ \A a \in Users : VotesOff(u, a) = VotesOff(t, a)
    /\ \A a \in Users : u.held[a] = NoRow <=> t.held[a] = NoRow
    /\ \A h \in Holders \ {NamesAccount} : u.bal[h] >= t.bal[h]
    /\ NoCheaper(t.pool, u.pool)

LEMMA AccountsApart ==
  /\ RexAccount # NamesAccount /\ RexAccount # StakeAccount /\ RexAccount # FeeAccount
  /\ NamesAccount # StakeAccount /\ NamesAccount # FeeAccount /\ StakeAccount # FeeAccount
  /\ \A a \in Users : /\ a \in Holders /\ a # RexAccount /\ a # NamesAccount
                      /\ a # StakeAccount /\ a # FeeAccount
  /\ RexAccount \in Holders /\ NamesAccount \in Holders /\ StakeAccount \in Holders
  /\ FeeAccount \in Holders
<1> DEFINE A == {RexAccount}
           B == A \cup {NamesAccount}
           C == B \cup {StakeAccount}
           D == C \cup {FeeAccount}
<1>1. Cardinality(D) = 4
  <2>1. D = {RexAccount, NamesAccount, StakeAccount, FeeAccount}
    OBVIOUS
  <2>2. QED
    BY <2>1, UsersAssumption
<1>2. IsFiniteSet(A) /\ Cardinality(A) = 1
  BY FS_Singleton
<1> HIDE DEF A
<1>3. IsFiniteSet(B) /\ Cardinality(B) = IF NamesAccount \in A THEN 1 ELSE 2
  BY <1>2, FS_AddElement
<1> HIDE DEF B
<1>4. IsFiniteSet(C)
      /\ Cardinality(C) = IF StakeAccount \in B THEN Cardinality(B) ELSE Cardinality(B) + 1
  BY <1>3, FS_AddElement
<1> HIDE DEF C
<1>5. Cardinality(D) = IF FeeAccount \in C THEN Cardinality(C) ELSE Cardinality(C) + 1
  BY <1>4, FS_AddElement
<1> HIDE DEF D
<1>6. Cardinality(B) \in 1 .. 2
  BY <1>3
<1>7. NamesAccount \notin A /\ StakeAccount \notin B /\ FeeAccount \notin C
  BY <1>1, <1>3, <1>4, <1>5, <1>6
<1>8. QED
  BY <1>7, UsersAssumption DEF A, B, C, Holders

LEMMA GapType ==
  ASSUME NEW t \in RexTables
  PROVE  Gap(t) \in Int /\ \A w \in Users \X Kinds : OwnWeight(t, w) \in Int
<1>1. t.bal[RexAccount] \in Int /\ \A w \in Users \X Kinds : t.weight[w] \in Int
  BY FieldTypes, AccountsApart
<1>2. QED
  BY <1>1, SumTypes DEF Gap, OwnWeight

LEMMA NoCheaperTransitive ==
  ASSUME NEW p \in Pool, NEW q \in Pool, NEW r \in Pool, NoCheaper(p, q), NoCheaper(q, r)
  PROVE  NoCheaper(p, r)
<1> SUFFICES ASSUME r.rex > 0
             PROVE  p.rex > 0 /\ r.lendable * p.rex >= p.lendable * r.rex
  BY DEF NoCheaper
<1> DEFINE a == p.lendable
           b == p.rex
           c == q.lendable
           d == q.rex
           e == r.lendable
           f == r.rex
<1>1. a \in Nat /\ b \in Nat /\ c \in Nat /\ d \in Nat /\ e \in Nat /\ f \in Nat
  BY DEF Pool
<1>2. d > 0 /\ e * d >= c * f
  BY DEF NoCheaper
<1>3. b > 0 /\ c * b >= a * d
  BY <1>2 DEF NoCheaper
<1> HIDE DEF a, b, c, d, e, f
<1>4. (c * f) * b <= (e * d) * b
  <2>1. c * f \in Nat /\ e * d \in Nat
    BY <1>1, TimesNat
  <2>2. QED
    BY <1>1, <1>2, <2>1, TimesMonotone
<1>5. (a * d) * f <= (c * b) * f
  <2>1. a * d \in Nat /\ c * b \in Nat
    BY <1>1, TimesNat
  <2>2. QED
    BY <1>1, <1>3, <2>1, TimesMonotone
<1>6. d * (a * f) <= d * (e * b)
  <2>1. (c * f) * b = (c * b) * f /\ (c * f) * b \in Int
    BY <1>1
  <2>2. d * (a * f) = (a * d) * f /\ d * (e * b) = (e * d) * b
    BY <1>1
  <2>3. d * (a * f) \in Int /\ d * (e * b) \in Int
    BY <1>1
  <2>4. QED
    BY <1>4, <1>5, <2>1, <2>2, <2>3
<1>7. a * f <= e * b
  <2>1. a * f \in Int /\ e * b \in Int /\ d \in Nat \ {0}
    BY <1>1, <1>2
  <2>2. QED
    BY <1>6, <2>1, TimesCancels
<1>8. QED
  BY <1>1, <1>3, <1>7 DEF a, b, e, f

LEMMA MaintainsTransitive ==
  ASSUME NEW t, RexTablesInv(t), t.pool # NoRow, NEW u, NEW v, Maintains(t, u), Maintains(u, v)
  PROVE  Maintains(t, v)
<1>1. t.pool \in Pool /\ u.pool \in Pool /\ v.pool \in Pool
  BY TablesHave, FieldTypes DEF Maintains
<1>2. NoCheaper(t.pool, v.pool)
  BY <1>1, NoCheaperTransitive DEF Maintains
<1>3. \A h \in Holders \ {NamesAccount} : v.bal[h] >= t.bal[h]
  <2>1. t.bal \in [Holders -> Int] /\ u.bal \in [Holders -> Int] /\ v.bal \in [Holders -> Int]
    BY TablesHave, FieldTypes DEF Maintains
  <2>2. \A h \in Holders \ {NamesAccount} : u.bal[h] >= t.bal[h] /\ v.bal[h] >= u.bal[h]
    BY DEF Maintains
  <2>3. QED
    BY <2>1, <2>2
<1>4. QED
  BY <1>2, <1>3 DEF Maintains

LEMMA MaintainsReflexive ==
  ASSUME NEW t, RexTablesInv(t), t.pool # NoRow
  PROVE  Maintains(t, t)
<1>1. NoCheaper(t.pool, t.pool)
  <2>1. t.pool \in Pool
    BY TablesHave, FieldTypes
  <2>2. t.pool.lendable * t.pool.rex \in Int
    BY <2>1 DEF Pool
  <2>3. QED
    BY <2>2 DEF NoCheaper
<1>2. \A h \in Holders \ {NamesAccount} : t.bal[h] >= t.bal[h]
  BY TablesHave, FieldTypes
<1>3. QED
  BY <1>1, <1>2 DEF Maintains
-----------------------------------------------------------------------------
(* channel_to_rex, and the name bids                                       *)

\* What the conjunct of the pool's totals says of one pool.
LEMMA PoolHas ==
  ASSUME NEW t, RexTablesInv(t), t.pool # NoRow
  PROVE  /\ t.pool \in Pool
         /\ t.pool.lent \in Nat /\ t.pool.unlent \in Nat /\ t.pool.rent \in Nat
         /\ t.pool.lendable \in Nat /\ t.pool.rex \in Nat /\ t.pool.namebid \in Nat
         /\ t.pool.lendable = t.pool.lent + t.pool.unlent
         /\ t.pool.lent = Lent(t) /\ t.pool.rex = Shares(t)
         /\ t.pool.rex = 0 => t.pool.lendable = 0
         /\ PoolTokens(t.pool) = t.pool.unlent + t.pool.lent
<1>1. t.pool \in Pool
  BY TablesHave, FieldTypes
<1>2. /\ t.pool.lendable = t.pool.lent + t.pool.unlent
      /\ t.pool.lent = Lent(t) /\ t.pool.rex = Shares(t)
      /\ t.pool.rex = 0 => t.pool.lendable = 0
  BY TablesHave DEF PoolAgrees
<1>3. QED
  BY <1>1, <1>2 DEF Pool, PoolTokens

\* Votes and shares that are as they were.
LEMMA SameVotes ==
  ASSUME NEW t, NEW u, u.staked = t.staked, u.held = t.held, u.order = t.order
  PROVE  \A a \in Users : VotesOff(u, a) = VotesOff(t, a)
  BY DEF VotesOff, VoteStake, IsClosed

LEMMA SameRents ==
  ASSUME NEW t, NEW u, u.weight = t.weight, u.loans = t.loans
  PROVE  \A w \in Users \X Kinds : OwnWeight(u, w) = OwnWeight(t, w)
  BY SameSums DEF OwnWeight

LEMMA ChannelToRexKeeps ==
  ASSUME NEW t, RexTablesInv(t), NEW from \in Holders \ {RexAccount}, NEW amount \in Nat,
         RexAvailable(t)
  PROVE  LET u == ChannelToRex(t, from, amount)
         IN  /\ RexTablesInv(u)
             /\ Gap(u) = Gap(t)
             /\ u.bal = [t.bal EXCEPT ![from] = t.bal[from] - amount,
                                      ![RexAccount] = t.bal[RexAccount] + amount]
             /\ u.fund = t.fund /\ u.held = t.held /\ u.order = t.order /\ u.queue = t.queue
             /\ u.loans = t.loans /\ u.weight = t.weight /\ u.staked = t.staked
             /\ u.pool \in Pool /\ u.pool.namebid = t.pool.namebid
             /\ u.pool.rex = t.pool.rex /\ u.pool.lendable = t.pool.lendable + amount
<1> DEFINE p == [t.pool EXCEPT !.unlent = t.pool.unlent + amount,
                               !.lendable = t.pool.lendable + amount]
           b == [t.bal EXCEPT ![from] = t.bal[from] - amount,
                              ![RexAccount] = t.bal[RexAccount] + amount]
           u == ChannelToRex(t, from, amount)
<1>1. t.pool # NoRow /\ t.pool.rex # 0 /\ t \in RexTables
  BY TablesHave DEF RexAvailable
<1>2. /\ p \in Pool /\ p.unlent = t.pool.unlent + amount /\ p.lendable = t.pool.lendable + amount
      /\ p.lent = t.pool.lent /\ p.rex = t.pool.rex /\ p.loan_num = t.pool.loan_num
      /\ p.namebid = t.pool.namebid
  <2>1. t.pool.unlent + amount \in Nat /\ t.pool.lendable + amount \in Nat /\ t.pool \in Pool
    BY <1>1, PoolHas
  <2>2. QED
    BY <2>1 DEF Pool
<1>3. b \in [Holders -> Int] /\ b[RexAccount] = t.bal[RexAccount] + amount
  <2>1. t.bal \in [Holders -> Int]
    BY <1>1, FieldTypes
  <2>2. QED
    BY <2>1, AccountsApart
<1>4. u = [t EXCEPT !.pool = p, !.bal = b]
  BY DEF ChannelToRex
<1> HIDE DEF p, b, u
<1>5. /\ u \in RexTables /\ u.pool = p /\ u.bal = b
      /\ u.fund = t.fund /\ u.held = t.held /\ u.order = t.order /\ u.queue = t.queue
      /\ u.loans = t.loans /\ u.weight = t.weight /\ u.staked = t.staked
  BY <1>1, <1>2, <1>3, <1>4 DEF RexTables
<1>6. RexTablesInv(u)
  <2>1. p.lendable = p.lent + p.unlent /\ p.rex # 0
    BY <1>1, <1>2, PoolHas
  <2>2. QED
    BY <1>1, <1>2, <1>5, <2>1, PoolStep
<1>7. Gap(u) = Gap(t)
  <2>1. PoolTokens(p) = PoolTokens(t.pool) + amount /\ PoolTokens(t.pool) \in Int
    BY <1>1, <1>2, NoRowApart, PoolHas DEF PoolTokens
  <2>2. t.bal[RexAccount] \in Int
    BY <1>1, FieldTypes, AccountsApart
  <2>3. Funds(u) = Funds(t) /\ Balances(u) = Balances(t) /\ Proceeds(u) = Proceeds(t)
    BY <1>5, SameSums
  <2>4. Funds(t) \in Int /\ Balances(t) \in Int /\ Proceeds(t) \in Int
    BY <1>1, SumTypes
  <2>5. QED
    BY <1>3, <1>5, <2>1, <2>2, <2>3, <2>4 DEF Gap
<1>8. QED
  BY <1>2, <1>5, <1>6, <1>7 DEF u, b

\* A pool that gains tokens, and no shares.
LEMMA RicherPool ==
  ASSUME NEW p \in Pool, NEW q \in Pool, q.rex = p.rex, q.lendable >= p.lendable
  PROVE  NoCheaper(p, q)
<1>1. p.lendable \in Int /\ q.lendable \in Int /\ p.rex \in Nat
  BY DEF Pool
<1>2. p.lendable * p.rex <= q.lendable * p.rex
  BY <1>1, TimesMonotone
<1>3. QED
  BY <1>2 DEF NoCheaper

LEMMA ChannelNameBidsKeeps ==
  ASSUME NEW t, RexTablesInv(t), t.pool # NoRow
  PROVE  Maintains(t, ChannelNameBids(t))
<1> DEFINE amount == t.pool.namebid
           c == ChannelToRex(t, NamesAccount, amount)
           u == [c EXCEPT !.pool = [c.pool EXCEPT !.namebid = 0]]
<1>0. t \in RexTables /\ amount \in Nat
  BY PoolHas, TablesHave
<1>1. CASE amount = 0
  <2>1. ChannelNameBids(t) = t
    BY <1>1 DEF ChannelNameBids
  <2>2. QED
    BY <2>1, MaintainsReflexive
<1>2. CASE amount > 0
  <2>1. ChannelNameBids(t) = u
    BY <1>2 DEF ChannelNameBids
  <2>2. /\ RexTablesInv(c) /\ Gap(c) = Gap(t)
        /\ c.fund = t.fund /\ c.held = t.held /\ c.order = t.order /\ c.queue = t.queue
        /\ c.loans = t.loans /\ c.weight = t.weight /\ c.staked = t.staked
        /\ c.pool \in Pool /\ c.pool.rex = t.pool.rex /\ c.pool.lendable >= t.pool.lendable
        /\ \A h \in Holders \ {NamesAccount} : c.bal[h] >= t.bal[h]
        /\ NameBidsHeld(t) => c.bal[NamesAccount] >= 0
    <3>1. CASE RexAvailable(t)
      <4>1. /\ RexTablesInv(c) /\ Gap(c) = Gap(t)
            /\ c.bal = [t.bal EXCEPT ![NamesAccount] = t.bal[NamesAccount] - amount,
                                     ![RexAccount] = t.bal[RexAccount] + amount]
            /\ c.fund = t.fund /\ c.held = t.held /\ c.order = t.order /\ c.queue = t.queue
            /\ c.loans = t.loans /\ c.weight = t.weight /\ c.staked = t.staked
            /\ c.pool \in Pool
            /\ c.pool.rex = t.pool.rex /\ c.pool.lendable = t.pool.lendable + amount
        <5>1. NamesAccount \in Holders \ {RexAccount}
          BY AccountsApart
        <5> HIDE DEF amount
        <5>2. QED
          BY <1>0, <3>1, <5>1, ChannelToRexKeeps
      <4>2. t.bal \in [Holders -> Int] /\ t.pool.lendable \in Nat
        BY <1>0, FieldTypes, PoolHas
      <4> HIDE DEF c
      <4>3. c.bal[NamesAccount] = t.bal[NamesAccount] - amount
        BY <4>1, <4>2, AccountsApart
      <4>4. \A h \in Holders \ {NamesAccount} : c.bal[h] >= t.bal[h]
        BY <1>0, <4>1, <4>2
      <4>5. NameBidsHeld(t) => c.bal[NamesAccount] >= 0
        BY <1>0, <4>2, <4>3, AccountsApart DEF NameBidsHeld
      <4>6. QED
        BY <1>0, <4>1, <4>2, <4>4, <4>5
    <3>2. CASE ~ RexAvailable(t)
      <4>1. c = t
        BY <3>2 DEF ChannelToRex
      <4>2. t.pool \in Pool /\ t.pool.lendable \in Nat /\ t.bal \in [Holders -> Int]
        BY <1>0, FieldTypes, PoolHas
      <4>3. NameBidsHeld(t) => t.bal[NamesAccount] >= 0
        BY <1>0, <4>2, AccountsApart DEF NameBidsHeld
      <4>4. QED
        BY <4>1, <4>2, <4>3
    <3>3. QED
      BY <3>1, <3>2
  <2> HIDE DEF c
  <2> DEFINE q == [c.pool EXCEPT !.namebid = 0]
  <2>3. /\ q \in Pool /\ q.unlent = c.pool.unlent /\ q.lendable = c.pool.lendable
        /\ q.lent = c.pool.lent /\ q.rex = c.pool.rex /\ q.loan_num = c.pool.loan_num
        /\ q.namebid = 0
    BY <2>2 DEF Pool
  <2>4. c \in RexTables /\ c.pool # NoRow
    BY <2>2, TablesHave, NoRowApart
  <2>5. u = [c EXCEPT !.pool = q]
    OBVIOUS
  <2> HIDE DEF q, u
  <2>6. /\ u \in RexTables /\ u.pool = q /\ u.bal = c.bal
        /\ u.fund = c.fund /\ u.held = c.held /\ u.order = c.order /\ u.queue = c.queue
        /\ u.loans = c.loans /\ u.weight = c.weight /\ u.staked = c.staked
    BY <2>3, <2>4, <2>5 DEF RexTables
  <2>7. RexTablesInv(u)
    <3>1. /\ c.pool.lendable = c.pool.lent + c.pool.unlent
          /\ c.pool.rex = 0 => c.pool.lendable = 0
      BY <2>2, <2>4, PoolHas
    <3>2. QED
      BY <2>2, <2>3, <2>4, <2>6, <3>1, PoolStep
  <2>8. Gap(u) = Gap(t)
    <3>1. PoolTokens(q) = PoolTokens(c.pool)
      BY <2>3, <2>4, NoRowApart DEF PoolTokens
    <3>2. QED
      BY <2>2, <2>6, <3>1, SameSums DEF Gap
  <2>9. u.pool # NoRow
    BY <2>3, <2>6, NoRowApart
  <2>10. NameBidsHeld(t) => NameBidsHeld(u)
    BY <2>2, <2>3, <2>6 DEF NameBidsHeld
  <2>11. \A w \in Users \X Kinds : OwnWeight(u, w) = OwnWeight(t, w)
    BY <2>2, <2>6, SameRents
  <2>12. \A a \in Users : VotesOff(u, a) = VotesOff(t, a)
    BY <2>2, <2>6, SameVotes
  <2>13. NoCheaper(t.pool, u.pool)
    BY <2>2, <2>3, <2>6, PoolHas, RicherPool
  <2>14. QED
    BY <2>1, <2>2, <2>6, <2>7, <2>8, <2>9, <2>10, <2>11, <2>12, <2>13 DEF Maintains
<1>3. QED
  BY <1>0, <1>1, <1>2
-----------------------------------------------------------------------------
(* Loans that expire                                                       *)

LEMMA RemoveLoanPool ==
  ASSUME NEW p \in Pool, NEW tokens \in Nat \ {0}, tokens <= p.lent, p.lendable = p.lent + p.unlent
  PROVE  LET q == RemoveLoan(p, tokens)
         IN  /\ q \in Pool /\ q.lent = p.lent - tokens /\ q.unlent = p.unlent + tokens
             /\ q.lendable = p.lendable /\ q.rex = p.rex
             /\ q.namebid = p.namebid /\ q.loan_num = p.loan_num
<1> DEFINE q == RemoveLoan(p, tokens)
           b == BancorOutput(p.unlent, p.rent, tokens)
<1>1. /\ p.lent \in Nat /\ p.unlent \in Nat /\ p.rent \in Nat /\ p.lendable \in Nat
      /\ p.rex \in Nat
  BY DEF Pool
<1>2. b \in 0 .. p.rent
  BY <1>1, BancorBound
<1>3. q = [p EXCEPT !.rent = p.rent - b, !.unlent = p.unlent + tokens,
                    !.lent = p.lent - tokens, !.lendable = p.unlent + p.lent]
  BY DEF RemoveLoan
<1> HIDE DEF b, q
<1>4. /\ p.rent - b \in Nat /\ p.unlent + tokens \in Nat /\ p.lent - tokens \in Nat
      /\ p.unlent + p.lent \in Nat /\ p.unlent + p.lent = p.lendable
  BY <1>1, <1>2
<1>5. QED
  BY <1>3, <1>4 DEF Pool, q

LEMMA AddLoanPool ==
  ASSUME NEW p \in Pool, NEW payment \in Nat, NEW rented \in 0 .. p.unlent,
         p.lendable = p.lent + p.unlent
  PROVE  LET q == AddLoan(p, payment, rented)
         IN  /\ q \in Pool /\ q.lent = p.lent + rented
             /\ q.unlent = p.unlent - rented + payment
             /\ q.lendable = p.lendable + payment /\ q.lendable = q.lent + q.unlent
             /\ q.rex = p.rex /\ q.namebid = p.namebid /\ q.loan_num = p.loan_num
<1> DEFINE q == AddLoan(p, payment, rented)
<1>1. /\ p.lent \in Nat /\ p.unlent \in Nat /\ p.rent \in Nat /\ p.lendable \in Nat
      /\ p.rex \in Nat
  BY DEF Pool
<1>2. q = [p EXCEPT !.rent = p.rent + payment, !.unlent = p.unlent - rented + payment,
                    !.lent = p.lent + rented, !.lendable = p.unlent + payment + p.lent]
  BY DEF AddLoan
<1> HIDE DEF q
<1>3. /\ p.rent + payment \in Nat /\ p.unlent - rented + payment \in Nat
      /\ p.lent + rented \in Nat /\ p.unlent + payment + p.lent \in Nat
      /\ p.unlent + payment + p.lent = p.lendable + payment
      /\ p.lendable + payment = (p.lent + rented) + (p.unlent - rented + payment)
  BY <1>1
<1>4. QED
  BY <1>2, <1>3 DEF Pool, q

\* The receiver's weight changes by what it rents more or less.
LEMMA WeightFollows ==
  ASSUME NEW t \in RexTables, NEW u \in RexTables, NEW n \in LoanNums,
         \A m \in LoanNums \ {n} : u.loans[m] = t.loans[m],
         NEW loan \in Loan, NEW delta \in Int, u.weight = UpdateWeight(t, loan, delta),
         \A w \in Users \X Kinds :
            RentedIn(u.loans[n], w) - RentedIn(t.loans[n], w)
                = IF loan.receiver = w[1] /\ loan.kind = w[2] THEN delta ELSE 0
  PROVE  \A w \in Users \X Kinds : OwnWeight(u, w) = OwnWeight(t, w)
<1> SUFFICES ASSUME NEW w \in Users \X Kinds PROVE OwnWeight(u, w) = OwnWeight(t, w)
  OBVIOUS
<1> DEFINE x == <<loan.receiver, loan.kind>>
<1>1. x \in Users \X Kinds /\ (x = w <=> loan.receiver = w[1] /\ loan.kind = w[2])
  BY DEF Loan
<1>2. Rented(u, w) = Rented(t, w) + RentedIn(u.loans[n], w) - RentedIn(t.loans[n], w)
  BY LoansChange
<1>3. t.loans[n] \in Loan \cup {NoRow} /\ u.loans[n] \in Loan \cup {NoRow}
      /\ t.weight \in [Users \X Kinds -> Int]
  BY FieldTypes
<1>4. /\ Rented(t, w) \in Int /\ RentedIn(u.loans[n], w) \in Int /\ RentedIn(t.loans[n], w) \in Int
      /\ t.weight[w] \in Int
  BY <1>3, SumTypes, RowValues
<1>5. u.weight = [t.weight EXCEPT ![x] = t.weight[x] + delta]
  BY DEF UpdateWeight
<1> HIDE DEF x
<1>6. u.weight[w] = t.weight[w] + (IF x = w THEN delta ELSE 0)
  BY <1>1, <1>3, <1>4, <1>5
<1>7. RentedIn(u.loans[n], w) - RentedIn(t.loans[n], w) = IF x = w THEN delta ELSE 0
  BY <1>1
<1>8. QED
  BY <1>2, <1>4, <1>6, <1>7 DEF OwnWeight

LEMMA WeightType ==
  ASSUME NEW t \in RexTables, NEW loan \in Loan, NEW delta \in Int
  PROVE  UpdateWeight(t, loan, delta) \in [Users \X Kinds -> Int]
<1>1. t.weight \in [Users \X Kinds -> Int] /\ <<loan.receiver, loan.kind>> \in Users \X Kinds
  BY FieldTypes DEF Loan
<1>2. QED
  BY <1>1 DEF UpdateWeight

\* The tokens of a loan are among those lent.
LEMMA LoanHas ==
  ASSUME NEW t, RexTablesInv(t), NEW n \in LoanNums, t.loans[n] # NoRow
  PROVE  LET loan == t.loans[n]
         IN  /\ t.pool # NoRow
             /\ loan \in Loan /\ loan.payment \in Nat \ {0} /\ loan.staked \in Nat \ {0}
             /\ loan.balance \in Nat /\ loan.left \in -MaxLate .. Term
             /\ loan.from \in Users /\ loan.receiver \in Users /\ loan.kind \in Kinds
             /\ loan.staked <= t.pool.lent
             /\ t.pool.rex # 0
             /\ n <= t.pool.loan_num
<1> DEFINE loan == t.loans[n]
           f == [m \in LoanNums |-> StakedIn(t.loans[m])]
<1>1. t.pool # NoRow /\ LoanGood(loan) /\ ~ (n > t.pool.loan_num)
  BY TablesHave DEF Unopened, LoansNumbered
<1>2. loan \in Loan
  BY TablesHave, FieldTypes
<1>3. /\ loan.payment \in Nat \ {0} /\ loan.staked \in Nat \ {0}
      /\ loan.balance \in Nat /\ loan.left \in -MaxLate .. Term
      /\ loan.from \in Users /\ loan.receiver \in Users /\ loan.kind \in Kinds
  BY <1>1, <1>2, NoRowApart DEF Loan, LoanGood
<1>4. loan.staked <= t.pool.lent
  <2>1. \A m \in LoanNums : f[m] \in Nat
    BY TablesHave, FieldTypes, RowValues
  <2>2. f[n] = loan.staked
    BY DEF StakedIn
  <2> HIDE DEF f
  <2>3. f[n] <= SumOver(f, LoanNums)
    BY <2>1, SetsFinite, SumOverBound
  <2>4. QED
    BY <1>1, <2>2, <2>3, PoolHas DEF Lent, f
<1>5. t.pool.rex # 0
  BY <1>1, <1>3, <1>4, PoolHas
<1>6. n <= t.pool.loan_num
  <2>1. t.pool.loan_num \in LoanNums \cup {0}
    BY <1>1, PoolHas DEF Pool
  <2>2. n \in Int /\ t.pool.loan_num \in Int
    BY <2>1 DEF LoanNums
  <2>3. QED
    BY <1>1, <2>2
<1>7. QED
  BY <1>1, <1>2, <1>3, <1>4, <1>5, <1>6

LEMMA CloseLoanKeeps ==
  ASSUME NEW t, RexTablesInv(t), NEW n \in LoanNums, t.loans[n] # NoRow
  PROVE  Maintains(t, CloseLoan(t, n, RemoveLoan(t.pool, t.loans[n].staked)))
<1> DEFINE loan == t.loans[n]
           p == RemoveLoan(t.pool, loan.staked)
           W == UpdateWeight(t, loan, - loan.staked)
           F == [t.fund EXCEPT ![loan.from] = t.fund[loan.from] + loan.balance]
           L == [t.loans EXCEPT ![n] = NoRow]
           u == CloseLoan(t, n, p)
<1>1. /\ t.pool # NoRow /\ t \in RexTables
      /\ loan \in Loan /\ loan.payment \in Nat \ {0} /\ loan.staked \in Nat \ {0}
      /\ loan.balance \in Nat /\ loan.from \in Users
      /\ loan.staked <= t.pool.lent /\ t.pool.rex # 0
  BY LoanHas, TablesHave
<1>2. t.pool \in Pool /\ t.pool.lendable = t.pool.lent + t.pool.unlent /\ t.pool.lent \in Nat
      /\ t.pool.unlent \in Nat /\ t.pool.lendable \in Nat
  BY <1>1, PoolHas
<1>3. /\ p \in Pool /\ p.lent = t.pool.lent - loan.staked /\ p.unlent = t.pool.unlent + loan.staked
      /\ p.lendable = t.pool.lendable /\ p.rex = t.pool.rex
      /\ p.namebid = t.pool.namebid /\ p.loan_num = t.pool.loan_num
  <2> HIDE DEF loan
  <2>1. QED
    BY <1>1, <1>2, RemoveLoanPool
<1>4. W \in [Users \X Kinds -> Int]
  <2>1. - loan.staked \in Int
    BY <1>1
  <2> HIDE DEF loan
  <2>2. QED
    BY <1>1, <2>1, WeightType
<1>5. F \in [Users -> Nat] /\ t.fund[loan.from] \in Nat
  <2>1. t.fund \in [Users -> Nat]
    BY <1>1, FieldTypes
  <2> HIDE DEF loan
  <2>2. QED
    BY <1>1, <2>1
<1>6. L \in [LoanNums -> Loan \cup {NoRow}] /\ L[n] = NoRow
      /\ \A m \in LoanNums \ {n} : L[m] = t.loans[m]
  <2>1. t.loans \in [LoanNums -> Loan \cup {NoRow}]
    BY <1>1, FieldTypes
  <2>2. QED
    BY <2>1
<1>7. u = [t EXCEPT !.pool = p, !.loans = L, !.weight = W, !.fund = F]
  BY DEF CloseLoan
<1>8. W = UpdateWeight(t, loan, - loan.staked) /\ F = [t.fund EXCEPT ![loan.from] = t.fund[loan.from] + loan.balance]
  OBVIOUS
<1>9. loan = t.loans[n]
  OBVIOUS
<1> HIDE DEF loan, p, W, F, L, u
<1>10. /\ u \in RexTables /\ u.pool = p /\ u.fund = F /\ u.held = t.held /\ u.order = t.order
       /\ u.queue = t.queue /\ u.loans = L /\ u.weight = W /\ u.staked = t.staked /\ u.bal = t.bal
  BY <1>1, <1>3, <1>4, <1>5, <1>6, <1>7 DEF RexTables
<1>11. StakedIn(loan) = loan.staked /\ BalanceIn(loan) = loan.balance
       /\ StakedIn(NoRow) = 0 /\ BalanceIn(NoRow) = 0
  BY <1>1, NoRowApart DEF StakedIn, BalanceIn
<1>12. RexTablesInv(u)
  <2>1. u.pool \in Pool /\ LoanGood(u.loans[n])
    BY <1>3, <1>6, <1>10 DEF LoanGood
  <2>2. u.pool.lendable = u.pool.lent + u.pool.unlent
    BY <1>1, <1>2, <1>3, <1>10
  <2>3. u.pool.lent = t.pool.lent + StakedIn(u.loans[n]) - StakedIn(t.loans[n])
    BY <1>1, <1>2, <1>3, <1>6, <1>9, <1>10, <1>11
  <2>4. u.pool.loan_num >= t.pool.loan_num
    <3>1. t.pool.loan_num \in Int
      BY <1>2 DEF Pool, LoanNums
    <3>2. QED
      BY <1>3, <1>10, <3>1
  <2>5. QED
    BY <1>1, <1>3, <1>6, <1>10, <2>1, <2>2, <2>3, <2>4, LoanStep
<1>13. Gap(u) = Gap(t)
  <2>1. PoolTokens(u.pool) = PoolTokens(t.pool) /\ PoolTokens(t.pool) \in Int
    BY <1>1, <1>2, <1>3, <1>10, NoRowApart DEF PoolTokens
  <2>2. Funds(u) = Funds(t) + (t.fund[loan.from] + loan.balance) - t.fund[loan.from]
    <3>1. t.fund[loan.from] + loan.balance \in Int
      BY <1>1, <1>5
    <3>2. QED
      BY <1>1, <1>8, <1>10, <3>1, FundsChange
  <2>3. Balances(u) = Balances(t) + 0 - loan.balance
    BY <1>1, <1>6, <1>9, <1>10, <1>11, LoansChange
  <2>4. Proceeds(u) = Proceeds(t)
    BY <1>10, SameSums
  <2>5. Funds(t) \in Int /\ Balances(t) \in Int /\ Proceeds(t) \in Int /\ t.bal[RexAccount] \in Int
    BY <1>1, SumTypes, FieldTypes, AccountsApart
  <2>6. QED
    BY <1>1, <1>5, <1>10, <2>1, <2>2, <2>3, <2>4, <2>5 DEF Gap
<1>14. \A w \in Users \X Kinds : OwnWeight(u, w) = OwnWeight(t, w)
  <2>1. - loan.staked \in Int
    BY <1>1
  <2>2. \A w \in Users \X Kinds :
            RentedIn(u.loans[n], w) - RentedIn(t.loans[n], w)
                = IF loan.receiver = w[1] /\ loan.kind = w[2] THEN - loan.staked ELSE 0
    BY <1>1, <1>6, <1>9, <1>10, NoRowApart DEF RentedIn
  <2>3. QED
    BY <1>1, <1>6, <1>8, <1>10, <2>1, <2>2, WeightFollows
<1>15. NoCheaper(t.pool, u.pool)
  BY <1>2, <1>3, <1>10, RicherPool
<1>16. \A a \in Users : VotesOff(u, a) = VotesOff(t, a)
  BY <1>10, SameVotes
<1>17. (NameBidsHeld(t) => NameBidsHeld(u)) /\ u.pool # NoRow
  BY <1>1, <1>3, <1>10, NoRowApart DEF NameBidsHeld
<1>18. \A h \in Holders \ {NamesAccount} : u.bal[h] >= t.bal[h]
  BY <1>1, <1>10, FieldTypes
<1>19. Maintains(t, u)
  BY <1>10, <1>12, <1>13, <1>14, <1>15, <1>16, <1>17, <1>18 DEF Maintains
<1>20. QED
  BY <1>19 DEF u, p, loan

LEMMA RenewLoanKeeps ==
  ASSUME NEW t, RexTablesInv(t), NEW n \in LoanNums, t.loans[n] # NoRow,
         NEW p, p = RemoveLoan(t.pool, t.loans[n].staked),
         NEW rented \in 0 .. p.unlent,
         t.loans[n].payment <= t.loans[n].balance, t.loans[n].payment < rented,
         t.loans[n].left <= 0
  PROVE  Maintains(t, RenewLoan(t, n, p, rented))
<1> DEFINE loan == t.loans[n]
           more == [loan EXCEPT !.staked = rented, !.left = loan.left + Term,
                                !.balance = loan.balance - loan.payment]
           P == AddLoan(p, loan.payment, rented)
           W == UpdateWeight(t, loan, rented - loan.staked)
           L == [t.loans EXCEPT ![n] = more]
           u == RenewLoan(t, n, p, rented)
<1>1. /\ t.pool # NoRow /\ t \in RexTables
      /\ loan \in Loan /\ loan.payment \in Nat \ {0} /\ loan.staked \in Nat \ {0}
      /\ loan.balance \in Nat /\ loan.left \in -MaxLate .. Term
      /\ loan.receiver \in Users /\ loan.kind \in Kinds
      /\ loan.staked <= t.pool.lent /\ t.pool.rex # 0 /\ n <= t.pool.loan_num
  BY LoanHas, TablesHave
<1>2. t.pool \in Pool /\ t.pool.lendable = t.pool.lent + t.pool.unlent /\ t.pool.lent \in Nat
      /\ t.pool.unlent \in Nat /\ t.pool.lendable \in Nat
  BY <1>1, PoolHas
<1>3. /\ p \in Pool /\ p.lent = t.pool.lent - loan.staked /\ p.unlent = t.pool.unlent + loan.staked
      /\ p.lendable = t.pool.lendable /\ p.rex = t.pool.rex
      /\ p.namebid = t.pool.namebid /\ p.loan_num = t.pool.loan_num
  <2>1. p = RemoveLoan(t.pool, loan.staked)
    OBVIOUS
  <2> HIDE DEF loan
  <2>2. QED
    BY <1>1, <1>2, <2>1, RemoveLoanPool
<1>4. /\ P \in Pool /\ P.lent = p.lent + rented /\ P.unlent = p.unlent - rented + loan.payment
      /\ P.lendable = p.lendable + loan.payment /\ P.lendable = P.lent + P.unlent
      /\ P.rex = p.rex /\ P.namebid = p.namebid /\ P.loan_num = p.loan_num
  <2>1. p.lendable = p.lent + p.unlent
    BY <1>1, <1>2, <1>3
  <2> HIDE DEF loan
  <2>2. loan.payment \in Nat
    BY <1>1
  <2>3. QED
    BY <1>3, <2>1, <2>2, AddLoanPool
<1>5. rented \in Nat /\ loan.payment < rented /\ loan.payment <= loan.balance /\ loan.left <= 0
  BY <1>3 DEF Pool
<1>6. W \in [Users \X Kinds -> Int] /\ rented - loan.staked \in Int
  <2>1. rented - loan.staked \in Int
    BY <1>1, <1>5
  <2> HIDE DEF loan
  <2>2. QED
    BY <1>1, <2>1, WeightType
<1>7. /\ more \in Loan /\ more.staked = rented /\ more.payment = loan.payment
      /\ more.balance = loan.balance - loan.payment
      /\ more.receiver = loan.receiver /\ more.kind = loan.kind
  <2> DEFINE left == loan.left + Term
             rest == loan.balance - loan.payment
  <2>1. left \in -MaxLate .. Term /\ rest \in Nat
    BY <1>1, <1>5, AmountsAssumption
  <2>2. more = [loan EXCEPT !.staked = rented, !.left = left, !.balance = rest]
    OBVIOUS
  <2>3. rest = loan.balance - loan.payment
    OBVIOUS
  <2> HIDE DEF left, rest, more, loan
  <2>4. QED
    BY <1>1, <1>5, <2>1, <2>2, <2>3 DEF Loan
<1> HIDE DEF more
<1>8. L \in [LoanNums -> Loan \cup {NoRow}] /\ L[n] = more
      /\ \A m \in LoanNums \ {n} : L[m] = t.loans[m]
  <2>1. t.loans \in [LoanNums -> Loan \cup {NoRow}]
    BY <1>1, FieldTypes
  <2>2. QED
    BY <1>7, <2>1
<1>9. u = [t EXCEPT !.pool = P, !.loans = L, !.weight = W]
  BY DEF RenewLoan, more
<1>10. W = UpdateWeight(t, loan, rented - loan.staked) /\ loan = t.loans[n]
  OBVIOUS
<1> HIDE DEF loan, P, W, L, u
<1>11. /\ u \in RexTables /\ u.pool = P /\ u.fund = t.fund /\ u.held = t.held /\ u.order = t.order
       /\ u.queue = t.queue /\ u.loans = L /\ u.weight = W /\ u.staked = t.staked /\ u.bal = t.bal
  BY <1>1, <1>4, <1>6, <1>8, <1>9 DEF RexTables
<1>12. /\ StakedIn(loan) = loan.staked /\ BalanceIn(loan) = loan.balance
       /\ StakedIn(more) = rented /\ BalanceIn(more) = loan.balance - loan.payment
  BY <1>1, <1>7, NoRowApart DEF StakedIn, BalanceIn
<1>13. RexTablesInv(u)
  <2>1. u.pool \in Pool /\ LoanGood(u.loans[n])
    BY <1>1, <1>4, <1>5, <1>7, <1>8, <1>11 DEF LoanGood
  <2>2. u.pool.lent = t.pool.lent + StakedIn(u.loans[n]) - StakedIn(t.loans[n])
    BY <1>1, <1>2, <1>3, <1>4, <1>5, <1>8, <1>10, <1>11, <1>12
  <2>3. u.pool.loan_num >= t.pool.loan_num /\ n <= u.pool.loan_num
    <3>1. t.pool.loan_num \in Int
      BY <1>2 DEF Pool, LoanNums
    <3>2. QED
      BY <1>1, <1>3, <1>4, <1>11, <3>1
  <2>4. QED
    BY <1>1, <1>3, <1>4, <1>8, <1>11, <2>1, <2>2, <2>3, LoanStep
<1>14. Gap(u) = Gap(t)
  <2>1. PoolTokens(u.pool) = PoolTokens(t.pool) + loan.payment /\ PoolTokens(t.pool) \in Int
    BY <1>1, <1>2, <1>3, <1>4, <1>5, <1>11, NoRowApart DEF PoolTokens
  <2>2. Balances(u) = Balances(t) + (loan.balance - loan.payment) - loan.balance
    BY <1>1, <1>8, <1>10, <1>11, <1>12, LoansChange
  <2>3. Funds(u) = Funds(t) /\ Proceeds(u) = Proceeds(t)
    BY <1>11, SameSums
  <2>4. Funds(t) \in Int /\ Balances(t) \in Int /\ Proceeds(t) \in Int /\ t.bal[RexAccount] \in Int
    BY <1>1, SumTypes, FieldTypes, AccountsApart
  <2>5. QED
    BY <1>1, <1>11, <2>1, <2>2, <2>3, <2>4 DEF Gap
<1>15. \A w \in Users \X Kinds : OwnWeight(u, w) = OwnWeight(t, w)
  <2>1. \A w \in Users \X Kinds :
            RentedIn(u.loans[n], w) - RentedIn(t.loans[n], w)
                = IF loan.receiver = w[1] /\ loan.kind = w[2] THEN rented - loan.staked ELSE 0
    BY <1>1, <1>5, <1>7, <1>8, <1>10, <1>11, NoRowApart DEF RentedIn
  <2>2. QED
    BY <1>1, <1>6, <1>8, <1>10, <1>11, <2>1, WeightFollows
<1>16. NoCheaper(t.pool, u.pool)
  <2>1. P.rex = t.pool.rex /\ P.lendable >= t.pool.lendable
    BY <1>1, <1>2, <1>3, <1>4
  <2>2. QED
    BY <1>2, <1>4, <1>11, <2>1, RicherPool
<1>17. \A a \in Users : VotesOff(u, a) = VotesOff(t, a)
  BY <1>11, SameVotes
<1>18. (NameBidsHeld(t) => NameBidsHeld(u)) /\ u.pool # NoRow
  BY <1>1, <1>3, <1>4, <1>11, NoRowApart DEF NameBidsHeld
<1>19. \A h \in Holders \ {NamesAccount} : u.bal[h] >= t.bal[h]
  BY <1>1, <1>11, FieldTypes
<1>20. Maintains(t, u)
  BY <1>11, <1>13, <1>14, <1>15, <1>16, <1>17, <1>18, <1>19 DEF Maintains
<1>21. QED
  BY <1>20 DEF u

\* The first of the expired loans exists.
LEMMA FirstExpiredIs ==
  ASSUME NEW t \in RexTables, NEW kind, Expired(t, kind) # {}
  PROVE  FirstExpired(t, kind) \in Expired(t, kind)
<1> DEFINE E == Expired(t, kind)
           A == {k \in Nat : \E n \in E : k = t.loans[n].left + MaxLate}
<1>1. \A n \in E : n \in Nat /\ t.loans[n].left + MaxLate \in Nat /\ t.loans[n].left \in Int
  <2>1. ASSUME NEW n \in E PROVE n \in Nat /\ t.loans[n].left \in -MaxLate .. Term
    <3>1. n \in LoanNums /\ t.loans[n] # NoRow
      BY DEF Expired
    <3>2. t.loans[n] \in Loan
      BY <3>1, FieldTypes
    <3>3. QED
      BY <3>1, <3>2 DEF Loan, LoanNums
  <2>2. QED
    BY <2>1, AmountsAssumption
<1> HIDE DEF E
<1>2. PICK n \in E : TRUE
  BY DEF E
<1>3. A \in SUBSET Nat /\ A # {}
  BY <1>1, <1>2
<1>4. PICK least \in A : \A k \in A : least <= k
  BY <1>3, LeastNat
<1> DEFINE B == {n1 \in E : t.loans[n1].left + MaxLate = least}
<1>5. B \in SUBSET Nat /\ B # {}
  BY <1>1, <1>4
<1>6. PICK first \in B : \A k \in B : first <= k
  BY <1>5, LeastNat
<1>7. \A m \in E : \/ t.loans[first].left < t.loans[m].left
                   \/ t.loans[first].left = t.loans[m].left /\ first <= m
  <2>1. ASSUME NEW m \in E PROVE \/ t.loans[first].left < t.loans[m].left
                                 \/ t.loans[first].left = t.loans[m].left /\ first <= m
    <3>1. least <= t.loans[m].left + MaxLate
      BY <1>1, <1>4
    <3>2. first \in E /\ t.loans[first].left + MaxLate = least
      OBVIOUS
    <3>3. t.loans[m].left + MaxLate = least => first <= m
      BY <1>6
    <3> HIDE DEF A, B
    <3>4. MaxLate \in Nat
      BY AmountsAssumption
    <3>5. QED
      BY <1>1, <3>1, <3>2, <3>3, <3>4
  <2>2. QED
    BY <2>1
<1>8. first \in E
  OBVIOUS
<1>9. QED
  BY <1>7, <1>8 DEF FirstExpired, E

LEMMA ProcessLoanKeeps ==
  ASSUME NEW t, RexTablesInv(t), t.pool # NoRow, NEW kind
  PROVE  Maintains(t, ProcessLoan(t, kind))
<1>1. CASE Expired(t, kind) = {}
  BY <1>1, MaintainsReflexive DEF ProcessLoan
<1>2. CASE Expired(t, kind) # {}
  <2> DEFINE n == FirstExpired(t, kind)
             p == RemoveLoan(t.pool, t.loans[n].staked)
             rented == BancorOutput(p.rent, p.unlent, t.loans[n].payment)
  <2>1. n \in Expired(t, kind)
    BY <1>2, TablesHave, FirstExpiredIs
  <2>2. ProcessLoan(t, kind) = ProcessExpiredLoan(t, n)
    BY <1>2 DEF ProcessLoan
  <2> HIDE DEF n
  <2>3. n \in LoanNums /\ t.loans[n] # NoRow /\ t.loans[n].left <= 0
    BY <2>1 DEF Expired
  <2>4. Maintains(t, CloseLoan(t, n, p))
    BY <2>3, CloseLoanKeeps
  <2>5. ASSUME t.loans[n].payment <= t.loans[n].balance, t.loans[n].payment < rented
        PROVE  Maintains(t, RenewLoan(t, n, p, rented))
    <3>1. p \in Pool
      <4> DEFINE tokens == t.loans[n].staked
      <4>1. tokens \in Nat \ {0} /\ tokens <= t.pool.lent
        BY <2>3, LoanHas
      <4> HIDE DEF tokens
      <4>2. RemoveLoan(t.pool, tokens) \in Pool
        BY <4>1, PoolHas, RemoveLoanPool
      <4>3. QED
        BY <4>2 DEF tokens
    <3>2. t.loans[n].payment \in Nat \ {0}
      BY <2>3, LoanHas
    <3> HIDE DEF p
    <3>3. rented \in 0 .. p.unlent
      BY <3>1, <3>2, BancorBound DEF Pool
    <3>4. p = RemoveLoan(t.pool, t.loans[n].staked)
      BY DEF p
    <3> HIDE DEF rented
    <3>5. QED
      BY <2>3, <2>5, <3>3, <3>4, RenewLoanKeeps
  <2>6. ProcessExpiredLoan(t, n) \in {CloseLoan(t, n, p), RenewLoan(t, n, p, rented)}
        /\ (ProcessExpiredLoan(t, n) # CloseLoan(t, n, p) =>
              t.loans[n].payment <= t.loans[n].balance /\ t.loans[n].payment < rented)
    BY DEF ProcessExpiredLoan
  <2> HIDE DEF p, rented
  <2>7. QED
    BY <2>2, <2>4, <2>5, <2>6
<1>3. QED
  BY <1>1, <1>2

LEMMA ProcessLoansKeeps ==
  ASSUME NEW t, RexTablesInv(t), t.pool # NoRow, NEW kind, NEW max
  PROVE  Maintains(t, ProcessLoans(t, kind, max))
<1> DEFINE first == IF max > 0 THEN ProcessLoan(t, kind) ELSE t
           last == IF max > 1 THEN ProcessLoan(first, kind) ELSE first
<1>1. Maintains(t, first)
  BY ProcessLoanKeeps, MaintainsReflexive
<1>2. ProcessLoans(t, kind, max) = last
  BY DEF ProcessLoans
<1> HIDE DEF first
<1>3. RexTablesInv(first) /\ first.pool # NoRow
  BY <1>1 DEF Maintains
<1>4. Maintains(first, last)
  BY <1>3, ProcessLoanKeeps, MaintainsReflexive
<1> HIDE DEF last
<1>5. QED
  BY <1>1, <1>2, <1>4, MaintainsTransitive
-----------------------------------------------------------------------------
(* Orders that are filled                                                  *)

\* What leaves the queue, and nothing else.
LEMMA DequeueIs ==
  ASSUME NEW q \in Seq(Users), NEW a, NEW k \in DOMAIN q, q[k] = a,
         \A i, j \in DOMAIN q : q[i] = q[j] => i = j
  PROVE  LET d == Dequeue(q, a)
         IN  /\ d \in Seq(Users)
             /\ \A i \in DOMAIN d : d[i] # a /\ \E j \in DOMAIN q : d[i] = q[j]
             /\ \A j \in DOMAIN q : q[j] # a => \E i \in DOMAIN d : d[i] = q[j]
             /\ \A i, j \in DOMAIN d : d[i] = d[j] => i = j
<1> DEFINE n == Len(q)
           c == CHOOSE j \in DOMAIN q : q[j] = a
           d == Dequeue(q, a)
           at(i) == IF i < c THEN i ELSE i + 1
<1>1. n \in Nat /\ DOMAIN q = 1 .. n /\ \A i \in 1 .. n : q[i] \in Users
  OBVIOUS
<1>2. c \in 1 .. n /\ q[c] = a
  BY <1>1
<1>3. d = [i \in 1 .. n - 1 |-> IF i < c THEN q[i] ELSE q[i + 1]]
  BY DEF Dequeue
<1> HIDE DEF n, c, d
<1>4. \A i \in 1 .. n - 1 : at(i) \in 1 .. n /\ at(i) # c /\ d[i] = q[at(i)]
  BY <1>1, <1>2, <1>3
<1>5. \A j \in 1 .. n : j # c => \E i \in 1 .. n - 1 : at(i) = j
  <2>1. ASSUME NEW j \in 1 .. n, j # c PROVE \E i \in 1 .. n - 1 : at(i) = j
    <3>1. CASE j < c
      BY <1>1, <1>2, <3>1
    <3>2. CASE j > c
      <4>1. j - 1 \in 1 .. n - 1 /\ at(j - 1) = j
        BY <1>1, <1>2, <3>2
      <4>2. QED
        BY <4>1
    <3>3. QED
      BY <1>1, <1>2, <2>1, <3>1, <3>2
  <2>2. QED
    BY <2>1
<1>6. \A i, j \in 1 .. n - 1 : at(i) = at(j) => i = j
  BY <1>1, <1>2
<1> HIDE DEF at
<1>7. DOMAIN d = 1 .. n - 1
  BY <1>3
<1>8. d \in Seq(Users)
  <2>1. d \in [1 .. n - 1 -> Users]
    BY <1>1, <1>3, <1>4
  <2>2. n - 1 \in Nat
    BY <1>1, <1>2
  <2>3. QED
    BY <2>1, <2>2
<1>9. \A i \in DOMAIN d : d[i] # a /\ \E j \in DOMAIN q : d[i] = q[j]
  BY <1>1, <1>2, <1>4, <1>7
<1>10. \A j \in DOMAIN q : q[j] # a => \E i \in DOMAIN d : d[i] = q[j]
  BY <1>1, <1>2, <1>4, <1>5, <1>7
<1>11. \A i, j \in DOMAIN d : d[i] = d[j] => i = j
  BY <1>1, <1>4, <1>6, <1>7
<1>12. QED
  BY <1>8, <1>9, <1>10, <1>11 DEF d

\* An open order that is closed or erased leaves the queue.
LEMMA QueueLeaves ==
  ASSUME NEW t \in RexTables, QueueAgrees(t), NEW u, NEW a \in Users, IsOpen(t, a), ~ IsOpen(u, a),
         \A b \in Users \ {a} : u.order[b] = t.order[b], u.queue = Dequeue(t.queue, a)
  PROVE  u.queue \in Seq(Users) /\ QueueAgrees(u)
<1>1. t.queue \in Seq(Users)
  BY FieldTypes
<1>2. PICK k \in DOMAIN t.queue : t.queue[k] = a
  BY DEF QueueAgrees
<1>3. \A i, j \in DOMAIN t.queue : t.queue[i] = t.queue[j] => i = j
  BY DEF QueueAgrees
<1>4. /\ u.queue \in Seq(Users)
      /\ \A i \in DOMAIN u.queue : u.queue[i] # a /\ \E j \in DOMAIN t.queue : u.queue[i] = t.queue[j]
      /\ \A j \in DOMAIN t.queue : t.queue[j] # a => \E i \in DOMAIN u.queue : u.queue[i] = t.queue[j]
      /\ \A i, j \in DOMAIN u.queue : u.queue[i] = u.queue[j] => i = j
  <2>1. LET d == Dequeue(t.queue, a)
        IN  /\ d \in Seq(Users)
            /\ \A i \in DOMAIN d : d[i] # a /\ \E j \in DOMAIN t.queue : d[i] = t.queue[j]
            /\ \A j \in DOMAIN t.queue : t.queue[j] # a => \E i \in DOMAIN d : d[i] = t.queue[j]
            /\ \A i, j \in DOMAIN d : d[i] = d[j] => i = j
    BY <1>1, <1>2, <1>3, DequeueIs
  <2>2. QED
    BY <2>1
<1>5. \A b \in Users \ {a} : IsOpen(u, b) <=> IsOpen(t, b)
  BY DEF IsOpen
<1>6. \A i \in DOMAIN u.queue : IsOpen(u, u.queue[i])
  <2>1. \A i \in DOMAIN u.queue : u.queue[i] \in Users
    BY <1>4
  <2>2. \A j \in DOMAIN t.queue : IsOpen(t, t.queue[j])
    BY DEF QueueAgrees
  <2>3. QED
    BY <1>4, <1>5, <2>1, <2>2
<1>7. \A b \in Users : IsOpen(u, b) => \E i \in DOMAIN u.queue : u.queue[i] = b
  <2>1. \A b \in Users : IsOpen(t, b) => \E j \in DOMAIN t.queue : t.queue[j] = b
    BY DEF QueueAgrees
  <2>2. QED
    BY <1>4, <1>5, <2>1
<1>8. QED
  BY <1>4, <1>6, <1>7 DEF QueueAgrees

\* What an account's fund and order, and the pool, change of the gap.
LEMMA AccountGap ==
  ASSUME NEW t \in RexTables, NEW u \in RexTables, NEW a \in Users, NEW q \in Int,
         u.bal = t.bal, u.loans = t.loans, u.fund = [t.fund EXCEPT ![a] = q],
         \A b \in Users \ {a} : u.order[b] = t.order[b]
  PROVE  Gap(u) = Gap(t) - ((PoolTokens(u.pool) - PoolTokens(t.pool)) + (q - t.fund[a])
                            + (ProceedsIn(u.order[a]) - ProceedsIn(t.order[a])))
<1>1. Funds(u) = Funds(t) + q - t.fund[a]
  BY FundsChange
<1>2. Proceeds(u) = Proceeds(t) + ProceedsIn(u.order[a]) - ProceedsIn(t.order[a])
  BY ProceedsChange
<1>3. Balances(u) = Balances(t)
  BY SameSums
<1>4. /\ Funds(t) \in Int /\ Balances(t) \in Int /\ Proceeds(t) \in Int
      /\ PoolTokens(t.pool) \in Int /\ PoolTokens(u.pool) \in Int
  BY SumTypes
<1>5. /\ t.bal[RexAccount] \in Int /\ t.fund[a] \in Int
      /\ ProceedsIn(u.order[a]) \in Int /\ ProceedsIn(t.order[a]) \in Int
  BY FieldTypes, AccountsApart, RowValues
<1>6. QED
  BY <1>1, <1>2, <1>3, <1>4, <1>5 DEF Gap

\* The pool's tokens are what is lendable.
LEMMA ShareHas ==
  ASSUME NEW t, RexTablesInv(t), NEW a \in Users, t.held[a] # NoRow
  PROVE  LET h == t.held[a]
         IN  /\ t.pool # NoRow
             /\ h \in Share /\ h.rex \in Nat /\ h.matured \in Nat /\ h.savings \in Nat
             /\ h.vote_stake \in Nat /\ h.growing \in [Days -> Nat]
             /\ SumOver(h.growing, Days) \in Nat
             /\ h.rex = h.matured + SumOver(h.growing, Days) + h.savings
             /\ h.rex <= t.pool.rex
<1> DEFINE h == t.held[a]
           f == [b \in Users |-> RexIn(t.held[b])]
<1>1. t.pool # NoRow /\ BucketsAdd(h)
  BY TablesHave DEF Unopened, RowsGood
<1>2. h \in Share
  BY TablesHave, FieldTypes
<1>3. h \in Share /\ h.rex \in Nat /\ h.matured \in Nat /\ h.savings \in Nat
      /\ h.vote_stake \in Nat /\ h.growing \in [Days -> Nat]
  BY <1>2 DEF Share
<1>4. SumOver(h.growing, Days) \in Nat
  BY <1>3, SetsFinite, SumOverNat
<1>5. h.rex = h.matured + SumOver(h.growing, Days) + h.savings
  BY <1>1 DEF BucketsAdd
<1>6. h.rex <= t.pool.rex
  <2>1. \A b \in Users : f[b] \in Nat
    BY TablesHave, FieldTypes, RowValues
  <2>2. f[a] = h.rex
    BY DEF RexIn
  <2> HIDE DEF f
  <2>3. f[a] <= SumOver(f, Users)
    BY <2>1, SetsFinite, SumOverBound
  <2>4. QED
    BY <1>1, <2>2, <2>3, PoolHas DEF Shares, f
<1>7. QED
  BY <1>1, <1>3, <1>4, <1>5, <1>6

\* A sale takes from the pool what the shares are worth, rounded down.
LEMMA TakeFromRexPoolIs ==
  ASSUME NEW t, RexTablesInv(t), t.pool # NoRow, NEW r \in Nat \ {0}, r <= t.pool.rex,
         CanFill(t.pool, r)
  PROVE  LET p == TakeFromRexPool(t.pool, r)
         IN  /\ Worth(t.pool, r) \in Nat
             /\ p \in Pool /\ p.rex = t.pool.rex - r /\ p.lendable = p.lent + p.unlent
             /\ p.lent = t.pool.lent /\ p.namebid = t.pool.namebid /\ p.loan_num = t.pool.loan_num
             /\ p.rex = 0 => p.lendable = 0
             /\ PoolTokens(p) = PoolTokens(t.pool) - Worth(t.pool, r)
             /\ NoCheaper(t.pool, p)
<1> DEFINE p == TakeFromRexPool(t.pool, r)
           w == Worth(t.pool, r)
           L == t.pool.lendable
           R == t.pool.rex
           reserved == (Reserve * t.pool.lent) \div 10
<1>1. /\ t.pool \in Pool /\ t.pool.lent \in Nat /\ t.pool.unlent \in Nat /\ L \in Nat /\ R \in Nat
      /\ L = t.pool.lent + t.pool.unlent
      /\ PoolTokens(t.pool) = t.pool.unlent + t.pool.lent
  BY PoolHas
<1>2. R # 0
  BY <1>1
<1>3. /\ w \in Nat /\ R * w <= r * L /\ w <= L
      /\ r = R => w = L
  BY <1>1, <1>2, WorthBound
<1>4. reserved \in Nat /\ w <= t.pool.unlent - reserved
  <2>1. Reserve \in Nat
    BY AmountsAssumption
  <2>2. Reserve * t.pool.lent \in Nat
    BY <1>1, <2>1, TimesNat
  <2>3. reserved \in Nat
    BY <2>2, QuotientBound
  <2>4. w <= t.pool.unlent - reserved
    BY DEF CanFill
  <2>5. QED
    BY <2>3, <2>4
<1> HIDE DEF w, reserved
<1> DEFINE l == L - w
           n == L - w - t.pool.lent
           s == R - r
<1>5. l \in Nat /\ n \in Nat /\ s \in Nat /\ l = t.pool.lent + n
  BY <1>1, <1>3, <1>4
<1>6. p = [t.pool EXCEPT !.rex = s, !.lendable = l, !.unlent = n]
  BY DEF TakeFromRexPool, w
<1>7. l = L - w /\ s = R - r
  OBVIOUS
<1> HIDE DEF l, n, s, p
<1>8. /\ p \in Pool /\ p.rex = s /\ p.lendable = l /\ p.unlent = n /\ p.lent = t.pool.lent
      /\ p.namebid = t.pool.namebid /\ p.loan_num = t.pool.loan_num
  BY <1>1, <1>5, <1>6 DEF Pool
<1>9. p.rex = 0 => p.lendable = 0
  <2>1. s = 0 => l = 0
    <3> HIDE DEF L, R
    <3>1. QED
      BY <1>1, <1>3, <1>7
  <2>2. QED
    BY <1>8, <2>1
<1>10. PoolTokens(p) = PoolTokens(t.pool) - w
  <2>1. p # NoRow /\ t.pool # NoRow
    BY <1>1, <1>8, NoRowApart
  <2>2. PoolTokens(p) = n + t.pool.lent /\ PoolTokens(t.pool) = t.pool.unlent + t.pool.lent
    BY <1>8, <2>1 DEF PoolTokens
  <2> DEFINE lent   == t.pool.lent
             unlent == t.pool.unlent
  <2>3. /\ lent \in Nat /\ unlent \in Nat /\ L = lent + unlent /\ l = L - w /\ l = lent + n
        /\ n \in Nat /\ w \in Nat
    BY <1>1, <1>3, <1>5, <1>7
  <2>4. PoolTokens(p) = n + lent /\ PoolTokens(t.pool) = unlent + lent
    BY <2>2
  <2> HIDE DEF L, lent, unlent
  <2>5. n + lent = (unlent + lent) - w
    BY <2>3
  <2>6. QED
    BY <2>4, <2>5
<1>11. NoCheaper(t.pool, p)
  <2>1. l * R >= L * s
    <3>1. /\ l * R = L * R - R * w /\ L * s = L * R - r * L
          /\ L * R \in Int /\ R * w \in Int /\ r * L \in Int
      <4> HIDE DEF L, R
      <4>1. (L - w) * R = L * R - R * w
        BY <1>1, <1>3
      <4>2. L * (R - r) = L * R - r * L
        BY <1>1
      <4>3. L * R \in Int /\ R * w \in Int /\ r * L \in Int
        BY <1>1, <1>3
      <4>4. QED
        BY <1>7, <4>1, <4>2, <4>3
    <3>2. QED
      BY <1>3, <3>1
  <2>2. QED
    BY <1>1, <1>2, <1>8, <2>1 DEF NoCheaper
<1>12. QED
  BY <1>3, <1>5, <1>7, <1>8, <1>9, <1>10, <1>11 DEF p, w

\* fill_rex_order: the share, the pool, what eosio.rex then holds too much, and the votes.
LEMMA FillRexOrderIs ==
  ASSUME NEW t, RexTablesInv(t), NEW a \in Users, t.held[a] # NoRow,
         NEW r \in Nat \ {0}, r <= t.held[a].matured, CanFill(t.pool, r)
  PROVE  LET u == FillRexOrder(t, a, r)
         IN  /\ u \in RexTables
             /\ u.pool = TakeFromRexPool(t.pool, r)
             /\ u.fund = t.fund /\ u.order = t.order /\ u.queue = t.queue /\ u.loans = t.loans
             /\ u.weight = t.weight /\ u.staked = t.staked /\ u.bal = t.bal
             /\ \A b \in Users \ {a} : u.held[b] = t.held[b]
             /\ u.held[a] \in Share /\ u.held[a] # NoRow /\ BucketsAdd(u.held[a])
             /\ u.held[a].rex = t.held[a].rex - r
             /\ u.held[a].matured = t.held[a].matured - r
             /\ u.held[a].vote_stake = VoteStakeSold(t, a, r)
             /\ Worth(t.pool, r) \in Nat /\ VoteStakeSold(t, a, r) \in Nat
             /\ r <= t.pool.rex
<1> DEFINE h == t.held[a]
           v == VoteStakeSold(t, a, r)
           w == Worth(t.pool, r)
           x == h.rex - r
           m == h.matured - r
           g == [h EXCEPT !.vote_stake = v, !.rex = x, !.matured = m]
           H == [t.held EXCEPT ![a] = g]
           p == TakeFromRexPool(t.pool, r)
           u == FillRexOrder(t, a, r)
<1>1. /\ t \in RexTables /\ t.pool # NoRow
      /\ h \in Share /\ h.rex \in Nat /\ h.matured \in Nat /\ h.savings \in Nat
      /\ SumOver(h.growing, Days) \in Nat
      /\ h.rex = h.matured + SumOver(h.growing, Days) + h.savings
      /\ h.rex <= t.pool.rex
  BY TablesHave, ShareHas
<1>2. t.pool \in Pool /\ t.pool.rex \in Nat
  BY <1>1, PoolHas
<1>3. x \in Nat /\ m \in Nat /\ r <= h.rex /\ r <= t.pool.rex /\ t.pool.rex # 0
  <2> DEFINE total == SumOver(h.growing, Days)
  <2>1. total \in Nat /\ h.rex = h.matured + total + h.savings
    BY <1>1
  <2> HIDE DEF total
  <2>2. QED
    BY <1>1, <1>2, <2>1
<1>4. v \in Nat /\ w \in Nat
  <2> DEFINE all == Worth(t.pool, h.rex)
  <2>1. w \in Nat /\ all \in Nat /\ w <= all
    BY <1>1, <1>2, <1>3, WorthBound, WorthMonotone
  <2>2. v = all - w
    BY DEF VoteStakeSold
  <2> HIDE DEF all, v, w
  <2>3. QED
    BY <2>1, <2>2
<1>5. p \in Pool
  BY <1>1, <1>3, TakeFromRexPoolIs
<1>6. u = [t EXCEPT !.pool = p, !.held = H]
  BY DEF FillRexOrder
<1>7. x = h.rex - r /\ m = h.matured - r /\ h = t.held[a]
  OBVIOUS
<1>8. t.held \in [Users -> Share \cup {NoRow}]
  BY <1>1, FieldTypes
<1> HIDE DEF v, w, x, m, p, u, h
<1>9. /\ g \in Share /\ g.rex = x /\ g.matured = m /\ g.vote_stake = v
      /\ g.growing = h.growing /\ g.savings = h.savings
  BY <1>1, <1>3, <1>4 DEF Share
<1> HIDE DEF g
<1>10. /\ H \in [Users -> Share \cup {NoRow}] /\ H[a] = g /\ \A b \in Users \ {a} : H[b] = t.held[b]
  BY <1>8, <1>9
<1> HIDE DEF H
<1>11. /\ u \in RexTables /\ u.pool = p /\ u.held = H
       /\ u.fund = t.fund /\ u.order = t.order /\ u.queue = t.queue /\ u.loans = t.loans
       /\ u.weight = t.weight /\ u.staked = t.staked /\ u.bal = t.bal
  BY <1>1, <1>5, <1>6, <1>10 DEF RexTables
<1>12. BucketsAdd(g)
  <2> DEFINE total == SumOver(h.growing, Days)
  <2>1. total \in Nat /\ h.rex = h.matured + total + h.savings
    BY <1>1
  <2>2. total = SumOver(g.growing, Days)
    BY <1>9
  <2> HIDE DEF total
  <2>3. g.rex = g.matured + total + g.savings
    BY <1>1, <1>7, <1>9, <2>1
  <2>4. QED
    BY <2>2, <2>3 DEF BucketsAdd
<1>13. g # NoRow
  BY <1>9, NoRowApart
<1>14. QED
  BY <1>3, <1>4, <1>7, <1>9, <1>10, <1>11, <1>12, <1>13 DEF u, p, v, w

LEMMA ProcessOrderKeeps ==
  ASSUME NEW t, RexTablesInv(t), NEW a \in Users, IsOpen(t, a)
  PROVE  /\ Maintains(t, ProcessOrder(t, a))
         /\ \A b \in Users \ {a} : IsOpen(t, b) => IsOpen(ProcessOrder(t, a), b)
<1> DEFINE r == t.order[a].requested
           w == Worth(t.pool, r)
           v == VoteStakeSold(t, a, r)
           c == v - t.held[a].vote_stake
           f == FillRexOrder(t, a, r)
           o == [t.order[a] EXCEPT !.proceeds = w, !.stake_change = c, !.is_open = FALSE]
           O == [t.order EXCEPT ![a] = o]
           Q == Dequeue(t.queue, a)
           u == ProcessOrder(t, a)
<1>1. /\ t \in RexTables /\ t.order[a] \in Order /\ t.order[a] # NoRow
      /\ r \in Nat \ {0} /\ t.held[a] # NoRow /\ r <= t.held[a].matured
      /\ t.order[a].proceeds = 0 /\ t.order[a].stake_change = 0
  <2>1. t.order[a] # NoRow /\ OrderCovered(t.order[a], t.held[a]) /\ t.order[a].is_open
    BY TablesHave DEF IsOpen, RowsGood
  <2>2. t \in RexTables /\ t.order[a] \in Order
    BY <2>1, TablesHave, FieldTypes
  <2>3. QED
    BY <2>1, <2>2 DEF OrderCovered, Order
<1>2. t.pool # NoRow /\ t.held[a].vote_stake \in Nat
  BY <1>1, ShareHas
<1>3. CASE ~ CanFill(t.pool, r)
  <2>1. u = t
    BY <1>3 DEF ProcessOrder
  <2>2. QED
    BY <1>2, <2>1, MaintainsReflexive
<1>4. CASE CanFill(t.pool, r)
  <2>1. u = [f EXCEPT !.order = O, !.queue = Q]
    BY <1>4 DEF ProcessOrder
  <2> HIDE DEF r
  <2>2. /\ f \in RexTables
        /\ f.pool = TakeFromRexPool(t.pool, r)
        /\ f.fund = t.fund /\ f.order = t.order /\ f.queue = t.queue /\ f.loans = t.loans
        /\ f.weight = t.weight /\ f.staked = t.staked /\ f.bal = t.bal
        /\ \A b \in Users \ {a} : f.held[b] = t.held[b]
        /\ f.held[a] \in Share /\ f.held[a] # NoRow /\ BucketsAdd(f.held[a])
        /\ f.held[a].rex = t.held[a].rex - r
        /\ f.held[a].vote_stake = v
        /\ w \in Nat /\ v \in Nat
        /\ r <= t.pool.rex
    BY <1>1, <1>4, FillRexOrderIs
  <2>3. /\ f.pool \in Pool /\ f.pool.rex = t.pool.rex - r
        /\ f.pool.lendable = f.pool.lent + f.pool.unlent
        /\ f.pool.lent = t.pool.lent /\ f.pool.namebid = t.pool.namebid
        /\ f.pool.loan_num = t.pool.loan_num
        /\ f.pool.rex = 0 => f.pool.lendable = 0
        /\ PoolTokens(f.pool) = PoolTokens(t.pool) - w
        /\ NoCheaper(t.pool, f.pool)
    BY <1>1, <1>2, <1>4, <2>2, TakeFromRexPoolIs
  <2>4. c \in Int /\ c = v - t.held[a].vote_stake
    BY <1>2, <2>2
  <2>5. t.order \in [Users -> Order \cup {NoRow}]
    BY <1>1, FieldTypes
  <2> HIDE DEF w, v, c, f, Q, u
  <2>6. /\ o \in Order /\ o.proceeds = w /\ o.stake_change = c /\ ~ o.is_open
    BY <1>1, <2>2, <2>4 DEF Order
  <2> HIDE DEF o
  <2>7. O \in [Users -> Order \cup {NoRow}] /\ O[a] = o /\ \A b \in Users \ {a} : O[b] = t.order[b]
    BY <2>5, <2>6
  <2> HIDE DEF O
  <2>8. Q \in Seq(Users) /\ QueueAgrees(u)
    <3>1. u.order = O /\ u.queue = Q
      BY <2>1, <2>2 DEF RexTables
    <3>2. ~ IsOpen(u, a)
      BY <2>6, <2>7, <3>1 DEF IsOpen
    <3>3. QueueAgrees(t)
      BY TablesHave
    <3>4. \A b \in Users \ {a} : u.order[b] = t.order[b]
      BY <2>7, <3>1
    <3>5. u.queue = Dequeue(t.queue, a)
      BY <3>1 DEF Q
    <3>6. u.queue \in Seq(Users) /\ QueueAgrees(u)
      BY <1>1, <3>2, <3>3, <3>4, <3>5, QueueLeaves
    <3>7. QED
      BY <3>1, <3>6
  <2>9. /\ u \in RexTables /\ u.order = O /\ u.queue = Q
        /\ u.pool = f.pool /\ u.fund = f.fund /\ u.held = f.held /\ u.loans = f.loans
        /\ u.weight = f.weight /\ u.staked = f.staked /\ u.bal = f.bal
    BY <2>1, <2>2, <2>7, <2>8 DEF RexTables
  <2>10. RexTablesInv(u)
    <3>1. OrderCovered(u.order[a], u.held[a])
      BY <2>6, <2>7, <2>9 DEF OrderCovered
    <3>2. u.pool.rex = RexIn(t.pool) + RexIn(u.held[a]) - RexIn(t.held[a])
      <4>1. RexIn(t.pool) = t.pool.rex /\ RexIn(t.held[a]) = t.held[a].rex
            /\ RexIn(u.held[a]) = t.held[a].rex - r
        BY <1>1, <1>2, <2>2, <2>9 DEF RexIn
      <4>2. t.pool.rex \in Int /\ t.held[a].rex \in Int /\ r \in Int
        BY <1>1, <1>2, PoolHas, ShareHas
      <4>3. QED
        BY <2>3, <2>9, <4>1, <4>2
    <3>3. \A b \in Users \ {a} : u.held[b] = t.held[b] /\ u.order[b] = t.order[b]
      BY <2>2, <2>7, <2>9
    <3>4. QED
      BY <1>2, <2>2, <2>3, <2>8, <2>9, <3>1, <3>2, <3>3, AccountStep
  <2>11. Gap(u) = Gap(t)
    <3>1. t.fund[a] \in Int /\ u.fund = [t.fund EXCEPT ![a] = t.fund[a]]
      <4>1. t.fund \in [Users -> Nat]
        BY <1>1, FieldTypes
      <4>2. QED
        BY <2>2, <2>9, <4>1
    <3>2. ProceedsIn(u.order[a]) = w /\ ProceedsIn(t.order[a]) = 0
      BY <1>1, <2>6, <2>7, <2>9, NoRowApart DEF ProceedsIn
    <3>3. Gap(u) = Gap(t) - ((PoolTokens(u.pool) - PoolTokens(t.pool)) + (t.fund[a] - t.fund[a])
                            + (ProceedsIn(u.order[a]) - ProceedsIn(t.order[a])))
      BY <1>1, <2>2, <2>7, <2>9, <3>1, AccountGap
    <3>4. PoolTokens(t.pool) \in Int /\ Gap(t) \in Int
      BY <1>1, SumTypes, GapType
    <3>5. QED
      BY <2>2, <2>3, <2>9, <3>1, <3>2, <3>3, <3>4
  <2>12. \A x \in Users \X Kinds : OwnWeight(u, x) = OwnWeight(t, x)
    BY <2>2, <2>9, SameRents
  <2>13. VotesOff(u, a) = VotesOff(t, a)
    <3>1. VotesOff(t, a) = t.staked[a] - t.held[a].vote_stake + 0
      <4>1. ~ IsClosed(t, a) /\ VoteStake(t, a) = t.held[a].vote_stake
        BY <1>1 DEF IsOpen, IsClosed, VoteStake
      <4>2. QED
        BY <4>1 DEF VotesOff
    <3>2. VotesOff(u, a) = t.staked[a] - v + c
      <4>1. IsClosed(u, a) /\ u.order[a].stake_change = c /\ VoteStake(u, a) = v
            /\ u.staked[a] = t.staked[a]
        BY <2>2, <2>6, <2>7, <2>9, NoRowApart DEF IsClosed, VoteStake
      <4>2. QED
        BY <4>1 DEF VotesOff
    <3>3. t.staked[a] \in Int
      BY <1>1, FieldTypes
    <3>4. QED
      BY <1>2, <2>2, <2>4, <3>1, <3>2, <3>3
  <2>14. \A b \in Users \ {a} : VotesOff(u, b) = VotesOff(t, b)
    BY <2>2, <2>7, <2>9 DEF VotesOff, VoteStake, IsClosed
  <2>15. (NameBidsHeld(t) => NameBidsHeld(u)) /\ u.pool # NoRow
    BY <1>2, <2>2, <2>3, <2>9, NoRowApart DEF NameBidsHeld
  <2>16. \A h \in Holders \ {NamesAccount} : u.bal[h] >= t.bal[h]
    BY <1>1, <2>2, <2>9, FieldTypes
  <2>17. \A b \in Users : u.held[b] = NoRow <=> t.held[b] = NoRow
    BY <1>1, <2>2, <2>9
  <2>18. u.staked = t.staked /\ NoCheaper(t.pool, u.pool)
    BY <2>2, <2>3, <2>9
  <2>19. \A b \in Users : VotesOff(u, b) = VotesOff(t, b)
    BY <2>13, <2>14
  <2>20. Maintains(t, u)
    BY <2>10, <2>11, <2>12, <2>15, <2>16, <2>17, <2>18, <2>19 DEF Maintains
  <2>21. \A b \in Users \ {a} : IsOpen(t, b) => IsOpen(u, b)
    BY <2>7, <2>9 DEF IsOpen
  <2>22. QED
    BY <2>20, <2>21 DEF u
<1>5. QED
  BY <1>3, <1>4

LEMMA ProcessOrdersKeeps ==
  ASSUME NEW t, RexTablesInv(t), t.pool # NoRow, NEW max
  PROVE  Maintains(t, ProcessOrders(t, max))
<1> DEFINE first == IF max > 0 /\ Len(t.queue) > 0 THEN ProcessOrder(t, t.queue[1]) ELSE t
           last == IF max > 1 /\ Len(t.queue) > 1 THEN ProcessOrder(first, t.queue[2]) ELSE first
<1>1. ProcessOrders(t, max) = last
  BY DEF ProcessOrders
<1>2. \A i \in DOMAIN t.queue : t.queue[i] \in Users /\ IsOpen(t, t.queue[i])
  <2>1. t.queue \in Seq(Users)
    BY TablesHave, FieldTypes
  <2>2. \A i \in DOMAIN t.queue : IsOpen(t, t.queue[i])
    BY TablesHave DEF QueueAgrees
  <2>3. QED
    BY <2>1, <2>2
<1>3. DOMAIN t.queue = 1 .. Len(t.queue) /\ Len(t.queue) \in Nat
  <2>1. t.queue \in Seq(Users)
    BY TablesHave, FieldTypes
  <2>2. QED
    BY <2>1
<1>4. Maintains(t, first)
  <2>1. CASE max > 0 /\ Len(t.queue) > 0
    <3>1. t.queue[1] \in Users /\ IsOpen(t, t.queue[1])
      BY <1>2, <1>3, <2>1
    <3>2. QED
      BY <2>1, <3>1, ProcessOrderKeeps
  <2>2. CASE ~ (max > 0 /\ Len(t.queue) > 0)
    BY <2>2, MaintainsReflexive
  <2>3. QED
    BY <2>1, <2>2
<1>5. Len(t.queue) > 1 => t.queue[2] \in Users /\ IsOpen(first, t.queue[2])
  <2> SUFFICES ASSUME Len(t.queue) > 1
               PROVE  t.queue[2] \in Users /\ IsOpen(first, t.queue[2])
    OBVIOUS
  <2>1. 1 \in DOMAIN t.queue /\ 2 \in DOMAIN t.queue
    BY <1>3
  <2>2. t.queue[1] # t.queue[2]
    BY <2>1, TablesHave DEF QueueAgrees
  <2>3. /\ t.queue[1] \in Users /\ IsOpen(t, t.queue[1])
        /\ t.queue[2] \in Users /\ IsOpen(t, t.queue[2])
    BY <1>2, <2>1
  <2>4. IsOpen(ProcessOrder(t, t.queue[1]), t.queue[2])
    BY <2>2, <2>3, ProcessOrderKeeps
  <2>5. QED
    BY <2>3, <2>4
<1> HIDE DEF first
<1>6. RexTablesInv(first) /\ first.pool # NoRow
  BY <1>4 DEF Maintains
<1>7. Maintains(first, last)
  <2>1. CASE max > 1 /\ Len(t.queue) > 1
    BY <1>5, <1>6, <2>1, ProcessOrderKeeps
  <2>2. CASE ~ (max > 1 /\ Len(t.queue) > 1)
    BY <1>6, <2>2, MaintainsReflexive
  <2>3. QED
    BY <2>1, <2>2
<1> HIDE DEF last
<1>8. QED
  BY <1>1, <1>4, <1>7, MaintainsTransitive

\* The whole of the maintenance.
LEMMA RunRexKeeps ==
  ASSUME NEW t, RexTablesInv(t), t.pool # NoRow, NEW max
  PROVE  Maintains(t, RunRex(t, max))
<1> DEFINE x == ChannelNameBids(t)
           y == ProcessLoans(x, "cpu", max)
           z == ProcessLoans(y, "net", max)
           u == ProcessOrders(z, max)
<1>1. RunRex(t, max) = u
  BY DEF RunRex
<1>2. Maintains(t, x)
  BY ChannelNameBidsKeeps
<1> HIDE DEF x
<1>3. RexTablesInv(x) /\ x.pool # NoRow
  BY <1>2 DEF Maintains
<1>4. Maintains(x, y)
  BY <1>3, ProcessLoansKeeps
<1> HIDE DEF y
<1>5. Maintains(t, y)
  BY <1>2, <1>4, MaintainsTransitive
<1>6. RexTablesInv(y) /\ y.pool # NoRow
  BY <1>5 DEF Maintains
<1>7. Maintains(y, z)
  BY <1>6, ProcessLoansKeeps
<1> HIDE DEF z
<1>8. Maintains(t, z)
  BY <1>5, <1>7, MaintainsTransitive
<1>9. RexTablesInv(z) /\ z.pool # NoRow
  BY <1>8 DEF Maintains
<1>10. Maintains(z, u)
  BY <1>9, ProcessOrdersKeeps
<1> HIDE DEF u
<1>11. QED
  BY <1>1, <1>8, <1>10, MaintainsTransitive

\* From where everything is covered, the checks of the maintenance pass.
LEMMA MaintenanceAcceptable ==
  ASSUME RexInv, pool # NoRow, NEW max
  PROVE  Acceptable(RunRex(Tables, max))
<1> DEFINE u == RunRex(Tables, max)
<1>1. RexTablesInv(Tables) /\ Tables.pool = pool /\ Tables.staked = staked /\ Tables.bal = bal
  BY DEF RexInv, Tables
<1>2. Maintains(Tables, u)
  BY <1>1, RunRexKeeps
<1> HIDE DEF u
<1>3. u \in RexTables /\ RexTablesInv(u) /\ u.pool # NoRow
  BY <1>2, TablesHave DEF Maintains
<1>4. ASSUME NEW w \in Users \X Kinds PROVE u.weight[w] >= 0
  <2>1. u.weight[w] - Rented(u, w) = DelegatedTo(w)
    BY <1>2 DEF Maintains, RexInv, OwnWeight
  <2>2. Rented(u, w) \in Nat /\ u.weight[w] \in Int
    BY <1>3, SumTypes, FieldTypes
  <2>3. DelegatedTo(w) \in Nat
    <3> DEFINE f == [b \in Users |-> delband[<<b, w[1], w[2]>>]]
    <3>1. \A b \in Users : f[b] \in Nat
      <4>1. \A b \in Users : <<b, w[1], w[2]>> \in Stakes
        BY DEF Stakes
      <4>2. delband \in [Stakes -> Nat]
        BY DEF RexInv, TypeOK
      <4>3. QED
        BY <4>1, <4>2
    <3> HIDE DEF f
    <3>2. SumOver(f, Users) \in Nat
      BY <3>1, SetsFinite, SumOverNat
    <3>3. QED
      BY <3>2 DEF DelegatedTo, f
  <2>4. QED
    BY <2>1, <2>2, <2>3
<1>5. ASSUME NEW a \in Users PROVE u.staked[a] >= 0
  <2>1. u.staked = staked /\ staked \in [Users -> Nat]
    BY <1>1, <1>2 DEF Maintains, RexInv, TypeOK
  <2>2. QED
    BY <2>1
<1>6. ASSUME NEW h \in Holders PROVE u.bal[h] >= 0
  <2>1. u.bal[h] \in Int
    BY <1>3, FieldTypes
  <2>2. CASE h = NamesAccount
    <3>1. NameBidsHeld(u)
      BY <1>2 DEF Maintains, RexInv
    <3>2. u.pool.namebid \in Nat
      BY <1>3, PoolHas
    <3>3. QED
      BY <1>3, <2>1, <2>2, <3>1, <3>2 DEF NameBidsHeld
  <2>3. CASE h # NamesAccount
    <3>1. u.bal[h] >= bal[h] /\ bal \in [Holders -> Nat]
      BY <1>1, <1>2, <2>3 DEF Maintains, RexInv, TypeOK
    <3>2. bal[h] \in Nat
      BY <3>1
    <3>3. QED
      BY <2>1, <3>1, <3>2
  <2>4. QED
    BY <2>2, <2>3
<1>7. QED
  BY <1>4, <1>5, <1>6 DEF Acceptable, u
-----------------------------------------------------------------------------
(* Actions: what they keep between the tables before and those they commit *)

\* PriceNeverFalls and VoteStakeFollowed, of one step.
PriceHolds(p, q) ==
    p # NoRow /\ p.rex > 0 /\ q.rex > 0 => q.lendable * p.rex >= p.lendable * q.rex
VotesFollow(t, u) ==
    \A a \in Users : (t.held[a] # NoRow => u.held[a] # NoRow) => VotesOff(u, a) = VotesOff(t, a)

\* What an action keeps that stakes and unstakes nothing.
Lawful(t, u) ==
    /\ RexTablesInv(u)
    /\ Gap(u) = Gap(t)
    /\ \A w \in Users \X Kinds : OwnWeight(u, w) = OwnWeight(t, w)
    /\ NameBidsHeld(u)
    /\ PriceHolds(t.pool, u.pool)
    /\ VotesFollow(t, u)

DelegatedBy(a) == SumOver([s \in Stakes |-> IF s[1] = a THEN delband[s] ELSE 0], Stakes)

\* The two action properties, as predicates of a step.
PriceStep ==
    pool # NoRow /\ pool.rex > 0 /\ pool'.rex > 0 =>
          pool'.lendable * pool.rex >= pool.lendable * pool'.rex
VoteStep ==
    \A a \in Users :
          (\A s \in Stakes : delband'[s] = delband[s]) /\ (held[a] # NoRow => held'[a] # NoRow)
              => staked'[a] - staked[a] = Included(a)' - Included(a)

LEMMA TablesAre ==
  /\ Tables.pool = pool /\ Tables.fund = fund /\ Tables.held = held /\ Tables.order = order
  /\ Tables.queue = queue /\ Tables.loans = loans /\ Tables.weight = weight
  /\ Tables.staked = staked /\ Tables.bal = bal
  BY DEF Tables

LEMMA CommitIs ==
  ASSUME NEW t \in RexTables, Commit(t)
  PROVE  Tables' = t
<1> DEFINE u == [pool |-> t.pool, fund |-> t.fund, held |-> t.held, order |-> t.order,
                 queue |-> t.queue, loans |-> t.loans, weight |-> t.weight,
                 staked |-> t.staked, bal |-> t.bal]
<1>1. t = u
  BY DEF RexTables
<1>2. Tables' = u
  BY DEF Commit, Tables
<1>3. QED
  BY <1>1, <1>2

LEMMA StakesFinite == IsFiniteSet(Stakes)
<1> DEFINE P == Users \X (Users \X Kinds)
           f == [p \in P |-> <<p[1], p[2][1], p[2][2]>>]
<1>1. IsFiniteSet(P)
  <2>1. IsFiniteSet({"cpu"}) /\ IsFiniteSet({"net"})
    BY FS_Singleton
  <2>2. IsFiniteSet({"cpu"} \cup {"net"})
    BY <2>1, FS_Union
  <2>3. Kinds = {"cpu"} \cup {"net"}
    BY UsersAssumption
  <2>4. IsFiniteSet(Kinds)
    BY <2>2, <2>3
  <2>5. QED
    BY <2>4, SetsFinite, FS_Product
<1>2. f \in Surjection(P, Stakes)
  <2>1. f \in [P -> Stakes]
    BY DEF Stakes
  <2>2. ASSUME NEW s \in Stakes PROVE \E p \in P : f[p] = s
    <3> DEFINE p == <<s[1], <<s[2], s[3]>> >>
    <3>1. p \in P /\ f[p] = s
      BY <2>2 DEF Stakes
    <3>2. QED
      BY <3>1
  <2>3. QED
    BY <2>1, <2>2 DEF Surjection
<1>3. QED
  BY <1>1, <1>2, FS_Surjection

LEMMA DelegatedByIs ==
  ASSUME delband \in [Stakes -> Nat], NEW a
  PROVE  DelegatedBy(a) \in Int
<1> DEFINE f == [s \in Stakes |-> IF s[1] = a THEN delband[s] ELSE 0]
<1>1. \A s \in Stakes : f[s] \in Int
  OBVIOUS
<1> HIDE DEF f
<1>2. SumOver(f, Stakes) \in Int
  BY <1>1, StakesFinite, SumOverType
<1>3. QED
  BY <1>2 DEF DelegatedBy, f

\* What is recorded in votes, and what is included in them.
LEMMA IncludedIs ==
  ASSUME RexInv, NEW a \in Users
  PROVE  /\ Included(a) \in Int /\ staked[a] \in Int
         /\ staked[a] - Included(a) = VotesOff(Tables, a) - DelegatedBy(a)
<1> DEFINE c == IF IsClosed(Tables, a) THEN order[a].stake_change ELSE 0
           v == VoteStake(Tables, a)
           d == DelegatedBy(a)
<1>1. d \in Int /\ staked[a] \in Int
  BY DelegatedByIs DEF RexInv, TypeOK
<1>2. v \in Int
  BY NoRowApart, TablesAre DEF RexInv, TypeOK, VoteStake, Share
<1>3. c \in Int
  BY NoRowApart, TablesAre DEF RexInv, TypeOK, IsClosed, Order
<1>4. Included(a) = d + v - c
  BY DEF Included, DelegatedBy
<1>5. VotesOff(Tables, a) = staked[a] - v + c
  BY TablesAre DEF VotesOff
<1> HIDE DEF c, v, d
<1>6. Included(a) \in Int /\ staked[a] - Included(a) = VotesOff(Tables, a) - d
  BY <1>1, <1>2, <1>3, <1>4, <1>5
<1>7. QED
  BY <1>1, <1>6 DEF d

\* The same, ready to be taken to the next state.
IncludedDiffers ==
    \A a \in Users : /\ Included(a) \in Int /\ staked[a] \in Int
                      /\ staked[a] - Included(a) = VotesOff(Tables, a) - DelegatedBy(a)
LEMMA IncludedAlways == RexInv => IncludedDiffers
  BY IncludedIs DEF IncludedDiffers

LEMMA CommitKeepsType ==
  ASSUME NEW t \in RexTables, Commit(t), delband' \in [Stakes -> Nat]
  PROVE  TypeOK'
<1>1. /\ pool' = t.pool /\ fund' = t.fund /\ held' = t.held /\ order' = t.order
      /\ queue' = t.queue /\ loans' = t.loans /\ weight' = t.weight /\ staked' = t.staked
      /\ bal' = t.bal
  BY DEF Commit
<1>2. /\ t.pool \in Pool \cup {NoRow} /\ t.fund \in [Users -> Nat]
      /\ t.held \in [Users -> Share \cup {NoRow}] /\ t.order \in [Users -> Order \cup {NoRow}]
      /\ t.queue \in Seq(Users) /\ t.loans \in [LoanNums -> Loan \cup {NoRow}]
  BY FieldTypes
<1>3. t.weight \in [Users \X Kinds -> Nat]
  <2>1. t.weight \in [Users \X Kinds -> Int] /\ \A w \in Users \X Kinds : t.weight[w] >= 0
    BY FieldTypes DEF Commit, Acceptable
  <2>2. QED
    BY <2>1
<1>4. t.staked \in [Users -> Nat]
  <2>1. t.staked \in [Users -> Int] /\ \A a \in Users : t.staked[a] >= 0
    BY FieldTypes DEF Commit, Acceptable
  <2>2. QED
    BY <2>1
<1>5. t.bal \in [Holders -> Nat]
  <2>1. t.bal \in [Holders -> Int] /\ \A h \in Holders : t.bal[h] >= 0
    BY FieldTypes DEF Commit, Acceptable
  <2>2. QED
    BY <2>1
<1>6. QED
  BY <1>1, <1>2, <1>3, <1>4, <1>5 DEF TypeOK

LEMMA CommitKeeps ==
  ASSUME RexInv, NEW t, Lawful(Tables, t), Commit(t), UNCHANGED delband
  PROVE  RexInv' /\ PriceStep /\ VoteStep
<1>1. t \in RexTables
  BY TablesHave DEF Lawful
<1>2. Tables' = t
  BY <1>1, CommitIs
<1>3. delband' = delband /\ delband \in [Stakes -> Nat]
  BY DEF RexInv, TypeOK
<1>4. TypeOK'
  BY <1>1, <1>3, CommitKeepsType
<1>5. RexTablesInv(Tables)'
  BY <1>2 DEF Lawful
<1>6. (Gap(Tables) = 0)'
  BY <1>2 DEF Lawful, RexInv
<1>7. NameBidsHeld(Tables)'
  BY <1>2 DEF Lawful
<1>8. (\A w \in Users \X Kinds : OwnWeight(Tables, w) = DelegatedTo(w))'
  BY <1>2, <1>3 DEF Lawful, RexInv, DelegatedTo
<1>9. RexInv'
  BY <1>4, <1>5, <1>6, <1>7, <1>8 DEF RexInv
<1>10. PriceStep
  BY TablesAre DEF Lawful, PriceHolds, PriceStep, Commit
<1>11. VoteStep
  <2> SUFFICES ASSUME NEW a \in Users, held[a] # NoRow => held'[a] # NoRow
               PROVE  staked'[a] - staked[a] = Included(a)' - Included(a)
    BY DEF VoteStep
  <2>1. VotesOff(t, a) = VotesOff(Tables, a)
    BY TablesAre DEF Lawful, VotesFollow, Commit
  <2>2. /\ Included(a) \in Int /\ staked[a] \in Int
        /\ staked[a] - Included(a) = VotesOff(Tables, a) - DelegatedBy(a)
    BY IncludedIs
  <2>3. /\ Included(a)' \in Int /\ staked'[a] \in Int
        /\ staked'[a] - Included(a)' = VotesOff(t, a) - DelegatedBy(a)'
    <3>1. IncludedDiffers'
      BY <1>9, IncludedAlways, PTL
    <3>2. QED
      BY <1>2, <3>1 DEF IncludedDiffers
  <2>4. DelegatedBy(a)' = DelegatedBy(a)
    BY <1>3 DEF DelegatedBy
  <2>5. QED
    BY <2>1, <2>2, <2>3, <2>4
<1>12. QED
  BY <1>9, <1>10, <1>11
-----------------------------------------------------------------------------
(* Funds, balances, and the settling of orders                             *)

\* update_rex_account: the proceeds come to the fund, the change to the votes,
\* and with them what an order was filled for.
LEMMA UpdateRexAccountIs ==
  ASSUME NEW t \in RexTables, NEW a \in Users, NEW proceeds \in Nat, NEW change \in Int
  PROVE  LET u == UpdateRexAccount(t, a, proceeds, change)
         IN  /\ u \in RexTables
             /\ u.pool = t.pool /\ u.held = t.held /\ u.queue = t.queue /\ u.loans = t.loans
             /\ u.weight = t.weight /\ u.bal = t.bal
             /\ \A b \in Users \ {a} : u.order[b] = t.order[b]
             /\ u.order[a] = IF IsClosed(t, a) THEN NoRow ELSE t.order[a]
             /\ \A b \in Users : IsOpen(u, b) <=> IsOpen(t, b)
             /\ Gap(u) = Gap(t) - proceeds
             /\ VotesOff(u, a) = VotesOff(t, a) + change
             /\ \A b \in Users \ {a} : VotesOff(u, b) = VotesOff(t, b)
             /\ \A w \in Users \X Kinds : OwnWeight(u, w) = OwnWeight(t, w)
<1> DEFINE closed == IsClosed(t, a)
           gain == proceeds + (IF closed THEN t.order[a].proceeds ELSE 0)
           turn == change + (IF closed THEN t.order[a].stake_change ELSE 0)
           F == [t.fund EXCEPT ![a] = t.fund[a] + gain]
           S == [t.staked EXCEPT ![a] = t.staked[a] + turn]
           O == IF closed THEN [t.order EXCEPT ![a] = NoRow] ELSE t.order
           u == UpdateRexAccount(t, a, proceeds, change)
<1>1. /\ t.fund \in [Users -> Nat] /\ t.staked \in [Users -> Int]
      /\ t.order \in [Users -> Order \cup {NoRow}]
  BY FieldTypes
<1>2. closed => /\ t.order[a] # NoRow /\ t.order[a].proceeds \in Nat
                /\ t.order[a].stake_change \in Int /\ ~ t.order[a].is_open
  BY <1>1 DEF IsClosed, Order
<1>3. closed = IsClosed(t, a) /\ closed \in BOOLEAN
  <2>1. closed \in BOOLEAN
    BY <1>1 DEF IsClosed, Order
  <2>2. QED
    BY <2>1
<1> HIDE DEF closed
<1>4. gain \in Nat /\ turn \in Int
  BY <1>2
<1>5. u = [t EXCEPT !.fund = F, !.staked = S, !.order = O]
  <2>1. CASE closed
    <3>1. u = [t EXCEPT !.fund = [t.fund EXCEPT ![a] = t.fund[a] + proceeds + t.order[a].proceeds],
                        !.staked = [t.staked EXCEPT ![a] =
                                      t.staked[a] + change + t.order[a].stake_change],
                        !.order = [t.order EXCEPT ![a] = NoRow]]
      BY <1>3, <2>1 DEF UpdateRexAccount
    <3>2. t.fund[a] + proceeds + t.order[a].proceeds = t.fund[a] + gain
          /\ t.staked[a] + change + t.order[a].stake_change = t.staked[a] + turn
      BY <1>1, <1>2, <2>1
    <3>3. O = [t.order EXCEPT ![a] = NoRow]
      BY <2>1
    <3> HIDE DEF u, O, gain, turn
    <3>4. QED
      BY <3>1, <3>2, <3>3
  <2>2. CASE ~ closed
    <3>1. u = [t EXCEPT !.fund = [t.fund EXCEPT ![a] = t.fund[a] + proceeds],
                        !.staked = [t.staked EXCEPT ![a] = t.staked[a] + change]]
      BY <1>3, <2>2 DEF UpdateRexAccount
    <3>2. gain = proceeds /\ turn = change /\ O = t.order
      BY <2>2
    <3> DEFINE v == [t EXCEPT !.fund = [t.fund EXCEPT ![a] = t.fund[a] + proceeds],
                              !.staked = [t.staked EXCEPT ![a] = t.staked[a] + change],
                              !.order = t.order]
    <3>3. u = v
      BY <3>1 DEF RexTables
    <3> HIDE DEF u, O, gain, turn
    <3>4. QED
      BY <3>2, <3>3
  <2>3. QED
    BY <2>1, <2>2
<1>6. /\ gain = proceeds + (IF closed THEN t.order[a].proceeds ELSE 0)
      /\ turn = change + (IF closed THEN t.order[a].stake_change ELSE 0)
  OBVIOUS
<1> HIDE DEF gain, turn, u
<1>7. /\ F \in [Users -> Nat] /\ F = [t.fund EXCEPT ![a] = t.fund[a] + gain]
      /\ t.fund[a] \in Nat
  BY <1>1, <1>4
<1>8. /\ S \in [Users -> Int] /\ S[a] = t.staked[a] + turn /\ t.staked[a] \in Int
      /\ \A b \in Users \ {a} : S[b] = t.staked[b]
  BY <1>1, <1>4
<1>9. /\ O \in [Users -> Order \cup {NoRow}] /\ \A b \in Users \ {a} : O[b] = t.order[b]
      /\ O[a] = IF closed THEN NoRow ELSE t.order[a]
  BY <1>1
<1> HIDE DEF F, S, O
<1>10. /\ u \in RexTables /\ u.fund = F /\ u.staked = S /\ u.order = O
       /\ u.pool = t.pool /\ u.held = t.held /\ u.queue = t.queue /\ u.loans = t.loans
       /\ u.weight = t.weight /\ u.bal = t.bal
  BY <1>5, <1>7, <1>8, <1>9 DEF RexTables
<1>11. \A b \in Users : IsOpen(u, b) <=> IsOpen(t, b)
  BY <1>2, <1>9, <1>10 DEF IsOpen
<1>12. Gap(u) = Gap(t) - proceeds
  <2>1. t.fund[a] + gain \in Int /\ u.fund = [t.fund EXCEPT ![a] = t.fund[a] + gain]
        /\ \A b \in Users \ {a} : u.order[b] = t.order[b]
    BY <1>4, <1>7, <1>9, <1>10
  <2>2. Gap(u) = Gap(t) - ((PoolTokens(u.pool) - PoolTokens(t.pool)) + ((t.fund[a] + gain) - t.fund[a])
                            + (ProceedsIn(u.order[a]) - ProceedsIn(t.order[a])))
    BY <1>10, <2>1, AccountGap
  <2>3. ProceedsIn(u.order[a]) - ProceedsIn(t.order[a])
            = 0 - (IF closed THEN t.order[a].proceeds ELSE 0)
    <3>1. ProceedsIn(t.order[a]) \in Int
      BY <1>1, RowValues
    <3>2. closed => ProceedsIn(t.order[a]) = t.order[a].proceeds /\ ProceedsIn(u.order[a]) = 0
      BY <1>2, <1>9, <1>10 DEF ProceedsIn
    <3>3. ~ closed => ProceedsIn(u.order[a]) = ProceedsIn(t.order[a])
      BY <1>9, <1>10
    <3>4. QED
      BY <1>3, <3>1, <3>2, <3>3
  <2>4. PoolTokens(t.pool) \in Int /\ Gap(t) \in Int
    BY SumTypes, GapType
  <2>5. QED
    BY <1>2, <1>4, <1>6, <1>7, <1>10, <2>2, <2>3, <2>4
<1>13. VotesOff(u, a) = VotesOff(t, a) + change
  <2> DEFINE v == VoteStake(t, a)
             s == t.order[a].stake_change
  <2>1. v \in Int /\ VoteStake(u, a) = v
    <3>1. t.held[a] \in Share \cup {NoRow}
      BY FieldTypes
    <3>2. QED
      BY <1>10, <3>1 DEF VoteStake, Share
  <2>2. ~ IsClosed(u, a)
    BY <1>3, <1>9, <1>10 DEF IsClosed
  <2>3. VotesOff(u, a) = (t.staked[a] + turn) - v + 0
    BY <1>8, <1>10, <2>1, <2>2 DEF VotesOff
  <2>4. VotesOff(t, a) = t.staked[a] - v + (IF closed THEN s ELSE 0)
    BY <1>3 DEF VotesOff
  <2>5. turn = change + (IF closed THEN s ELSE 0) /\ (closed => s \in Int)
    BY <1>2, <1>6
  <2> HIDE DEF v, s
  <2>6. QED
    BY <1>4, <1>8, <2>1, <2>3, <2>4, <2>5
<1>14. \A b \in Users \ {a} : VotesOff(u, b) = VotesOff(t, b)
  BY <1>8, <1>9, <1>10 DEF VotesOff, VoteStake, IsClosed
<1>15. \A w \in Users \X Kinds : OwnWeight(u, w) = OwnWeight(t, w)
  BY <1>10, SameRents
<1>16. QED
  BY <1>3, <1>9, <1>10, <1>11, <1>12, <1>13, <1>14, <1>15 DEF u

LEMMA VotesOffType ==
  ASSUME NEW t \in RexTables, NEW a \in Users
  PROVE  VotesOff(t, a) \in Int
<1>1. t.staked[a] \in Int /\ t.held[a] \in Share \cup {NoRow} /\ t.order[a] \in Order \cup {NoRow}
  BY FieldTypes
<1>2. VoteStake(t, a) \in Int /\ (IsClosed(t, a) => t.order[a].stake_change \in Int)
  BY <1>1 DEF VoteStake, IsClosed, Share, Order
<1>3. QED
  BY <1>1, <1>2 DEF VotesOff

LEMMA UpdateRexAccountKeeps ==
  ASSUME NEW t, RexTablesInv(t), NEW a \in Users, NEW proceeds \in Nat, NEW change \in Int
  PROVE  RexTablesInv(UpdateRexAccount(t, a, proceeds, change))
<1> DEFINE u == UpdateRexAccount(t, a, proceeds, change)
<1>1. t \in RexTables
  BY TablesHave
<1>2. /\ u \in RexTables
      /\ u.pool = t.pool /\ u.held = t.held /\ u.queue = t.queue /\ u.loans = t.loans
      /\ \A b \in Users \ {a} : u.order[b] = t.order[b]
      /\ u.order[a] = IF IsClosed(t, a) THEN NoRow ELSE t.order[a]
      /\ \A b \in Users : IsOpen(u, b) <=> IsOpen(t, b)
  BY <1>1, UpdateRexAccountIs
<1> HIDE DEF u
<1>3. Unopened(u)
  <2>1. \A b \in Users : t.order[b] = NoRow => u.order[b] = NoRow
    BY <1>2
  <2>2. u.pool = t.pool /\ u.held = t.held /\ u.loans = t.loans /\ Unopened(t)
    BY <1>2, TablesHave
  <2>3. QED
    BY <2>1, <2>2 DEF Unopened
<1>4. PoolAgrees(u)
  BY <1>2, TablesHave, SameSums DEF PoolAgrees
<1>5. LoansNumbered(u)
  BY <1>2, TablesHave DEF LoansNumbered
<1>6. RowsGood(u)
  <2>1. \A b \in Users : OrderCovered(u.order[b], u.held[b])
    BY <1>2, TablesHave DEF RowsGood, OrderCovered
  <2>2. QED
    BY <1>2, <2>1, TablesHave DEF RowsGood
<1>7. QueueAgrees(u)
  <2>1. \A i \in DOMAIN t.queue : t.queue[i] \in Users
    BY <1>1, FieldTypes
  <2>2. QED
    BY <1>2, <2>1, TablesHave DEF QueueAgrees
<1>8. QED
  BY <1>2, <1>3, <1>4, <1>5, <1>6, <1>7 DEF RexTablesInv, u

\* transfer_to_fund, to a fund that has q after it.
WithFund(t, a, q) == [t EXCEPT !.fund = [t.fund EXCEPT ![a] = q]]

LEMMA FundChanged ==
  ASSUME NEW t \in RexTables, NEW a \in Users, NEW q \in Nat
  PROVE  /\ t.fund[a] \in Int /\ WithFund(t, a, q).fund = [t.fund EXCEPT ![a] = q]
<1>1. t.fund \in [Users -> Nat] /\ t.fund[a] \in Int
  BY FieldTypes
<1>2. QED
  BY <1>1 DEF WithFund, RexTables

LEMMA FundIs ==
  ASSUME NEW t \in RexTables, NEW a \in Users, NEW q \in Nat
  PROVE  LET u == WithFund(t, a, q)
         IN  /\ u \in RexTables
             /\ u.pool = t.pool /\ u.held = t.held /\ u.order = t.order /\ u.queue = t.queue
             /\ u.loans = t.loans /\ u.weight = t.weight /\ u.staked = t.staked /\ u.bal = t.bal
<1> DEFINE F == [t.fund EXCEPT ![a] = q]
           u == WithFund(t, a, q)
<1>1. t.fund \in [Users -> Nat]
  BY FieldTypes
<1>2. F \in [Users -> Nat]
  BY <1>1
<1>3. u = [t EXCEPT !.fund = F]
  BY DEF WithFund
<1> HIDE DEF F, u
<1>4. /\ u \in RexTables
      /\ u.pool = t.pool /\ u.held = t.held /\ u.order = t.order /\ u.queue = t.queue
      /\ u.loans = t.loans /\ u.weight = t.weight /\ u.staked = t.staked /\ u.bal = t.bal
  BY <1>2, <1>3 DEF RexTables
<1>5. QED
  BY <1>4 DEF u

LEMMA FundGap ==
  ASSUME NEW t \in RexTables, NEW a \in Users, NEW q \in Nat
  PROVE  Gap(WithFund(t, a, q)) = Gap(t) - (q - t.fund[a])
<1> DEFINE u == WithFund(t, a, q)
<1>1. /\ u \in RexTables /\ u.fund = [t.fund EXCEPT ![a] = q]
      /\ u.pool = t.pool /\ u.order = t.order /\ u.loans = t.loans /\ u.bal = t.bal
  BY FundIs, FundChanged
<1> HIDE DEF u
<1>2. Funds(u) = Funds(t) + q - t.fund[a]
  BY <1>1, FundsChange
<1>3. Balances(u) = Balances(t) /\ Proceeds(u) = Proceeds(t)
  BY <1>1, SameSums
<1>4. /\ Funds(t) \in Int /\ Balances(t) \in Int /\ Proceeds(t) \in Int
      /\ PoolTokens(t.pool) \in Int /\ t.bal[RexAccount] \in Int /\ t.fund[a] \in Int
  BY SumTypes, FieldTypes, AccountsApart
<1>5. Gap(u) = Gap(t) - (q - t.fund[a])
  BY <1>1, <1>2, <1>3, <1>4 DEF Gap
<1>6. QED
  BY <1>5 DEF u

LEMMA MoveIs ==
  ASSUME NEW t \in RexTables, NEW from \in Holders, NEW to \in Holders, from # to,
         NEW amount \in Int
  PROVE  LET u == Move(t, from, to, amount)
         IN  /\ u \in RexTables
             /\ u.pool = t.pool /\ u.held = t.held /\ u.order = t.order /\ u.queue = t.queue
             /\ u.loans = t.loans /\ u.weight = t.weight /\ u.staked = t.staked /\ u.fund = t.fund
             /\ u.bal[to] = t.bal[to] + amount /\ u.bal[from] = t.bal[from] - amount
             /\ \A h \in Holders \ {from, to} : u.bal[h] = t.bal[h]
             /\ Gap(u) = Gap(t) + (u.bal[RexAccount] - t.bal[RexAccount])
<1> DEFINE B == [t.bal EXCEPT ![from] = t.bal[from] - amount, ![to] = t.bal[to] + amount]
           u == Move(t, from, to, amount)
<1>1. t.bal \in [Holders -> Int]
  BY FieldTypes
<1>2. /\ B \in [Holders -> Int] /\ B[to] = t.bal[to] + amount /\ B[from] = t.bal[from] - amount
      /\ \A h \in Holders \ {from, to} : B[h] = t.bal[h]
  BY <1>1
<1>3. u = [t EXCEPT !.bal = B]
  BY DEF Move
<1> HIDE DEF B, u
<1>4. /\ u \in RexTables /\ u.bal = B
      /\ u.pool = t.pool /\ u.held = t.held /\ u.order = t.order /\ u.queue = t.queue
      /\ u.loans = t.loans /\ u.weight = t.weight /\ u.staked = t.staked /\ u.fund = t.fund
  BY <1>2, <1>3 DEF RexTables
<1>5. Gap(u) = Gap(t) + (u.bal[RexAccount] - t.bal[RexAccount])
  <2>1. Funds(u) = Funds(t) /\ Balances(u) = Balances(t) /\ Proceeds(u) = Proceeds(t)
    BY <1>4, SameSums
  <2>2. /\ Funds(t) \in Int /\ Balances(t) \in Int /\ Proceeds(t) \in Int
        /\ PoolTokens(t.pool) \in Int
    BY SumTypes
  <2>3. t.bal[RexAccount] \in Int /\ u.bal[RexAccount] \in Int
    BY <1>1, <1>2, <1>4, AccountsApart
  <2>4. QED
    BY <1>4, <2>1, <2>2, <2>3 DEF Gap
<1>6. QED
  BY <1>2, <1>4, <1>5 DEF u
-----------------------------------------------------------------------------
(* Actions of an account                                                   *)

\* What a step of the exchange is to keep.
Follows == RexInv' /\ PriceStep /\ VoteStep

LEMMA AmountTypes == \A sort \in Sorts : \A q \in Quantities[sort] : q \in Int
  BY AmountsAssumption

\* The same price, and the same votes.
LEMMA SamePrice ==
  ASSUME NEW t, RexTablesInv(t), NEW u, u.pool = t.pool
  PROVE  PriceHolds(t.pool, u.pool)
<1> SUFFICES ASSUME t.pool # NoRow PROVE t.pool.lendable * t.pool.rex >= t.pool.lendable * t.pool.rex
  BY DEF PriceHolds
<1>1. t.pool.lendable \in Int /\ t.pool.rex \in Int
  BY PoolHas
<1>2. t.pool.lendable * t.pool.rex \in Int
  BY <1>1
<1>3. QED
  BY <1>2

LEMMA InvHas ==
  ASSUME RexInv
  PROVE  /\ RexTablesInv(Tables) /\ Tables \in RexTables /\ Gap(Tables) = 0 /\ NameBidsHeld(Tables)
         /\ \A h \in Holders : bal[h] \in Nat
         /\ \A a \in Users : fund[a] \in Nat
         /\ delband \in [Stakes -> Nat]
  BY TablesHave DEF RexInv, TypeOK

LEMMA DepositKeeps ==
  ASSUME RexInv, NEW owner \in Users, NEW amount \in Int, Deposit(owner, amount)
  PROVE  Follows
<1> DEFINE t == Tables
           m == Move(t, owner, RexAccount, amount)
           u == TransferToFund(m, owner, amount)
<1>1. amount \in Nat \ {0} /\ Commit(u) /\ UNCHANGED delband
  BY DEF Deposit
<1>2. RexTablesInv(t) /\ t \in RexTables /\ Gap(t) = 0 /\ NameBidsHeld(t) /\ t.fund[owner] \in Nat
      /\ t.bal[RexAccount] \in Int
  BY InvHas, TablesAre, AccountsApart
<1>3. owner \in Holders /\ RexAccount \in Holders /\ owner # RexAccount
      /\ NamesAccount \in Holders \ {owner, RexAccount}
  BY AccountsApart
<1> HIDE DEF t
<1>4. /\ m \in RexTables
      /\ m.pool = t.pool /\ m.held = t.held /\ m.order = t.order /\ m.queue = t.queue
      /\ m.loans = t.loans /\ m.weight = t.weight /\ m.staked = t.staked /\ m.fund = t.fund
      /\ m.bal[RexAccount] = t.bal[RexAccount] + amount
      /\ m.bal[NamesAccount] = t.bal[NamesAccount]
      /\ Gap(m) = Gap(t) + (m.bal[RexAccount] - t.bal[RexAccount])
  BY <1>2, <1>3, MoveIs
<1> HIDE DEF m
<1> DEFINE q == m.fund[owner] + amount
<1>5. /\ q \in Nat /\ q = m.fund[owner] + amount
      /\ u = WithFund(m, owner, q)
  BY <1>1, <1>2, <1>4 DEF TransferToFund, WithFund
<1> HIDE DEF q, u
<1>6. /\ u \in RexTables
      /\ u.pool = m.pool /\ u.held = m.held /\ u.order = m.order /\ u.queue = m.queue
      /\ u.loans = m.loans /\ u.weight = m.weight /\ u.staked = m.staked /\ u.bal = m.bal
      /\ Gap(u) = Gap(m) - (q - m.fund[owner])
  <2>1. m \in RexTables /\ q \in Nat /\ u = WithFund(m, owner, q)
    BY <1>4, <1>5
  <2>2. LET w == WithFund(m, owner, q)
        IN  /\ w \in RexTables
            /\ w.pool = m.pool /\ w.held = m.held /\ w.order = m.order
            /\ w.queue = m.queue /\ w.loans = m.loans /\ w.weight = m.weight
            /\ w.staked = m.staked /\ w.bal = m.bal
    BY <2>1, FundIs
  <2>3. Gap(WithFund(m, owner, q)) = Gap(m) - (q - m.fund[owner])
    BY <2>1, FundGap
  <2>4. QED
    BY <2>1, <2>2, <2>3
<1>7. RexTablesInv(u)
  BY <1>2, <1>4, <1>6, MoneyStep
<1>8. Gap(u) = Gap(t)
  BY <1>1, <1>2, <1>4, <1>5, <1>6
<1>9. NameBidsHeld(u)
  BY <1>2, <1>4, <1>6 DEF NameBidsHeld
<1>10. \A w \in Users \X Kinds : OwnWeight(u, w) = OwnWeight(t, w)
  BY <1>4, <1>6, SameRents
<1>11. VotesFollow(t, u)
  BY <1>4, <1>6, SameVotes DEF VotesFollow
<1>12. PriceHolds(t.pool, u.pool)
  BY <1>2, <1>4, <1>6, SamePrice
<1>13. Lawful(Tables, u)
  BY <1>7, <1>8, <1>9, <1>10, <1>11, <1>12 DEF Lawful, t
<1>14. QED
  BY <1>1, <1>13, CommitKeeps DEF Follows

LEMMA WithdrawKeeps ==
  ASSUME RexInv, NEW owner \in Users, NEW amount \in Int, Withdraw(owner, amount)
  PROVE  Follows
<1> DEFINE s == Tables
           t == UpdateRexAccount(s, owner, 0, 0)
           m == Move(t, RexAccount, owner, amount)
           u == TransferToFund(m, owner, -amount)
<1>1. amount \in Nat \ {0} /\ t.fund[owner] >= amount /\ Commit(u) /\ UNCHANGED delband
  BY DEF Withdraw
<1>2. RexTablesInv(s) /\ s \in RexTables /\ Gap(s) = 0 /\ NameBidsHeld(s)
  BY InvHas
<1>3. owner \in Holders /\ RexAccount \in Holders /\ owner # RexAccount
      /\ NamesAccount \in Holders \ {owner, RexAccount}
  BY AccountsApart
<1> HIDE DEF s
<1>4. RexTablesInv(t)
  BY <1>2, UpdateRexAccountKeeps
<1>5. /\ t \in RexTables
      /\ t.pool = s.pool /\ t.held = s.held /\ t.bal = s.bal
      /\ Gap(t) = Gap(s) - 0
      /\ VotesOff(t, owner) = VotesOff(s, owner) + 0
      /\ \A b \in Users \ {owner} : VotesOff(t, b) = VotesOff(s, b)
      /\ \A w \in Users \X Kinds : OwnWeight(t, w) = OwnWeight(s, w)
  BY <1>2, UpdateRexAccountIs
<1>6. VotesOff(s, owner) \in Int
  BY <1>2, VotesOffType
<1> HIDE DEF t
<1>7. t.bal[RexAccount] \in Int /\ t.fund[owner] \in Nat
  BY <1>3, <1>5, FieldTypes
<1>8. /\ m \in RexTables
      /\ m.pool = t.pool /\ m.held = t.held /\ m.order = t.order /\ m.queue = t.queue
      /\ m.loans = t.loans /\ m.weight = t.weight /\ m.staked = t.staked /\ m.fund = t.fund
      /\ m.bal[RexAccount] = t.bal[RexAccount] - amount
      /\ m.bal[NamesAccount] = t.bal[NamesAccount]
      /\ Gap(m) = Gap(t) + (m.bal[RexAccount] - t.bal[RexAccount])
  <2>1. /\ t \in RexTables /\ RexAccount \in Holders /\ owner \in Holders /\ RexAccount # owner
        /\ NamesAccount \in Holders \ {RexAccount, owner}
    BY <1>3, <1>5
  <2>2. LET v == Move(t, RexAccount, owner, amount)
        IN  /\ v \in RexTables
            /\ v.pool = t.pool /\ v.held = t.held /\ v.order = t.order /\ v.queue = t.queue
            /\ v.loans = t.loans /\ v.weight = t.weight /\ v.staked = t.staked /\ v.fund = t.fund
            /\ v.bal[owner] = t.bal[owner] + amount
            /\ v.bal[RexAccount] = t.bal[RexAccount] - amount
            /\ \A h \in Holders \ {RexAccount, owner} : v.bal[h] = t.bal[h]
            /\ Gap(v) = Gap(t) + (v.bal[RexAccount] - t.bal[RexAccount])
    BY <2>1, MoveIs
  <2>3. QED
    BY <2>1, <2>2
<1> HIDE DEF m
<1> DEFINE q == m.fund[owner] + (-amount)
<1>9. /\ q \in Nat /\ q = m.fund[owner] - amount
      /\ u = WithFund(m, owner, q)
  BY <1>1, <1>7, <1>8 DEF TransferToFund, WithFund
<1> HIDE DEF q, u
<1>10. /\ u \in RexTables
       /\ u.pool = m.pool /\ u.held = m.held /\ u.order = m.order /\ u.queue = m.queue
       /\ u.loans = m.loans /\ u.weight = m.weight /\ u.staked = m.staked /\ u.bal = m.bal
       /\ Gap(u) = Gap(m) - (q - m.fund[owner])
  <2>1. m \in RexTables /\ q \in Nat /\ u = WithFund(m, owner, q)
    BY <1>8, <1>9
  <2>2. LET w == WithFund(m, owner, q)
        IN  /\ w \in RexTables
            /\ w.pool = m.pool /\ w.held = m.held /\ w.order = m.order
            /\ w.queue = m.queue /\ w.loans = m.loans /\ w.weight = m.weight
            /\ w.staked = m.staked /\ w.bal = m.bal
    BY <2>1, FundIs
  <2>3. Gap(WithFund(m, owner, q)) = Gap(m) - (q - m.fund[owner])
    BY <2>1, FundGap
  <2>4. QED
    BY <2>1, <2>2, <2>3
<1>11. RexTablesInv(u)
  BY <1>4, <1>8, <1>10, MoneyStep
<1>12. Gap(u) = Gap(s)
  BY <1>1, <1>2, <1>5, <1>7, <1>8, <1>9, <1>10
<1>13. NameBidsHeld(u)
  BY <1>2, <1>5, <1>8, <1>10 DEF NameBidsHeld
<1>14. \A w \in Users \X Kinds : OwnWeight(u, w) = OwnWeight(s, w)
  <2>1. \A w \in Users \X Kinds : OwnWeight(u, w) = OwnWeight(t, w)
    BY <1>8, <1>10, SameRents
  <2>2. QED
    BY <1>5, <2>1
<1>15. VotesFollow(s, u)
  <2>1. \A a \in Users : VotesOff(u, a) = VotesOff(t, a)
    BY <1>8, <1>10, SameVotes
  <2>2. \A a \in Users : VotesOff(t, a) = VotesOff(s, a)
    BY <1>5, <1>6
  <2>3. QED
    BY <2>1, <2>2 DEF VotesFollow
<1>16. PriceHolds(s.pool, u.pool)
  BY <1>2, <1>5, <1>8, <1>10, SamePrice
<1>17. Lawful(Tables, u)
  BY <1>11, <1>12, <1>13, <1>14, <1>15, <1>16 DEF Lawful, s
<1>18. QED
  BY <1>1, <1>17, CommitKeeps DEF Follows
-----------------------------------------------------------------------------
(* Shares                                                                  *)

LEMMA ShareFields ==
  ASSUME NEW h \in Share
  PROVE  /\ h.rex \in Nat /\ h.matured \in Nat /\ h.savings \in Nat /\ h.vote_stake \in Nat
         /\ h.growing \in [Days -> Nat] /\ SumOver(h.growing, Days) \in Nat
         /\ \A d \in Days : h.growing[d] \in Nat
         /\ 0 \in Days /\ Maturity \in Days
<1>1. /\ h.rex \in Nat /\ h.matured \in Nat /\ h.savings \in Nat /\ h.vote_stake \in Nat
      /\ h.growing \in [Days -> Nat]
  BY DEF Share
<1>2. \A d \in Days : h.growing[d] \in Nat
  BY <1>1
<1>3. SumOver(h.growing, Days) \in Nat
  BY <1>2, SetsFinite, SumOverNat
<1>4. 0 \in Days /\ Maturity \in Days
  BY AmountsAssumption DEF Days
<1>5. QED
  BY <1>1, <1>2, <1>3, <1>4

\* A bucket that changes changes what is growing.
LEMMA GrowingChange ==
  ASSUME NEW g \in [Days -> Nat], NEW d \in Days, NEW q \in Nat
  PROVE  LET f == [g EXCEPT ![d] = q]
         IN  /\ f \in [Days -> Nat]
             /\ SumOver(f, Days) = SumOver(g, Days) + q - g[d]
<1> DEFINE f == [g EXCEPT ![d] = q]
<1>1. f \in [Days -> Nat] /\ f[d] = q /\ \A e \in Days \ {d} : g[e] = f[e]
  OBVIOUS
<1>2. \A e \in Days : f[e] \in Int /\ g[e] \in Int
  BY <1>1
<1> HIDE DEF f
<1>3. SumOver(f, Days) = SumOver(g, Days) + f[d] - g[d]
  BY <1>1, <1>2, SetsFinite, SumOverChange
<1>4. QED
  BY <1>1, <1>3 DEF f

\* process_rex_maturities: what was due is mature.
LEMMA ProcessMaturitiesIs ==
  ASSUME NEW h \in Share
  PROVE  LET u == ProcessMaturities(h)
         IN  /\ u \in Share /\ u.rex = h.rex /\ u.savings = h.savings /\ u.vote_stake = h.vote_stake
             /\ u.matured >= h.matured
             /\ u.matured + SumOver(u.growing, Days) = h.matured + SumOver(h.growing, Days)
<1> DEFINE m == h.matured + h.growing[0]
           g == [h.growing EXCEPT ![0] = 0]
           u == ProcessMaturities(h)
<1>1. /\ h.matured \in Nat /\ h.growing \in [Days -> Nat] /\ SumOver(h.growing, Days) \in Nat
      /\ h.growing[0] \in Nat /\ 0 \in Days
  BY ShareFields
<1>2. g \in [Days -> Nat] /\ SumOver(g, Days) = SumOver(h.growing, Days) + 0 - h.growing[0]
  BY <1>1, GrowingChange
<1>3. u = [h EXCEPT !.matured = m, !.growing = g]
  BY DEF ProcessMaturities
<1>4. m \in Nat /\ m = h.matured + h.growing[0]
  BY <1>1
<1> HIDE DEF m, g, u
<1>5. /\ u \in Share /\ u.rex = h.rex /\ u.savings = h.savings /\ u.vote_stake = h.vote_stake
      /\ u.matured = m /\ u.growing = g
  BY <1>2, <1>3, <1>4 DEF Share
<1>6. u.matured >= h.matured
  BY <1>1, <1>4, <1>5
<1>7. u.matured + SumOver(u.growing, Days) = h.matured + SumOver(h.growing, Days)
  BY <1>1, <1>2, <1>4, <1>5
<1>8. QED
  BY <1>5, <1>6, <1>7 DEF u

LEMMA GrowIs ==
  ASSUME NEW h \in Share, NEW r \in Nat
  PROVE  LET u == Grow(h, r)
         IN  /\ u \in Share /\ u.rex = h.rex /\ u.savings = h.savings /\ u.vote_stake = h.vote_stake
             /\ u.matured = h.matured
             /\ SumOver(u.growing, Days) = SumOver(h.growing, Days) + r
<1> DEFINE q == h.growing[Maturity] + r
           g == [h.growing EXCEPT ![Maturity] = q]
           u == Grow(h, r)
<1>1. /\ h.growing \in [Days -> Nat] /\ SumOver(h.growing, Days) \in Nat
      /\ h.growing[Maturity] \in Nat /\ Maturity \in Days
  BY ShareFields
<1>2. q \in Nat /\ q = h.growing[Maturity] + r
  BY <1>1
<1>3. u = [h EXCEPT !.growing = g]
  BY DEF Grow
<1> HIDE DEF q
<1>4. g \in [Days -> Nat] /\ SumOver(g, Days) = SumOver(h.growing, Days) + q - h.growing[Maturity]
  BY <1>1, <1>2, GrowingChange
<1> HIDE DEF g, u
<1>5. /\ u \in Share /\ u.rex = h.rex /\ u.savings = h.savings /\ u.vote_stake = h.vote_stake
      /\ u.matured = h.matured /\ u.growing = g
  BY <1>3, <1>4 DEF Share
<1>6. SumOver(u.growing, Days) = SumOver(h.growing, Days) + r
  BY <1>1, <1>2, <1>4, <1>5
<1>7. QED
  BY <1>5, <1>6 DEF u

\* The buckets of a share add up to its REX, or to r less.
LEMMA BucketsAre ==
  ASSUME NEW h \in Share
  PROVE  BucketsAdd(h) <=> h.rex = h.matured + SumOver(h.growing, Days) + h.savings
  BY NoRowApart DEF BucketsAdd

\* The table of shares in which a has h.
WithShare(t, a, h) == [t EXCEPT !.held = [t.held EXCEPT ![a] = h]]

LEMMA WithShareIs ==
  ASSUME NEW t \in RexTables, NEW a \in Users, NEW h \in Share \cup {NoRow}
  PROVE  LET u == WithShare(t, a, h)
         IN  /\ u \in RexTables
             /\ u.pool = t.pool /\ u.fund = t.fund /\ u.order = t.order /\ u.queue = t.queue
             /\ u.loans = t.loans /\ u.weight = t.weight /\ u.staked = t.staked /\ u.bal = t.bal
             /\ u.held[a] = h /\ \A b \in Users \ {a} : u.held[b] = t.held[b]
<1> DEFINE H == [t.held EXCEPT ![a] = h]
           u == WithShare(t, a, h)
<1>1. t.held \in [Users -> Share \cup {NoRow}]
  BY FieldTypes
<1>2. /\ H \in [Users -> Share \cup {NoRow}]
      /\ H[a] = h /\ \A b \in Users \ {a} : H[b] = t.held[b]
  BY <1>1
<1>3. u = [t EXCEPT !.held = H]
  BY DEF WithShare
<1> HIDE DEF H, u
<1>4. /\ u \in RexTables /\ u.held = H
      /\ u.pool = t.pool /\ u.fund = t.fund /\ u.order = t.order /\ u.queue = t.queue
      /\ u.loans = t.loans /\ u.weight = t.weight /\ u.staked = t.staked /\ u.bal = t.bal
  BY <1>2, <1>3 DEF RexTables
<1>5. QED
  BY <1>2, <1>4 DEF u

LEMMA SameGap ==
  ASSUME NEW t, NEW u, u.pool = t.pool, u.fund = t.fund, u.order = t.order, u.loans = t.loans,
         u.bal = t.bal
  PROVE  Gap(u) = Gap(t)
  BY SameSums DEF Gap

\* add_to_rex_balance, after the pool was paid.
LEMMA BoughtIs ==
  ASSUME NEW t, RexTablesInv(t), NEW a \in Users, NEW payment \in Nat \ {0},
         CanAddToRexPool(t.pool, payment),
         NEW s \in RexTables, s.pool = AddToRexPool(t.pool, payment), s.held = t.held,
         s.order = t.order, s.queue = t.queue, s.loans = t.loans,
         NEW b, b = AddToRexBalance(s, a, payment, RexReceived(t.pool, payment))
  PROVE  /\ RexTablesInv(b) /\ b \in RexTables
         /\ b.pool = s.pool /\ b.fund = s.fund /\ b.order = s.order /\ b.queue = s.queue
         /\ b.loans = s.loans /\ b.weight = s.weight /\ b.staked = s.staked /\ b.bal = s.bal
         /\ b.held[a] \in Share /\ \A c \in Users \ {a} : b.held[c] = t.held[c]
         /\ b.pool # NoRow
<1> DEFINE received == RexReceived(t.pool, payment)
           none == [vote_stake |-> 0, rex |-> 0, matured |-> 0,
                    growing |-> [d \in Days |-> 0], savings |-> 0]
           old == IF s.held[a] = NoRow THEN none ELSE s.held[a]
           worth == VoteStakeBought(s, a, payment, received)
           all == old.rex + received
           new == [old EXCEPT !.rex = old.rex + received, !.vote_stake = worth]
           ripe == ProcessMaturities(new)
           grown == Grow(ripe, received)
<1>1. b = WithShare(s, a, grown)
  BY DEF AddToRexBalance, WithShare
<1>2. t \in RexTables /\ t.pool \in Pool \cup {NoRow} /\ t.held[a] \in Share \cup {NoRow}
  BY TablesHave, FieldTypes
<1>3. t.pool # NoRow => /\ t.pool.lendable = t.pool.lent + t.pool.unlent
                        /\ t.pool.rex = 0 => t.pool.lendable = 0
  BY TablesHave DEF PoolAgrees
<1>4. /\ s.pool \in Pool /\ s.pool.rex \in Nat \ {0} /\ s.pool.lendable = s.pool.lent + s.pool.unlent
      /\ received \in Nat /\ s.pool.rex = RexIn(t.pool) + received
      /\ s.pool.loan_num = IF t.pool = NoRow THEN 0 ELSE t.pool.loan_num
      /\ s.pool.lent = IF t.pool = NoRow THEN 0 ELSE t.pool.lent
  BY <1>2, <1>3, PurchaseBound
<1>5. none \in Share /\ SumOver(none.growing, Days) = 0 /\ RexIn(none) = 0
  <2> DEFINE g == [d \in Days |-> 0]
  <2>1. g \in [Days -> Nat] /\ \A d \in Days : g[d] \in Nat /\ g[d] = 0
    OBVIOUS
  <2> HIDE DEF g
  <2>2. SumOver(g, Days) = 0
    BY <2>1, SetsFinite, SumOverNat
  <2>3. none = [vote_stake |-> 0, rex |-> 0, matured |-> 0, growing |-> g, savings |-> 0]
    BY DEF g
  <2> HIDE DEF none
  <2>4. none \in Share /\ none.growing = g /\ none.rex = 0
    BY <2>1, <2>3 DEF Share
  <2>5. QED
    BY <2>2, <2>4, NoRowApart DEF RexIn
<1>6. old \in Share /\ BucketsAdd(old) /\ old.rex = RexIn(t.held[a]) /\ old.rex \in Nat
  <2>1. CASE s.held[a] = NoRow
    <3>1. old = none /\ none.rex = 0 /\ none.matured = 0 /\ none.savings = 0
      BY <2>1
    <3> HIDE DEF old, none
    <3>2. BucketsAdd(none)
      BY <1>5, <3>1, BucketsAre
    <3>3. QED
      BY <1>5, <2>1, <3>1, <3>2 DEF RexIn
  <2>2. CASE s.held[a] # NoRow
    <3>1. old = t.held[a] /\ old \in Share
      BY <1>2, <2>2
    <3> HIDE DEF old
    <3>2. BucketsAdd(old)
      BY <3>1, TablesHave DEF RowsGood
    <3>3. QED
      BY <2>2, <3>1, <3>2, ShareFields DEF RexIn
  <2>3. QED
    BY <2>1, <2>2
<1>7. s.held[a] # NoRow => old = s.held[a]
  OBVIOUS
<1> HIDE DEF received, none, old, worth
<1>8. worth \in Nat
  <2>1. CASE s.held[a] = NoRow
    BY <2>1 DEF worth, VoteStakeBought
  <2>2. CASE s.held[a] # NoRow
    <3> DEFINE r == s.held[a].rex + received
    <3>1. r \in Nat
      BY <1>4, <1>6, <1>7, <2>2
    <3>2. worth = Worth(s.pool, r)
      BY <2>2 DEF worth, VoteStakeBought
    <3> HIDE DEF r
    <3>3. QED
      BY <1>4, <3>1, <3>2, WorthBound
  <2>3. QED
    BY <2>1, <2>2
<1>9. all \in Nat /\ all = old.rex + received
  BY <1>4, <1>6
<1>10. new = [old EXCEPT !.rex = all, !.vote_stake = worth]
  OBVIOUS
<1> HIDE DEF all, new
<1>11. /\ new \in Share /\ new.rex = all /\ new.vote_stake = worth /\ new.matured = old.matured
       /\ new.savings = old.savings /\ new.growing = old.growing
  BY <1>6, <1>8, <1>9, <1>10 DEF Share
<1>12. /\ ripe \in Share /\ ripe.rex = new.rex /\ ripe.savings = new.savings
       /\ ripe.matured >= new.matured
       /\ ripe.matured + SumOver(ripe.growing, Days) = new.matured + SumOver(new.growing, Days)
  BY <1>11, ProcessMaturitiesIs
<1> HIDE DEF ripe
<1>13. /\ grown \in Share /\ grown.rex = ripe.rex /\ grown.savings = ripe.savings
       /\ grown.matured = ripe.matured
       /\ SumOver(grown.growing, Days) = SumOver(ripe.growing, Days) + received
  BY <1>4, <1>12, GrowIs
<1> HIDE DEF grown
<1>14. BucketsAdd(grown)
  <2> DEFINE x == SumOver(old.growing, Days)
             y == SumOver(ripe.growing, Days)
             z == SumOver(grown.growing, Days)
  <2>1. x \in Nat /\ y \in Nat /\ z \in Nat
    BY <1>6, <1>12, <1>13, ShareFields
  <2>2. /\ old.matured \in Nat /\ old.savings \in Nat /\ old.rex = old.matured + x + old.savings
    BY <1>6, ShareFields, BucketsAre
  <2>3. ripe.matured + y = old.matured + x /\ z = y + received
    BY <1>11, <1>12, <1>13
  <2>4. grown.matured \in Nat /\ grown.savings = old.savings /\ grown.matured = ripe.matured
        /\ grown.rex = old.rex + received
    BY <1>9, <1>11, <1>12, <1>13, ShareFields
  <2> HIDE DEF x, y, z
  <2>5. grown.rex = grown.matured + z + grown.savings
    BY <1>4, <2>1, <2>2, <2>3, <2>4
  <2>6. QED
    BY <1>13, <2>5, BucketsAre DEF z
<1>15. /\ b \in RexTables
       /\ b.pool = s.pool /\ b.fund = s.fund /\ b.order = s.order /\ b.queue = s.queue
       /\ b.loans = s.loans /\ b.weight = s.weight /\ b.staked = s.staked /\ b.bal = s.bal
       /\ b.held[a] = grown /\ \A c \in Users \ {a} : b.held[c] = s.held[c]
  BY <1>1, <1>13, WithShareIs
<1>16. OrderCovered(b.order[a], grown)
  <2>1. OrderCovered(t.order[a], t.held[a])
    BY TablesHave DEF RowsGood
  <2>2. t.order[a] # NoRow /\ t.order[a].is_open => t.order[a].requested \in Nat
    BY <1>2, FieldTypes DEF Order
  <2>3. old.matured \in Nat /\ grown.matured \in Nat /\ grown.matured >= old.matured
    BY <1>6, <1>11, <1>12, <1>13, ShareFields
  <2>4. t.held[a] # NoRow => old = t.held[a]
    BY <1>7
  <2>5. QED
    BY <1>13, <1>15, <2>1, <2>2, <2>3, <2>4, NoRowApart DEF OrderCovered
<1>17. QueueAgrees(b)
  BY <1>15, TablesHave DEF QueueAgrees, IsOpen
<1>18. b.pool.rex = RexIn(t.pool) + RexIn(b.held[a]) - RexIn(t.held[a])
  <2>1. RexIn(grown) = all
    BY <1>11, <1>12, <1>13, NoRowApart DEF RexIn
  <2>2. RexIn(t.pool) \in Int
    BY <1>2, NoRowApart DEF RexIn, Pool
  <2>3. b.pool.rex = RexIn(t.pool) + received /\ RexIn(b.held[a]) = RexIn(t.held[a]) + received
        /\ RexIn(t.held[a]) \in Int
    BY <1>4, <1>6, <1>9, <1>15, <2>1
  <2>4. QED
    BY <1>4, <2>2, <2>3
<1>19. RexTablesInv(b)
  <2>1. \A c \in Users \ {a} : b.held[c] = t.held[c] /\ b.order[c] = t.order[c]
    BY <1>15
  <2>2. BucketsAdd(b.held[a]) /\ OrderCovered(b.order[a], b.held[a])
    BY <1>14, <1>15, <1>16
  <2>3. /\ b.pool \in Pool /\ b.pool.lendable = b.pool.lent + b.pool.unlent
        /\ b.pool.lent = (IF t.pool = NoRow THEN 0 ELSE t.pool.lent)
        /\ b.pool.loan_num = (IF t.pool = NoRow THEN 0 ELSE t.pool.loan_num)
        /\ (b.pool.rex = 0 => b.pool.lendable = 0)
        /\ b.loans = t.loans
    BY <1>4, <1>15
  <2>4. QED
    BY <1>15, <1>17, <1>18, <2>1, <2>2, <2>3, AccountStep
<1>20. QED
  BY <1>4, <1>13, <1>15, <1>19, NoRowApart
-----------------------------------------------------------------------------
(* Actions: what they do after the maintenance                             *)

LEMMA RunIs ==
  ASSUME RexInv, pool # NoRow, NEW max
  PROVE  LET t == RunRex(Tables, max)
         IN  /\ RexTablesInv(t) /\ t \in RexTables /\ t.pool \in Pool /\ t.pool # NoRow
             /\ Lawful(Tables, t)
             /\ \A a \in Users : t.held[a] = NoRow <=> held[a] = NoRow
<1> DEFINE s == Tables
           t == RunRex(s, max)
<1>1. RexTablesInv(s) /\ NameBidsHeld(s) /\ s.pool # NoRow /\ s.held = held
  BY InvHas, TablesAre
<1> HIDE DEF s
<1>2. Maintains(s, t)
  BY <1>1, RunRexKeeps
<1> HIDE DEF t
<1>3. RexTablesInv(t) /\ t.pool # NoRow /\ t \in RexTables /\ t.pool \in Pool
  BY <1>2, PoolHas, TablesHave DEF Maintains
<1>4. PriceHolds(s.pool, t.pool)
  BY <1>2 DEF Maintains, NoCheaper, PriceHolds
<1>5. VotesFollow(s, t)
  BY <1>2 DEF Maintains, VotesFollow
<1>6. Lawful(s, t)
  BY <1>1, <1>2, <1>4, <1>5 DEF Maintains, Lawful
<1>7. QED
  BY <1>1, <1>2, <1>3, <1>6 DEF Maintains, s, t

\* What is lawful stays so when no more than rows of accounts change, and votes with them.
LEMMA LawfulThen ==
  ASSUME NEW s, NEW t, Lawful(s, t), NEW u, RexTablesInv(u),
         u.pool = t.pool, u.bal = t.bal, Gap(u) = Gap(t),
         \A w \in Users \X Kinds : OwnWeight(u, w) = OwnWeight(t, w),
         \A a \in Users : u.held[a] # NoRow => t.held[a] # NoRow,
         \A a \in Users : VotesOff(u, a) = VotesOff(t, a)
  PROVE  Lawful(s, u)
<1>1. NameBidsHeld(u) /\ PriceHolds(s.pool, u.pool)
  BY DEF Lawful, NameBidsHeld
<1>2. VotesFollow(s, u)
  BY DEF Lawful, VotesFollow
<1>3. QED
  BY <1>1, <1>2 DEF Lawful

LEMMA SettledIs ==
  ASSUME NEW s, NEW t, Lawful(s, t), t \in RexTables, NEW a \in Users
  PROVE  LET u == UpdateRexAccount(t, a, 0, 0)
         IN  /\ Lawful(s, u) /\ RexTablesInv(u) /\ u \in RexTables
             /\ u.pool = t.pool /\ u.held = t.held
<1> DEFINE u == UpdateRexAccount(t, a, 0, 0)
<1>1. RexTablesInv(t)
  BY DEF Lawful
<1>2. RexTablesInv(u)
  BY <1>1, UpdateRexAccountKeeps
<1>3. /\ u \in RexTables /\ u.pool = t.pool /\ u.held = t.held /\ u.bal = t.bal
      /\ Gap(u) = Gap(t) - 0
      /\ VotesOff(u, a) = VotesOff(t, a) + 0
      /\ \A b \in Users \ {a} : VotesOff(u, b) = VotesOff(t, b)
      /\ \A w \in Users \X Kinds : OwnWeight(u, w) = OwnWeight(t, w)
  BY UpdateRexAccountIs
<1>4. Gap(t) \in Int /\ VotesOff(t, a) \in Int
  BY GapType, VotesOffType
<1> HIDE DEF u
<1>5. Gap(u) = Gap(t) /\ \A b \in Users : VotesOff(u, b) = VotesOff(t, b)
  BY <1>3, <1>4
<1>6. Lawful(s, u)
  BY <1>2, <1>3, <1>5, LawfulThen
<1>7. QED
  BY <1>2, <1>3, <1>6 DEF u

\* A share whose buckets change.
LEMMA ShareStep ==
  ASSUME NEW t, RexTablesInv(t), NEW a \in Users, t.held[a] # NoRow, NEW h \in Share,
         h.rex = t.held[a].rex, BucketsAdd(h), OrderCovered(t.order[a], h)
  PROVE  LET u == WithShare(t, a, h)
         IN  /\ RexTablesInv(u) /\ u \in RexTables
             /\ u.pool = t.pool /\ u.bal = t.bal /\ u.order = t.order /\ u.held[a] = h
             /\ u.staked = t.staked
             /\ \A b \in Users \ {a} : u.held[b] = t.held[b]
             /\ Gap(u) = Gap(t)
             /\ \A w \in Users \X Kinds : OwnWeight(u, w) = OwnWeight(t, w)
             /\ \A b \in Users \ {a} : VotesOff(u, b) = VotesOff(t, b)
<1> DEFINE u == WithShare(t, a, h)
<1>1. t \in RexTables /\ t.pool # NoRow /\ t.held[a] \in Share
  BY TablesHave, ShareHas
<1>2. /\ u \in RexTables
      /\ u.pool = t.pool /\ u.fund = t.fund /\ u.order = t.order /\ u.queue = t.queue
      /\ u.loans = t.loans /\ u.weight = t.weight /\ u.staked = t.staked /\ u.bal = t.bal
      /\ u.held[a] = h /\ \A b \in Users \ {a} : u.held[b] = t.held[b]
  BY <1>1, WithShareIs
<1> HIDE DEF u
<1>3. RexIn(u.held[a]) = RexIn(t.held[a]) /\ RexIn(t.held[a]) \in Int
  BY <1>1, <1>2, NoRowApart DEF RexIn, Share
<1>4. u.pool.rex = RexIn(t.pool) + RexIn(u.held[a]) - RexIn(t.held[a])
  <2>1. RexIn(t.pool) = u.pool.rex /\ u.pool.rex \in Int
    BY <1>1, <1>2, PoolHas DEF RexIn
  <2>2. QED
    BY <1>3, <2>1
<1>5. /\ u.pool \in Pool /\ u.pool.lendable = u.pool.lent + u.pool.unlent
      /\ u.pool.lent = (IF t.pool = NoRow THEN 0 ELSE t.pool.lent)
      /\ u.pool.loan_num = (IF t.pool = NoRow THEN 0 ELSE t.pool.loan_num)
      /\ (u.pool.rex = 0 => u.pool.lendable = 0)
  BY <1>1, <1>2, PoolHas
<1>6. QueueAgrees(u)
  BY <1>2, TablesHave DEF QueueAgrees, IsOpen
<1>7. \A b \in Users \ {a} : u.held[b] = t.held[b] /\ u.order[b] = t.order[b]
  BY <1>2
<1>8. BucketsAdd(u.held[a]) /\ OrderCovered(u.order[a], u.held[a]) /\ u.loans = t.loans
  BY <1>2
<1>9. RexTablesInv(u)
  BY <1>2, <1>4, <1>5, <1>6, <1>7, <1>8, AccountStep
<1>10. Gap(u) = Gap(t)
  BY <1>2, SameGap
<1>11. \A w \in Users \X Kinds : OwnWeight(u, w) = OwnWeight(t, w)
  BY <1>2, SameRents
<1>12. \A b \in Users \ {a} : VotesOff(u, b) = VotesOff(t, b)
  BY <1>2 DEF VotesOff, VoteStake, IsClosed
<1>13. QED
  BY <1>2, <1>9, <1>10, <1>11, <1>12 DEF u

\* Buckets that change, and nothing that votes count.
LEMMA ShareLawful ==
  ASSUME NEW s, NEW t, Lawful(s, t), NEW a \in Users, t.held[a] # NoRow, NEW h \in Share,
         h.rex = t.held[a].rex, h.vote_stake = t.held[a].vote_stake,
         BucketsAdd(h), OrderCovered(t.order[a], h)
  PROVE  Lawful(s, WithShare(t, a, h))
<1> DEFINE u == WithShare(t, a, h)
<1>1. RexTablesInv(t)
  BY DEF Lawful
<1>2. /\ RexTablesInv(u)
      /\ u.pool = t.pool /\ u.bal = t.bal /\ u.order = t.order /\ u.held[a] = h
      /\ u.staked = t.staked
      /\ \A b \in Users \ {a} : u.held[b] = t.held[b]
      /\ Gap(u) = Gap(t)
      /\ \A w \in Users \X Kinds : OwnWeight(u, w) = OwnWeight(t, w)
      /\ \A b \in Users \ {a} : VotesOff(u, b) = VotesOff(t, b)
  BY <1>1, ShareStep
<1> HIDE DEF u
<1>3. VotesOff(u, a) = VotesOff(t, a)
  BY <1>2, NoRowApart DEF VotesOff, VoteStake, IsClosed
<1>4. \A b \in Users : u.held[b] # NoRow => t.held[b] # NoRow
  BY <1>2
<1>5. \A b \in Users : VotesOff(u, b) = VotesOff(t, b)
  BY <1>2, <1>3
<1>6. Lawful(s, u)
  BY <1>2, <1>4, <1>5, LawfulThen
<1>7. QED
  BY <1>6 DEF u

LEMMA RexExecKeeps ==
  ASSUME RexInv, NEW max, RexExec(max)
  PROVE  Follows
  BY RunIs, CommitKeeps DEF RexExec, Follows

\* The REX of an open order are mature.
LEMMA OrderHas ==
  ASSUME NEW t, RexTablesInv(t), NEW a \in Users, t.held[a] # NoRow
  PROVE  /\ InSellOrder(t, a) \in Nat /\ InSellOrder(t, a) <= t.held[a].matured
         /\ \A h \in Share : InSellOrder(t, a) <= h.matured => OrderCovered(t.order[a], h)
<1>1. t.order[a] \in Order \cup {NoRow} /\ OrderCovered(t.order[a], t.held[a])
  BY TablesHave, FieldTypes DEF RowsGood
<1>2. t.held[a].matured \in Nat
  BY ShareHas
<1>3. \A h \in Share : h # NoRow
  BY NoRowApart
<1>4. CASE IsOpen(t, a)
  <2>1. /\ t.order[a] # NoRow /\ t.order[a].is_open /\ t.order[a] \in Order
        /\ InSellOrder(t, a) = t.order[a].requested
    BY <1>1, <1>4 DEF IsOpen, InSellOrder
  <2>2. QED
    BY <1>1, <1>3, <2>1 DEF OrderCovered, Order
<1>5. CASE ~ IsOpen(t, a)
  BY <1>2, <1>5 DEF IsOpen, InSellOrder, OrderCovered
<1>6. QED
  BY <1>4, <1>5

\* Nothing grows.
LEMMA NothingGrows ==
  /\ [d \in Days |-> 0] \in [Days -> Nat]
  /\ SumOver([d \in Days |-> 0], Days) = 0
<1> DEFINE g == [d \in Days |-> 0]
<1>1. g \in [Days -> Nat] /\ \A d \in Days : g[d] \in Nat /\ g[d] = 0
  OBVIOUS
<1> HIDE DEF g
<1>2. SumOver(g, Days) = 0
  BY <1>1, SetsFinite, SumOverNat
<1>3. QED
  BY <1>1, <1>2 DEF g

LEMMA ConsolidateKeeps ==
  ASSUME RexInv, NEW owner \in Users, Consolidate(owner)
  PROVE  Follows
<1> DEFINE run == RunRex(Tables, 2)
           t == UpdateRexAccount(run, owner, 0, 0)
           h == t.held[owner]
           sold == InSellOrder(t, owner)
           all == h.matured - sold + SumOver(h.growing, Days)
           none == [d \in Days |-> 0]
           new == [h EXCEPT !.matured = sold, !.growing = none]
           grown == Grow(new, all)
<1>1. /\ pool # NoRow /\ held[owner] # NoRow /\ Commit(WithShare(t, owner, grown))
      /\ UNCHANGED delband
  BY DEF Consolidate, WithShare
<1>2. /\ Lawful(Tables, run) /\ run \in RexTables /\ run.held[owner] # NoRow
  BY <1>1, RunIs
<1> HIDE DEF run
<1>3. Lawful(Tables, t) /\ RexTablesInv(t) /\ t \in RexTables /\ t.held[owner] # NoRow
  BY <1>2, SettledIs
<1> HIDE DEF t
<1>4. /\ h \in Share /\ h.matured \in Nat /\ h.savings \in Nat /\ SumOver(h.growing, Days) \in Nat
      /\ h.rex = h.matured + SumOver(h.growing, Days) + h.savings
  BY <1>3, ShareHas
<1>5. /\ sold \in Nat /\ sold <= h.matured
      /\ \A k \in Share : sold <= k.matured => OrderCovered(t.order[owner], k)
  BY <1>3, OrderHas
<1>6. h = t.held[owner]
  OBVIOUS
<1> HIDE DEF sold, h
<1>7. all \in Nat /\ all = h.matured - sold + SumOver(h.growing, Days)
  BY <1>4, <1>5
<1>8. none \in [Days -> Nat] /\ SumOver(none, Days) = 0
  BY NothingGrows
<1> HIDE DEF all, none
<1>9. /\ new \in Share /\ new.rex = h.rex /\ new.vote_stake = h.vote_stake
      /\ new.matured = sold /\ new.growing = none /\ new.savings = h.savings
  BY <1>4, <1>5, <1>8 DEF Share
<1> HIDE DEF new
<1>10. /\ grown \in Share /\ grown.rex = h.rex /\ grown.savings = h.savings
       /\ grown.vote_stake = h.vote_stake /\ grown.matured = sold
       /\ SumOver(grown.growing, Days) = 0 + all
  BY <1>7, <1>8, <1>9, GrowIs
<1> HIDE DEF grown
<1>11. BucketsAdd(grown)
  <2>1. grown.rex = grown.matured + SumOver(grown.growing, Days) + grown.savings
    BY <1>4, <1>5, <1>7, <1>10
  <2>2. QED
    BY <1>10, <2>1, BucketsAre
<1>12. OrderCovered(t.order[owner], grown)
  BY <1>5, <1>10
<1>13. Lawful(Tables, WithShare(t, owner, grown))
  BY <1>3, <1>6, <1>10, <1>11, <1>12, ShareLawful
<1>14. QED
  BY <1>1, <1>13, CommitKeeps DEF Follows

LEMMA MvFrSavingsKeeps ==
  ASSUME RexInv, NEW owner \in Users, NEW r \in Int, MvFrSavings(owner, r)
  PROVE  Follows
<1> DEFINE run == RunRex(Tables, 2)
           t == UpdateRexAccount(run, owner, 0, 0)
           h == t.held[owner]
           ripe == ProcessMaturities(h)
           grown == Grow(ripe, r)
           rest == h.savings - r
           new == [grown EXCEPT !.savings = rest]
<1>1. /\ pool # NoRow /\ held[owner] # NoRow /\ r > 0 /\ r <= h.savings
      /\ Commit(WithShare(t, owner, new))
      /\ UNCHANGED delband
  BY DEF MvFrSavings, WithShare
<1>2. /\ Lawful(Tables, run) /\ run \in RexTables /\ run.held[owner] # NoRow
  BY <1>1, RunIs
<1> HIDE DEF run
<1>3. Lawful(Tables, t) /\ RexTablesInv(t) /\ t \in RexTables /\ t.held[owner] # NoRow
  BY <1>2, SettledIs
<1> HIDE DEF t
<1>4. /\ h \in Share /\ h.matured \in Nat /\ h.savings \in Nat /\ SumOver(h.growing, Days) \in Nat
      /\ h.rex = h.matured + SumOver(h.growing, Days) + h.savings
  BY <1>3, ShareHas
<1>5. /\ InSellOrder(t, owner) \in Nat /\ InSellOrder(t, owner) <= h.matured
      /\ \A k \in Share : InSellOrder(t, owner) <= k.matured => OrderCovered(t.order[owner], k)
  BY <1>3, OrderHas
<1>6. h = t.held[owner] /\ rest = h.savings - r /\ r \in Nat /\ rest \in Nat
  BY <1>1, <1>4
<1> HIDE DEF h, rest
<1>7. /\ ripe \in Share /\ ripe.rex = h.rex /\ ripe.savings = h.savings
      /\ ripe.vote_stake = h.vote_stake /\ ripe.matured >= h.matured
      /\ ripe.matured + SumOver(ripe.growing, Days) = h.matured + SumOver(h.growing, Days)
  BY <1>4, ProcessMaturitiesIs
<1> HIDE DEF ripe
<1>8. /\ grown \in Share /\ grown.rex = ripe.rex /\ grown.vote_stake = ripe.vote_stake
      /\ grown.matured = ripe.matured
      /\ SumOver(grown.growing, Days) = SumOver(ripe.growing, Days) + r
  BY <1>6, <1>7, GrowIs
<1> HIDE DEF grown
<1>9. /\ new \in Share /\ new.rex = h.rex /\ new.vote_stake = h.vote_stake
      /\ new.matured = grown.matured /\ new.growing = grown.growing /\ new.savings = rest
  BY <1>6, <1>7, <1>8 DEF Share
<1> HIDE DEF new
<1>10. /\ new.matured \in Nat /\ ripe.matured \in Nat /\ SumOver(ripe.growing, Days) \in Nat
  BY <1>7, <1>9, ShareFields
<1>11. BucketsAdd(new)
  <2>1. new.rex = new.matured + SumOver(new.growing, Days) + new.savings
    BY <1>4, <1>6, <1>7, <1>8, <1>9, <1>10
  <2>2. QED
    BY <1>9, <2>1, BucketsAre
<1>12. OrderCovered(t.order[owner], new)
  <2>1. InSellOrder(t, owner) <= new.matured
    BY <1>4, <1>5, <1>7, <1>8, <1>9, <1>10
  <2>2. QED
    BY <1>5, <1>9, <2>1
<1>13. Lawful(Tables, WithShare(t, owner, new))
  BY <1>3, <1>6, <1>9, <1>11, <1>12, ShareLawful
<1>14. QED
  BY <1>1, <1>13, CommitKeeps DEF Follows
-----------------------------------------------------------------------------
(* Savings                                                                 *)

\* What f has of day k on.
FromDay(f, k) == SumOver([e \in Days |-> IF e >= k THEN f[e] ELSE 0], Days)

LEMMA FromDayIs ==
  ASSUME NEW f \in [Days -> Nat]
  PROVE  /\ \A k \in Nat : FromDay(f, k) \in Nat
         /\ \A k \in Days : FromDay(f, k) = f[k] + FromDay(f, k + 1)
         /\ FromDay(f, Maturity + 1) = 0
         /\ FromDay(f, 0) = SumOver(f, Days)
<1> DEFINE from(k) == [e \in Days |-> IF e >= k THEN f[e] ELSE 0]
<1>0. Days \subseteq Nat /\ Maturity \in Nat
  BY AmountsAssumption DEF Days
<1>1. \A k : \A e \in Days : from(k)[e] = (IF e >= k THEN f[e] ELSE 0)
  OBVIOUS
<1>2. \A k : FromDay(f, k) = SumOver(from(k), Days)
  BY DEF FromDay
<1> HIDE DEF from
<1>3. \A k : \A e \in Days : from(k)[e] \in Nat
  BY <1>1
<1>4. \A k \in Nat : FromDay(f, k) \in Nat
  BY <1>2, <1>3, SetsFinite, SumOverNat
<1>5. ASSUME NEW k \in Days PROVE FromDay(f, k) = f[k] + FromDay(f, k + 1)
  <2> DEFINE g == from(k + 1)
             h == from(k)
  <2>1. \A e \in Days \ {k} : g[e] = h[e]
    BY <1>0, <1>1
  <2>2. g[k] = 0 /\ h[k] = f[k]
    BY <1>0, <1>1
  <2>3. \A e \in Days : g[e] \in Int /\ h[e] \in Int
    BY <1>3
  <2> HIDE DEF g, h
  <2>4. SumOver(h, Days) = SumOver(g, Days) + h[k] - g[k]
    BY <2>1, <2>3, SetsFinite, SumOverChange
  <2>5. SumOver(g, Days) \in Int /\ f[k] \in Int
    BY <2>3, SetsFinite, SumOverType
  <2>6. QED
    BY <1>2, <2>2, <2>4, <2>5 DEF g, h
<1>6. FromDay(f, Maturity + 1) = 0
  <2>1. \A e \in Days : from(Maturity + 1)[e] = 0
    BY <1>0, <1>1 DEF Days
  <2>2. QED
    BY <1>2, <1>3, <2>1, SetsFinite, SumOverNat
<1>7. FromDay(f, 0) = SumOver(f, Days)
  <2>1. \A e \in Days : from(0)[e] = f[e]
    BY <1>0, <1>1
  <2>2. \A e \in Days : f[e] \in Int
    OBVIOUS
  <2>3. SumOver(from(0), Days) = SumOver(f, Days)
    BY <2>1, <2>2, SetsFinite, SumOverAgree
  <2>4. QED
    BY <1>2, <2>3
<1>8. QED
  BY <1>4, <1>5, <1>6, <1>7

\* What savings of r leave growing: all but r of it, if there is that much.
LEMMA LeftGrowingIs ==
  ASSUME NEW h \in Share, NEW r \in Nat
  PROVE  LET g == [d \in Days |-> LeftGrowing(h, r, d)]
         IN  /\ g \in [Days -> Nat]
             /\ SumOver(g, Days) = AtLeastZero(SumOver(h.growing, Days) - r)
<1> DEFINE f == h.growing
           g == [d \in Days |-> LeftGrowing(h, r, d)]
           last == Maturity + 1
           T == {n \in Nat : n <= last =>
                    FromDay(g, last - n) = AtLeastZero(FromDay(f, last - n) - r)}
<1>0. Days \subseteq Nat /\ Days = 0 .. Maturity /\ Maturity \in Nat
  BY AmountsAssumption DEF Days
<1>1. f \in [Days -> Nat] /\ \A d \in Days : f[d] \in Nat
  BY ShareFields
<1>2. \A d \in Days : g[d] = AtLeastZero(f[d] - AtLeastZero(r - FromDay(f, d + 1)))
  <2>1. ASSUME NEW d \in Days
        PROVE  SumOver([e \in Days |-> IF e > d THEN f[e] ELSE 0], Days) = FromDay(f, d + 1)
    <3>1. [e \in Days |-> IF e > d THEN f[e] ELSE 0]
              = [e \in Days |-> IF e >= d + 1 THEN f[e] ELSE 0]
      BY <1>0
    <3>2. QED
      BY <3>1 DEF FromDay
  <2>2. QED
    BY <2>1 DEF LeftGrowing
<1>3. g \in [Days -> Nat]
  <2>1. ASSUME NEW d \in Days PROVE g[d] \in Nat
    <3>1. d + 1 \in Nat /\ f[d] \in Nat
      BY <1>0, <1>1
    <3>2. FromDay(f, d + 1) \in Nat
      BY <1>1, <3>1, FromDayIs
    <3>3. g[d] = AtLeastZero(f[d] - AtLeastZero(r - FromDay(f, d + 1)))
      BY <1>2
    <3> HIDE DEF g
    <3>4. QED
      BY <3>1, <3>2, <3>3 DEF AtLeastZero
  <2>2. g = [d \in Days |-> g[d]]
    OBVIOUS
  <2> HIDE DEF g
  <2>3. QED
    BY <2>1, <2>2
<1> HIDE DEF f, g
<1>4. 0 \in T
  <2>1. FromDay(f, last) = 0 /\ FromDay(g, last) = 0 /\ last - 0 = last
    <3>1. FromDay(f, Maturity + 1) = 0
      BY <1>1, FromDayIs
    <3>2. FromDay(g, Maturity + 1) = 0
      BY <1>3, FromDayIs
    <3>3. QED
      BY <1>0, <3>1, <3>2
  <2>2. FromDay(g, last - 0) = AtLeastZero(FromDay(f, last - 0) - r)
    BY <2>1 DEF AtLeastZero
  <2>3. QED
    BY <2>2
<1>5. ASSUME NEW n \in Nat, n \in T PROVE n + 1 \in T
  <2> SUFFICES ASSUME n + 1 <= last
               PROVE  FromDay(g, last - (n + 1)) = AtLeastZero(FromDay(f, last - (n + 1)) - r)
    OBVIOUS
  <2> DEFINE d == last - (n + 1)
             x == FromDay(f, d + 1)
             y == FromDay(g, d + 1)
  <2>1. d \in Days /\ d + 1 = last - n /\ d + 1 \in Nat
    BY <1>0
  <2>2. x \in Nat /\ y \in Nat
    BY <1>1, <1>3, <2>1, FromDayIs
  <2>3. y = AtLeastZero(x - r)
    BY <1>0, <1>5, <2>1
  <2>4. FromDay(f, d) = f[d] + x /\ FromDay(g, d) = g[d] + y
    BY <1>1, <1>3, <2>1, FromDayIs
  <2>5. g[d] = AtLeastZero(f[d] - AtLeastZero(r - x)) /\ f[d] \in Nat
    BY <1>1, <1>2, <2>1
  <2> HIDE DEF d, x, y
  <2>6. FromDay(g, d) = AtLeastZero(FromDay(f, d) - r)
    BY <2>2, <2>3, <2>4, <2>5 DEF AtLeastZero
  <2>7. QED
    BY <2>6 DEF d
<1>6. T = Nat
  <2> HIDE DEF T
  <2>1. T \in SUBSET Nat
    BY DEF T
  <2>2. QED
    BY <1>4, <1>5, <2>1, SetInduction
<1>7. last \in T /\ last - last = 0
  <2>1. last \in Nat
    BY <1>0
  <2> HIDE DEF last
  <2>2. QED
    BY <1>6, <2>1
<1>8. FromDay(g, 0) = AtLeastZero(FromDay(f, 0) - r)
  BY <1>0, <1>7
<1>9. SumOver(g, Days) = AtLeastZero(SumOver(f, Days) - r)
  BY <1>1, <1>3, <1>8, FromDayIs
<1>10. QED
  BY <1>3, <1>9 DEF f, g

LEMMA SaveIs ==
  ASSUME NEW h \in Share, NEW r \in Nat, r <= h.matured + SumOver(h.growing, Days)
  PROVE  LET u == Save(h, r)
         IN  /\ u \in Share /\ u.rex = h.rex /\ u.vote_stake = h.vote_stake
             /\ u.savings = h.savings + r
             /\ u.matured <= h.matured
             /\ u.matured + SumOver(u.growing, Days) = h.matured + SumOver(h.growing, Days) - r
<1> DEFINE g == [d \in Days |-> LeftGrowing(h, r, d)]
           x == SumOver(h.growing, Days)
           m == h.matured - AtLeastZero(r - x)
           s == h.savings + r
           u == Save(h, r)
<1>1. h.matured \in Nat /\ h.savings \in Nat /\ x \in Nat
  BY ShareFields
<1>2. g \in [Days -> Nat] /\ SumOver(g, Days) = AtLeastZero(x - r)
  BY LeftGrowingIs
<1>3. u = [h EXCEPT !.growing = g, !.matured = m, !.savings = s]
  BY DEF Save
<1> HIDE DEF g
<1>4. s \in Nat /\ s = h.savings + r
  BY <1>1
<1>5. m \in Nat /\ m <= h.matured /\ m + AtLeastZero(x - r) = h.matured + x - r
  BY <1>1 DEF AtLeastZero
<1>6. x = SumOver(h.growing, Days)
  OBVIOUS
<1> HIDE DEF m, s, x, u
<1>7. /\ u \in Share /\ u.rex = h.rex /\ u.vote_stake = h.vote_stake
      /\ u.savings = s /\ u.matured = m /\ u.growing = g
  BY <1>2, <1>3, <1>4, <1>5 DEF Share
<1>8. QED
  BY <1>2, <1>4, <1>5, <1>6, <1>7 DEF u

LEMMA MvToSavingsKeeps ==
  ASSUME RexInv, NEW owner \in Users, NEW r \in Int, MvToSavings(owner, r)
  PROVE  Follows
<1> DEFINE run == RunRex(Tables, 2)
           t == UpdateRexAccount(run, owner, 0, 0)
           h == t.held[owner]
           old == ProcessMaturities(h)
           new == Save(old, r)
           sold == InSellOrder(t, owner)
<1>1. /\ pool # NoRow /\ held[owner] # NoRow /\ r > 0 /\ r + sold + old.savings <= old.rex
      /\ new.matured < old.matured => sold <= new.matured
      /\ Commit(WithShare(t, owner, new))
      /\ UNCHANGED delband
  BY DEF MvToSavings, WithShare
<1>2. /\ Lawful(Tables, run) /\ run \in RexTables /\ run.held[owner] # NoRow
  BY <1>1, RunIs
<1> HIDE DEF run
<1>3. Lawful(Tables, t) /\ RexTablesInv(t) /\ t \in RexTables /\ t.held[owner] # NoRow
  BY <1>2, SettledIs
<1> HIDE DEF t
<1>4. /\ h \in Share /\ h.matured \in Nat /\ h.savings \in Nat /\ SumOver(h.growing, Days) \in Nat
      /\ h.rex = h.matured + SumOver(h.growing, Days) + h.savings
  BY <1>3, ShareHas
<1>5. /\ sold \in Nat /\ sold <= h.matured
      /\ \A k \in Share : sold <= k.matured => OrderCovered(t.order[owner], k)
  BY <1>3, OrderHas
<1>6. h = t.held[owner] /\ r \in Nat
  BY <1>1
<1> HIDE DEF h, sold
<1>7. /\ old \in Share /\ old.rex = h.rex /\ old.savings = h.savings
      /\ old.vote_stake = h.vote_stake /\ old.matured >= h.matured
      /\ old.matured + SumOver(old.growing, Days) = h.matured + SumOver(h.growing, Days)
  BY <1>4, ProcessMaturitiesIs
<1> HIDE DEF old
<1>8. /\ old.matured \in Nat /\ SumOver(old.growing, Days) \in Nat
  BY <1>7, ShareFields
<1>9. r <= old.matured + SumOver(old.growing, Days)
  BY <1>1, <1>4, <1>5, <1>6, <1>7, <1>8
<1>10. /\ new \in Share /\ new.rex = old.rex /\ new.vote_stake = old.vote_stake
       /\ new.savings = old.savings + r
       /\ new.matured <= old.matured
       /\ new.matured + SumOver(new.growing, Days) = old.matured + SumOver(old.growing, Days) - r
  BY <1>6, <1>7, <1>9, SaveIs
<1> HIDE DEF new
<1>11. new.matured \in Nat /\ SumOver(new.growing, Days) \in Nat
  BY <1>10, ShareFields
<1>12. BucketsAdd(new)
  <2>1. new.rex = new.matured + SumOver(new.growing, Days) + new.savings
    BY <1>4, <1>6, <1>7, <1>8, <1>10, <1>11
  <2>2. QED
    BY <1>10, <2>1, BucketsAre
<1>13. OrderCovered(t.order[owner], new)
  <2>1. sold <= new.matured
    BY <1>1, <1>4, <1>5, <1>7, <1>8, <1>10, <1>11
  <2>2. QED
    BY <1>5, <1>10, <2>1
<1>14. Lawful(Tables, WithShare(t, owner, new))
  BY <1>3, <1>6, <1>7, <1>10, <1>12, <1>13, ShareLawful
<1>15. QED
  BY <1>1, <1>14, CommitKeeps DEF Follows
-----------------------------------------------------------------------------
(* Shares that are revalued                                                *)

\* A share that votes count for what it is worth.
LEMMA ShareVotes ==
  ASSUME NEW t \in RexTables, NEW a \in Users, t.held[a] # NoRow, NEW h \in Share, NEW u,
         u.staked = t.staked, u.order = t.order, u.held[a] = h
  PROVE  VotesOff(u, a) = VotesOff(t, a) + (t.held[a].vote_stake - h.vote_stake)
<1> DEFINE x == t.held[a].vote_stake
           y == h.vote_stake
           c == IF IsClosed(t, a) THEN t.order[a].stake_change ELSE 0
<1>1. t.held[a] \in Share /\ t.staked[a] \in Int /\ t.order[a] \in Order \cup {NoRow}
  BY FieldTypes
<1>2. x \in Int /\ y \in Int /\ c \in Int
  BY <1>1 DEF Share, Order, IsClosed
<1>3. VotesOff(t, a) = t.staked[a] - x + c
  BY DEF VotesOff, VoteStake
<1>4. VotesOff(u, a) = t.staked[a] - y + c
  BY NoRowApart DEF VotesOff, VoteStake, IsClosed
<1> HIDE DEF c
<1>5. QED
  BY <1>1, <1>2, <1>3, <1>4

LEMMA RevaluedLawful ==
  ASSUME NEW s, NEW t, Lawful(s, t), NEW a \in Users, t.held[a] # NoRow, NEW h \in Share,
         h.rex = t.held[a].rex, BucketsAdd(h), OrderCovered(t.order[a], h),
         NEW change \in Int, change = h.vote_stake - t.held[a].vote_stake
  PROVE  Lawful(s, UpdateRexAccount(WithShare(t, a, h), a, 0, change))
<1> DEFINE v == WithShare(t, a, h)
           u == UpdateRexAccount(v, a, 0, change)
<1>1. RexTablesInv(t) /\ t \in RexTables
  BY TablesHave DEF Lawful
<1>2. /\ RexTablesInv(v) /\ v \in RexTables
      /\ v.pool = t.pool /\ v.bal = t.bal /\ v.order = t.order /\ v.held[a] = h
      /\ v.staked = t.staked
      /\ \A b \in Users \ {a} : v.held[b] = t.held[b]
      /\ Gap(v) = Gap(t)
      /\ \A w \in Users \X Kinds : OwnWeight(v, w) = OwnWeight(t, w)
      /\ \A b \in Users \ {a} : VotesOff(v, b) = VotesOff(t, b)
  BY <1>1, ShareStep
<1>3. VotesOff(v, a) = VotesOff(t, a) + (t.held[a].vote_stake - h.vote_stake)
  BY <1>1, <1>2, ShareVotes
<1> HIDE DEF v
<1>4. /\ u.pool = v.pool /\ u.held = v.held /\ u.bal = v.bal
      /\ Gap(u) = Gap(v) - 0
      /\ VotesOff(u, a) = VotesOff(v, a) + change
      /\ \A b \in Users \ {a} : VotesOff(u, b) = VotesOff(v, b)
      /\ \A w \in Users \X Kinds : OwnWeight(u, w) = OwnWeight(v, w)
  BY <1>2, UpdateRexAccountIs
<1>5. RexTablesInv(u)
  BY <1>2, UpdateRexAccountKeeps
<1>6. Gap(v) \in Int /\ VotesOff(t, a) \in Int
  BY <1>1, <1>2, GapType, VotesOffType
<1>7. h.vote_stake \in Int /\ t.held[a].vote_stake \in Int
  BY <1>1, ShareHas, ShareFields
<1> HIDE DEF u
<1>8. Gap(u) = Gap(t)
  BY <1>2, <1>4, <1>6
<1>9. \A b \in Users : VotesOff(u, b) = VotesOff(t, b)
  <2>1. VotesOff(u, a) = VotesOff(t, a)
    BY <1>3, <1>4, <1>6, <1>7
  <2>2. QED
    BY <1>2, <1>4, <2>1
<1>10. \A b \in Users : u.held[b] # NoRow => t.held[b] # NoRow
  BY <1>2, <1>4
<1>11. Lawful(s, u)
  BY <1>2, <1>4, <1>5, <1>8, <1>9, <1>10, LawfulThen
<1>12. QED
  BY <1>11 DEF u, v

LEMMA UpdateRexKeeps ==
  ASSUME RexInv, NEW owner \in Users, UpdateRex(owner)
  PROVE  Follows
<1> DEFINE run == RunRex(Tables, 2)
           h == run.held[owner]
           worth == IF run.pool.rex > 0 THEN Worth(run.pool, h.rex) ELSE 0
           k == [h EXCEPT !.vote_stake = worth]
           ripe == ProcessMaturities(k)
           change == worth - h.vote_stake
<1>1. /\ pool # NoRow /\ held[owner] # NoRow
      /\ Commit(UpdateRexAccount(WithShare(run, owner, ripe), owner, 0, change))
      /\ UNCHANGED delband
  BY DEF UpdateRex, WithShare
<1>2. /\ Lawful(Tables, run) /\ RexTablesInv(run) /\ run \in RexTables /\ run.held[owner] # NoRow
      /\ run.pool \in Pool
  BY <1>1, RunIs
<1> HIDE DEF run
<1>3. /\ h \in Share /\ h.matured \in Nat /\ h.rex \in Nat /\ h.vote_stake \in Nat
      /\ h.rex = h.matured + SumOver(h.growing, Days) + h.savings
  BY <1>2, ShareHas
<1>4. /\ InSellOrder(run, owner) \in Nat /\ InSellOrder(run, owner) <= h.matured
      /\ \A j \in Share : InSellOrder(run, owner) <= j.matured => OrderCovered(run.order[owner], j)
  BY <1>2, OrderHas
<1>5. h = run.held[owner]
  OBVIOUS
<1> HIDE DEF h
<1>6. worth \in Nat
  BY <1>2, <1>3, WorthBound
<1>7. change \in Int /\ change = worth - h.vote_stake
  BY <1>3, <1>6
<1> HIDE DEF worth
<1>8. /\ k \in Share /\ k.rex = h.rex /\ k.vote_stake = worth /\ k.matured = h.matured
      /\ k.growing = h.growing /\ k.savings = h.savings
  BY <1>3, <1>6 DEF Share
<1> HIDE DEF k
<1>9. /\ ripe \in Share /\ ripe.rex = k.rex /\ ripe.savings = k.savings
      /\ ripe.vote_stake = k.vote_stake /\ ripe.matured >= k.matured
      /\ ripe.matured + SumOver(ripe.growing, Days) = k.matured + SumOver(k.growing, Days)
  BY <1>8, ProcessMaturitiesIs
<1> HIDE DEF ripe, change
<1>10. BucketsAdd(ripe) /\ ripe.matured \in Nat
  <2>1. /\ ripe.matured \in Nat /\ SumOver(ripe.growing, Days) \in Nat
        /\ SumOver(h.growing, Days) \in Nat /\ h.savings \in Nat
    BY <1>3, <1>9, ShareFields
  <2>2. ripe.rex = ripe.matured + SumOver(ripe.growing, Days) + ripe.savings
    BY <1>3, <1>8, <1>9, <2>1
  <2>3. QED
    BY <1>9, <2>1, <2>2, BucketsAre
<1>11. OrderCovered(run.order[owner], ripe)
  <2>1. InSellOrder(run, owner) <= ripe.matured
    BY <1>3, <1>4, <1>8, <1>9, <1>10
  <2>2. QED
    BY <1>4, <1>9, <2>1
<1>12. change = ripe.vote_stake - run.held[owner].vote_stake /\ ripe.rex = run.held[owner].rex
  BY <1>5, <1>7, <1>8, <1>9
<1>13. Lawful(Tables, UpdateRexAccount(WithShare(run, owner, ripe), owner, 0, change))
  <2>1. run.held[owner] # NoRow /\ ripe \in Share /\ BucketsAdd(ripe) /\ change \in Int
    BY <1>2, <1>7, <1>9, <1>10
  <2>2. QED
    BY <1>2, <1>11, <1>12, <2>1, RevaluedLawful
<1>14. QED
  BY <1>1, <1>13, CommitKeeps DEF Follows

\* A maturity process, of the share of a.
LEMMA RipeIs ==
  ASSUME NEW s, NEW t, Lawful(s, t), NEW a \in Users, t.held[a] # NoRow
  PROVE  LET h == ProcessMaturities(t.held[a])
             u == WithShare(t, a, h)
         IN  /\ Lawful(s, u) /\ RexTablesInv(u) /\ u \in RexTables
             /\ u.held[a] = h /\ h \in Share /\ h # NoRow
             /\ u.pool = t.pool
<1> DEFINE k == t.held[a]
           h == ProcessMaturities(k)
           u == WithShare(t, a, h)
<1>1. RexTablesInv(t) /\ t \in RexTables
  BY TablesHave DEF Lawful
<1>2. /\ k \in Share /\ k.matured \in Nat /\ k.savings \in Nat /\ SumOver(k.growing, Days) \in Nat
      /\ k.rex = k.matured + SumOver(k.growing, Days) + k.savings
  BY <1>1, ShareHas
<1>3. /\ InSellOrder(t, a) \in Nat /\ InSellOrder(t, a) <= k.matured
      /\ \A j \in Share : InSellOrder(t, a) <= j.matured => OrderCovered(t.order[a], j)
  BY <1>1, OrderHas
<1>4. k = t.held[a]
  OBVIOUS
<1> HIDE DEF k
<1>5. /\ h \in Share /\ h.rex = k.rex /\ h.savings = k.savings
      /\ h.vote_stake = k.vote_stake /\ h.matured >= k.matured
      /\ h.matured + SumOver(h.growing, Days) = k.matured + SumOver(k.growing, Days)
  BY <1>2, ProcessMaturitiesIs
<1> HIDE DEF h
<1>6. BucketsAdd(h) /\ h.matured \in Nat
  <2>1. h.matured \in Nat /\ SumOver(h.growing, Days) \in Nat
    BY <1>5, ShareFields
  <2>2. h.rex = h.matured + SumOver(h.growing, Days) + h.savings
    BY <1>2, <1>5, <2>1
  <2>3. QED
    BY <1>5, <2>1, <2>2, BucketsAre
<1>7. OrderCovered(t.order[a], h)
  <2>1. InSellOrder(t, a) <= h.matured
    BY <1>2, <1>3, <1>5, <1>6
  <2>2. QED
    BY <1>3, <1>5, <2>1
<1>8. Lawful(s, u)
  BY <1>4, <1>5, <1>6, <1>7, ShareLawful
<1>9. u \in RexTables /\ u.held[a] = h /\ u.pool = t.pool
  BY <1>1, <1>5, WithShareIs
<1> HIDE DEF u
<1>10. RexTablesInv(u)
  BY <1>8 DEF Lawful
<1>11. QED
  BY <1>5, <1>8, <1>9, <1>10, NoRowApart DEF u, h, k
-----------------------------------------------------------------------------
(* Orders that are made and taken back                                     *)

\* An order that is open, or none, and brought nothing.
LEMMA OrderStep ==
  ASSUME NEW s, NEW t, Lawful(s, t), NEW a \in Users, t.held[a] # NoRow, NEW u \in RexTables,
         u.pool = t.pool, u.fund = t.fund, u.held = t.held, u.loans = t.loans,
         u.weight = t.weight, u.staked = t.staked, u.bal = t.bal,
         \A b \in Users \ {a} : u.order[b] = t.order[b],
         ~ IsClosed(t, a), ~ IsClosed(u, a),
         OrderCovered(u.order[a], t.held[a]), QueueAgrees(u)
  PROVE  Lawful(s, u)
<1>1. RexTablesInv(t) /\ t \in RexTables /\ t.pool # NoRow
  BY TablesHave, ShareHas DEF Lawful
<1>2. RexTablesInv(u)
  <2>1. \A b \in Users \ {a} : u.held[b] = t.held[b] /\ u.order[b] = t.order[b]
    OBVIOUS
  <2>2. BucketsAdd(u.held[a]) /\ OrderCovered(u.order[a], u.held[a])
    BY <1>1, TablesHave DEF RowsGood
  <2>3. u.pool.rex = RexIn(t.pool) + RexIn(u.held[a]) - RexIn(t.held[a])
    <3>1. RexIn(t.pool) = u.pool.rex /\ u.pool.rex \in Int
      BY <1>1, PoolHas DEF RexIn
    <3>2. RexIn(t.held[a]) \in Int /\ u.held[a] = t.held[a]
      BY <1>1, FieldTypes, RowValues
    <3>3. QED
      BY <3>1, <3>2
  <2>4. /\ u.pool \in Pool /\ u.pool.lendable = u.pool.lent + u.pool.unlent
        /\ u.pool.lent = (IF t.pool = NoRow THEN 0 ELSE t.pool.lent)
        /\ u.pool.loan_num = (IF t.pool = NoRow THEN 0 ELSE t.pool.loan_num)
        /\ (u.pool.rex = 0 => u.pool.lendable = 0)
    BY <1>1, PoolHas
  <2>5. QED
    BY <1>1, <2>1, <2>2, <2>3, <2>4, AccountStep
<1>3. ProceedsIn(u.order[a]) = 0 /\ ProceedsIn(t.order[a]) = 0
  <2>1. OrderCovered(t.order[a], t.held[a])
    BY <1>1, TablesHave DEF RowsGood
  <2>2. t.order[a] \in Order \cup {NoRow} /\ u.order[a] \in Order \cup {NoRow}
    BY <1>1, FieldTypes
  <2>3. QED
    BY <2>1, <2>2 DEF IsClosed, OrderCovered, ProceedsIn, Order
<1>4. Gap(u) = Gap(t)
  <2>1. t.fund[a] \in Int /\ u.fund = [t.fund EXCEPT ![a] = t.fund[a]]
    BY <1>1, FieldTypes
  <2>2. Gap(u) = Gap(t) - ((PoolTokens(u.pool) - PoolTokens(t.pool)) + (t.fund[a] - t.fund[a])
                            + (ProceedsIn(u.order[a]) - ProceedsIn(t.order[a])))
    BY <1>1, <2>1, AccountGap
  <2>3. PoolTokens(t.pool) \in Int /\ Gap(t) \in Int
    BY <1>1, SumTypes, GapType
  <2>4. QED
    BY <1>3, <2>1, <2>2, <2>3
<1>5. \A b \in Users : VotesOff(u, b) = VotesOff(t, b)
  BY DEF VotesOff, VoteStake, IsClosed
<1>6. \A w \in Users \X Kinds : OwnWeight(u, w) = OwnWeight(t, w)
  BY SameRents
<1>7. QED
  BY <1>2, <1>4, <1>5, <1>6, LawfulThen

\* The tables with another order of a, and another queue.
WithOrder(t, a, o, q) == [t EXCEPT !.order = [t.order EXCEPT ![a] = o], !.queue = q]

LEMMA WithOrderIs ==
  ASSUME NEW t \in RexTables, NEW a \in Users, NEW o \in Order \cup {NoRow}, NEW q \in Seq(Users)
  PROVE  LET u == WithOrder(t, a, o, q)
         IN  /\ u \in RexTables
             /\ u.pool = t.pool /\ u.fund = t.fund /\ u.held = t.held /\ u.loans = t.loans
             /\ u.weight = t.weight /\ u.staked = t.staked /\ u.bal = t.bal
             /\ u.order[a] = o /\ u.queue = q
             /\ \A b \in Users \ {a} : u.order[b] = t.order[b]
<1> DEFINE O == [t.order EXCEPT ![a] = o]
           u == WithOrder(t, a, o, q)
<1>1. t.order \in [Users -> Order \cup {NoRow}]
  BY FieldTypes
<1>2. /\ O \in [Users -> Order \cup {NoRow}]
      /\ O[a] = o /\ \A b \in Users \ {a} : O[b] = t.order[b]
  BY <1>1
<1>3. u = [t EXCEPT !.order = O, !.queue = q]
  BY DEF WithOrder
<1> HIDE DEF O, u
<1>4. /\ u \in RexTables /\ u.order = O /\ u.queue = q
      /\ u.pool = t.pool /\ u.fund = t.fund /\ u.held = t.held /\ u.loans = t.loans
      /\ u.weight = t.weight /\ u.staked = t.staked /\ u.bal = t.bal
  BY <1>2, <1>3 DEF RexTables
<1>5. QED
  BY <1>2, <1>4 DEF u

LEMMA CancelRexOrderKeeps ==
  ASSUME RexInv, NEW owner \in Users, CancelRexOrder(owner)
  PROVE  Follows
<1> DEFINE t == Tables
           q == Dequeue(t.queue, owner)
           u == WithOrder(t, owner, NoRow, q)
<1>1. IsOpen(t, owner) /\ Commit(u) /\ UNCHANGED delband
  BY TablesAre DEF CancelRexOrder, WithOrder
<1>2. RexTablesInv(t) /\ t \in RexTables /\ NameBidsHeld(t) /\ QueueAgrees(t)
  BY InvHas, TablesHave
<1>3. t = Tables
  OBVIOUS
<1> HIDE DEF t
<1>4. t.held[owner] # NoRow /\ ~ IsClosed(t, owner)
  BY <1>1, <1>2, TablesHave DEF IsOpen, IsClosed, RowsGood, OrderCovered
<1>5. Lawful(t, t)
  <2>1. PriceHolds(t.pool, t.pool)
    BY <1>2, SamePrice
  <2>2. QED
    BY <1>2, <2>1 DEF Lawful, VotesFollow
<1>6. q \in Seq(Users)
  <2>1. PICK k \in DOMAIN t.queue : t.queue[k] = owner
    BY <1>1, <1>2 DEF QueueAgrees
  <2>2. t.queue \in Seq(Users) /\ \A i, j \in DOMAIN t.queue : t.queue[i] = t.queue[j] => i = j
    BY <1>2, FieldTypes DEF QueueAgrees
  <2>3. QED
    BY <2>1, <2>2, DequeueIs
<1>7. q = Dequeue(t.queue, owner)
  OBVIOUS
<1> HIDE DEF q
<1>8. /\ u \in RexTables
      /\ u.pool = t.pool /\ u.fund = t.fund /\ u.held = t.held /\ u.loans = t.loans
      /\ u.weight = t.weight /\ u.staked = t.staked /\ u.bal = t.bal
      /\ u.order[owner] = NoRow /\ u.queue = q
      /\ \A b \in Users \ {owner} : u.order[b] = t.order[b]
  <2>1. t \in RexTables /\ NoRow \in Order \cup {NoRow} /\ q \in Seq(Users)
    BY <1>2, <1>6
  <2>2. QED
    BY <2>1, WithOrderIs
<1> HIDE DEF u
<1>9. ~ IsOpen(u, owner) /\ ~ IsClosed(u, owner)
  BY <1>8 DEF IsOpen, IsClosed
<1>10. QueueAgrees(u)
  BY <1>1, <1>2, <1>7, <1>8, <1>9, QueueLeaves
<1>11. OrderCovered(u.order[owner], t.held[owner])
  BY <1>8 DEF OrderCovered
<1>12. Lawful(t, u)
  BY <1>4, <1>5, <1>8, <1>9, <1>10, <1>11, OrderStep
<1>13. QED
  BY <1>1, <1>3, <1>12, CommitKeeps DEF Follows, u

\* An order that waits, or that asks for more.
LEMMA EnqueueKeeps ==
  ASSUME NEW s, NEW t, Lawful(s, t), NEW a \in Users, t.held[a] # NoRow, ~ IsClosed(t, a),
         NEW r \in Nat \ {0}, InSellOrder(Enqueue(t, a, r), a) <= t.held[a].matured
  PROVE  Lawful(s, Enqueue(t, a, r))
<1>1. RexTablesInv(t) /\ t \in RexTables /\ QueueAgrees(t) /\ t.queue \in Seq(Users)
      /\ t.order[a] \in Order \cup {NoRow}
  BY TablesHave, FieldTypes DEF Lawful
<1>2. CASE t.order[a] = NoRow
  <2> DEFINE o == [requested |-> r, proceeds |-> 0, stake_change |-> 0, is_open |-> TRUE]
             q == Append(t.queue, a)
             u == WithOrder(t, a, o, q)
  <2>1. Enqueue(t, a, r) = u
    BY <1>2 DEF Enqueue, WithOrder
  <2>2. o \in Order /\ o.requested = r /\ o.proceeds = 0 /\ o.stake_change = 0 /\ o.is_open
    BY DEF Order
  <2>3. q \in Seq(Users) /\ q = Append(t.queue, a)
    BY <1>1
  <2> HIDE DEF o, q
  <2>4. /\ u \in RexTables
        /\ u.pool = t.pool /\ u.fund = t.fund /\ u.held = t.held /\ u.loans = t.loans
        /\ u.weight = t.weight /\ u.staked = t.staked /\ u.bal = t.bal
        /\ u.order[a] = o /\ u.queue = q
        /\ \A b \in Users \ {a} : u.order[b] = t.order[b]
    <3>1. t \in RexTables /\ o \in Order \cup {NoRow} /\ q \in Seq(Users)
      BY <1>1, <2>2, <2>3
    <3>2. QED
      BY <3>1, WithOrderIs
  <2> HIDE DEF u
  <2>5. IsOpen(u, a) /\ ~ IsClosed(u, a) /\ InSellOrder(u, a) = r
    BY <2>2, <2>4, NoRowApart DEF IsOpen, IsClosed, InSellOrder
  <2>6. OrderCovered(u.order[a], t.held[a])
    BY <2>1, <2>2, <2>4, <2>5 DEF OrderCovered
  <2>7. QueueAgrees(u)
    <3> DEFINE n == Len(t.queue)
    <3>1. n \in Nat /\ DOMAIN t.queue = 1 .. n /\ DOMAIN q = 1 .. n + 1 /\ q[n + 1] = a
          /\ \A i \in 1 .. n : q[i] = t.queue[i] /\ t.queue[i] \in Users
      BY <1>1, <2>3
    <3> HIDE DEF n
    <3>2. \A i \in 1 .. n : t.queue[i] # a
      BY <1>1, <1>2, <3>1 DEF QueueAgrees, IsOpen
    <3>3. \A b \in Users \ {a} : IsOpen(u, b) <=> IsOpen(t, b)
      BY <2>4 DEF IsOpen
    <3>4. \A i \in DOMAIN u.queue : IsOpen(u, u.queue[i])
      <4> SUFFICES ASSUME NEW i \in 1 .. n + 1 PROVE IsOpen(u, q[i])
        BY <2>4, <3>1
      <4>1. CASE i = n + 1
        BY <2>5, <3>1, <4>1
      <4>2. CASE i # n + 1
        <5>1. i \in 1 .. n
          BY <3>1, <4>2
        <5>2. IsOpen(t, t.queue[i]) /\ q[i] = t.queue[i] /\ q[i] \in Users \ {a}
          BY <1>1, <3>1, <3>2, <5>1 DEF QueueAgrees
        <5>3. QED
          BY <3>3, <5>2
      <4>3. QED
        BY <4>1, <4>2
    <3>5. \A b \in Users : IsOpen(u, b) => \E i \in DOMAIN u.queue : u.queue[i] = b
      <4> SUFFICES ASSUME NEW b \in Users, IsOpen(u, b) PROVE \E i \in 1 .. n + 1 : q[i] = b
        BY <2>4, <3>1
      <4>1. CASE b = a
        <5>1. n + 1 \in 1 .. n + 1 /\ q[n + 1] = b
          BY <3>1, <4>1
        <5>2. QED
          BY <5>1
      <4>2. CASE b # a
        <5>1. IsOpen(t, b)
          BY <3>3, <4>2
        <5>2. PICK i \in 1 .. n : t.queue[i] = b
          BY <1>1, <3>1, <5>1 DEF QueueAgrees
        <5>3. i \in 1 .. n + 1 /\ q[i] = b
          BY <3>1, <5>2
        <5>4. QED
          BY <5>3
      <4>3. QED
        BY <4>1, <4>2
    <3>6. \A i, j \in DOMAIN u.queue : u.queue[i] = u.queue[j] => i = j
      <4> SUFFICES ASSUME NEW i \in 1 .. n + 1, NEW j \in 1 .. n + 1, q[i] = q[j] PROVE i = j
        BY <2>4, <3>1
      <4>1. \A k \in 1 .. n + 1 : k # n + 1 => k \in 1 .. n
        BY <3>1
      <4>2. CASE i = n + 1 \/ j = n + 1
        BY <3>1, <3>2, <4>1, <4>2
      <4>3. CASE i # n + 1 /\ j # n + 1
        <5>1. i \in 1 .. n /\ j \in 1 .. n
          BY <4>1, <4>3
        <5>2. t.queue[i] = t.queue[j]
          BY <3>1, <5>1
        <5>3. QED
          BY <1>1, <3>1, <5>1, <5>2 DEF QueueAgrees
      <4>4. QED
        BY <4>2, <4>3
    <3>7. QED
      BY <3>4, <3>5, <3>6 DEF QueueAgrees
  <2>8. Lawful(s, u)
    BY <2>4, <2>5, <2>6, <2>7, OrderStep
  <2>9. QED
    BY <2>1, <2>8
<1>3. CASE t.order[a] # NoRow
  <2> DEFINE more == t.order[a].requested + r
             o == [t.order[a] EXCEPT !.requested = more]
             u == WithOrder(t, a, o, t.queue)
  <2>1. t.order[a] \in Order /\ t.order[a].is_open
    BY <1>1, <1>3 DEF IsClosed, Order
  <2>2. Enqueue(t, a, r) = u
    <3>1. Enqueue(t, a, r) = [t EXCEPT !.order = [t.order EXCEPT ![a] = o]]
      BY <1>3 DEF Enqueue
    <3> HIDE DEF o
    <3>2. t.order \in [Users -> Order \cup {NoRow}]
      BY <1>1, FieldTypes
    <3> DEFINE O == [t.order EXCEPT ![a] = o]
    <3>3. Enqueue(t, a, r) = [t EXCEPT !.order = O]
      BY <3>1
    <3>4. u = [t EXCEPT !.order = O, !.queue = t.queue]
      BY DEF WithOrder
    <3> HIDE DEF O, u
    <3>5. [t EXCEPT !.order = O] = [t EXCEPT !.order = O, !.queue = t.queue]
      BY <1>1 DEF RexTables
    <3>6. QED
      BY <3>3, <3>4, <3>5
  <2>3. more \in Nat /\ more = t.order[a].requested + r /\ t.order[a].requested \in Nat
    BY <2>1 DEF Order
  <2> HIDE DEF more
  <2>4. /\ o \in Order /\ o.requested = more /\ o.proceeds = t.order[a].proceeds
        /\ o.stake_change = t.order[a].stake_change /\ o.is_open = t.order[a].is_open
    BY <2>1, <2>3 DEF Order
  <2> HIDE DEF o
  <2>5. /\ u \in RexTables
        /\ u.pool = t.pool /\ u.fund = t.fund /\ u.held = t.held /\ u.loans = t.loans
        /\ u.weight = t.weight /\ u.staked = t.staked /\ u.bal = t.bal
        /\ u.order[a] = o /\ u.queue = t.queue
        /\ \A b \in Users \ {a} : u.order[b] = t.order[b]
    BY <1>1, <2>4, WithOrderIs
  <2> HIDE DEF u
  <2>6. IsOpen(u, a) /\ IsOpen(t, a) /\ ~ IsClosed(u, a) /\ InSellOrder(u, a) = more
    BY <1>3, <2>1, <2>4, <2>5, NoRowApart DEF IsOpen, IsClosed, InSellOrder
  <2>7. OrderCovered(u.order[a], t.held[a])
    <3>1. OrderCovered(t.order[a], t.held[a])
      BY <1>1, TablesHave DEF RowsGood
    <3>2. QED
      BY <1>3, <2>1, <2>2, <2>3, <2>4, <2>5, <2>6, <3>1 DEF OrderCovered
  <2>8. QueueAgrees(u)
    <3>1. \A b \in Users : IsOpen(u, b) <=> IsOpen(t, b)
      BY <2>5, <2>6 DEF IsOpen
    <3>2. \A i \in DOMAIN t.queue : t.queue[i] \in Users
      BY <1>1
    <3>3. QED
      BY <1>1, <2>5, <3>1, <3>2 DEF QueueAgrees
  <2>9. Lawful(s, u)
    BY <2>5, <2>6, <2>7, <2>8, OrderStep
  <2>10. QED
    BY <2>2, <2>9
<1>4. QED
  BY <1>2, <1>3

LEMMA PriceThen ==
  ASSUME NEW p \in Pool \cup {NoRow}, NEW q \in Pool, NEW r \in Pool,
         PriceHolds(p, q), NoCheaper(q, r)
  PROVE  PriceHolds(p, r)
<1> SUFFICES ASSUME p # NoRow, p.rex > 0, r.rex > 0
             PROVE  r.lendable * p.rex >= p.lendable * r.rex
  BY DEF PriceHolds
<1>1. p \in Pool /\ q.rex > 0
  BY DEF NoCheaper
<1>2. NoCheaper(p, q)
  BY <1>1 DEF NoCheaper, PriceHolds
<1>3. NoCheaper(p, r)
  BY <1>1, <1>2, NoCheaperTransitive
<1>4. QED
  BY <1>3 DEF NoCheaper

\* An order of a for r REX can be filled, and changes its vote stake by change.
Fillable(t, a, r, change) ==
    /\ r <= t.held[a].matured
    /\ CanFill(t.pool, r)
    /\ change = VoteStakeSold(t, a, r) - t.held[a].vote_stake

\* What a still asks for is there.
StillCovered(u, a) == InSellOrder(u, a) <= u.held[a].matured

\* An order of a that is filled at once, from the tables t.
LEMMA SoldLawful ==
  ASSUME NEW s, s.pool \in Pool \cup {NoRow}, NEW t, Lawful(s, t), NEW a \in Users,
         t.held[a] # NoRow,
         NEW r \in Nat \ {0}, NEW change, Fillable(t, a, r, change),
         NEW u, u = UpdateRexAccount(FillRexOrder(t, a, r), a, Worth(t.pool, r), change),
         StillCovered(u, a)
  PROVE  Lawful(s, u)
<1> DEFINE w == Worth(t.pool, r)
           f == FillRexOrder(t, a, r)
<1>1. RexTablesInv(t) /\ t \in RexTables /\ t.pool # NoRow /\ t.pool \in Pool
  BY TablesHave, ShareHas, PoolHas DEF Lawful
<1>2. /\ t.held[a] \in Share /\ t.held[a].rex \in Nat /\ t.held[a].vote_stake \in Nat
      /\ t.held[a].rex <= t.pool.rex
  BY <1>1, ShareHas
<1>3. /\ f \in RexTables
      /\ f.pool = TakeFromRexPool(t.pool, r)
      /\ f.fund = t.fund /\ f.order = t.order /\ f.queue = t.queue /\ f.loans = t.loans
      /\ f.weight = t.weight /\ f.staked = t.staked /\ f.bal = t.bal
      /\ \A b \in Users \ {a} : f.held[b] = t.held[b]
      /\ f.held[a] \in Share /\ f.held[a] # NoRow /\ BucketsAdd(f.held[a])
      /\ f.held[a].rex = t.held[a].rex - r
      /\ f.held[a].matured = t.held[a].matured - r
      /\ f.held[a].vote_stake = VoteStakeSold(t, a, r)
      /\ w \in Nat /\ VoteStakeSold(t, a, r) \in Nat
      /\ r <= t.pool.rex
  <2>1. r <= t.held[a].matured /\ CanFill(t.pool, r)
    BY DEF Fillable
  <2>2. QED
    BY <1>1, <2>1, FillRexOrderIs
<1> HIDE DEF f, w
<1>4. change \in Int /\ change = VoteStakeSold(t, a, r) - t.held[a].vote_stake
  BY <1>2, <1>3 DEF Fillable
<1> DEFINE p == TakeFromRexPool(t.pool, r)
<1>5. /\ p \in Pool /\ p.rex = t.pool.rex - r /\ p.lendable = p.lent + p.unlent
      /\ p.lent = t.pool.lent /\ p.namebid = t.pool.namebid /\ p.loan_num = t.pool.loan_num
      /\ p.rex = 0 => p.lendable = 0
      /\ PoolTokens(p) = PoolTokens(t.pool) - w
      /\ NoCheaper(t.pool, p)
  BY <1>1, <1>3, TakeFromRexPoolIs DEF w, Fillable
<1>6. f.pool = p
  BY <1>3
<1> HIDE DEF p
<1>7. u = UpdateRexAccount(f, a, w, change)
  BY DEF f, w
<1>8. /\ u \in RexTables
      /\ u.pool = f.pool /\ u.held = f.held /\ u.bal = f.bal
      /\ \A b \in Users : IsOpen(u, b) <=> IsOpen(f, b)
      /\ u.order[a] = IF IsClosed(f, a) THEN NoRow ELSE f.order[a]
      /\ VotesOff(u, a) = VotesOff(f, a) + change
      /\ \A b \in Users \ {a} : VotesOff(u, b) = VotesOff(f, b)
      /\ \A v \in Users \X Kinds : OwnWeight(u, v) = OwnWeight(f, v)
  <2>1. f \in RexTables /\ w \in Nat /\ change \in Int
    BY <1>3, <1>4
  <2>2. LET v == UpdateRexAccount(f, a, w, change)
        IN  /\ v \in RexTables
            /\ v.pool = f.pool /\ v.held = f.held /\ v.bal = f.bal
            /\ v.order[a] = IF IsClosed(f, a) THEN NoRow ELSE f.order[a]
            /\ \A b \in Users : IsOpen(v, b) <=> IsOpen(f, b)
            /\ VotesOff(v, a) = VotesOff(f, a) + change
            /\ \A b \in Users \ {a} : VotesOff(v, b) = VotesOff(f, b)
            /\ \A z \in Users \X Kinds : OwnWeight(v, z) = OwnWeight(f, z)
    BY <2>1, UpdateRexAccountIs
  <2>3. QED
    BY <1>7, <2>2
<1>9. OrderCovered(f.order[a], f.held[a])
  <2>1. OrderCovered(t.order[a], t.held[a])
    BY <1>1, TablesHave DEF RowsGood
  <2>2. ASSUME f.order[a] # NoRow, f.order[a].is_open
        PROVE  f.order[a].requested <= f.held[a].matured
    <3>1. IsOpen(f, a) /\ ~ IsClosed(f, a)
      BY <2>2 DEF IsOpen, IsClosed
    <3>2. InSellOrder(u, a) = f.order[a].requested
      BY <1>8, <3>1 DEF InSellOrder
    <3>3. QED
      BY <1>8, <3>2 DEF StillCovered
  <2>3. QED
    BY <1>3, <2>1, <2>2 DEF OrderCovered
<1>10. RexTablesInv(f)
  <2>1. \A b \in Users \ {a} : f.held[b] = t.held[b] /\ f.order[b] = t.order[b]
    BY <1>3
  <2>2. QueueAgrees(f)
    BY <1>1, <1>3, TablesHave DEF QueueAgrees, IsOpen
  <2>3. f.pool.rex = RexIn(t.pool) + RexIn(f.held[a]) - RexIn(t.held[a])
    <3>1. RexIn(t.pool) = t.pool.rex /\ t.pool.rex \in Nat
      BY <1>1, PoolHas DEF RexIn
    <3>2. RexIn(t.held[a]) = t.held[a].rex /\ RexIn(f.held[a]) = t.held[a].rex - r
      BY <1>3 DEF RexIn
    <3>3. QED
      BY <1>2, <1>5, <1>6, <3>1, <3>2
  <2>4. /\ f.pool \in Pool /\ f.pool.lendable = f.pool.lent + f.pool.unlent
        /\ f.pool.lent = (IF t.pool = NoRow THEN 0 ELSE t.pool.lent)
        /\ f.pool.loan_num = (IF t.pool = NoRow THEN 0 ELSE t.pool.loan_num)
        /\ (f.pool.rex = 0 => f.pool.lendable = 0)
    BY <1>1, <1>5, <1>6
  <2>5. BucketsAdd(f.held[a]) /\ f.loans = t.loans
    BY <1>3
  <2>6. QED
    BY <1>1, <1>3, <1>9, <2>1, <2>2, <2>3, <2>4, <2>5, AccountStep
<1>11. RexTablesInv(u)
  <2>1. w \in Nat /\ change \in Int
    BY <1>3, <1>4
  <2>2. QED
    BY <1>7, <1>10, <2>1, UpdateRexAccountKeeps
<1>12. Gap(u) = Gap(t)
  <2>1. Gap(u) = Gap(f) - w
    <3>1. f \in RexTables /\ w \in Nat /\ change \in Int
      BY <1>3, <1>4
    <3>2. QED
      BY <1>7, <3>1, UpdateRexAccountIs
  <2>2. t.fund[a] \in Int /\ f.fund = [t.fund EXCEPT ![a] = t.fund[a]]
    BY <1>1, <1>3, FieldTypes
  <2>3. Gap(f) = Gap(t) - ((PoolTokens(f.pool) - PoolTokens(t.pool)) + (t.fund[a] - t.fund[a])
                            + (ProceedsIn(f.order[a]) - ProceedsIn(t.order[a])))
    BY <1>1, <1>3, <2>2, AccountGap
  <2>4. PoolTokens(t.pool) \in Int /\ Gap(t) \in Int
    BY <1>1, SumTypes, GapType
  <2>5. ProceedsIn(f.order[a]) = ProceedsIn(t.order[a]) /\ ProceedsIn(t.order[a]) \in Int
    BY <1>1, <1>3, FieldTypes, RowValues
  <2>6. QED
    BY <1>3, <1>5, <1>6, <2>1, <2>2, <2>3, <2>4, <2>5
<1>13. \A b \in Users : VotesOff(u, b) = VotesOff(t, b)
  <2>1. VotesOff(f, a) = VotesOff(t, a) + (t.held[a].vote_stake - f.held[a].vote_stake)
    BY <1>1, <1>3, ShareVotes
  <2>2. VotesOff(t, a) \in Int
    BY <1>1, VotesOffType
  <2>3. VotesOff(u, a) = VotesOff(t, a)
    BY <1>2, <1>3, <1>4, <1>8, <2>1, <2>2
  <2>4. \A b \in Users \ {a} : VotesOff(f, b) = VotesOff(t, b)
    BY <1>3 DEF VotesOff, VoteStake, IsClosed
  <2>5. QED
    BY <1>8, <2>3, <2>4
<1>14. PriceHolds(s.pool, u.pool)
  <2>1. u.pool = p /\ PriceHolds(s.pool, t.pool)
    BY <1>6, <1>8 DEF Lawful
  <2>2. QED
    BY <1>1, <1>5, <2>1, PriceThen
<1>15. NameBidsHeld(u)
  BY <1>1, <1>3, <1>5, <1>6, <1>8 DEF NameBidsHeld, Lawful
<1>16. VotesFollow(s, u)
  BY <1>3, <1>8, <1>13 DEF VotesFollow, Lawful
<1>17. \A v \in Users \X Kinds : OwnWeight(u, v) = OwnWeight(s, v)
  <2>1. \A v \in Users \X Kinds : OwnWeight(f, v) = OwnWeight(t, v)
    BY <1>3, SameRents
  <2>2. QED
    BY <1>8, <2>1 DEF Lawful
<1>18. Gap(u) = Gap(s)
  BY <1>12 DEF Lawful
<1>19. QED
  BY <1>11, <1>14, <1>15, <1>16, <1>17, <1>18 DEF Lawful

LEMMA SellRexKeeps ==
  ASSUME RexInv, NEW from \in Users, NEW r \in Int, SellRex(from, r)
  PROVE  Follows
<1> DEFINE run == RunRex(Tables, 2)
           ripe == WithShare(run, from, ProcessMaturities(run.held[from]))
           change == VoteStakeSold(ripe, from, r) - ripe.held[from].vote_stake
           sold == UpdateRexAccount(FillRexOrder(ripe, from, r), from, Worth(ripe.pool, r), change)
           settled == UpdateRexAccount(ripe, from, 0, 0)
           queued == Enqueue(settled, from, r)
           next == IF CanFill(ripe.pool, r) THEN sold ELSE queued
<1>1. /\ pool # NoRow /\ held[from] # NoRow /\ r > 0 /\ r <= ripe.held[from].matured
      /\ InSellOrder(next, from) <= next.held[from].matured
      /\ Commit(next)
      /\ UNCHANGED delband
  BY DEF SellRex, WithShare
<1>2. /\ Lawful(Tables, run) /\ run.held[from] # NoRow
  BY <1>1, RunIs
<1> HIDE DEF run
<1>3. /\ Lawful(Tables, ripe) /\ RexTablesInv(ripe) /\ ripe \in RexTables
      /\ ripe.held[from] # NoRow
  <2>1. LET h == ProcessMaturities(run.held[from])
            v == WithShare(run, from, h)
        IN  /\ Lawful(Tables, v) /\ RexTablesInv(v) /\ v \in RexTables
            /\ v.held[from] = h /\ h \in Share /\ h # NoRow
            /\ v.pool = run.pool
    BY <1>2, RipeIs
  <2>2. QED
    BY <2>1
<1>4. r \in Nat \ {0}
  BY <1>1
<1> HIDE DEF ripe, change
<1>5. CASE CanFill(ripe.pool, r)
  <2>1. next = sold
    BY <1>5
  <2>2. Tables.pool \in Pool \cup {NoRow}
    BY InvHas, FieldTypes
  <2>3. Lawful(Tables, sold)
    <3>1. Fillable(ripe, from, r, change)
      BY <1>1, <1>5 DEF Fillable, change
    <3>2. StillCovered(sold, from)
      BY <1>1, <2>1 DEF StillCovered
    <3> HIDE DEF next, queued, settled
    <3>3. QED
      BY <1>3, <1>4, <2>2, <3>1, <3>2, SoldLawful
  <2> HIDE DEF sold
  <2>4. QED
    BY <1>1, <2>1, <2>3, CommitKeeps DEF Follows
<1>6. CASE ~ CanFill(ripe.pool, r)
  <2>1. next = queued
    BY <1>6
  <2>2. Lawful(Tables, settled) /\ settled.held[from] # NoRow
    BY <1>3, SettledIs
  <2>3. ~ IsClosed(settled, from) /\ queued.held = settled.held
    <3>1. settled.order[from] = IF IsClosed(ripe, from) THEN NoRow ELSE ripe.order[from]
      BY <1>3, UpdateRexAccountIs
    <3>2. ~ IsClosed(settled, from)
      BY <3>1 DEF IsClosed
    <3> HIDE DEF settled
    <3>3. settled \in RexTables
      BY <2>2, TablesHave DEF Lawful
    <3>4. queued.held = settled.held
      BY <3>3 DEF Enqueue, RexTables
    <3>5. QED
      BY <3>2, <3>4
  <2>4. InSellOrder(queued, from) <= settled.held[from].matured
    BY <1>1, <2>1, <2>3
  <2> HIDE DEF settled, next, sold
  <2>5. Lawful(Tables, queued)
    BY <1>4, <2>2, <2>3, <2>4, EnqueueKeeps
  <2> HIDE DEF queued
  <2>6. QED
    BY <1>1, <2>1, <2>5, CommitKeeps DEF Follows
<1>7. QED
  BY <1>5, <1>6
-----------------------------------------------------------------------------
(* The rest of the actions on one account, and on the pool                 *)

LEMMA LawfulSelf ==
  ASSUME RexInv
  PROVE  Lawful(Tables, Tables)
<1>1. PriceHolds(Tables.pool, Tables.pool)
  BY InvHas, SamePrice
<1>2. QED
  BY <1>1, InvHas DEF Lawful, VotesFollow

LEMMA CloseRexKeeps ==
  ASSUME RexInv, NEW owner \in Users, CloseRex(owner)
  PROVE  Follows
<1> DEFINE run == IF pool # NoRow THEN RunRex(Tables, 2) ELSE Tables
           t == UpdateRexAccount(run, owner, 0, 0)
           u == WithShare(t, owner, NoRow)
<1>1. /\ t.held[owner] # NoRow => t.held[owner].rex = 0
      /\ Commit(u)
      /\ UNCHANGED delband
  BY DEF CloseRex, WithShare
<1>2. /\ Lawful(Tables, run) /\ run \in RexTables
      /\ \A a \in Users : run.held[a] = NoRow <=> held[a] = NoRow
  <2>1. CASE pool # NoRow
    BY <2>1, RunIs
  <2>2. CASE pool = NoRow
    BY <2>2, LawfulSelf, InvHas, TablesAre
  <2>3. QED
    BY <2>1, <2>2
<1> HIDE DEF run
<1>3. Lawful(Tables, t) /\ RexTablesInv(t) /\ t \in RexTables /\ t.held = run.held
  BY <1>2, SettledIs
<1> HIDE DEF t
<1>4. /\ u \in RexTables
      /\ u.pool = t.pool /\ u.fund = t.fund /\ u.order = t.order /\ u.queue = t.queue
      /\ u.loans = t.loans /\ u.weight = t.weight /\ u.staked = t.staked /\ u.bal = t.bal
      /\ u.held[owner] = NoRow /\ \A b \in Users \ {owner} : u.held[b] = t.held[b]
  BY <1>3, WithShareIs
<1> HIDE DEF u
<1>5. RexTablesInv(u)
  <2>1. CASE t.held[owner] = NoRow
    <3>1. u.held = t.held
      <4>1. u.held \in [Users -> Share \cup {NoRow}] /\ t.held \in [Users -> Share \cup {NoRow}]
        BY <1>3, <1>4, FieldTypes
      <4>2. \A b \in Users : u.held[b] = t.held[b]
        BY <1>4, <2>1
      <4>3. QED
        BY <4>1, <4>2
    <3>2. QED
      BY <1>3, <1>4, <3>1, MoneyStep
  <2>2. CASE t.held[owner] # NoRow
    <3>1. /\ t.pool # NoRow /\ t.held[owner].rex = 0 /\ t.held[owner].matured = 0
      <4>1. /\ t.pool # NoRow /\ t.held[owner].matured \in Nat /\ t.held[owner].savings \in Nat
            /\ SumOver(t.held[owner].growing, Days) \in Nat
            /\ t.held[owner].rex = t.held[owner].matured + SumOver(t.held[owner].growing, Days)
                                   + t.held[owner].savings
        BY <1>3, <2>2, ShareHas
      <4>2. t.held[owner].rex = 0
        BY <1>1, <2>2
      <4> DEFINE matured == t.held[owner].matured
                 growing == SumOver(t.held[owner].growing, Days)
                 savings == t.held[owner].savings
      <4>3. matured \in Nat /\ growing \in Nat /\ savings \in Nat
        BY <4>1
      <4>4. matured + growing + savings = 0
        BY <4>1, <4>2
      <4> HIDE DEF growing, savings
      <4>5. matured = 0
        <5> HIDE DEF matured
        <5>1. QED
          BY <4>3, <4>4
      <4>6. QED
        BY <4>1, <4>2, <4>5
    <3>2. ~ (t.order[owner] # NoRow /\ t.order[owner].is_open)
      <4>1. OrderCovered(t.order[owner], t.held[owner])
        BY <1>3, TablesHave DEF RowsGood
      <4>2. t.order[owner] \in Order \cup {NoRow}
        BY <1>3, FieldTypes
      <4>3. t.order[owner] # NoRow => t.order[owner].requested \in Nat
        BY <4>2 DEF Order
      <4>4. QED
        BY <3>1, <4>1, <4>3 DEF OrderCovered
    <3>3. BucketsAdd(u.held[owner]) /\ OrderCovered(u.order[owner], u.held[owner])
      BY <1>4, <3>2 DEF BucketsAdd, OrderCovered
    <3>4. QueueAgrees(u)
      BY <1>3, <1>4, TablesHave DEF QueueAgrees, IsOpen
    <3>5. u.pool.rex = RexIn(t.pool) + RexIn(u.held[owner]) - RexIn(t.held[owner])
      <4>1. RexIn(t.pool) = u.pool.rex /\ u.pool.rex \in Int
        BY <1>3, <1>4, <3>1, PoolHas DEF RexIn
      <4>2. RexIn(t.held[owner]) = 0 /\ RexIn(u.held[owner]) = 0
        BY <1>4, <2>2, <3>1 DEF RexIn
      <4>3. QED
        BY <4>1, <4>2
    <3>6. /\ u.pool \in Pool /\ u.pool.lendable = u.pool.lent + u.pool.unlent
          /\ u.pool.lent = (IF t.pool = NoRow THEN 0 ELSE t.pool.lent)
          /\ u.pool.loan_num = (IF t.pool = NoRow THEN 0 ELSE t.pool.loan_num)
          /\ (u.pool.rex = 0 => u.pool.lendable = 0)
      BY <1>3, <1>4, <3>1, PoolHas
    <3>7. u.loans = t.loans /\ \A b \in Users \ {owner} : u.held[b] = t.held[b] /\ u.order[b] = t.order[b]
      BY <1>4
    <3>8. QED
      BY <1>3, <1>4, <3>3, <3>4, <3>5, <3>6, <3>7, AccountStep
  <2>3. QED
    BY <2>1, <2>2
<1>6. VotesFollow(Tables, u)
  <2> SUFFICES ASSUME NEW a \in Users, held[a] # NoRow => u.held[a] # NoRow
               PROVE  VotesOff(u, a) = VotesOff(Tables, a)
    BY TablesAre DEF VotesFollow
  <2>1. u.held[a] = t.held[a]
    BY <1>2, <1>3, <1>4
  <2>2. VotesOff(u, a) = VotesOff(t, a)
    BY <1>4, <2>1 DEF VotesOff, VoteStake, IsClosed
  <2>3. QED
    BY <1>2, <1>3, <2>2, TablesAre DEF Lawful, VotesFollow
<1>7. Gap(u) = Gap(Tables) /\ NameBidsHeld(u) /\ PriceHolds(Tables.pool, u.pool)
  <2>1. Gap(u) = Gap(t)
    BY <1>4, SameGap
  <2>2. QED
    BY <1>3, <1>4, <2>1 DEF Lawful, NameBidsHeld
<1>8. \A w \in Users \X Kinds : OwnWeight(u, w) = OwnWeight(Tables, w)
  <2>1. \A w \in Users \X Kinds : OwnWeight(u, w) = OwnWeight(t, w)
    BY <1>4, SameRents
  <2>2. QED
    BY <1>3, <2>1 DEF Lawful
<1>9. Lawful(Tables, u)
  BY <1>5, <1>6, <1>7, <1>8 DEF Lawful
<1>10. QED
  BY <1>1, <1>9, CommitKeeps DEF Follows

LEMMA UpdateVoteStakeKeeps ==
  ASSUME RexInv, NEW a \in Users, UpdateVoteStake(a)
  PROVE  Follows
<1> DEFINE t == Tables
           worth == Worth(t.pool, t.held[a].rex)
           h == [t.held[a] EXCEPT !.vote_stake = worth]
           votes == t.staked[a] + worth - t.held[a].vote_stake
           H == [t.held EXCEPT ![a] = h]
           S == [t.staked EXCEPT ![a] = votes]
           u == UpdateRexStake(t, a)
<1>1. Commit(u) /\ UNCHANGED delband
  BY DEF UpdateVoteStake
<1>2. RexTablesInv(t) /\ t \in RexTables /\ NameBidsHeld(t) /\ t = Tables
  BY InvHas
<1>3. CASE ~ (t.held[a] # NoRow /\ RexAvailable(t))
  <2>1. u = t
    BY <1>3 DEF UpdateRexStake
  <2>2. QED
    BY <1>1, <1>2, <2>1, LawfulSelf, CommitKeeps DEF Follows
<1>4. CASE t.held[a] # NoRow /\ RexAvailable(t)
  <2>1. u = [t EXCEPT !.held = H, !.staked = S]
    BY <1>4 DEF UpdateRexStake
  <2> HIDE DEF t
  <2>2. /\ t.held[a] \in Share /\ t.held[a].rex \in Nat /\ t.held[a].vote_stake \in Nat
        /\ t.held[a].matured \in Nat
    BY <1>2, <1>4, ShareHas
  <2>3. t.pool \in Pool /\ t.pool.rex # 0 /\ t.pool # NoRow
    BY <1>2, <1>4, PoolHas DEF RexAvailable
  <2>4. worth \in Nat
    BY <2>2, <2>3, WorthBound
  <2> HIDE DEF worth
  <2>5. /\ h \in Share /\ h.rex = t.held[a].rex /\ h.vote_stake = worth
        /\ h.matured = t.held[a].matured /\ h.growing = t.held[a].growing
        /\ h.savings = t.held[a].savings
    BY <2>2, <2>4 DEF Share
  <2> HIDE DEF h
  <2>6. t.held \in [Users -> Share \cup {NoRow}] /\ t.staked \in [Users -> Int]
    BY <1>2, FieldTypes
  <2>7. H \in [Users -> Share \cup {NoRow}] /\ H[a] = h /\ \A b \in Users \ {a} : H[b] = t.held[b]
    BY <2>5, <2>6
  <2>8. votes \in Int /\ votes = t.staked[a] + worth - t.held[a].vote_stake
    BY <2>2, <2>4, <2>6
  <2> HIDE DEF votes
  <2>9. S \in [Users -> Int] /\ S[a] = votes /\ \A b \in Users \ {a} : S[b] = t.staked[b]
    BY <2>6, <2>8
  <2> HIDE DEF H, S, u
  <2>10. /\ u \in RexTables /\ u.held = H /\ u.staked = S
         /\ u.pool = t.pool /\ u.fund = t.fund /\ u.order = t.order /\ u.queue = t.queue
         /\ u.loans = t.loans /\ u.weight = t.weight /\ u.bal = t.bal
    BY <1>2, <2>1, <2>7, <2>9 DEF RexTables
  <2>11. BucketsAdd(h)
    <3>1. BucketsAdd(t.held[a])
      BY <1>2, TablesHave DEF RowsGood
    <3>2. QED
      BY <2>2, <2>5, <3>1, BucketsAre
  <2>12. OrderCovered(u.order[a], u.held[a])
    <3>1. OrderCovered(t.order[a], t.held[a])
      BY <1>2, TablesHave DEF RowsGood
    <3>2. QED
      BY <2>5, <2>7, <2>10, <3>1, NoRowApart DEF OrderCovered
  <2>13. RexTablesInv(u)
    <3>1. QueueAgrees(u)
      BY <1>2, <2>10, TablesHave DEF QueueAgrees, IsOpen
    <3>2. u.pool.rex = RexIn(t.pool) + RexIn(u.held[a]) - RexIn(t.held[a])
      <4>1. RexIn(t.pool) = u.pool.rex /\ u.pool.rex \in Int
        BY <1>2, <2>3, <2>10, PoolHas DEF RexIn
      <4>2. RexIn(u.held[a]) = RexIn(t.held[a]) /\ RexIn(t.held[a]) \in Int
        BY <1>4, <2>2, <2>5, <2>7, <2>10, NoRowApart DEF RexIn
      <4>3. QED
        BY <4>1, <4>2
    <3>3. /\ u.pool \in Pool /\ u.pool.lendable = u.pool.lent + u.pool.unlent
          /\ u.pool.lent = (IF t.pool = NoRow THEN 0 ELSE t.pool.lent)
          /\ u.pool.loan_num = (IF t.pool = NoRow THEN 0 ELSE t.pool.loan_num)
          /\ (u.pool.rex = 0 => u.pool.lendable = 0)
      BY <1>2, <2>3, <2>10, PoolHas
    <3>4. /\ u.loans = t.loans /\ BucketsAdd(u.held[a])
          /\ \A b \in Users \ {a} : u.held[b] = t.held[b] /\ u.order[b] = t.order[b]
      BY <2>7, <2>10, <2>11
    <3>5. QED
      BY <1>2, <2>10, <2>12, <3>1, <3>2, <3>3, <3>4, AccountStep
  <2>14. VotesFollow(t, u)
    <3>1. VotesOff(u, a) = VotesOff(t, a)
      <4> DEFINE c == IF IsClosed(t, a) THEN t.order[a].stake_change ELSE 0
                 v == t.held[a].vote_stake
      <4>1. c \in Int /\ v \in Nat
        BY <1>2, <2>2, FieldTypes DEF IsClosed, Order
      <4>2. VotesOff(t, a) = t.staked[a] - v + c
        BY <1>4 DEF VotesOff, VoteStake
      <4>3. VotesOff(u, a) = votes - worth + c
        BY <2>5, <2>7, <2>9, <2>10, NoRowApart DEF VotesOff, VoteStake, IsClosed
      <4>4. votes = t.staked[a] + worth - v /\ t.staked[a] \in Int
        BY <2>6, <2>8
      <4> HIDE DEF c, v
      <4>5. QED
        BY <2>4, <4>1, <4>2, <4>3, <4>4
    <3>2. \A b \in Users \ {a} : VotesOff(u, b) = VotesOff(t, b)
      BY <2>7, <2>9, <2>10 DEF VotesOff, VoteStake, IsClosed
    <3>3. QED
      BY <3>1, <3>2 DEF VotesFollow
  <2>15. Gap(u) = Gap(t) /\ \A w \in Users \X Kinds : OwnWeight(u, w) = OwnWeight(t, w)
    BY <2>10, SameGap, SameRents
  <2>16. NameBidsHeld(u) /\ PriceHolds(t.pool, u.pool)
    BY <1>2, <2>10, SamePrice DEF NameBidsHeld
  <2>17. Lawful(t, u)
    BY <2>13, <2>14, <2>15, <2>16 DEF Lawful
  <2>18. QED
    BY <1>1, <1>2, <2>17, CommitKeeps DEF Follows
<1>5. QED
  BY <1>3, <1>4

\* The tables with another pool.
WithPool(t, p) == [t EXCEPT !.pool = p]

LEMMA PoolAloneKeeps ==
  ASSUME RexInv, pool # NoRow, NEW p \in Pool,
         p.lent = pool.lent, p.unlent = pool.unlent, p.lendable = pool.lendable,
         p.rex = pool.rex, p.loan_num = pool.loan_num, p.namebid <= bal[NamesAccount],
         Commit(WithPool(Tables, p)), UNCHANGED delband
  PROVE  Follows
<1> DEFINE t == Tables
           u == WithPool(t, p)
<1>1. RexTablesInv(t) /\ t \in RexTables /\ t.pool = pool /\ t.bal = bal /\ t = Tables
  BY InvHas, TablesAre
<1> HIDE DEF t
<1>2. /\ u \in RexTables /\ u.pool = p
      /\ u.fund = t.fund /\ u.held = t.held /\ u.order = t.order /\ u.queue = t.queue
      /\ u.loans = t.loans /\ u.weight = t.weight /\ u.staked = t.staked /\ u.bal = t.bal
  BY <1>1 DEF WithPool, RexTables
<1> HIDE DEF u
<1>3. /\ t.pool.lendable = t.pool.lent + t.pool.unlent
      /\ t.pool.rex = 0 => t.pool.lendable = 0
      /\ p # NoRow /\ t.pool # NoRow
      /\ t.pool.lendable * t.pool.rex \in Int
  <2>1. t.pool.lendable \in Int /\ t.pool.rex \in Int
    BY <1>1, PoolHas
  <2>2. QED
    BY <1>1, <2>1, PoolHas, NoRowApart
<1>4. RexTablesInv(u)
  BY <1>1, <1>2, <1>3, PoolStep
<1>5. Gap(u) = Gap(t)
  <2>1. PoolTokens(u.pool) = PoolTokens(t.pool)
    BY <1>1, <1>2, <1>3 DEF PoolTokens
  <2>2. QED
    BY <1>2, <2>1, SameSums DEF Gap
<1>6. VotesFollow(t, u)
  BY <1>2, SameVotes DEF VotesFollow
<1>7. PriceHolds(t.pool, u.pool) /\ NameBidsHeld(u)
  BY <1>1, <1>2, <1>3 DEF PriceHolds, NameBidsHeld
<1>8. \A w \in Users \X Kinds : OwnWeight(u, w) = OwnWeight(t, w)
  BY <1>2, SameRents
<1>9. Lawful(t, u)
  BY <1>4, <1>5, <1>6, <1>7, <1>8 DEF Lawful
<1>10. QED
  BY <1>1, <1>9, CommitKeeps DEF Follows, u

LEMMA ChannelNameBidKeeps ==
  ASSUME RexInv, NEW amount \in Int, ChannelNameBid(amount)
  PROVE  Follows
<1> DEFINE n == pool.namebid + amount
           p == [pool EXCEPT !.namebid = n]
<1>1. /\ pool # NoRow /\ amount > 0 /\ n <= bal[NamesAccount]
      /\ Commit(WithPool(Tables, p)) /\ UNCHANGED delband
  BY TablesAre DEF ChannelNameBid, RexAvailable, WithPool
<1>2. pool \in Pool
  BY <1>1 DEF RexInv, TypeOK
<1>3. n \in Nat
  BY <1>1, <1>2 DEF Pool
<1> HIDE DEF n
<1>4. /\ p \in Pool /\ p.namebid = n
      /\ p.lent = pool.lent /\ p.unlent = pool.unlent /\ p.lendable = pool.lendable
      /\ p.rex = pool.rex /\ p.loan_num = pool.loan_num
  BY <1>2, <1>3 DEF Pool
<1> HIDE DEF p
<1>5. QED
  BY <1>1, <1>4, PoolAloneKeeps

LEMMA SetRexKeeps ==
  ASSUME RexInv, NEW balance \in Int, SetRex(balance)
  PROVE  Follows
<1> DEFINE p == [pool EXCEPT !.rent = balance]
<1>1. /\ pool # NoRow /\ balance \in Nat
      /\ Commit(WithPool(Tables, p)) /\ UNCHANGED delband
  BY DEF SetRex, WithPool
<1>2. pool \in Pool
  BY <1>1 DEF RexInv, TypeOK
<1>3. /\ p \in Pool /\ p.namebid = pool.namebid
      /\ p.lent = pool.lent /\ p.unlent = pool.unlent /\ p.lendable = pool.lendable
      /\ p.rex = pool.rex /\ p.loan_num = pool.loan_num
  BY <1>1, <1>2 DEF Pool
<1>4. pool.namebid <= bal[NamesAccount]
  BY <1>1, TablesAre DEF RexInv, NameBidsHeld
<1> HIDE DEF p
<1>5. QED
  BY <1>1, <1>3, <1>4, PoolAloneKeeps
-----------------------------------------------------------------------------
(* Fees, and loans                                                         *)

LEMMA ChannelFeeKeeps ==
  ASSUME RexInv, NEW a \in Users, NEW amount \in Int, ChannelFee(a, amount)
  PROVE  Follows
<1> DEFINE t == Tables
           m == Move(t, a, FeeAccount, amount)
           u == ChannelToRex(m, FeeAccount, amount)
<1>1. amount \in Nat \ {0} /\ Commit(u) /\ UNCHANGED delband
  BY DEF ChannelFee
<1>2. RexTablesInv(t) /\ t \in RexTables /\ Gap(t) = 0 /\ NameBidsHeld(t) /\ t = Tables
      /\ t.bal[RexAccount] \in Int
  BY InvHas, TablesAre, AccountsApart
<1>3. /\ a \in Holders /\ a # FeeAccount /\ FeeAccount \in Holders \ {RexAccount}
      /\ {NamesAccount, RexAccount} \subseteq Holders \ {a, FeeAccount}
      /\ NamesAccount # RexAccount
  BY AccountsApart
<1> HIDE DEF t
<1>4. /\ m \in RexTables
      /\ m.pool = t.pool /\ m.held = t.held /\ m.order = t.order /\ m.queue = t.queue
      /\ m.loans = t.loans /\ m.weight = t.weight /\ m.staked = t.staked /\ m.fund = t.fund
      /\ m.bal[NamesAccount] = t.bal[NamesAccount]
      /\ m.bal[RexAccount] = t.bal[RexAccount]
      /\ Gap(m) = Gap(t) + (m.bal[RexAccount] - t.bal[RexAccount])
  BY <1>1, <1>2, <1>3, MoveIs
<1> HIDE DEF m
<1>5. RexTablesInv(m) /\ Gap(m) = Gap(t)
  <2>1. RexTablesInv(m)
    BY <1>2, <1>4, MoneyStep
  <2>2. QED
    BY <1>2, <1>4, <2>1
<1>6. (\A b \in Users : VotesOff(m, b) = VotesOff(t, b))
      /\ \A w \in Users \X Kinds : OwnWeight(m, w) = OwnWeight(t, w)
  BY <1>4, SameVotes, SameRents
<1>7. CASE ~ RexAvailable(m)
  <2>1. u = m
    BY <1>7 DEF ChannelToRex
  <2>2. PriceHolds(t.pool, m.pool) /\ NameBidsHeld(m)
    BY <1>2, <1>4, SamePrice DEF NameBidsHeld
  <2>3. Lawful(t, u)
    BY <1>5, <1>6, <2>1, <2>2 DEF Lawful, VotesFollow
  <2>4. QED
    BY <1>1, <1>2, <2>3, CommitKeeps DEF Follows
<1>8. CASE RexAvailable(m)
  <2>1. /\ RexTablesInv(u)
        /\ Gap(u) = Gap(m)
        /\ u.bal = [m.bal EXCEPT ![FeeAccount] = m.bal[FeeAccount] - amount,
                                 ![RexAccount] = m.bal[RexAccount] + amount]
        /\ u.held = m.held /\ u.order = m.order
        /\ u.loans = m.loans /\ u.weight = m.weight /\ u.staked = m.staked
        /\ u.pool \in Pool /\ u.pool.namebid = m.pool.namebid
        /\ u.pool.rex = m.pool.rex /\ u.pool.lendable = m.pool.lendable + amount
    BY <1>1, <1>3, <1>5, <1>8, ChannelToRexKeeps
  <2> HIDE DEF u
  <2>2. (\A b \in Users : VotesOff(u, b) = VotesOff(m, b))
        /\ \A w \in Users \X Kinds : OwnWeight(u, w) = OwnWeight(m, w)
    BY <2>1, SameVotes, SameRents
  <2>3. PriceHolds(t.pool, u.pool)
    <3>1. m.pool # NoRow /\ m.pool \in Pool /\ m.pool.lendable \in Nat
      BY <1>5, <1>8, PoolHas DEF RexAvailable
    <3>2. NoCheaper(m.pool, u.pool)
      BY <1>1, <2>1, <3>1, RicherPool
    <3>3. QED
      BY <1>4, <3>2 DEF NoCheaper, PriceHolds
  <2>4. NameBidsHeld(u)
    <3>1. m.pool # NoRow /\ m.bal \in [Holders -> Int]
      BY <1>4, <1>8, FieldTypes DEF RexAvailable
    <3>2. u.bal[NamesAccount] = m.bal[NamesAccount]
      BY <1>3, <2>1, <3>1
    <3>3. QED
      BY <1>2, <1>4, <2>1, <3>1, <3>2 DEF NameBidsHeld
  <2>5. Lawful(t, u)
    <3>1. VotesFollow(t, u)
      BY <1>6, <2>2 DEF VotesFollow
    <3>2. QED
      BY <1>5, <1>6, <2>1, <2>2, <2>3, <2>4, <3>1 DEF Lawful
  <2>6. QED
    BY <1>1, <1>2, <2>5, CommitKeeps DEF Follows
<1>9. QED
  BY <1>7, <1>8

\* The balance of a loan, and the fund it comes from or goes to.
LEMMA MoveToLoanKeeps ==
  ASSUME RexInv, NEW from \in Users, NEW n \in LoanNums, loans[n] # NoRow, NEW amount \in Int,
         loans[n].balance + amount \in Nat, fund[from] + (- amount) \in Nat,
         Commit(MoveToLoan(Tables, from, n, amount)), UNCHANGED delband
  PROVE  Follows
<1> DEFINE t == Tables
           b == loans[n].balance + amount
           q == fund[from] + (- amount)
           l == [loans[n] EXCEPT !.balance = b]
           L == [loans EXCEPT ![n] = l]
           paid == WithFund(t, from, q)
           u == [paid EXCEPT !.loans = L]
<1>1. RexTablesInv(t) /\ t \in RexTables /\ t.pool # NoRow /\ NameBidsHeld(t) /\ t = Tables
      /\ t.loans = loans /\ t.fund = fund /\ t.pool = pool /\ t.bal = bal
  BY InvHas, TablesAre, LoanHas
<1>2. Commit(u)
  BY <1>1 DEF MoveToLoan, TransferToFund, WithFund
<1>3. /\ loans[n] \in Loan /\ loans[n].balance \in Nat /\ fund[from] \in Nat
      /\ n <= t.pool.loan_num
  <2>1. t.loans[n] \in Loan /\ t.loans[n].balance \in Nat /\ n <= t.pool.loan_num
    BY <1>1, LoanHas
  <2>2. QED
    BY <1>1, <2>1, InvHas
<1> HIDE DEF t
<1>4. b \in Nat /\ b = loans[n].balance + amount /\ q \in Nat /\ q = fund[from] - amount
  BY <1>3
<1> HIDE DEF b, q
<1>5. /\ l \in Loan /\ l.balance = b /\ l.payment = loans[n].payment /\ l.staked = loans[n].staked
      /\ l.receiver = loans[n].receiver /\ l.kind = loans[n].kind
  BY <1>3, <1>4 DEF Loan
<1> HIDE DEF l
<1>6. /\ L \in [LoanNums -> Loan \cup {NoRow}] /\ L[n] = l
      /\ \A m \in LoanNums \ {n} : L[m] = loans[m]
  BY <1>5 DEF RexInv, TypeOK
<1> HIDE DEF L
<1>7. /\ paid \in RexTables
      /\ paid.pool = t.pool /\ paid.held = t.held /\ paid.order = t.order /\ paid.queue = t.queue
      /\ paid.loans = t.loans /\ paid.weight = t.weight /\ paid.staked = t.staked
      /\ paid.bal = t.bal
  <2>1. t \in RexTables /\ from \in Users /\ q \in Nat
    BY <1>1, <1>4
  <2> HIDE DEF paid, u
  <2>2. LET w == WithFund(t, from, q)
        IN  /\ w \in RexTables
            /\ w.pool = t.pool /\ w.held = t.held /\ w.order = t.order
            /\ w.queue = t.queue /\ w.loans = t.loans /\ w.weight = t.weight
            /\ w.staked = t.staked /\ w.bal = t.bal
    BY <2>1, FundIs
  <2>3. QED
    BY <2>2 DEF paid
<1>8. Gap(paid) = Gap(t) - (q - t.fund[from])
  BY <1>1, <1>4, FundGap
<1>9. RexTablesInv(paid)
  BY <1>1, <1>7, MoneyStep
<1> HIDE DEF paid
<1>10. /\ u \in RexTables /\ u.loans = L /\ u.fund = paid.fund
       /\ u.pool = t.pool /\ u.held = t.held /\ u.order = t.order /\ u.queue = t.queue
       /\ u.weight = t.weight /\ u.staked = t.staked /\ u.bal = t.bal
  BY <1>6, <1>7 DEF RexTables
<1> HIDE DEF u
<1>11. /\ StakedIn(L[n]) = StakedIn(loans[n]) /\ StakedIn(loans[n]) \in Nat
       /\ BalanceIn(L[n]) = b /\ BalanceIn(loans[n]) = loans[n].balance
       /\ \A w \in Users \X Kinds :
             RentedIn(L[n], w) = RentedIn(loans[n], w) /\ RentedIn(loans[n], w) \in Nat
  <2>1. StakedIn(loans[n]) \in Nat /\ \A w \in Users \X Kinds : RentedIn(loans[n], w) \in Nat
    BY <1>3, RowValues
  <2>2. QED
    BY <1>5, <1>6, <2>1, NoRowApart DEF StakedIn, BalanceIn, RentedIn
<1>12. RexTablesInv(u)
  <2>1. LoanGood(u.loans[n])
    <3>1. LoanGood(t.loans[n])
      BY <1>1, TablesHave DEF LoansNumbered
    <3>2. QED
      BY <1>1, <1>5, <1>6, <1>10, <3>1 DEF LoanGood
  <2>2. /\ t.pool \in Pool /\ t.pool.lendable = t.pool.lent + t.pool.unlent
        /\ (t.pool.rex = 0 => t.pool.lendable = 0) /\ t.pool.lent \in Nat
    BY <1>1, PoolHas
  <2>3. u.pool.lent = paid.pool.lent + StakedIn(u.loans[n]) - StakedIn(paid.loans[n])
    BY <1>1, <1>7, <1>10, <1>11, <2>2
  <2>4. u.pool.loan_num >= paid.pool.loan_num
    BY <1>7, <1>10, <2>2 DEF Pool, LoanNums
  <2>5. \A m \in LoanNums \ {n} : u.loans[m] = paid.loans[m]
    BY <1>1, <1>6, <1>7, <1>10
  <2>6. u.held = paid.held /\ u.order = paid.order /\ u.queue = paid.queue /\ u.pool = paid.pool
        /\ paid.pool # NoRow
    BY <1>1, <1>7, <1>10
  <2>7. /\ u.pool \in Pool /\ u.pool.lendable = u.pool.lent + u.pool.unlent
        /\ (u.pool.rex = 0 => u.pool.lendable = 0) /\ n <= u.pool.loan_num
    BY <1>3, <1>10, <2>2
  <2>8. QED
    BY <1>9, <1>10, <2>1, <2>3, <2>4, <2>5, <2>6, <2>7, LoanStep
<1>13. Gap(u) = Gap(t)
  <2>1. \A m \in LoanNums \ {n} : u.loans[m] = paid.loans[m]
    BY <1>1, <1>6, <1>7, <1>10
  <2>2. Balances(u) = Balances(paid) + BalanceIn(u.loans[n]) - BalanceIn(paid.loans[n])
    BY <1>7, <1>10, <2>1, LoansChange
  <2>3. Funds(u) = Funds(paid) /\ Proceeds(u) = Proceeds(paid)
    BY <1>7, <1>10, SameSums
  <2>4. /\ Funds(paid) \in Int /\ Proceeds(paid) \in Int /\ Balances(paid) \in Int
        /\ PoolTokens(paid.pool) \in Int /\ paid.bal[RexAccount] \in Int
    BY <1>7, SumTypes, FieldTypes, AccountsApart
  <2>5. u.pool = paid.pool /\ u.bal = paid.bal
    BY <1>7, <1>10
  <2>6. Gap(u) = Gap(paid) - (b - loans[n].balance)
    <3>1. BalanceIn(u.loans[n]) = b /\ BalanceIn(paid.loans[n]) = loans[n].balance
      BY <1>1, <1>7, <1>10, <1>11
    <3>2. QED
      BY <1>3, <1>4, <2>2, <2>3, <2>4, <2>5, <3>1 DEF Gap
  <2>7. Gap(t) \in Int
    BY <1>1, GapType
  <2>8. QED
    BY <1>1, <1>3, <1>4, <1>8, <2>6, <2>7
<1>14. \A w \in Users \X Kinds : OwnWeight(u, w) = OwnWeight(t, w)
  <2> TAKE w \in Users \X Kinds
  <2>1. \A m \in LoanNums \ {n} : u.loans[m] = t.loans[m]
    BY <1>1, <1>6, <1>10
  <2>2. Rented(u, w) = Rented(t, w) + RentedIn(u.loans[n], w) - RentedIn(t.loans[n], w)
    BY <1>1, <1>10, <2>1, LoansChange
  <2>3. Rented(t, w) \in Int
    BY <1>1, SumTypes
  <2>4. RentedIn(u.loans[n], w) = RentedIn(t.loans[n], w) /\ RentedIn(t.loans[n], w) \in Int
    BY <1>1, <1>10, <1>11
  <2>5. Rented(u, w) = Rented(t, w)
    BY <2>2, <2>3, <2>4
  <2>6. QED
    BY <1>10, <2>5 DEF OwnWeight
<1>15. VotesFollow(t, u)
  BY <1>10, SameVotes DEF VotesFollow
<1>16. NameBidsHeld(u) /\ PriceHolds(t.pool, u.pool)
  BY <1>1, <1>10, SamePrice DEF NameBidsHeld
<1>17. Lawful(t, u)
  BY <1>12, <1>13, <1>14, <1>15, <1>16 DEF Lawful
<1>18. QED
  BY <1>1, <1>2, <1>17, CommitKeeps DEF Follows

LEMMA FundLoanKeeps ==
  ASSUME RexInv, NEW from \in Users, NEW n \in LoanNums, NEW amount \in Int,
         FundLoan(from, n, amount)
  PROVE  Follows
<1>1. /\ amount > 0 /\ fund[from] >= amount /\ loans[n] # NoRow
      /\ Commit(MoveToLoan(Tables, from, n, amount)) /\ UNCHANGED delband
  BY DEF FundLoan, Running
<1>2. loans[n].balance \in Nat /\ fund[from] \in Nat
  BY <1>1 DEF RexInv, TypeOK, Loan
<1>3. loans[n].balance + amount \in Nat /\ fund[from] + (- amount) \in Nat
  BY <1>1, <1>2
<1>4. QED
  BY <1>1, <1>3, MoveToLoanKeeps

LEMMA DefundLoanKeeps ==
  ASSUME RexInv, NEW from \in Users, NEW n \in LoanNums, NEW amount \in Int,
         DefundLoan(from, n, amount)
  PROVE  Follows
<1> DEFINE m == - amount
<1>1. /\ amount > 0 /\ loans[n].balance >= amount /\ loans[n] # NoRow
      /\ Commit(MoveToLoan(Tables, from, n, m)) /\ UNCHANGED delband
  BY DEF DefundLoan, Running
<1>2. loans[n].balance \in Nat /\ fund[from] \in Nat
  BY <1>1 DEF RexInv, TypeOK, Loan
<1>3. m \in Int /\ loans[n].balance + m \in Nat /\ fund[from] + (- m) \in Nat
  BY <1>1, <1>2
<1> HIDE DEF m
<1>4. QED
  BY <1>1, <1>3, MoveToLoanKeeps

\* A new loan of the next number.
LEMMA RentKeeps ==
  ASSUME RexInv, NEW from \in Users, NEW receiver \in Users, NEW kind \in Kinds,
         NEW payment \in Int, NEW loan_fund \in Int, Rent(from, receiver, kind, payment, loan_fund)
  PROVE  Follows
<1> DEFINE run == RunRex(Tables, 2)
           rented == BancorOutput(run.pool.rent, run.pool.unlent, payment)
           num == run.pool.loan_num + 1
           loan == [kind |-> kind, from |-> from, receiver |-> receiver, payment |-> payment,
                    balance |-> loan_fund, staked |-> rented, left |-> Term]
           cost == payment + loan_fund
           q == run.fund[from] + (- cost)
           paid == WithFund(run, from, q)
           p == AddLoan(run.pool, payment, rented)
           P == [p EXCEPT !.loan_num = num]
           L == [run.loans EXCEPT ![num] = loan]
           W == UpdateWeight(run, loan, rented)
           u == [paid EXCEPT !.pool = P, !.loans = L, !.weight = W]
<1>1. /\ pool # NoRow /\ RexLoansAvailable(run) /\ payment > 0 /\ loan_fund >= 0
      /\ run.fund[from] >= cost /\ payment < rented /\ num \in LoanNums
      /\ Commit(u) /\ UNCHANGED delband
  BY DEF Rent, TransferToFund, WithFund
<1>2. /\ Lawful(Tables, run) /\ RexTablesInv(run) /\ run \in RexTables
      /\ run.pool \in Pool /\ run.pool # NoRow
  BY <1>1, RunIs
<1>3. /\ run.pool.lent \in Nat /\ run.pool.unlent \in Nat /\ run.pool.rent \in Nat
      /\ run.pool.lendable \in Nat /\ run.pool.lendable = run.pool.lent + run.pool.unlent
      /\ run.pool.rex \in Nat /\ run.pool.rex # 0
      /\ PoolTokens(run.pool) = run.pool.unlent + run.pool.lent
  BY <1>1, <1>2, PoolHas DEF RexLoansAvailable, RexAvailable
<1> HIDE DEF run
<1>4. payment \in Nat \ {0} /\ loan_fund \in Nat /\ cost \in Nat /\ cost = payment + loan_fund
  BY <1>1
<1>5. rented \in 0 .. run.pool.unlent
  BY <1>3, <1>4, BancorBound
<1> HIDE DEF rented
<1>6. /\ p \in Pool /\ p.lent = run.pool.lent + rented
      /\ p.unlent = run.pool.unlent - rented + payment
      /\ p.lendable = run.pool.lendable + payment /\ p.lendable = p.lent + p.unlent
      /\ p.rex = run.pool.rex /\ p.namebid = run.pool.namebid /\ p.loan_num = run.pool.loan_num
  BY <1>2, <1>3, <1>4, <1>5, AddLoanPool
<1>7. run.pool.loan_num \in Int /\ num = run.pool.loan_num + 1
  BY <1>2 DEF Pool, LoanNums
<1> HIDE DEF p, cost, num
<1>8. /\ P \in Pool /\ P.lent = p.lent /\ P.unlent = p.unlent /\ P.lendable = p.lendable
      /\ P.rex = p.rex /\ P.namebid = p.namebid /\ P.loan_num = num
  BY <1>1, <1>6 DEF Pool
<1> HIDE DEF P
<1>9. /\ loan \in Loan /\ loan.payment = payment /\ loan.staked = rented /\ loan.balance = loan_fund
      /\ loan.receiver = receiver /\ loan.kind = kind
  <2>1. Term \in -MaxLate .. Term
    BY AmountsAssumption
  <2>2. rented \in Nat
    BY <1>3, <1>5
  <2>3. QED
    BY <1>4, <2>1, <2>2 DEF Loan
<1> HIDE DEF loan
<1>10. run.loans \in [LoanNums -> Loan \cup {NoRow}] /\ run.loans[num] = NoRow
  <2>1. num > run.pool.loan_num
    BY <1>7
  <2>2. QED
    BY <1>1, <1>2, <2>1, FieldTypes, TablesHave DEF LoansNumbered
<1>11. /\ L \in [LoanNums -> Loan \cup {NoRow}] /\ L[num] = loan
       /\ \A m \in LoanNums \ {num} : L[m] = run.loans[m]
  BY <1>1, <1>9, <1>10
<1> HIDE DEF L
<1>12. rented \in Int /\ W \in [Users \X Kinds -> Int] /\ W = UpdateWeight(run, loan, rented)
  <2>1. rented \in Int /\ loan \in Loan /\ run \in RexTables
    BY <1>2, <1>3, <1>5, <1>9
  <2>2. QED
    BY <2>1, WeightType
<1> HIDE DEF W
<1>13. q \in Nat /\ q = run.fund[from] - cost /\ run.fund[from] \in Nat
  <2>1. run.fund[from] \in Nat
    BY <1>2, FieldTypes
  <2>2. QED
    BY <1>1, <1>4, <2>1
<1> HIDE DEF q
<1>14. /\ paid \in RexTables
       /\ paid.pool = run.pool /\ paid.held = run.held /\ paid.order = run.order
       /\ paid.queue = run.queue /\ paid.loans = run.loans /\ paid.weight = run.weight
       /\ paid.staked = run.staked /\ paid.bal = run.bal
  <2>1. run \in RexTables /\ from \in Users /\ q \in Nat
    BY <1>2, <1>13
  <2> HIDE DEF paid, u
  <2>2. LET w == WithFund(run, from, q)
        IN  /\ w \in RexTables
            /\ w.pool = run.pool /\ w.held = run.held /\ w.order = run.order
            /\ w.queue = run.queue /\ w.loans = run.loans /\ w.weight = run.weight
            /\ w.staked = run.staked /\ w.bal = run.bal
    BY <2>1, FundIs
  <2>3. QED
    BY <2>2 DEF paid
<1>15. Gap(paid) = Gap(run) - (q - run.fund[from])
  BY <1>2, <1>13, FundGap
<1>16. RexTablesInv(paid)
  BY <1>2, <1>14, MoneyStep
<1> HIDE DEF paid
<1>17. /\ u \in RexTables /\ u.pool = P /\ u.loans = L /\ u.weight = W
       /\ u.fund = paid.fund /\ u.held = run.held /\ u.order = run.order /\ u.queue = run.queue
       /\ u.staked = run.staked /\ u.bal = run.bal
  BY <1>8, <1>11, <1>12, <1>14 DEF RexTables
<1> HIDE DEF u
<1>18. /\ StakedIn(L[num]) = rented /\ StakedIn(run.loans[num]) = 0
       /\ BalanceIn(L[num]) = loan_fund /\ BalanceIn(run.loans[num]) = 0
       /\ \A w \in Users \X Kinds :
             /\ RentedIn(L[num], w) = IF loan.receiver = w[1] /\ loan.kind = w[2] THEN rented ELSE 0
             /\ RentedIn(run.loans[num], w) = 0
  BY <1>9, <1>10, <1>11, NoRowApart DEF StakedIn, BalanceIn, RentedIn
<1>19. \A m \in LoanNums \ {num} : u.loans[m] = paid.loans[m]
  BY <1>11, <1>14, <1>17
<1>20. RexTablesInv(u)
  <2>1. LoanGood(u.loans[num])
    BY <1>1, <1>4, <1>9, <1>11, <1>17 DEF LoanGood
  <2>2. u.pool.lent = paid.pool.lent + StakedIn(u.loans[num]) - StakedIn(paid.loans[num])
    BY <1>3, <1>6, <1>8, <1>12, <1>14, <1>17, <1>18
  <2>3. u.pool.loan_num >= paid.pool.loan_num /\ num <= u.pool.loan_num
    BY <1>7, <1>8, <1>14, <1>17
  <2>4. /\ u.pool \in Pool /\ u.pool.lendable = u.pool.lent + u.pool.unlent
        /\ u.pool.rex = paid.pool.rex /\ u.pool.rex # 0
    BY <1>3, <1>6, <1>8, <1>14, <1>17
  <2>5. u.held = paid.held /\ u.order = paid.order /\ u.queue = paid.queue /\ paid.pool # NoRow
    BY <1>2, <1>14, <1>17
  <2>6. QED
    BY <1>1, <1>16, <1>17, <1>19, <2>1, <2>2, <2>3, <2>4, <2>5, LoanStep
<1>21. Gap(u) = Gap(run)
  <2>1. Balances(u) = Balances(paid) + loan_fund
    <3>1. Balances(u) = Balances(paid) + BalanceIn(u.loans[num]) - BalanceIn(paid.loans[num])
      BY <1>1, <1>14, <1>17, <1>19, LoansChange
    <3>2. Balances(paid) \in Int /\ BalanceIn(u.loans[num]) = loan_fund
          /\ BalanceIn(paid.loans[num]) = 0
      BY <1>14, <1>17, <1>18, SumTypes
    <3>3. QED
      BY <1>4, <3>1, <3>2
  <2>2. Funds(u) = Funds(paid) /\ Proceeds(u) = Proceeds(paid)
    BY <1>14, <1>17, SameSums
  <2>3. PoolTokens(u.pool) = PoolTokens(paid.pool) + payment
    <3>1. PoolTokens(P) = P.unlent + P.lent
      BY <1>8, NoRowApart DEF PoolTokens
    <3>2. QED
      BY <1>3, <1>4, <1>6, <1>8, <1>12, <1>14, <1>17, <3>1
  <2>4. /\ Funds(paid) \in Int /\ Proceeds(paid) \in Int /\ Balances(paid) \in Int
        /\ PoolTokens(paid.pool) \in Int /\ paid.bal[RexAccount] \in Int
    BY <1>14, SumTypes, FieldTypes, AccountsApart
  <2>5. u.bal = paid.bal
    BY <1>14, <1>17
  <2>6. Gap(u) = Gap(paid) - cost
    BY <1>4, <2>1, <2>2, <2>3, <2>4, <2>5 DEF Gap
  <2>7. Gap(run) \in Int
    BY <1>2, GapType
  <2>8. QED
    BY <1>4, <1>13, <1>15, <2>6, <2>7
<1>22. \A w \in Users \X Kinds : OwnWeight(u, w) = OwnWeight(run, w)
  <2>1. u.weight = UpdateWeight(paid, loan, rented)
    BY <1>12, <1>14, <1>17 DEF UpdateWeight
  <2>2. \A w \in Users \X Kinds :
            RentedIn(u.loans[num], w) - RentedIn(paid.loans[num], w)
                = IF loan.receiver = w[1] /\ loan.kind = w[2] THEN rented ELSE 0
    BY <1>12, <1>14, <1>17, <1>18
  <2>3. \A w \in Users \X Kinds : OwnWeight(u, w) = OwnWeight(paid, w)
    BY <1>1, <1>9, <1>12, <1>14, <1>17, <1>19, <2>1, <2>2, WeightFollows
  <2>4. \A w \in Users \X Kinds : OwnWeight(paid, w) = OwnWeight(run, w)
    BY <1>14, SameRents
  <2>5. QED
    BY <2>3, <2>4
<1>23. VotesFollow(Tables, u)
  <2>1. \A a \in Users : VotesOff(u, a) = VotesOff(run, a)
    BY <1>17, SameVotes
  <2>2. QED
    BY <1>2, <1>17, <2>1 DEF Lawful, VotesFollow
<1>24. PriceHolds(Tables.pool, u.pool)
  <2>1. NoCheaper(run.pool, P)
    BY <1>2, <1>3, <1>4, <1>6, <1>8, RicherPool
  <2>2. Tables.pool \in Pool \cup {NoRow} /\ PriceHolds(Tables.pool, run.pool)
    BY <1>2, InvHas, FieldTypes DEF Lawful
  <2>3. QED
    BY <1>2, <1>8, <1>17, <2>1, <2>2, PriceThen
<1>25. NameBidsHeld(u)
  BY <1>2, <1>6, <1>8, <1>17 DEF Lawful, NameBidsHeld
<1>26. Lawful(Tables, u)
  BY <1>2, <1>20, <1>21, <1>22, <1>23, <1>24, <1>25 DEF Lawful
<1>27. QED
  BY <1>1, <1>26, CommitKeeps DEF Follows
-----------------------------------------------------------------------------
(* Purchases                                                               *)

\* A purchase, and the maintenance after it, from the tables s in which it is paid.
LEMMA PurchaseKeeps ==
  ASSUME NEW t, RexTablesInv(t), NEW a \in Users, NEW payment \in Nat \ {0},
         CanAddToRexPool(t.pool, payment),
         NEW s \in RexTables, s.pool = AddToRexPool(t.pool, payment), s.held = t.held,
         s.order = t.order, s.queue = t.queue, s.loans = t.loans,
         t.bal[NamesAccount] \in Nat, NameBidsHeld(t), s.bal[NamesAccount] = t.bal[NamesAccount],
         NEW b, b = AddToRexBalance(s, a, payment, RexReceived(t.pool, payment)),
         NEW run, run = RunRex(b, 2)
  PROVE  /\ RexTablesInv(run) /\ run \in RexTables /\ b \in RexTables
         /\ Gap(run) = Gap(s)
         /\ \A w \in Users \X Kinds : OwnWeight(run, w) = OwnWeight(s, w)
         /\ PriceHolds(t.pool, run.pool)
         /\ NameBidsHeld(run)
         /\ VotesOff(run, a) = VotesOff(b, a)
         /\ \A c \in Users \ {a} : VotesOff(run, c) = VotesOff(s, c)
         /\ b.staked = s.staked /\ b.order = s.order
<1>1. /\ RexTablesInv(b) /\ b \in RexTables
      /\ b.pool = s.pool /\ b.fund = s.fund /\ b.order = s.order /\ b.queue = s.queue
      /\ b.loans = s.loans /\ b.weight = s.weight /\ b.staked = s.staked /\ b.bal = s.bal
      /\ b.held[a] \in Share /\ \A c \in Users \ {a} : b.held[c] = t.held[c]
      /\ b.pool # NoRow
  BY BoughtIs
<1>2. Maintains(b, run)
  BY <1>1, RunRexKeeps
<1>3. Gap(b) = Gap(s) /\ \A w \in Users \X Kinds : OwnWeight(b, w) = OwnWeight(s, w)
  BY <1>1, SameGap, SameRents
<1>4. \A c \in Users \ {a} : VotesOff(b, c) = VotesOff(s, c)
  BY <1>1 DEF VotesOff, VoteStake, IsClosed
<1>5. t.pool \in Pool \cup {NoRow}
      /\ (t.pool # NoRow => /\ t.pool.lendable = t.pool.lent + t.pool.unlent
                            /\ t.pool.rex = 0 => t.pool.lendable = 0)
  BY TablesHave, FieldTypes DEF PoolAgrees
<1>6. /\ s.pool \in Pool
      /\ s.pool.namebid = IF t.pool = NoRow THEN 0 ELSE t.pool.namebid
      /\ t.pool # NoRow /\ t.pool.rex > 0 => s.pool.lendable * t.pool.rex >= t.pool.lendable * s.pool.rex
  BY <1>5, PurchaseBound
<1>7. PriceHolds(t.pool, b.pool) /\ NameBidsHeld(b)
  BY <1>1, <1>6 DEF PriceHolds, NameBidsHeld
<1>8. PriceHolds(t.pool, run.pool)
  <2>1. b.pool \in Pool /\ run.pool \in Pool /\ NoCheaper(b.pool, run.pool)
    BY <1>1, <1>2, PoolHas DEF Maintains
  <2>2. QED
    BY <1>5, <1>7, <2>1, PriceThen
<1>9. RexTablesInv(run) /\ run \in RexTables
  BY <1>2, TablesHave DEF Maintains
<1>10. QED
  BY <1>1, <1>2, <1>3, <1>4, <1>7, <1>8, <1>9 DEF Maintains

LEMMA BuyRexKeeps ==
  ASSUME RexInv, NEW from \in Users, NEW amount \in Int, BuyRex(from, amount)
  PROVE  Follows
<1> DEFINE t == Tables
           received == RexReceived(pool, amount)
           q == fund[from] + (- amount)
           less == WithFund(t, from, q)
           P == AddToRexPool(pool, amount)
           paid == [less EXCEPT !.pool = P]
           bought == AddToRexBalance(paid, from, amount, received)
           change == VoteStake(bought, from) - VoteStake(t, from)
           run == RunRex(bought, 2)
           u == UpdateRexAccount(run, from, 0, change)
<1>1. /\ amount \in Nat \ {0} /\ fund[from] >= amount /\ CanAddToRexPool(pool, amount)
      /\ Commit(u) /\ UNCHANGED delband
  BY TablesAre DEF BuyRex, TransferToFund, WithFund
<1>2. RexTablesInv(t) /\ t \in RexTables /\ NameBidsHeld(t) /\ t = Tables
      /\ t.pool = pool /\ t.fund = fund /\ t.bal[NamesAccount] \in Nat /\ fund[from] \in Nat
  BY InvHas, TablesAre, AccountsApart
<1> HIDE DEF t
<1>3. q \in Nat /\ q = fund[from] - amount
  BY <1>1, <1>2
<1> HIDE DEF q
<1>4. P \in Pool /\ PoolTokens(P) = PoolTokens(t.pool) + amount
  <2>1. t.pool \in Pool \cup {NoRow}
        /\ (t.pool # NoRow => /\ t.pool.lendable = t.pool.lent + t.pool.unlent
                              /\ t.pool.rex = 0 => t.pool.lendable = 0)
    BY <1>2, TablesHave, FieldTypes DEF PoolAgrees
  <2>2. CanAddToRexPool(t.pool, amount) /\ P = AddToRexPool(t.pool, amount) /\ amount \in Nat \ {0}
    BY <1>1, <1>2
  <2> HIDE DEF P
  <2>3. QED
    BY <2>1, <2>2, PurchaseBound
<1>5. P = AddToRexPool(t.pool, amount) /\ received = RexReceived(t.pool, amount)
  BY <1>2
<1> HIDE DEF P, received
<1>6. /\ less \in RexTables
      /\ less.pool = t.pool /\ less.held = t.held /\ less.order = t.order /\ less.queue = t.queue
      /\ less.loans = t.loans /\ less.weight = t.weight /\ less.staked = t.staked
      /\ less.bal = t.bal
  <2>1. t \in RexTables /\ from \in Users /\ q \in Nat
    BY <1>2, <1>3
  <2> HIDE DEF less, paid, bought, change, run, u
  <2>2. LET w == WithFund(t, from, q)
        IN  /\ w \in RexTables
            /\ w.pool = t.pool /\ w.held = t.held /\ w.order = t.order
            /\ w.queue = t.queue /\ w.loans = t.loans /\ w.weight = t.weight
            /\ w.staked = t.staked /\ w.bal = t.bal
    BY <2>1, FundIs
  <2>3. QED
    BY <2>2 DEF less
<1>7. Gap(less) = Gap(t) - (q - t.fund[from])
  BY <1>2, <1>3, FundGap
<1> HIDE DEF less
<1>8. /\ paid \in RexTables /\ paid.pool = P /\ paid.fund = less.fund
      /\ paid.held = t.held /\ paid.order = t.order /\ paid.queue = t.queue
      /\ paid.loans = t.loans /\ paid.weight = t.weight /\ paid.staked = t.staked
      /\ paid.bal = t.bal
  BY <1>4, <1>6 DEF RexTables
<1> HIDE DEF paid
<1>9. Gap(paid) = Gap(t)
  <2>1. Funds(paid) = Funds(less) /\ Balances(paid) = Balances(less) /\ Proceeds(paid) = Proceeds(less)
    BY <1>6, <1>8, SameSums
  <2>2. /\ Funds(less) \in Int /\ Proceeds(less) \in Int /\ Balances(less) \in Int
        /\ PoolTokens(less.pool) \in Int /\ less.bal[RexAccount] \in Int
    BY <1>6, SumTypes, FieldTypes, AccountsApart
  <2>3. Gap(paid) = Gap(less) - amount
    BY <1>1, <1>4, <1>6, <1>8, <2>1, <2>2 DEF Gap
  <2>4. Gap(t) \in Int
    BY <1>2, GapType
  <2>5. QED
    BY <1>1, <1>2, <1>3, <1>7, <2>3, <2>4
<1>10. \A w \in Users \X Kinds : OwnWeight(paid, w) = OwnWeight(t, w)
  BY <1>8, SameRents
<1>11. /\ RexTablesInv(run) /\ run \in RexTables /\ bought \in RexTables
       /\ Gap(run) = Gap(paid)
       /\ \A w \in Users \X Kinds : OwnWeight(run, w) = OwnWeight(paid, w)
       /\ PriceHolds(t.pool, run.pool)
       /\ NameBidsHeld(run)
       /\ VotesOff(run, from) = VotesOff(bought, from)
       /\ \A c \in Users \ {from} : VotesOff(run, c) = VotesOff(paid, c)
       /\ bought.staked = paid.staked /\ bought.order = paid.order
  <2>1. /\ CanAddToRexPool(t.pool, amount) /\ paid.pool = AddToRexPool(t.pool, amount)
        /\ amount \in Nat \ {0}
        /\ bought = AddToRexBalance(paid, from, amount, RexReceived(t.pool, amount))
        /\ paid.bal[NamesAccount] = t.bal[NamesAccount]
    BY <1>1, <1>2, <1>5, <1>8
  <2>2. run = RunRex(bought, 2)
    OBVIOUS
  <2> HIDE DEF bought, run
  <2>3. QED
    BY <1>2, <1>8, <2>1, <2>2, PurchaseKeeps
<1> HIDE DEF bought, run
<1>12. VotesOff(bought, from) = VotesOff(t, from) - change /\ change \in Int
       /\ VotesOff(t, from) \in Int
  <2> DEFINE x == VoteStake(bought, from)
             y == VoteStake(t, from)
             c == IF IsClosed(t, from) THEN t.order[from].stake_change ELSE 0
  <2>1. x \in Int /\ y \in Int
    <3>1. bought.held[from] \in Share \cup {NoRow} /\ t.held[from] \in Share \cup {NoRow}
      BY <1>2, <1>11, FieldTypes
    <3>2. QED
      BY <3>1 DEF VoteStake, Share
  <2>2. c \in Int /\ t.staked[from] \in Int
    BY <1>2, FieldTypes DEF IsClosed, Order
  <2>3. VotesOff(t, from) = t.staked[from] - y + c
    BY DEF VotesOff
  <2>4. VotesOff(bought, from) = t.staked[from] - x + c
    BY <1>8, <1>11 DEF VotesOff, IsClosed
  <2>5. change = x - y
    OBVIOUS
  <2> HIDE DEF x, y, c, change
  <2>6. QED
    BY <2>1, <2>2, <2>3, <2>4, <2>5
<1> HIDE DEF change
<1>13. /\ u \in RexTables /\ u.pool = run.pool /\ u.held = run.held /\ u.bal = run.bal
       /\ Gap(u) = Gap(run) - 0
       /\ VotesOff(u, from) = VotesOff(run, from) + change
       /\ \A c \in Users \ {from} : VotesOff(u, c) = VotesOff(run, c)
       /\ \A w \in Users \X Kinds : OwnWeight(u, w) = OwnWeight(run, w)
  <2>1. run \in RexTables /\ change \in Int
    BY <1>11, <1>12
  <2>2. QED
    BY <2>1, UpdateRexAccountIs
<1>14. RexTablesInv(u)
  <2>1. RexTablesInv(run) /\ change \in Int
    BY <1>11, <1>12
  <2>2. QED
    BY <2>1, UpdateRexAccountKeeps
<1> HIDE DEF u
<1>15. Gap(u) = Gap(t)
  <2>1. Gap(run) \in Int
    BY <1>11, GapType
  <2>2. QED
    BY <1>9, <1>11, <1>13, <2>1
<1>16. \A w \in Users \X Kinds : OwnWeight(u, w) = OwnWeight(t, w)
  BY <1>10, <1>11, <1>13
<1>17. VotesFollow(t, u)
  <2>1. VotesOff(u, from) = VotesOff(t, from)
    BY <1>11, <1>12, <1>13
  <2>2. \A c \in Users \ {from} : VotesOff(paid, c) = VotesOff(t, c)
    BY <1>8, SameVotes
  <2>3. QED
    BY <1>11, <1>13, <2>1, <2>2 DEF VotesFollow
<1>18. PriceHolds(t.pool, u.pool) /\ NameBidsHeld(u)
  BY <1>11, <1>13 DEF NameBidsHeld
<1>19. Lawful(t, u)
  BY <1>14, <1>15, <1>16, <1>17, <1>18 DEF Lawful
<1>20. QED
  BY <1>1, <1>2, <1>19, CommitKeeps DEF Follows, u

\* What unstaking takes off the weights it takes off what is delegated.
LEMMA UnstakedIs ==
  ASSUME delband \in [Stakes -> Nat], NEW owner \in Users, NEW receiver \in Users,
         NEW part \in [Kinds -> Nat],
         \A k \in Kinds : part[k] <= delband[<<owner, receiver, k>>],
         delband' = [s \in Stakes |-> IF s[1] = owner /\ s[2] = receiver
                                      THEN delband[s] - part[s[3]] ELSE delband[s]]
  PROVE  /\ delband' \in [Stakes -> Nat]
         /\ \A w \in Users \X Kinds :
               /\ DelegatedTo(w) \in Int
               /\ DelegatedTo(w)' = DelegatedTo(w) - (IF w[1] = receiver THEN part[w[2]] ELSE 0)
         /\ \A k \in Kinds : part[k] # 0 => \E s \in Stakes : delband'[s] # delband[s]
<1>1. ASSUME NEW s \in Stakes
      PROVE  /\ s[1] \in Users /\ s[2] \in Users /\ s[3] \in Kinds /\ s = <<s[1], s[2], s[3]>>
             /\ delband[s] \in Nat
             /\ delband'[s] = IF s[1] = owner /\ s[2] = receiver
                              THEN delband[s] - part[s[3]] ELSE delband[s]
  BY <1>1 DEF Stakes
<1>2. ASSUME NEW s \in Stakes PROVE delband'[s] \in Nat
  <2>1. CASE s[1] = owner /\ s[2] = receiver
    <3>1. s = <<owner, receiver, s[3]>> /\ s[3] \in Kinds
      BY <1>1, <2>1
    <3>2. part[s[3]] <= delband[s] /\ part[s[3]] \in Nat
      BY <3>1
    <3>3. QED
      BY <1>1, <2>1, <3>2
  <2>2. CASE ~ (s[1] = owner /\ s[2] = receiver)
    BY <1>1, <2>2
  <2>3. QED
    BY <2>1, <2>2
<1>3. delband' \in [Stakes -> Nat]
  <2>1. delband' = [s \in Stakes |-> delband'[s]]
    OBVIOUS
  <2>2. QED
    BY <1>2, <2>1, Zenon
<1>4. ASSUME NEW w \in Users \X Kinds
      PROVE  /\ DelegatedTo(w) \in Int
             /\ DelegatedTo(w)' = DelegatedTo(w) - (IF w[1] = receiver THEN part[w[2]] ELSE 0)
  <2> DEFINE f == [b \in Users |-> delband[<<b, w[1], w[2]>>]]
             h == [b \in Users |-> delband'[<<b, w[1], w[2]>>]]
             d == IF w[1] = receiver THEN part[w[2]] ELSE 0
  <2>1. w[1] \in Users /\ w[2] \in Kinds /\ \A b \in Users : <<b, w[1], w[2]>> \in Stakes
    BY DEF Stakes
  <2>2. \A b \in Users : f[b] \in Int /\ h[b] \in Int
    BY <1>1, <1>2, <2>1
  <2>3. \A b \in Users \ {owner} : f[b] = h[b]
    BY <1>1, <2>1
  <2>4. h[owner] = f[owner] - d /\ d \in Int
    BY <1>1, <2>1
  <2>5. DelegatedTo(w) = SumOver(f, Users) /\ DelegatedTo(w)' = SumOver(h, Users)
    BY DEF DelegatedTo
  <2> HIDE DEF f, h, d
  <2>6. SumOver(h, Users) = SumOver(f, Users) + h[owner] - f[owner]
    BY <2>2, <2>3, SetsFinite, SumOverChange
  <2>7. SumOver(f, Users) \in Int
    BY <2>2, SetsFinite, SumOverType
  <2>8. DelegatedTo(w) \in Int /\ DelegatedTo(w)' = DelegatedTo(w) - d
    BY <2>2, <2>4, <2>5, <2>6, <2>7
  <2>9. QED
    BY <2>8 DEF d
<1>5. ASSUME NEW k \in Kinds, part[k] # 0 PROVE \E s \in Stakes : delband'[s] # delband[s]
  <2> DEFINE s == <<owner, receiver, k>>
  <2>1. s \in Stakes /\ s[1] = owner /\ s[2] = receiver /\ s[3] = k
    BY DEF Stakes
  <2> HIDE DEF s
  <2>2. delband'[s] = delband[s] - part[k] /\ delband[s] \in Int /\ part[k] \in Int
    BY <1>1, <2>1
  <2>3. delband'[s] # delband[s]
    BY <1>5, <2>2
  <2>4. QED
    BY <2>1, <2>3
<1>6. QED
  BY <1>3, <1>4, <1>5

LEMMA UnstakeToRexKeeps ==
  ASSUME RexInv, NEW owner \in Users, NEW receiver \in Users,
         NEW from_cpu \in Int, NEW from_net \in Int,
         UnstakeToRex(owner, receiver, from_cpu, from_net)
  PROVE  Follows
<1> DEFINE t == Tables
           payment == from_cpu + from_net
           part == [k \in Kinds |-> IF k = "cpu" THEN from_cpu ELSE from_net]
           received == RexReceived(pool, payment)
           P == AddToRexPool(pool, payment)
           W == [w \in Users \X Kinds |->
                    IF w[1] = receiver THEN weight[w] - part[w[2]] ELSE weight[w]]
           moved == Move(t, StakeAccount, RexAccount, payment)
           paid == [moved EXCEPT !.pool = P, !.weight = W]
           bought == AddToRexBalance(paid, owner, payment, received)
           run == RunRex(bought, 2)
           u == UpdateRexAccount(run, owner, 0, 0)
<1>1. /\ payment \in Nat \ {0} /\ CanAddToRexPool(pool, payment)
      /\ part \in [Kinds -> Nat] /\ part["cpu"] + part["net"] = payment
      /\ \A k \in Kinds : part[k] <= delband[<<owner, receiver, k>>]
      /\ delband' = [s \in Stakes |-> IF s[1] = owner /\ s[2] = receiver
                                      THEN delband[s] - part[s[3]] ELSE delband[s]]
  <2>1. \A s \in Stakes : s[3] \in Kinds
    BY DEF Stakes
  <2>2. Kinds = {"cpu", "net"}
    BY UsersAssumption
  <2>3. QED
    BY <2>1, <2>2 DEF UnstakeToRex
<1>2. Commit(u)
  <2>1. [w \in Users \X Kinds |->
            IF w[1] = receiver THEN weight[w] - (IF w[2] = "cpu" THEN from_cpu ELSE from_net)
            ELSE weight[w]] = W
    <3>1. \A w \in Users \X Kinds : w[2] \in Kinds
      OBVIOUS
    <3>2. QED
      BY <3>1
  <2> HIDE DEF W
  <2>2. QED
    BY <2>1 DEF UnstakeToRex
<1>3. /\ delband \in [Stakes -> Nat] /\ delband' \in [Stakes -> Nat]
      /\ \A w \in Users \X Kinds :
            /\ DelegatedTo(w) \in Int
            /\ DelegatedTo(w)' = DelegatedTo(w) - (IF w[1] = receiver THEN part[w[2]] ELSE 0)
      /\ \E s \in Stakes : delband'[s] # delband[s]
  <2>1. delband \in [Stakes -> Nat]
    BY InvHas
  <2>2. "cpu" \in Kinds /\ "net" \in Kinds
    BY UsersAssumption
  <2>3. part["cpu"] # 0 \/ part["net"] # 0
    BY <1>1, <2>2
  <2> HIDE DEF part
  <2>4. /\ delband' \in [Stakes -> Nat]
        /\ \A w \in Users \X Kinds :
              /\ DelegatedTo(w) \in Int
              /\ DelegatedTo(w)' = DelegatedTo(w) - (IF w[1] = receiver THEN part[w[2]] ELSE 0)
        /\ \A k \in Kinds : part[k] # 0 => \E s \in Stakes : delband'[s] # delband[s]
    BY <1>1, <2>1, UnstakedIs
  <2>5. QED
    BY <2>1, <2>2, <2>3, <2>4
<1>4. /\ RexTablesInv(t) /\ t \in RexTables /\ Gap(t) = 0 /\ NameBidsHeld(t) /\ t = Tables
      /\ t.pool = pool /\ t.weight = weight /\ t.bal[NamesAccount] \in Nat
      /\ t.bal[RexAccount] \in Nat
      /\ \A w \in Users \X Kinds : OwnWeight(t, w) = DelegatedTo(w)
  BY InvHas, TablesAre, AccountsApart DEF RexInv
<1> HIDE DEF t, payment, part
<1>5. P \in Pool /\ PoolTokens(P) = PoolTokens(t.pool) + payment
  <2>1. t.pool \in Pool \cup {NoRow}
        /\ (t.pool # NoRow => /\ t.pool.lendable = t.pool.lent + t.pool.unlent
                              /\ t.pool.rex = 0 => t.pool.lendable = 0)
    BY <1>4, TablesHave, FieldTypes DEF PoolAgrees
  <2>2. CanAddToRexPool(t.pool, payment) /\ P = AddToRexPool(t.pool, payment)
        /\ payment \in Nat \ {0}
    BY <1>1, <1>4
  <2> HIDE DEF P
  <2>3. QED
    BY <2>1, <2>2, PurchaseBound
<1>6. P = AddToRexPool(t.pool, payment) /\ received = RexReceived(t.pool, payment)
  BY <1>4
<1> HIDE DEF P, received
<1>7. W \in [Users \X Kinds -> Int]
      /\ \A w \in Users \X Kinds :
            W[w] = t.weight[w] - (IF w[1] = receiver THEN part[w[2]] ELSE 0)
  <2>1. \A w \in Users \X Kinds : weight[w] \in Int /\ w[2] \in Kinds
    BY <1>4, FieldTypes
  <2>2. \A k \in Kinds : part[k] \in Int
    BY <1>1
  <2>3. \A w \in Users \X Kinds : /\ W[w] \in Int
                                  /\ W[w] = weight[w] - (IF w[1] = receiver THEN part[w[2]] ELSE 0)
    BY <2>1, <2>2
  <2>4. W = [w \in Users \X Kinds |-> W[w]]
    OBVIOUS
  <2> HIDE DEF W
  <2>5. QED
    BY <1>4, <2>3, <2>4, Zenon
<1> HIDE DEF W
<1>8. /\ moved \in RexTables
      /\ moved.pool = t.pool /\ moved.held = t.held /\ moved.order = t.order
      /\ moved.queue = t.queue /\ moved.loans = t.loans /\ moved.staked = t.staked
      /\ moved.fund = t.fund
      /\ moved.bal[RexAccount] = t.bal[RexAccount] + payment
      /\ moved.bal[NamesAccount] = t.bal[NamesAccount]
      /\ Gap(moved) = Gap(t) + (moved.bal[RexAccount] - t.bal[RexAccount])
  <2>1. /\ StakeAccount \in Holders /\ RexAccount \in Holders /\ StakeAccount # RexAccount
        /\ NamesAccount \in Holders \ {StakeAccount, RexAccount}
        /\ payment \in Int /\ t \in RexTables
    BY <1>1, <1>4, AccountsApart
  <2>2. QED
    BY <2>1, MoveIs
<1> HIDE DEF moved
<1>9. /\ paid \in RexTables /\ paid.pool = P /\ paid.weight = W /\ paid.fund = moved.fund
      /\ paid.held = t.held /\ paid.order = t.order /\ paid.queue = t.queue
      /\ paid.loans = t.loans /\ paid.staked = t.staked /\ paid.bal = moved.bal
  BY <1>5, <1>7, <1>8 DEF RexTables
<1> HIDE DEF paid
<1>10. Gap(paid) = 0
  <2>1. Funds(paid) = Funds(moved) /\ Balances(paid) = Balances(moved) /\ Proceeds(paid) = Proceeds(moved)
    BY <1>8, <1>9, SameSums
  <2>2. /\ Funds(moved) \in Int /\ Proceeds(moved) \in Int /\ Balances(moved) \in Int
        /\ PoolTokens(moved.pool) \in Int /\ moved.bal[RexAccount] \in Int
    BY <1>8, SumTypes, FieldTypes, AccountsApart
  <2>3. Gap(paid) = Gap(moved) - payment
    BY <1>1, <1>5, <1>8, <1>9, <2>1, <2>2 DEF Gap
  <2>4. QED
    BY <1>1, <1>4, <1>8, <2>3
<1>11. \A w \in Users \X Kinds : OwnWeight(paid, w) = DelegatedTo(w)'
  <2> SUFFICES ASSUME NEW w \in Users \X Kinds PROVE OwnWeight(paid, w) = DelegatedTo(w)'
    OBVIOUS
  <2> DEFINE d == IF w[1] = receiver THEN part[w[2]] ELSE 0
  <2>1. d \in Int
    BY <1>1
  <2>2. paid.weight[w] = t.weight[w] - d /\ t.weight[w] \in Int
    BY <1>4, <1>7, <1>9, FieldTypes
  <2>3. Rented(paid, w) = Rented(t, w) /\ Rented(t, w) \in Int
    BY <1>4, <1>9, SameSums, SumTypes
  <2>4. DelegatedTo(w)' = DelegatedTo(w) - d /\ OwnWeight(t, w) = DelegatedTo(w)
    BY <1>3, <1>4
  <2> HIDE DEF d
  <2>5. QED
    BY <2>1, <2>2, <2>3, <2>4 DEF OwnWeight
<1>12. /\ RexTablesInv(run) /\ run \in RexTables
       /\ Gap(run) = Gap(paid)
       /\ \A w \in Users \X Kinds : OwnWeight(run, w) = OwnWeight(paid, w)
       /\ PriceHolds(t.pool, run.pool)
       /\ NameBidsHeld(run)
  <2>1. /\ CanAddToRexPool(t.pool, payment) /\ paid.pool = AddToRexPool(t.pool, payment)
        /\ payment \in Nat \ {0}
        /\ bought = AddToRexBalance(paid, owner, payment, RexReceived(t.pool, payment))
        /\ paid.bal[NamesAccount] = t.bal[NamesAccount]
    BY <1>1, <1>4, <1>6, <1>8, <1>9
  <2>2. run = RunRex(bought, 2)
    OBVIOUS
  <2> HIDE DEF bought, run
  <2>3. QED
    BY <1>4, <1>9, <2>1, <2>2, PurchaseKeeps
<1> HIDE DEF bought, run
<1>13. /\ u \in RexTables /\ u.pool = run.pool /\ u.bal = run.bal
       /\ Gap(u) = Gap(run) - 0
       /\ \A w \in Users \X Kinds : OwnWeight(u, w) = OwnWeight(run, w)
  BY <1>12, UpdateRexAccountIs
<1>14. RexTablesInv(u)
  BY <1>12, UpdateRexAccountKeeps
<1> HIDE DEF u
<1>15. Gap(u) = 0
  BY <1>10, <1>12, <1>13
<1>16. Tables' = u /\ pool' = u.pool
  BY <1>2, <1>13, CommitIs DEF Commit
<1>17. TypeOK'
  BY <1>2, <1>3, <1>13, CommitKeepsType
<1>18. RexInv'
  <2>1. RexTablesInv(Tables)' /\ (Gap(Tables) = 0)'
    BY <1>14, <1>15, <1>16
  <2>2. NameBidsHeld(Tables)'
    BY <1>12, <1>13, <1>16 DEF NameBidsHeld
  <2>3. (\A w \in Users \X Kinds : OwnWeight(Tables, w) = DelegatedTo(w))'
    BY <1>11, <1>12, <1>13, <1>16
  <2>4. QED
    BY <1>17, <2>1, <2>2, <2>3 DEF RexInv
<1>19. PriceStep
  BY <1>4, <1>12, <1>13, <1>16 DEF PriceHolds, PriceStep
<1>20. VoteStep
  BY <1>3 DEF VoteStep
<1>21. QED
  BY <1>18, <1>19, <1>20 DEF Follows
-----------------------------------------------------------------------------
(* A day passes                                                            *)

\* The buckets of a share a day later.
Shifted(g) == [d \in Days |-> IF d = 0 THEN g[0] + g[1]
                              ELSE IF d = Maturity THEN 0 ELSE g[d + 1]]

LEMMA ShiftedIs ==
  ASSUME NEW g \in [Days -> Nat]
  PROVE  /\ Shifted(g) \in [Days -> Nat]
         /\ SumOver(Shifted(g), Days) = SumOver(g, Days)
<1> DEFINE s == Shifted(g)
           T == {n \in Nat : n < Maturity =>
                    FromDay(s, Maturity - n) = FromDay(g, Maturity - n + 1)}
<1>0. Days = 0 .. Maturity /\ Maturity \in Nat \ {0} /\ 0 \in Days /\ 1 \in Days
      /\ Maturity \in Days
  BY AmountsAssumption DEF Days
<1>1. \A d \in Days : g[d] \in Nat
  OBVIOUS
<1>2. /\ s[0] = g[0] + g[1] /\ s[Maturity] = 0
      /\ \A d \in 1 .. Maturity - 1 : s[d] = g[d + 1]
  BY <1>0 DEF Shifted
<1>3. s \in [Days -> Nat]
  <2>1. ASSUME NEW d \in Days PROVE s[d] \in Nat
    BY <1>0, <1>1 DEF Shifted
  <2>2. s = [d \in Days |-> s[d]]
    BY DEF Shifted
  <2> HIDE DEF s
  <2>3. QED
    BY <2>1, <2>2
<1> HIDE DEF s
<1>4. FromDay(s, Maturity + 1) = 0 /\ FromDay(g, Maturity + 1) = 0
  BY <1>3, FromDayIs
<1>5. 0 \in T
  <2>1. FromDay(s, Maturity) = s[Maturity] + FromDay(s, Maturity + 1)
    BY <1>0, <1>3, FromDayIs
  <2>2. Maturity - 0 = Maturity
    BY <1>0
  <2>3. FromDay(s, Maturity - 0) = FromDay(g, Maturity - 0 + 1)
    BY <1>2, <1>4, <2>1, <2>2
  <2>4. QED
    BY <2>3
<1>6. ASSUME NEW n \in Nat, n \in T PROVE n + 1 \in T
  <2> SUFFICES ASSUME n + 1 < Maturity
               PROVE  FromDay(s, Maturity - (n + 1)) = FromDay(g, Maturity - (n + 1) + 1)
    OBVIOUS
  <2> DEFINE d == Maturity - (n + 1)
  <2>1. d \in 1 .. Maturity - 1 /\ d \in Days /\ d + 1 \in Days
        /\ Maturity - n = d + 1 /\ Maturity - n + 1 = (d + 1) + 1
    BY <1>0
  <2>2. FromDay(s, d + 1) = FromDay(g, (d + 1) + 1)
    BY <1>0, <1>6, <2>1
  <2> HIDE DEF d
  <2>3. FromDay(s, d) = s[d] + FromDay(s, d + 1)
    BY <1>3, <2>1, FromDayIs
  <2>4. FromDay(g, d + 1) = g[d + 1] + FromDay(g, (d + 1) + 1)
    BY <2>1, FromDayIs
  <2>5. FromDay(s, d) = FromDay(g, d + 1)
    BY <1>2, <2>1, <2>2, <2>3, <2>4
  <2>6. QED
    BY <2>5 DEF d
<1>7. T = Nat
  <2>1. T \in SUBSET Nat
    OBVIOUS
  <2> HIDE DEF T
  <2>2. QED
    BY <1>5, <1>6, <2>1, SetInduction
<1>8. FromDay(s, 1) = FromDay(g, 2)
  <2> DEFINE n == Maturity - 1
  <2>1. n \in Nat /\ n < Maturity /\ Maturity - n = 1 /\ Maturity - n + 1 = 2
    BY <1>0
  <2> HIDE DEF n
  <2>2. n \in T
    BY <1>7, <2>1
  <2>3. FromDay(s, Maturity - n) = FromDay(g, Maturity - n + 1)
    BY <2>1, <2>2
  <2>4. QED
    BY <2>1, <2>3
<1>9. FromDay(s, 0) = FromDay(g, 0)
  <2>1. FromDay(s, 0) = s[0] + FromDay(s, 1)
    <3>1. FromDay(s, 0) = s[0] + FromDay(s, 0 + 1)
      BY <1>0, <1>3, FromDayIs
    <3>2. QED
      BY <3>1
  <2>2. FromDay(g, 0) = g[0] + FromDay(g, 1) /\ FromDay(g, 1) = g[1] + FromDay(g, 2)
    <3>1. FromDay(g, 0) = g[0] + FromDay(g, 0 + 1) /\ FromDay(g, 1) = g[1] + FromDay(g, 1 + 1)
      BY <1>0, FromDayIs
    <3>2. 0 + 1 = 1 /\ 1 + 1 = 2
      OBVIOUS
    <3>3. QED
      BY <3>1, <3>2
  <2>3. FromDay(g, 2) \in Nat /\ g[0] \in Nat /\ g[1] \in Nat
    BY <1>0, FromDayIs
  <2>4. QED
    BY <1>2, <1>8, <2>1, <2>2, <2>3
<1>10. SumOver(s, Days) = SumOver(g, Days)
  BY <1>3, <1>9, FromDayIs
<1>11. QED
  BY <1>3, <1>10 DEF s

\* A share, a loan, a day later.
Older(h)   == IF h = NoRow THEN NoRow ELSE [h EXCEPT !.growing = Shifted(h.growing)]
Nearer(l)  == IF l = NoRow THEN NoRow ELSE [l EXCEPT !.left = l.left - 1]

LEMMA OlderIs ==
  ASSUME NEW h \in Share \cup {NoRow}
  PROVE  /\ Older(h) \in Share \cup {NoRow} /\ (Older(h) = NoRow <=> h = NoRow)
         /\ RexIn(Older(h)) = RexIn(h)
         /\ BucketsAdd(h) => BucketsAdd(Older(h))
         /\ h # NoRow => Older(h).matured = h.matured /\ Older(h).vote_stake = h.vote_stake
<1>1. CASE h = NoRow
  BY <1>1 DEF Older
<1>2. CASE h # NoRow
  <2> DEFINE g == Shifted(h.growing)
             k == Older(h)
  <2>1. h \in Share /\ h.growing \in [Days -> Nat]
    BY <1>2, ShareFields
  <2>2. g \in [Days -> Nat] /\ SumOver(g, Days) = SumOver(h.growing, Days)
    BY <2>1, ShiftedIs
  <2>3. k = [h EXCEPT !.growing = g]
    BY <1>2 DEF Older
  <2> HIDE DEF g, k
  <2>4. /\ k \in Share /\ k.growing = g /\ k.rex = h.rex /\ k.matured = h.matured
        /\ k.savings = h.savings /\ k.vote_stake = h.vote_stake
    BY <2>1, <2>2, <2>3 DEF Share
  <2>5. k # NoRow
    BY <2>4, NoRowApart
  <2>6. BucketsAdd(h) => BucketsAdd(k)
    BY <2>1, <2>2, <2>4, BucketsAre
  <2>7. RexIn(k) = RexIn(h)
    BY <1>2, <2>4, <2>5 DEF RexIn
  <2>8. QED
    BY <1>2, <2>4, <2>5, <2>6, <2>7 DEF k
<1>3. QED
  BY <1>1, <1>2

LEMMA NearerIs ==
  ASSUME NEW l \in Loan \cup {NoRow}, l # NoRow => l.left > -MaxLate
  PROVE  /\ Nearer(l) \in Loan \cup {NoRow} /\ (Nearer(l) = NoRow <=> l = NoRow)
         /\ StakedIn(Nearer(l)) = StakedIn(l) /\ BalanceIn(Nearer(l)) = BalanceIn(l)
         /\ \A w : RentedIn(Nearer(l), w) = RentedIn(l, w)
         /\ LoanGood(l) => LoanGood(Nearer(l))
<1>1. CASE l = NoRow
  BY <1>1 DEF Nearer
<1>2. CASE l # NoRow
  <2> DEFINE d == l.left - 1
             k == Nearer(l)
  <2>1. l \in Loan
    BY <1>2
  <2>2. d \in -MaxLate .. Term
    <3>1. l.left \in -MaxLate .. Term /\ l.left > -MaxLate
      BY <1>2, <2>1 DEF Loan
    <3>2. QED
      BY <3>1, AmountsAssumption
  <2>3. k = [l EXCEPT !.left = d]
    BY <1>2 DEF Nearer
  <2> HIDE DEF d, k
  <2>4. /\ k \in Loan /\ k.staked = l.staked /\ k.balance = l.balance /\ k.payment = l.payment
        /\ k.receiver = l.receiver /\ k.kind = l.kind
    BY <2>1, <2>2, <2>3 DEF Loan
  <2>5. k # NoRow
    BY <2>4, NoRowApart
  <2>6. /\ StakedIn(k) = StakedIn(l) /\ BalanceIn(k) = BalanceIn(l)
        /\ \A w : RentedIn(k, w) = RentedIn(l, w)
        /\ LoanGood(l) => LoanGood(k)
    BY <1>2, <2>4, <2>5 DEF StakedIn, BalanceIn, RentedIn, LoanGood
  <2>7. QED
    BY <1>2, <2>4, <2>5, <2>6 DEF k
<1>3. QED
  BY <1>1, <1>2

\* The tables a day later.
DayLater(t) == [t EXCEPT !.held = [a \in Users |-> Older(t.held[a])],
                         !.loans = [n \in LoanNums |-> Nearer(t.loans[n])]]

LEMMA DayLaterLawful ==
  ASSUME NEW t, RexTablesInv(t), NameBidsHeld(t),
         \A n \in LoanNums : t.loans[n] # NoRow => t.loans[n].left > -MaxLate
  PROVE  Lawful(t, DayLater(t))
<1> DEFINE u == DayLater(t)
           H == [a \in Users |-> Older(t.held[a])]
           L == [n \in LoanNums |-> Nearer(t.loans[n])]
<1>1. /\ t \in RexTables
      /\ \A a \in Users : t.held[a] \in Share \cup {NoRow}
      /\ \A n \in LoanNums : t.loans[n] \in Loan \cup {NoRow}
  BY TablesHave, FieldTypes
<1>2. H \in [Users -> Share \cup {NoRow}]
  <2>1. \A a \in Users : Older(t.held[a]) \in Share \cup {NoRow}
    BY <1>1, OlderIs
  <2>2. QED
    BY <2>1
<1>3. L \in [LoanNums -> Loan \cup {NoRow}]
  <2>1. \A n \in LoanNums : Nearer(t.loans[n]) \in Loan \cup {NoRow}
    BY <1>1, NearerIs
  <2>2. QED
    BY <2>1
<1>4. u = [t EXCEPT !.held = H, !.loans = L]
  BY DEF DayLater
<1>5. /\ \A a \in Users : H[a] = Older(t.held[a])
      /\ \A n \in LoanNums : L[n] = Nearer(t.loans[n])
  OBVIOUS
<1> HIDE DEF u, H, L
<1>6. /\ u \in RexTables /\ u.held = H /\ u.loans = L /\ u.pool = t.pool /\ u.fund = t.fund
      /\ u.order = t.order /\ u.queue = t.queue /\ u.weight = t.weight /\ u.staked = t.staked
      /\ u.bal = t.bal
  BY <1>1, <1>2, <1>3, <1>4 DEF RexTables
<1>7. \A a \in Users :
         /\ u.held[a] = NoRow <=> t.held[a] = NoRow
         /\ RexIn(u.held[a]) = RexIn(t.held[a])
         /\ BucketsAdd(t.held[a]) => BucketsAdd(u.held[a])
         /\ t.held[a] # NoRow => /\ u.held[a].matured = t.held[a].matured
                                 /\ u.held[a].vote_stake = t.held[a].vote_stake
  BY <1>1, <1>5, <1>6, OlderIs
<1>8. \A n \in LoanNums :
         /\ u.loans[n] = NoRow <=> t.loans[n] = NoRow
         /\ StakedIn(u.loans[n]) = StakedIn(t.loans[n])
         /\ BalanceIn(u.loans[n]) = BalanceIn(t.loans[n])
         /\ \A w : RentedIn(u.loans[n], w) = RentedIn(t.loans[n], w)
         /\ LoanGood(t.loans[n]) => LoanGood(u.loans[n])
  BY <1>1, <1>5, <1>6, NearerIs
<1>9. Shares(u) = Shares(t)
  BY <1>7 DEF Shares
<1>10. Lent(u) = Lent(t) /\ Balances(u) = Balances(t)
  BY <1>8 DEF Lent, Balances
<1>11. \A w : Rented(u, w) = Rented(t, w)
  BY <1>8 DEF Rented
<1>12. RexTablesInv(u)
  <2>1. Unopened(u)
    <3>1. Unopened(t)
      BY TablesHave
    <3>2. \A a \in Users : t.held[a] = NoRow => u.held[a] = NoRow
      BY <1>7
    <3>3. \A n \in LoanNums : t.loans[n] = NoRow => u.loans[n] = NoRow
      BY <1>8
    <3>4. QED
      BY <1>6, <3>1, <3>2, <3>3 DEF Unopened
  <2>2. PoolAgrees(u)
    BY <1>6, <1>9, <1>10, TablesHave DEF PoolAgrees
  <2>3. LoansNumbered(u)
    BY <1>6, <1>8, TablesHave DEF LoansNumbered
  <2>4. RowsGood(u)
    BY <1>6, <1>7, TablesHave DEF RowsGood, OrderCovered
  <2>5. QueueAgrees(u)
    BY <1>6, TablesHave DEF QueueAgrees, IsOpen
  <2>6. QED
    BY <1>6, <2>1, <2>2, <2>3, <2>4, <2>5 DEF RexTablesInv
<1>13. Gap(u) = Gap(t)
  <2>1. Funds(u) = Funds(t) /\ Proceeds(u) = Proceeds(t)
    BY <1>6, SameSums
  <2>2. QED
    BY <1>6, <1>10, <2>1 DEF Gap
<1>14. \A w \in Users \X Kinds : OwnWeight(u, w) = OwnWeight(t, w)
  BY <1>6, <1>11 DEF OwnWeight
<1>15. NameBidsHeld(u)
  BY <1>6 DEF NameBidsHeld
<1>16. PriceHolds(t.pool, u.pool)
  BY <1>6, SamePrice
<1>17. VotesFollow(t, u)
  BY <1>6, <1>7 DEF VotesFollow, VotesOff, VoteStake, IsClosed
<1>18. QED
  BY <1>12, <1>13, <1>14, <1>15, <1>16, <1>17 DEF Lawful, u

LEMMA TickKeeps ==
  ASSUME RexInv, Tick
  PROVE  Follows
<1> DEFINE t == Tables
           u == DayLater(t)
<1>1. RexTablesInv(t) /\ NameBidsHeld(t)
  BY InvHas
<1>2. \A n \in LoanNums : t.loans[n] # NoRow => t.loans[n].left > -MaxLate
  BY TablesAre DEF Tick
<1>3. Lawful(t, u)
  <2> HIDE DEF t
  <2>1. QED
    BY <1>1, <1>2, DayLaterLawful
<1>4. /\ u.held = [a \in Users |-> Older(held[a])]
      /\ u.loans = [n \in LoanNums |-> Nearer(loans[n])]
      /\ u.pool = pool /\ u.fund = fund /\ u.order = order /\ u.queue = queue
      /\ u.weight = weight /\ u.staked = staked /\ u.bal = bal
  BY DEF DayLater, Tables
<1>5. held' = u.held
  <2>1. held' = [a \in Users |-> Older(held[a])]
    BY DEF Tick, Older, Shifted
  <2>2. QED
    BY <1>4, <2>1
<1>6. loans' = u.loans
  <2>1. loans' = [n \in LoanNums |-> Nearer(loans[n])]
    BY DEF Tick, Nearer
  <2>2. QED
    BY <1>4, <2>1
<1> HIDE DEF u
<1>7. Acceptable(u)
  <2>1. /\ weight \in [Users \X Kinds -> Nat] /\ staked \in [Users -> Nat]
        /\ bal \in [Holders -> Nat]
    BY DEF RexInv, TypeOK
  <2>2. QED
    BY <1>4, <2>1 DEF Acceptable
<1>8. Commit(u) /\ UNCHANGED delband
  BY <1>4, <1>5, <1>6, <1>7 DEF Commit, Tick
<1>9. QED
  BY <1>3, <1>8, CommitKeeps DEF Follows
-----------------------------------------------------------------------------
(* The invariant                                                           *)

LEMMA InitKeeps == Init => RexInv
<1> SUFFICES ASSUME Init PROVE RexInv
  OBVIOUS
<1> DEFINE t == Tables
<1>1. /\ pool = NoRow /\ fund = [a \in Users |-> 0] /\ held = [a \in Users |-> NoRow]
      /\ order = [a \in Users |-> NoRow] /\ queue = <<>> /\ loans = [n \in LoanNums |-> NoRow]
      /\ bal = Liquid /\ delband = Delegated
  BY DEF Init
<1>2. \A s \in Stakes : Delegated[s] \in Nat
  BY AmountsAssumption
<1>3. weight = [w \in Users \X Kinds |-> DelegatedTo(w)]
  BY DEF Init, DelegatedTo
<1>4. \A w \in Users \X Kinds : DelegatedTo(w) \in Nat
  <2> SUFFICES ASSUME NEW w \in Users \X Kinds PROVE DelegatedTo(w) \in Nat
    OBVIOUS
  <2> DEFINE f == [b \in Users |-> delband[<<b, w[1], w[2]>>]]
  <2>1. \A b \in Users : <<b, w[1], w[2]>> \in Stakes
    BY DEF Stakes
  <2>2. \A b \in Users : f[b] \in Nat
    BY <1>1, <1>2, <2>1
  <2> HIDE DEF f
  <2>3. SumOver(f, Users) \in Nat
    BY <2>2, SetsFinite, SumOverNat
  <2>4. QED
    BY <2>3 DEF DelegatedTo, f
<1>5. staked \in [Users -> Nat]
  <2>1. ASSUME NEW a \in Users
        PROVE  SumOver([s \in Stakes |-> IF s[1] = a THEN Delegated[s] ELSE 0], Stakes) \in Nat
    <3> DEFINE f == [s \in Stakes |-> IF s[1] = a THEN Delegated[s] ELSE 0]
    <3>1. \A s \in Stakes : f[s] \in Nat
      BY <1>2
    <3> HIDE DEF f
    <3>2. SumOver(f, Stakes) \in Nat
      BY <3>1, StakesFinite, SumOverNat
    <3>3. QED
      BY <3>2 DEF f
  <2>2. QED
    BY <2>1 DEF Init
<1>6. weight \in [Users \X Kinds -> Nat]
  BY <1>3, <1>4
<1>7. bal \in [Holders -> Nat] /\ bal[RexAccount] = 0
  BY <1>1, AmountsAssumption
<1>8. TypeOK
  <2>1. /\ fund \in [Users -> Nat] /\ held \in [Users -> Share \cup {NoRow}]
        /\ order \in [Users -> Order \cup {NoRow}] /\ queue \in Seq(Users)
        /\ loans \in [LoanNums -> Loan \cup {NoRow}] /\ pool \in Pool \cup {NoRow}
    BY <1>1
  <2>2. delband \in [Stakes -> Nat]
    BY <1>1, AmountsAssumption
  <2>3. QED
    BY <1>5, <1>6, <1>7, <2>1, <2>2 DEF TypeOK
<1>9. t \in RexTables
  <2>1. /\ weight \in [Users \X Kinds -> Int] /\ staked \in [Users -> Int] /\ bal \in [Holders -> Int]
    BY <1>5, <1>6, <1>7
  <2>2. QED
    BY <1>8, <2>1 DEF TypeOK, RexTables, Tables
<1>10. /\ t.pool = NoRow /\ t.fund = [a \in Users |-> 0] /\ t.queue = <<>> /\ t.weight = weight
       /\ t.bal = bal
       /\ \A a \in Users : t.held[a] = NoRow /\ t.order[a] = NoRow
       /\ \A n \in LoanNums : t.loans[n] = NoRow
  BY <1>1, TablesAre
<1> HIDE DEF t
<1>11. Funds(t) = 0 /\ Proceeds(t) = 0
  <2> DEFINE f == [a \in Users |-> ProceedsIn(t.order[a])]
             g == t.fund
  <2>1. \A a \in Users : f[a] \in Nat /\ f[a] = 0 /\ g[a] \in Nat /\ g[a] = 0
    BY <1>10 DEF ProceedsIn
  <2> HIDE DEF f, g
  <2>2. SumOver(f, Users) = 0 /\ SumOver(g, Users) = 0
    BY <2>1, SetsFinite, SumOverNat
  <2>3. QED
    BY <2>2 DEF Funds, Proceeds, f, g
<1>12. Balances(t) = 0
  <2> DEFINE f == [n \in LoanNums |-> BalanceIn(t.loans[n])]
  <2>1. \A n \in LoanNums : f[n] \in Nat /\ f[n] = 0
    BY <1>10 DEF BalanceIn
  <2> HIDE DEF f
  <2>2. SumOver(f, LoanNums) = 0
    BY <2>1, SetsFinite, SumOverNat
  <2>3. QED
    BY <2>2 DEF Balances, f
<1>13. ASSUME NEW w \in Users \X Kinds PROVE OwnWeight(t, w) = DelegatedTo(w)
  <2> DEFINE f == [n \in LoanNums |-> RentedIn(t.loans[n], w)]
  <2>1. \A n \in LoanNums : f[n] \in Nat /\ f[n] = 0
    BY <1>10 DEF RentedIn
  <2> HIDE DEF f
  <2>2. SumOver(f, LoanNums) = 0
    BY <2>1, SetsFinite, SumOverNat
  <2>3. Rented(t, w) = 0
    BY <2>2 DEF Rented, f
  <2>4. t.weight[w] = DelegatedTo(w) /\ DelegatedTo(w) \in Nat
    BY <1>3, <1>4, <1>10
  <2>5. QED
    BY <2>3, <2>4 DEF OwnWeight
<1>14. Gap(t) = 0
  BY <1>7, <1>10, <1>11, <1>12 DEF Gap, PoolTokens
<1>15. RexTablesInv(t)
  <2>1. Unopened(t) /\ PoolAgrees(t)
    BY <1>10 DEF Unopened, PoolAgrees
  <2>2. LoansNumbered(t) /\ RowsGood(t)
    BY <1>10 DEF LoansNumbered, LoanGood, RowsGood, BucketsAdd, OrderCovered
  <2>3. QueueAgrees(t)
    BY <1>10 DEF QueueAgrees, IsOpen
  <2>4. QED
    BY <1>9, <2>1, <2>2, <2>3 DEF RexTablesInv
<1>16. NameBidsHeld(t)
  BY <1>10 DEF NameBidsHeld
<1>17. QED
  BY <1>8, <1>13, <1>14, <1>15, <1>16 DEF RexInv, t

\* A step that changes nothing.
LEMMA StutterKeeps ==
  ASSUME RexInv, UNCHANGED vars
  PROVE  Follows
<1>1. Tables' = Tables /\ UNCHANGED delband
  BY DEF vars, Tables
<1>2. Lawful(Tables, Tables)
  BY LawfulSelf
<1>3. Commit(Tables)
  <2>1. /\ weight \in [Users \X Kinds -> Nat] /\ staked \in [Users -> Nat]
        /\ bal \in [Holders -> Nat]
    BY DEF RexInv, TypeOK
  <2>2. Acceptable(Tables)
    BY <2>1, TablesAre DEF Acceptable
  <2>3. QED
    BY <2>2, TablesAre DEF Commit, vars
<1>4. QED
  BY <1>1, <1>2, <1>3, CommitKeeps DEF Follows

LEMMA LendKeeps ==
  ASSUME RexInv, NEW a \in Users, Lend(a)
  PROVE  Follows
<1>1. ASSUME NEW q \in Quantities["buy"], BuyRex(a, q) PROVE Follows
  <2>1. q \in Int
    BY AmountTypes DEF Sorts
  <2>2. QED
    BY <1>1, <2>1, BuyRexKeeps
<1>2. ASSUME NEW q \in Quantities["sell"], SellRex(a, q) PROVE Follows
  <2>1. q \in Int
    BY AmountTypes DEF Sorts
  <2>2. QED
    BY <1>2, <2>1, SellRexKeeps
<1>3. ASSUME NEW q \in Quantities["save"], MvToSavings(a, q) \/ MvFrSavings(a, q) PROVE Follows
  <2>1. q \in Int
    BY AmountTypes DEF Sorts
  <2>2. CASE MvToSavings(a, q)
    BY <2>1, <2>2, MvToSavingsKeeps
  <2>3. CASE MvFrSavings(a, q)
    BY <2>1, <2>3, MvFrSavingsKeeps
  <2>4. QED
    BY <1>3, <2>2, <2>3
<1>4. ASSUME NEW to \in Users, NEW q \in Quantities["unstake"], NEW p \in Quantities["unstake"],
             UnstakeToRex(a, to, q, p)
      PROVE  Follows
  <2>1. q \in Int /\ p \in Int
    BY AmountTypes DEF Sorts
  <2>2. QED
    BY <1>4, <2>1, UnstakeToRexKeeps
<1>5. CASE CancelRexOrder(a)
  BY <1>5, CancelRexOrderKeeps
<1>6. CASE UpdateRex(a)
  BY <1>6, UpdateRexKeeps
<1>7. CASE Consolidate(a)
  BY <1>7, ConsolidateKeeps
<1>8. CASE CloseRex(a)
  BY <1>8, CloseRexKeeps
<1>9. QED
  BY <1>1, <1>2, <1>3, <1>4, <1>5, <1>6, <1>7, <1>8 DEF Lend

LEMMA BorrowKeeps ==
  ASSUME RexInv, NEW a \in Users, Borrow(a)
  PROVE  Follows
<1>1. ASSUME NEW to \in Users, NEW kind \in Kinds, NEW q \in Quantities["rent"],
             NEW p \in Quantities["fund"], Rent(a, to, kind, q, p)
      PROVE  Follows
  <2>1. q \in Int /\ p \in Int
    BY AmountTypes DEF Sorts
  <2>2. QED
    BY <1>1, <2>1, RentKeeps
<1>2. ASSUME NEW n \in LoanNums, NEW q \in Quantities["fund"], FundLoan(a, n, q) \/ DefundLoan(a, n, q)
      PROVE  Follows
  <2>1. q \in Int
    BY AmountTypes DEF Sorts
  <2>2. CASE FundLoan(a, n, q)
    BY <2>1, <2>2, FundLoanKeeps
  <2>3. CASE DefundLoan(a, n, q)
    BY <2>1, <2>3, DefundLoanKeeps
  <2>4. QED
    BY <1>2, <2>2, <2>3
<1>3. QED
  BY <1>1, <1>2 DEF Borrow

LEMMA TransactKeeps ==
  ASSUME RexInv, NEW a \in Users, Transact(a)
  PROVE  Follows
<1>1. ASSUME NEW q \in Quantities["deposit"], Deposit(a, q) PROVE Follows
  <2>1. q \in Int
    BY AmountTypes DEF Sorts
  <2>2. QED
    BY <1>1, <2>1, DepositKeeps
<1>2. ASSUME NEW q \in Quantities["withdraw"], Withdraw(a, q) PROVE Follows
  <2>1. q \in Int
    BY AmountTypes DEF Sorts
  <2>2. QED
    BY <1>2, <2>1, WithdrawKeeps
<1>3. CASE Lend(a)
  BY <1>3, LendKeeps
<1>4. CASE Borrow(a)
  BY <1>4, BorrowKeeps
<1>5. ASSUME NEW q \in Quantities["fee"], ChannelFee(a, q) PROVE Follows
  <2>1. q \in Int
    BY AmountTypes DEF Sorts
  <2>2. QED
    BY <1>5, <2>1, ChannelFeeKeeps
<1>6. CASE UpdateVoteStake(a)
  BY <1>6, UpdateVoteStakeKeeps
<1>7. QED
  BY <1>1, <1>2, <1>3, <1>4, <1>5, <1>6 DEF Transact

LEMMA NextKeeps ==
  ASSUME RexInv, [Next]_vars
  PROVE  Follows
<1>1. ASSUME NEW a \in Users, Transact(a) PROVE Follows
  BY <1>1, TransactKeeps
<1>2. ASSUME NEW q \in Quantities["bid"], ChannelNameBid(q) PROVE Follows
  <2>1. q \in Int
    BY AmountTypes DEF Sorts
  <2>2. QED
    BY <1>2, <2>1, ChannelNameBidKeeps
<1>3. ASSUME NEW q \in Quantities["price"], SetRex(q) PROVE Follows
  <2>1. q \in Int
    BY AmountTypes DEF Sorts
  <2>2. QED
    BY <1>3, <2>1, SetRexKeeps
<1>4. ASSUME NEW max \in 0 .. 2, RexExec(max) PROVE Follows
  BY <1>4, RexExecKeeps
<1>5. CASE Tick
  BY <1>5, TickKeeps
<1>6. CASE UNCHANGED vars
  BY <1>6, StutterKeeps
<1>7. QED
  BY <1>1, <1>2, <1>3, <1>4, <1>5, <1>6 DEF Next

LEMMA RexInvHolds == Spec => []RexInv
<1>1. RexInv /\ [Next]_vars => RexInv'
  BY NextKeeps DEF Follows
<1>2. QED
  BY <1>1, InitKeeps, PTL DEF Spec
-----------------------------------------------------------------------------
(* The properties                                                          *)

\* What the properties say of the rows, as columns of the tables.
LEMMA ColumnsAre ==
  /\ Lent(Tables) = SumLoans(LAMBDA n : loans[n].staked)
  /\ Balances(Tables) = SumLoans(LAMBDA n : loans[n].balance)
  /\ Shares(Tables) = SumUsers(LAMBDA a : IF held[a] = NoRow THEN 0 ELSE held[a].rex)
  /\ Proceeds(Tables) = SumUsers(LAMBDA a : IF order[a] = NoRow THEN 0 ELSE order[a].proceeds)
  /\ Funds(Tables) = SumOver(fund, Users)
<1>1. Lent(Tables) = SumLoans(LAMBDA n : loans[n].staked)
  BY DEF Lent, StakedIn, SumLoans, Tables
<1>2. Balances(Tables) = SumLoans(LAMBDA n : loans[n].balance)
  BY DEF Balances, BalanceIn, SumLoans, Tables
<1>3. Shares(Tables) = SumUsers(LAMBDA a : IF held[a] = NoRow THEN 0 ELSE held[a].rex)
  BY DEF Shares, RexIn, SumUsers, Tables
<1>4. Proceeds(Tables) = SumUsers(LAMBDA a : IF order[a] = NoRow THEN 0 ELSE order[a].proceeds)
  BY DEF Proceeds, ProceedsIn, SumUsers, Tables
<1>5. Funds(Tables) = SumOver(fund, Users)
  BY DEF Funds, Tables
<1>6. QED
  BY <1>1, <1>2, <1>3, <1>4, <1>5

\* Every table of rex.cpp keeps its type whatever the actions do: no fund, share, loan, weight
\* or balance is ever negative, and no more of the pool is lent or sold than is unlent.
THEOREM RexTypeCorrect == Spec => []TypeOK
<1>1. RexInv => TypeOK
  BY DEF RexInv
<1>2. QED
  BY <1>1, RexInvHolds, PTL

\* The totals of the pool are the sums of the shares and of the loans, and a pool without
\* REX is empty, through buyrex, sellrex, rents, renewals and the maintenance in any order.
THEOREM PoolMatchesLoansCorrect == Spec => []PoolMatchesLoans
<1>1. RexInv => PoolMatchesLoans
  <2> SUFFICES ASSUME RexInv PROVE PoolMatchesLoans
    OBVIOUS
  <2>1. PoolAgrees(Tables)
    BY InvHas, TablesHave
  <2>2. pool # NoRow =>
           /\ pool.lendable = pool.lent + pool.unlent
           /\ pool.lent = Lent(Tables)
           /\ pool.rex = Shares(Tables)
           /\ pool.rex = 0 => pool.lendable = 0
    BY <2>1, TablesAre DEF PoolAgrees
  <2>3. QED
    BY <2>2, ColumnsAre DEF PoolMatchesLoans
<1>2. QED
  BY <1>1, RexInvHolds, PTL

\* What eosio.rex holds is what it owes: the pool, the funds, the balances of the loans and
\* the proceeds of filled orders, to the last token.
THEOREM RexCustodyCorrect == Spec => []RexCustody
<1>1. RexInv => RexCustody
  <2> SUFFICES ASSUME RexInv PROVE RexCustody
    OBVIOUS
  <2> DEFINE t == Tables
             b == t.bal[RexAccount]
  <2>1. t \in RexTables /\ Gap(t) = 0 /\ t.pool = pool /\ b = bal[RexAccount]
    BY InvHas, TablesAre
  <2>2. b \in Int
    BY <2>1, FieldTypes, AccountsApart
  <2>3. Gap(t) = b - PoolTokens(pool) - Funds(t) - Balances(t) - Proceeds(t)
    BY <2>1 DEF Gap
  <2>4. /\ PoolTokens(t.pool) \in Int /\ Funds(t) \in Int /\ Balances(t) \in Int
        /\ Proceeds(t) \in Int
    <3> HIDE DEF t
    <3>1. QED
      BY <2>1, SumTypes
  <2> HIDE DEF t, b
  <2>5. bal[RexAccount] = PoolTokens(pool) + Funds(t) + Balances(t) + Proceeds(t)
    <3> DEFINE i == PoolTokens(pool)
               j == Funds(t)
               k == Balances(t)
               m == Proceeds(t)
    <3>1. /\ i \in Int /\ j \in Int /\ k \in Int /\ m \in Int
          /\ 0 = b - i - j - k - m
      BY <2>1, <2>3, <2>4
    <3> HIDE DEF i, j, k, m
    <3>2. b = i + j + k + m
      BY <2>2, <3>1
    <3>3. QED
      BY <2>1, <3>2 DEF i, j, k, m
  <2>6. /\ Funds(t) = SumOver(fund, Users)
        /\ Balances(t) = SumLoans(LAMBDA n : loans[n].balance)
        /\ Proceeds(t) = SumUsers(LAMBDA a : IF order[a] = NoRow THEN 0 ELSE order[a].proceeds)
    BY ColumnsAre DEF t
  <2>7. PoolTokens(pool) = IF pool = NoRow THEN 0 ELSE pool.unlent + pool.lent
    BY DEF PoolTokens
  <2>8. QED
    BY <2>5, <2>6, <2>7 DEF RexCustody
<1>2. QED
  BY <1>1, RexInvHolds, PTL

\* The weights of userres are what is delegated and what is rented, of each kind.
THEOREM WeightsMatchLoansCorrect == Spec => []WeightsMatchLoans
<1>1. RexInv => WeightsMatchLoans
  <2> SUFFICES ASSUME RexInv, NEW a \in Users, NEW k \in Kinds
               PROVE  weight[<<a, k>>] =
                         SumUsers(LAMBDA b : delband[<<b, a, k>>])
                         + SumLoans(LAMBDA n : IF loans[n].receiver = a /\ loans[n].kind = k
                                               THEN loans[n].staked ELSE 0)
    BY DEF WeightsMatchLoans
  <2> DEFINE w == <<a, k>>
             t == Tables
  <2>1. w \in Users \X Kinds /\ w[1] = a /\ w[2] = k
    OBVIOUS
  <2>2. DelegatedTo(w) = SumUsers(LAMBDA b : delband[<<b, a, k>>])
    BY DEF DelegatedTo, SumUsers
  <2>3. Rented(t, w) = SumLoans(LAMBDA n : IF loans[n].receiver = a /\ loans[n].kind = k
                                           THEN loans[n].staked ELSE 0)
    BY DEF Rented, RentedIn, SumLoans, Tables
  <2>4. t \in RexTables /\ OwnWeight(t, w) = DelegatedTo(w) /\ t.weight = weight
    BY <2>1, InvHas, TablesAre DEF RexInv
  <2> HIDE DEF t, w
  <2>5. t.weight[w] \in Int /\ Rented(t, w) \in Int
    BY <2>1, <2>4, FieldTypes, SumTypes
  <2>6. weight[w] = DelegatedTo(w) + Rented(t, w)
    BY <2>4, <2>5 DEF OwnWeight
  <2>7. QED
    BY <2>2, <2>3, <2>6 DEF w
<1>2. QED
  BY <1>1, RexInvHolds, PTL

\* What open orders ask for is there and mature, the buckets of each share add up to its REX,
\* and the queue holds each open order once.
THEOREM OrdersCoveredCorrect == Spec => []OrdersCovered
<1>1. RexInv => OrdersCovered
  <2> SUFFICES ASSUME RexInv PROVE OrdersCovered
    OBVIOUS
  <2>1. RowsGood(Tables) /\ QueueAgrees(Tables)
    BY InvHas, TablesHave
  <2>2. \A a \in Users : BucketsAdd(held[a]) /\ OrderCovered(order[a], held[a])
    BY <2>1, TablesAre DEF RowsGood
  <2>3. \A a \in Users : IsOpen(Tables, a) <=> order[a] # NoRow /\ order[a].is_open
    BY TablesAre DEF IsOpen
  <2>4. {queue[i] : i \in DOMAIN queue} = {a \in Users : IsOpen(Tables, a)}
    <3>1. \A i \in DOMAIN queue : queue[i] \in Users
      BY DEF RexInv, TypeOK
    <3>2. /\ \A i \in DOMAIN queue : IsOpen(Tables, queue[i])
          /\ \A a \in Users : IsOpen(Tables, a) => \E i \in DOMAIN queue : queue[i] = a
      BY <2>1, TablesAre DEF QueueAgrees
    <3>3. QED
      BY <3>1, <3>2
  <2>5. \A i, j \in DOMAIN queue : queue[i] = queue[j] => i = j
    BY <2>1, TablesAre DEF QueueAgrees
  <2>6. QED
    BY <2>2, <2>3, <2>4, <2>5 DEF OrdersCovered, BucketsAdd, OrderCovered
<1>2. QED
  BY <1>1, RexInvHolds, PTL

\* runrex passes all of its checks and inline transfers, whatever loans, orders and name
\* bids are due, so that no action is ever blocked by it.
THEOREM MaintenanceSucceedsCorrect == Spec => []MaintenanceSucceeds
<1>1. RexInv => MaintenanceSucceeds
  <2> SUFFICES ASSUME RexInv, pool # NoRow PROVE Acceptable(RunRex(Tables, 2))
    BY DEF MaintenanceSucceeds
  <2>1. QED
    BY MaintenanceAcceptable
<1>2. QED
  BY <1>1, RexInvHolds, PTL

\* No action makes a REX worth less to those who hold it, whatever is rounded on the way.
THEOREM PriceNeverFallsCorrect == Spec => PriceNeverFalls
<1>1. RexInv /\ [Next]_vars => PriceStep
  BY NextKeeps DEF Follows
<1>2. PriceNeverFalls <=> [][PriceStep]_vars
  BY DEF PriceNeverFalls, PriceStep
<1>3. QED
  BY <1>1, <1>2, RexInvHolds, PTL DEF Spec

\* Votes follow the vote stake of shares, through purchases, sales, orders that others fill
\* and revaluations, as long as nothing is unstaked to REX and no share is closed.
THEOREM VoteStakeFollowedCorrect == Spec => VoteStakeFollowed
<1>1. RexInv /\ [Next]_vars => VoteStep
  BY NextKeeps DEF Follows
<1>2. VoteStakeFollowed <=> [][VoteStep]_vars
  BY DEF VoteStakeFollowed, VoteStep
<1>3. QED
  BY <1>1, <1>2, RexInvHolds, PTL DEF Spec
=============================================================================
