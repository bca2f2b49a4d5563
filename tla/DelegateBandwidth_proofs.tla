----------------------- MODULE DelegateBandwidth_proofs -----------------------
(***************************************************************************)
(* Proofs about DelegateBandwidth for every finite set of accounts and of  *)
(* resources, every amount and every delay.  That eosio.stake's balance    *)
(* covers what it owes is inductive by itself; that no refund comes early  *)
(* needs to know that a row of refunds is never older than its owner's     *)
(* last undelegation, and that eosio.stake, whose own undelegations leave  *)
(* the refunds alone, never has such a row.                                *)
(***************************************************************************)
EXTENDS DelegateBandwidth, FiniteSetTheorems, Sums_proofs

\* A row of refunds dates from its owner's last undelegation, or later.
RefundsDated ==
    /\ \A a \in Accounts : requested[a] <= quiet[a]
    /\ requested[StakeAccount] = 0
    /\ \A r \in Res : refund[<<StakeAccount, r>>] = 0

IInv == TypeOK /\ StakeCustody /\ RefundsDated
-----------------------------------------------------------------------------
\* The tables have finitely many rows, so that they have totals.
LEMMA TablesFinite == IsFiniteSet(Stakes) /\ IsFiniteSet(Accounts \X Res)
<1>1. IsFiniteSet(Accounts \X Res) /\ IsFiniteSet(Accounts \X (Accounts \X Res))
  BY AccountsAssumption, FS_Product
<1> DEFINE P == Accounts \X (Accounts \X Res)
           f == [p \in P |-> <<p[1], p[2][1], p[2][2]>>]
<1>2. f \in Surjection(P, Stakes)
  <2>1. f \in [P -> Stakes]
    BY DEF Stakes
  <2>2. ASSUME NEW s \in Stakes PROVE \E p \in P : f[p] = s
    <3> DEFINE p == <<s[1], <<s[2], s[3]>> >>
    <3>1. p \in P /\ f[p] = s
      BY <2>2 DEF Stakes
    <3>2. QED
      BY <3>1
  <2>3. QED
    BY <2>1, <2>2 DEF Surjection
<1>3. QED
  BY <1>1, <1>2, FS_Surjection

\* A transfer takes the amount from one account and gives it to the other.
LEMMA PayMoves ==
  ASSUME bal \in [Accounts -> Nat], NEW from \in Accounts, NEW to \in Accounts,
         NEW amount \in Nat, Pay(from, to, amount)
  PROVE  /\ bal' \in [Accounts -> Nat]
         /\ bal'[from] = bal[from] - amount
         /\ bal'[to] = bal[to] + amount
         /\ \A a \in Accounts \ {from, to} : bal'[a] = bal[a]
  BY DEF Pay

\* What a stake changes in a table of one row per resource, it changes in the
\* total of the table.
LEMMA DelbandTotal ==
  ASSUME delband \in [Stakes -> Int], NEW from \in Accounts, NEW receiver \in Accounts,
         NEW delta \in Amounts
  PROVE  SumOver(NewDelband(from, receiver, delta), Stakes)
            = SumOver(delband, Stakes) + SumOver(delta, Res)
<1> DEFINE e == [r \in Res |-> <<from, receiver, r>>]
           h == NewDelband(from, receiver, delta)
<1>1. IsFiniteSet(Stakes) /\ IsFiniteSet(Res)
  BY TablesFinite, AccountsAssumption
<1>2. e \in [Res -> Stakes] /\ \A x, y \in Res : e[x] = e[y] => x = y
  BY DEF Stakes
<1>3. \A r \in Res : h[e[r]] = delband[e[r]] + delta[r]
  BY DEF NewDelband, Stakes
<1>4. ASSUME NEW s \in Stakes, \A r \in Res : e[r] # s PROVE h[s] = delband[s]
  <2>1. ~ (s[1] = from /\ s[2] = receiver)
    <3> SUFFICES ASSUME s[1] = from, s[2] = receiver PROVE FALSE
      OBVIOUS
    <3>1. s[3] \in Res /\ s = <<from, receiver, s[3]>>
      BY DEF Stakes
    <3>2. QED
      BY <1>4, <3>1
  <2>2. QED
    BY <2>1 DEF NewDelband
<1>5. (\A r \in Res : delta[r] \in Int) /\ \A s \in Stakes : delband[s] \in Int
  BY DEF Amounts
<1> HIDE DEF e, h
<1>6. SumOver(h, Stakes) = SumOver(delband, Stakes) + SumOver(delta, Res)
  BY <1>1, <1>2, <1>3, <1>4, <1>5, SumOverSlice
<1>7. QED
  BY <1>6 DEF h

\* The refunds, when those of a change by d.
NewRefund(a, d) ==
    [s \in Accounts \X Res |-> IF s[1] = a THEN refund[s] + d[s[2]] ELSE refund[s]]

\* The same of the refunds of one account.
LEMMA RefundTotal ==
  ASSUME refund \in [Accounts \X Res -> Int], NEW a \in Accounts, NEW d \in Amounts
  PROVE  SumOver(NewRefund(a, d), Accounts \X Res)
            = SumOver(refund, Accounts \X Res) + SumOver(d, Res)
<1> DEFINE T == Accounts \X Res
           e == [r \in Res |-> <<a, r>>]
           h == NewRefund(a, d)
<1>1. IsFiniteSet(T) /\ IsFiniteSet(Res)
  BY TablesFinite, AccountsAssumption
<1>2. e \in [Res -> T] /\ \A x, y \in Res : e[x] = e[y] => x = y
  OBVIOUS
<1>3. \A r \in Res : h[e[r]] = refund[e[r]] + d[r]
  BY DEF NewRefund
<1>4. ASSUME NEW s \in T, \A r \in Res : e[r] # s PROVE h[s] = refund[s]
  <2>1. s[1] # a
    <3> SUFFICES ASSUME s[1] = a PROVE FALSE
      OBVIOUS
    <3>1. s[2] \in Res /\ s = <<a, s[2]>>
      OBVIOUS
    <3>2. QED
      BY <1>4, <3>1
  <2>2. QED
    BY <2>1 DEF NewRefund
<1>5. (\A r \in Res : d[r] \in Int) /\ \A s \in T : refund[s] \in Int
  BY DEF Amounts
<1> HIDE DEF e, h, T
<1>6. SumOver(h, T) = SumOver(refund, T) + SumOver(d, Res)
  <2>1. /\ \A r \in Res : d[r] \in Int
        /\ \A s \in T : refund[s] \in Int
        /\ \A s \in T : (\A r \in Res : e[r] # s) => h[s] = refund[s]
    BY <1>4, <1>5
  <2>2. QED
    BY <1>1, <1>2, <1>3, <2>1, SumOverSlice
<1>7. QED
  BY <1>6 DEF h, T
-----------------------------------------------------------------------------
\* The refund part of changebw: what a stake is paid with, from the refund, the
\* balance or eosio.stake's own tokens, is what the stake grows by.
LEMMA UpdateRefundMoves ==
  ASSUME TypeOK, NEW from \in Accounts, NEW payer \in Accounts, NEW delta \in Amounts,
         NEW offsets \in BOOLEAN, Sum2(delta) < 0 => offsets,
         UpdateRefund(from, payer, delta, offsets)
  PROVE  /\ bal' \in [Accounts -> Nat]
         /\ refund' \in [Accounts \X Res -> Nat]
         /\ requested' \in [Accounts -> 0 .. Delay]
         /\ deferred' \in [Accounts -> (0 .. Delay) \cup {NotQueued}]
         /\ spare' \in Int
         /\ bal'[StakeAccount] - SumOver(refund', Accounts \X Res) - spare'
               = bal[StakeAccount] - SumOver(refund, Accounts \X Res) - spare + Sum2(delta)
         /\ \A a \in Accounts \ {StakeAccount} : bal'[a] <= bal[a]
<1> DEFINE W == SumOver(refund, Accounts \X Res)
           W1 == SumOver(refund', Accounts \X Res)
<1>1. /\ StakeAccount \in Accounts
      /\ IsFiniteSet(Res)
      /\ IsFiniteSet(Accounts \X Res)
      /\ Delay \in Nat
  BY AccountsAssumption, AmountsAssumption, TablesFinite
<1>2. /\ bal \in [Accounts -> Nat]
      /\ refund \in [Accounts \X Res -> Nat]
      /\ requested \in [Accounts -> 0 .. Delay]
      /\ deferred \in [Accounts -> (0 .. Delay) \cup {NotQueued}]
      /\ spare \in Int
  BY DEF TypeOK
<1>3. \A r \in Res : delta[r] \in Int
  BY DEF Amounts
<1>4. Sum2(delta) \in Int
  BY <1>1, <1>3, SumOverType DEF Sum2
<1>5. W \in Int
  <2> DEFINE T == Accounts \X Res
  <2>1. IsFiniteSet(T) /\ \A s \in T : refund[s] \in Int
    BY <1>1, <1>2
  <2> HIDE DEF T
  <2>2. SumOver(refund, T) \in Int
    BY <2>1, SumOverType
  <2>3. QED
    BY <2>2 DEF T
<1>6. CASE payer = StakeAccount
  <2>1. UNCHANGED <<bal, refund, requested, deferred>> /\ spare' = spare - Sum2(delta)
    BY <1>6 DEF UpdateRefund
  <2>2. W1 = W
    BY <2>1
  <2> HIDE DEF W, W1
  <2>3. bal'[StakeAccount] - W1 - spare' = bal[StakeAccount] - W - spare + Sum2(delta)
    BY <1>1, <1>2, <1>4, <1>5, <2>1, <2>2
  <2>4. QED
    BY <1>2, <1>4, <2>1, <2>3 DEF W, W1
<1>7. CASE payer # StakeAccount
  <2> DEFINE left(r) == IF offsets THEN LeftInRefund(from, delta, r) ELSE refund[<<from, r>>]
             u == [r \in Res |-> Uncovered(from, delta, r)]
             d == [r \in Res |-> left(r) - refund[<<from, r>>]]
             due == IF offsets THEN Sum2(u) ELSE Sum2(delta)
             remains == \E r \in Res : left(r) > 0
  <2>1. /\ refund' = [s \in Accounts \X Res |->
                         IF s[1] = from THEN left(s[2]) ELSE refund[s]]
        /\ requested' = [requested EXCEPT ![from] =
               IF ~ remains \/ (offsets /\ RestartsClock(from, delta)) THEN 0 ELSE @]
        /\ deferred' = [deferred EXCEPT ![from] =
               IF offsets /\ remains THEN 0 ELSE NotQueued]
        /\ IF due > 0 THEN Pay(payer, StakeAccount, due) ELSE UNCHANGED bal
        /\ UNCHANGED spare
    BY <1>7 DEF UpdateRefund
  <2>2. ASSUME NEW r \in Res
        PROVE  /\ refund[<<from, r>>] \in Nat
               /\ left(r) \in Nat
    <3>1. refund[<<from, r>>] \in Nat
      BY <1>2
    <3>2. LeftInRefund(from, delta, r) \in Nat
      <4> DEFINE n == refund[<<from, r>>] - delta[r]
      <4>1. n \in Int
        BY <1>3, <3>1
      <4> HIDE DEF n
      <4>2. AtLeastZero(n) \in Nat
        BY <4>1 DEF AtLeastZero
      <4>3. QED
        BY <4>2 DEF LeftInRefund, n
    <3>3. QED
      BY <3>1, <3>2
  <2>3. ASSUME NEW r \in Res
        PROVE  /\ u[r] \in Nat
               /\ offsets => u[r] = delta[r] + d[r]
               /\ ~ offsets => d[r] = 0
    <3> DEFINE x == refund[<<from, r>>]
               y == delta[r]
    <3>1. x \in Nat /\ y \in Int
      BY <1>3, <2>2
    <3>2. /\ u[r] = AtLeastZero(y - x)
          /\ offsets => d[r] = AtLeastZero(x - y) - x
          /\ ~ offsets => d[r] = x - x
      BY DEF Uncovered, LeftInRefund
    <3> HIDE DEF x, y, u, d
    <3>3. QED
      BY <3>1, <3>2 DEF AtLeastZero, y
  <2>4. ASSUME NEW r \in Res PROVE d[r] \in Int
    <3>1. left(r) \in Nat /\ refund[<<from, r>>] \in Nat
      BY <2>2
    <3> HIDE DEF left
    <3>2. QED
      BY <3>1
  <2>5. d \in Amounts
    BY <2>4 DEF Amounts
  <2>6. refund' = NewRefund(from, d)
    <3>1. ASSUME NEW s \in Accounts \X Res, s[1] = from
          PROVE  left(s[2]) = refund[s] + d[s[2]]
      <4>1. s[2] \in Res /\ s = <<from, s[2]>>
        BY <3>1
      <4>2. left(s[2]) \in Nat /\ refund[<<from, s[2]>>] \in Nat
        BY <2>2, <4>1
      <4>3. d[s[2]] = left(s[2]) - refund[<<from, s[2]>>]
        BY <4>1
      <4> HIDE DEF left, d
      <4>4. QED
        BY <4>1, <4>2, <4>3
    <3> HIDE DEF left, d
    <3>2. QED
      BY <2>1, <3>1 DEF NewRefund
  <2>7. /\ refund' \in [Accounts \X Res -> Nat]
        /\ requested' \in [Accounts -> 0 .. Delay]
        /\ deferred' \in [Accounts -> (0 .. Delay) \cup {NotQueued}]
    <3>1. refund' \in [Accounts \X Res -> Nat]
      BY <1>2, <2>1, <2>2
    <3>2. 0 \in 0 .. Delay
      BY <1>1
    <3> HIDE DEF left, remains
    <3>3. QED
      BY <1>2, <2>1, <3>1, <3>2
  <2>8. W1 = W + SumOver(d, Res)
    <3>1. refund \in [Accounts \X Res -> Int]
      BY <1>2
    <3> HIDE DEF d
    <3>2. QED
      BY <2>5, <2>6, <3>1, RefundTotal
  <2> HIDE DEF left, d, u, remains, W, W1
  <2>9. SumOver(d, Res) \in Int
    BY <1>1, <2>4, SumOverType
  <2>10. due \in Nat /\ due = Sum2(delta) + SumOver(d, Res)
    <3>1. CASE offsets
      <4>1. Sum2(u) \in Nat
        BY <1>1, <2>3, SumOverNat DEF Sum2
      <4>2. Sum2(u) = Sum2(delta) + SumOver(d, Res)
        BY <1>1, <1>3, <2>3, <2>4, <3>1, SumOverAdd DEF Sum2
      <4>3. QED
        BY <3>1, <4>1, <4>2
    <3>2. CASE ~ offsets
      <4>1. SumOver(d, Res) = 0
        BY <1>1, <2>3, <3>2, SumOverNat
      <4>2. Sum2(delta) >= 0
        BY <1>4, <3>2
      <4>3. QED
        BY <1>4, <3>2, <4>1, <4>2
    <3>3. QED
      BY <3>1, <3>2
  <2> HIDE DEF due
  <2>11. /\ bal' \in [Accounts -> Nat]
         /\ bal'[StakeAccount] = bal[StakeAccount] + due
         /\ \A a \in Accounts \ {StakeAccount} : bal'[a] <= bal[a]
    <3>1. CASE due > 0
      <4>1. Pay(payer, StakeAccount, due)
        BY <2>1, <3>1
      <4>2. /\ bal' \in [Accounts -> Nat]
            /\ bal'[payer] = bal[payer] - due
            /\ bal'[StakeAccount] = bal[StakeAccount] + due
            /\ \A a \in Accounts \ {payer, StakeAccount} : bal'[a] = bal[a]
        BY <1>1, <1>2, <2>10, <4>1, PayMoves
      <4>3. QED
        BY <1>2, <2>10, <4>2
    <3>2. CASE ~ due > 0
      <4>1. due = 0 /\ bal' = bal
        BY <2>1, <2>10, <3>2
      <4>2. QED
        BY <1>1, <1>2, <4>1
    <3>3. QED
      BY <3>1, <3>2
  <2>12. bal'[StakeAccount] - W1 - spare' = bal[StakeAccount] - W - spare + Sum2(delta)
    <3>1. bal[StakeAccount] \in Nat /\ spare' = spare
      BY <1>1, <1>2, <2>1
    <3>2. QED
      BY <1>2, <1>4, <1>5, <2>8, <2>9, <2>10, <2>11, <3>1
  <2>13. QED
    BY <1>2, <2>1, <2>7, <2>11, <2>12 DEF W, W1
<1>8. QED
  BY <1>6, <1>7

\* changebw keeps the types and eosio.stake's balance, whichever way a stake
\* goes; eosio.stake is the only account whose balance it raises, and it gives
\* eosio.stake no refunds.
LEMMA ChangeBwKeeps ==
  ASSUME IInv, NEW source \in Accounts, NEW receiver \in Accounts,
         NEW delta \in Amounts, NEW transfer \in BOOLEAN,
         Sum2(delta) < 0 => ~ transfer,
         ChangeBw(source, receiver, delta, transfer)
  PROVE  /\ bal' \in [Accounts -> Nat]
         /\ delband' \in [Stakes -> Nat]
         /\ totals' \in [Accounts \X Res -> Nat]
         /\ refund' \in [Accounts \X Res -> Nat]
         /\ requested' \in [Accounts -> 0 .. Delay]
         /\ deferred' \in [Accounts -> (0 .. Delay) \cup {NotQueued}]
         /\ staked' \in [Accounts -> Nat]
         /\ signer' \in Accounts
         /\ spare' \in Int
         /\ StakeCustody'
         /\ \A a \in Accounts \ {StakeAccount} : bal'[a] <= bal[a]
         /\ \A r \in Res : refund'[<<StakeAccount, r>>] = 0
         /\ \A a \in Accounts : requested'[a] <= requested[a]
<1> DEFINE from == IF transfer THEN receiver ELSE source
           offsets == Offsets(from, receiver, delta, transfer)
<1>1. /\ StakeAccount \in Accounts
      /\ IsFiniteSet(Res)
      /\ Delay \in Nat
      /\ from \in Accounts
  BY AccountsAssumption, AmountsAssumption
<1>2. /\ bal \in [Accounts -> Nat]
      /\ delband \in [Stakes -> Nat]
      /\ totals \in [Accounts \X Res -> Nat]
      /\ refund \in [Accounts \X Res -> Nat]
      /\ requested \in [Accounts -> 0 .. Delay]
      /\ staked \in [Accounts -> Nat]
      /\ spare \in Int
      /\ TypeOK
  BY DEF IInv, TypeOK
<1>3. \A r \in Res : delta[r] \in Int
  BY DEF Amounts
<1>4. Sum2(delta) \in Int
  BY <1>1, <1>3, SumOverType DEF Sum2
<1>5. /\ delband' = NewDelband(from, receiver, delta)
      /\ \A s \in Stakes : delband'[s] >= 0
      /\ totals' = NewTotals(from, receiver, delta)
      /\ \A s \in Accounts \X Res : totals'[s] >= 0
      /\ UpdateRefund(from, source, delta, offsets)
      /\ staked' = [staked EXCEPT ![from] = @ + Sum2(delta)]
      /\ staked'[from] >= 0
      /\ signer' = source
  BY DEF ChangeBw
<1>6. /\ offsets \in BOOLEAN
      /\ Sum2(delta) < 0 => offsets
      /\ transfer => ~ offsets
      /\ ~ transfer => from = source
  BY DEF Offsets
<1> HIDE DEF from, offsets
<1>7. /\ bal' \in [Accounts -> Nat]
      /\ refund' \in [Accounts \X Res -> Nat]
      /\ requested' \in [Accounts -> 0 .. Delay]
      /\ deferred' \in [Accounts -> (0 .. Delay) \cup {NotQueued}]
      /\ spare' \in Int
      /\ bal'[StakeAccount] - SumOver(refund', Accounts \X Res) - spare'
            = bal[StakeAccount] - SumOver(refund, Accounts \X Res) - spare + Sum2(delta)
      /\ \A a \in Accounts \ {StakeAccount} : bal'[a] <= bal[a]
  BY <1>1, <1>2, <1>5, <1>6, UpdateRefundMoves
<1>8. delband' \in [Stakes -> Nat]
  <2>1. \A s \in Stakes : s[3] \in Res
    BY DEF Stakes
  <2>2. delband' \in [Stakes -> Int]
    BY <1>2, <1>3, <1>5, <2>1 DEF NewDelband
  <2>3. QED
    BY <1>5, <2>2
<1>9. totals' \in [Accounts \X Res -> Nat]
  <2>1. totals' \in [Accounts \X Res -> Int]
    BY <1>2, <1>3, <1>5 DEF NewTotals
  <2>2. QED
    BY <1>5, <2>1
<1>10. staked' \in [Accounts -> Nat]
  BY <1>1, <1>2, <1>4, <1>5
<1>11. StakeCustody'
  <2>1. delband \in [Stakes -> Int]
    BY <1>2
  <2>2. SumOver(delband', Stakes) = SumOver(delband, Stakes) + Sum2(delta)
    BY <1>1, <1>5, <2>1, DelbandTotal DEF Sum2
  <2> DEFINE D == SumOver(delband, Stakes)
             D1 == SumOver(delband', Stakes)
             W == SumOver(refund, Accounts \X Res)
             W1 == SumOver(refund', Accounts \X Res)
             S == Sum2(delta)
  <2>3. D \in Int /\ W \in Int /\ W1 \in Int
    <3> DEFINE T == Accounts \X Res
    <3>1. /\ IsFiniteSet(Stakes) /\ IsFiniteSet(T)
          /\ \A s \in Stakes : delband[s] \in Int
          /\ \A s \in T : refund[s] \in Int /\ refund'[s] \in Int
      BY <1>2, <1>7, <2>1, TablesFinite
    <3> HIDE DEF T
    <3>2. /\ SumOver(delband, Stakes) \in Int
          /\ SumOver(refund, T) \in Int
          /\ SumOver(refund', T) \in Int
      BY <3>1, SumOverType
    <3>3. QED
      BY <3>2 DEF T
  <2>4. bal[StakeAccount] = D + W + spare
    BY DEF IInv, StakeCustody
  <2>5. bal'[StakeAccount] - W1 - spare' = bal[StakeAccount] - W - spare + S
    BY <1>7
  <2>6. bal[StakeAccount] \in Int /\ bal'[StakeAccount] \in Int
    BY <1>1, <1>2, <1>7
  <2>7. S \in Int /\ D1 = D + S /\ spare \in Int /\ spare' \in Int
    BY <1>2, <1>4, <1>7, <2>2
  <2> HIDE DEF D, D1, W, W1, S
  <2>8. bal'[StakeAccount] = D1 + W1 + spare'
    BY <2>3, <2>4, <2>5, <2>6, <2>7
  <2>9. QED
    BY <2>8 DEF StakeCustody, D1, W1
<1>12. /\ \A r \in Res : refund'[<<StakeAccount, r>>] = 0
       /\ \A a \in Accounts : requested'[a] <= requested[a]
  <2>1. \A r \in Res : refund[<<StakeAccount, r>>] = 0
    BY DEF IInv, RefundsDated
  <2>2. CASE source = StakeAccount
    <3>1. UNCHANGED <<refund, requested>>
      BY <1>5, <2>2 DEF UpdateRefund
    <3>2. QED
      BY <1>2, <2>1, <3>1
  <2>3. CASE source # StakeAccount
    <3> DEFINE left(r) == IF offsets THEN LeftInRefund(from, delta, r) ELSE refund[<<from, r>>]
               kept == ~ ((~ \E r \in Res : left(r) > 0)
                             \/ (offsets /\ RestartsClock(from, delta)))
    <3>1. /\ refund' = [s \in Accounts \X Res |->
                           IF s[1] = from THEN left(s[2]) ELSE refund[s]]
          /\ requested' = [requested EXCEPT ![from] = IF ~ kept THEN 0 ELSE @]
      BY <1>5, <2>3 DEF UpdateRefund
    <3>2. from = StakeAccount => ~ offsets
      BY <1>6, <2>3
    <3>3. ASSUME NEW r \in Res PROVE refund'[<<StakeAccount, r>>] = 0
      <4>1. refund'[<<StakeAccount, r>>] =
               IF StakeAccount = from THEN left(r) ELSE refund[<<StakeAccount, r>>]
        BY <1>1, <3>1
      <4>2. QED
        BY <2>1, <3>2, <4>1
    <3> HIDE DEF left, kept
    <3>4. \A a \in Accounts : requested'[a] <= requested[a]
      BY <1>1, <1>2, <3>1
    <3>5. QED
      BY <3>3, <3>4
  <2>4. QED
    BY <2>2, <2>3
<1>13. QED
  BY <1>5, <1>7, <1>8, <1>9, <1>10, <1>11, <1>12
-----------------------------------------------------------------------------
\* Nothing is staked at first, and eosio.stake may spare all it has.
LEMMA InitInv == Init => IInv
<1> SUFFICES ASSUME Init PROVE IInv
  OBVIOUS
<1>1. TypeOK
  <2>1. /\ Delay \in 0 .. Delay
        /\ 0 \in 0 .. Delay
        /\ Liquid[StakeAccount] \in Int
    BY AccountsAssumption, AmountsAssumption
  <2>2. /\ bal \in [Accounts -> Nat]
        /\ delband \in [Stakes -> Nat]
        /\ totals \in [Accounts \X Res -> Nat]
        /\ refund \in [Accounts \X Res -> Nat]
        /\ spare \in Int
    BY <2>1, AmountsAssumption DEF Init
  <2>3. /\ requested \in [Accounts -> 0 .. Delay]
        /\ deferred \in [Accounts -> (0 .. Delay) \cup {NotQueued}]
        /\ staked \in [Accounts -> Nat]
        /\ producer \in [Accounts -> {"none", "active", "inactive"}]
        /\ activated \in BOOLEAN
        /\ signer \in Accounts \cup {NotQueued}
        /\ quiet \in [Accounts -> 0 .. Delay]
    BY <2>1 DEF Init
  <2>4. QED
    BY <2>2, <2>3 DEF TypeOK
<1>2. StakeCustody
  <2> DEFINE T == Accounts \X Res
  <2>1. /\ IsFiniteSet(Stakes)
        /\ IsFiniteSet(T)
        /\ \A s \in Stakes : delband[s] \in Nat /\ delband[s] = 0
        /\ \A s \in T : refund[s] \in Nat /\ refund[s] = 0
    BY TablesFinite DEF Init
  <2> HIDE DEF T
  <2>2. SumOver(delband, Stakes) = 0 /\ SumOver(refund, T) = 0
    BY <2>1, SumOverNat
  <2>3. bal[StakeAccount] = spare /\ spare \in Int
    BY AccountsAssumption, AmountsAssumption DEF Init
  <2>4. QED
    BY <2>2, <2>3 DEF StakeCustody, T
<1>3. RefundsDated
  BY AccountsAssumption, AmountsAssumption DEF Init, RefundsDated
<1>4. QED
  BY <1>1, <1>2, <1>3 DEF IInv

\* delegatebw, from the sums that changebw keeps.
LEMMA DelegateInv ==
  ASSUME IInv, NEW a \in Accounts, NEW to \in Accounts, NEW q \in Quantities,
         NEW transfer \in BOOLEAN, DelegateBw(a, to, q, transfer)
  PROVE  IInv'
<1>1. /\ Sum2(q) > 0
      /\ ChangeBw(a, to, q, transfer)
      /\ UNCHANGED <<producer, activated, quiet>>
  BY DEF DelegateBw
<1>2. q \in Amounts
  BY AmountsAssumption
<1>3. Sum2(q) \in Int
  BY <1>2, AccountsAssumption, SumOverType DEF Sum2, Amounts
<1>4. Sum2(q) < 0 => ~ transfer
  BY <1>1, <1>3
<1> DEFINE Kept == /\ TypeOK' /\ StakeCustody'
                   /\ \A r \in Res : refund'[<<StakeAccount, r>>] = 0
                   /\ \A b \in Accounts : requested'[b] <= requested[b]
<1>5. Kept
  <2>1. /\ producer' \in [Accounts -> {"none", "active", "inactive"}]
        /\ activated' \in BOOLEAN
        /\ quiet' \in [Accounts -> 0 .. Delay]
    BY <1>1 DEF IInv, TypeOK
  <2>2. /\ bal' \in [Accounts -> Nat]
        /\ delband' \in [Stakes -> Nat]
        /\ totals' \in [Accounts \X Res -> Nat]
        /\ refund' \in [Accounts \X Res -> Nat]
        /\ requested' \in [Accounts -> 0 .. Delay]
        /\ deferred' \in [Accounts -> (0 .. Delay) \cup {NotQueued}]
        /\ staked' \in [Accounts -> Nat]
        /\ signer' \in Accounts
        /\ spare' \in Int
        /\ StakeCustody'
        /\ \A r \in Res : refund'[<<StakeAccount, r>>] = 0
        /\ \A b \in Accounts : requested'[b] <= requested[b]
    BY <1>1, <1>2, <1>4, ChangeBwKeeps
  <2>3. QED
    BY <2>1, <2>2 DEF TypeOK
<1>6. RefundsDated'
  <2>1. \A b \in Accounts : /\ requested[b] \in Nat /\ requested'[b] \in Nat
                            /\ quiet[b] \in Nat
                            /\ requested[b] <= quiet[b]
    BY <1>5, AmountsAssumption DEF IInv, TypeOK, RefundsDated
  <2>2. \A b \in Accounts : requested'[b] <= quiet'[b]
    BY <1>1, <1>5, <2>1
  <2>3. requested'[StakeAccount] = 0
    BY <1>5, <2>1, AccountsAssumption DEF IInv, RefundsDated
  <2>4. QED
    BY <1>5, <2>2, <2>3 DEF RefundsDated
<1>7. QED
  BY <1>5, <1>6 DEF IInv

\* Taking q away from a stake restarts the clock of the refund.
LEMMA NegatedTotal ==
  ASSUME NEW q \in Amounts, \A r \in Res : q[r] >= 0, Sum2(q) > 0
  PROVE  LET delta == [r \in Res |-> -q[r]]
         IN  /\ delta \in Amounts
             /\ Sum2(delta) < 0
             /\ \E r \in Res : delta[r] < 0
<1> DEFINE delta == [r \in Res |-> -q[r]]
           zero == [r \in Res |-> 0]
<1>1. IsFiniteSet(Res) /\ \A r \in Res : q[r] \in Int
  BY AccountsAssumption DEF Amounts
<1>2. \A r \in Res : /\ delta[r] \in Int
                     /\ zero[r] \in Nat /\ zero[r] = 0
                     /\ zero[r] = q[r] + delta[r]
  BY <1>1
<1>3. delta \in Amounts
  BY <1>2 DEF Amounts
<1>4. \E r \in Res : delta[r] < 0
  <2> SUFFICES ASSUME \A r \in Res : ~ (delta[r] < 0) PROVE FALSE
    OBVIOUS
  <2>1. \A r \in Res : q[r] \in Nat /\ q[r] = 0
    BY <1>1
  <2>2. SumOver(q, Res) = 0
    BY <1>1, <2>1, SumOverNat
  <2>3. QED
    BY <2>2 DEF Sum2
<1> HIDE DEF delta, zero
<1>5. SumOver(zero, Res) = SumOver(q, Res) + SumOver(delta, Res)
  BY <1>1, <1>2, SumOverAdd
<1>6. SumOver(zero, Res) = 0
  BY <1>1, <1>2, SumOverNat
<1>7. SumOver(q, Res) \in Int /\ SumOver(delta, Res) \in Int
  BY <1>1, <1>2, SumOverType
<1>8. Sum2(delta) < 0
  BY <1>5, <1>6, <1>7 DEF Sum2
<1>9. QED
  BY <1>3, <1>4, <1>8 DEF delta

\* undelegatebw, which also restarts the wait for its refund.
LEMMA UndelegateInv ==
  ASSUME IInv, NEW a \in Accounts, NEW to \in Accounts, NEW q \in Quantities,
         UndelegateBw(a, to, q)
  PROVE  IInv'
<1> DEFINE delta == [r \in Res |-> -q[r]]
<1>1. /\ \A r \in Res : q[r] >= 0
      /\ Sum2(q) > 0
      /\ producer' = IF staked[a] > FreeStake
                     THEN [producer EXCEPT ![a] = "inactive"] ELSE producer
      /\ ChangeBw(a, to, delta, FALSE)
      /\ quiet' = [quiet EXCEPT ![a] = 0]
      /\ UNCHANGED activated
  BY DEF UndelegateBw
<1>2. q \in Amounts
  BY AmountsAssumption
<1>3. delta \in Amounts /\ Sum2(delta) < 0 /\ \E r \in Res : delta[r] < 0
  BY <1>1, <1>2, NegatedTotal
<1> HIDE DEF delta
<1> DEFINE Kept == /\ TypeOK' /\ StakeCustody'
                   /\ \A r \in Res : refund'[<<StakeAccount, r>>] = 0
                   /\ \A b \in Accounts : requested'[b] <= requested[b]
<1>4. Kept
  <2>1. /\ producer' \in [Accounts -> {"none", "active", "inactive"}]
        /\ activated' \in BOOLEAN
        /\ quiet' \in [Accounts -> 0 .. Delay]
    <3>1. 0 \in 0 .. Delay
      BY AmountsAssumption
    <3>2. QED
      BY <1>1, <3>1 DEF IInv, TypeOK
  <2>2. QED
    BY <1>1, <1>3, <2>1, ChangeBwKeeps DEF TypeOK
<1>5. requested'[StakeAccount] = 0 /\ requested'[a] = 0
  <2>1. \A b \in Accounts : requested[b] \in Nat /\ requested'[b] \in Nat
    BY <1>4, AmountsAssumption DEF IInv, TypeOK
  <2>2. requested'[StakeAccount] = 0
    BY <1>4, <2>1, AccountsAssumption DEF IInv, RefundsDated
  <2>3. CASE a # StakeAccount
    <3>1. Offsets(a, to, delta, FALSE) /\ RestartsClock(a, delta)
      BY <1>3 DEF Offsets, RestartsClock
    <3>2. UpdateRefund(a, a, delta, Offsets(a, to, delta, FALSE))
      BY <1>1 DEF ChangeBw
    <3> DEFINE off == Offsets(a, to, delta, FALSE)
               kept == \E r \in Res : (IF off THEN LeftInRefund(a, delta, r)
                                              ELSE refund[<<a, r>>]) > 0
    <3>3. requested' = [requested EXCEPT ![a] =
             IF ~ kept \/ (off /\ RestartsClock(a, delta)) THEN 0 ELSE @]
      BY <2>3, <3>2 DEF UpdateRefund
    <3> HIDE DEF kept
    <3>4. requested' = [requested EXCEPT ![a] = 0]
      BY <3>1, <3>3
    <3>5. requested \in [Accounts -> 0 .. Delay]
      BY DEF IInv, TypeOK
    <3>6. QED
      BY <2>2, <3>4, <3>5
  <2>4. QED
    BY <2>2, <2>3
<1>6. RefundsDated'
  <2>1. \A b \in Accounts : /\ requested[b] \in Nat /\ requested'[b] \in Nat
                            /\ quiet[b] \in Nat
                            /\ requested[b] <= quiet[b]
    BY <1>4, AmountsAssumption DEF IInv, TypeOK, RefundsDated
  <2>2. quiet'[a] = 0 /\ \A b \in Accounts \ {a} : quiet'[b] = quiet[b]
    BY <1>1 DEF IInv, TypeOK
  <2>3. \A b \in Accounts : requested'[b] <= quiet'[b]
    BY <1>4, <1>5, <2>1, <2>2
  <2>4. QED
    BY <1>4, <1>5, <2>3 DEF RefundsDated
<1>7. QED
  BY <1>4, <1>6 DEF IInv

\* A refund pays its owner what the row of refunds held.
LEMMA PayRefundKeeps ==
  ASSUME IInv, NEW owner \in Accounts, PayRefund(owner)
  PROVE  /\ bal' \in [Accounts -> Nat]
         /\ refund' \in [Accounts \X Res -> Nat]
         /\ requested' \in [Accounts -> 0 .. Delay]
         /\ StakeCustody'
         /\ RefundsDated'
         /\ \A a \in Accounts \ {owner} : bal'[a] <= bal[a]
         /\ requested[owner] >= Delay
         /\ UNCHANGED <<delband, totals, staked, spare, quiet, producer, activated>>
<1> DEFINE owed == [r \in Res |-> refund[<<owner, r>>]]
           d == [r \in Res |-> -refund[<<owner, r>>]]
           zero == [r \in Res |-> 0]
           amount == Sum2(owed)
<1>1. /\ Mature(owner)
      /\ Pay(StakeAccount, owner, amount)
      /\ refund' = [s \in Accounts \X Res |-> IF s[1] = owner THEN 0 ELSE refund[s]]
      /\ requested' = [requested EXCEPT ![owner] = 0]
      /\ UNCHANGED <<delband, totals, staked, spare, quiet, producer, activated>>
  BY DEF PayRefund
<1>2. /\ bal \in [Accounts -> Nat]
      /\ delband \in [Stakes -> Nat]
      /\ refund \in [Accounts \X Res -> Nat]
      /\ requested \in [Accounts -> 0 .. Delay]
      /\ quiet \in [Accounts -> 0 .. Delay]
      /\ spare \in Int
      /\ StakeAccount \in Accounts
      /\ Delay \in Nat
      /\ IsFiniteSet(Res)
  BY AccountsAssumption, AmountsAssumption DEF IInv, TypeOK
<1>3. \A r \in Res : refund[<<owner, r>>] \in Nat
  BY <1>2
<1>4. \A r \in Res : /\ owed[r] \in Nat /\ owed[r] \in Int
                     /\ d[r] \in Int
                     /\ zero[r] \in Nat /\ zero[r] = 0
                     /\ zero[r] = owed[r] + d[r]
  BY <1>3
<1>5. d \in Amounts
  BY <1>4 DEF Amounts
<1>6. refund' = NewRefund(owner, d)
  <2>1. ASSUME NEW s \in Accounts \X Res, s[1] = owner PROVE refund[s] + d[s[2]] = 0
    <3>1. s[2] \in Res /\ s = <<owner, s[2]>>
      BY <2>1
    <3>2. QED
      BY <1>3, <3>1
  <2> HIDE DEF d
  <2>2. QED
    BY <1>1, <2>1 DEF NewRefund
<1> HIDE DEF owed, d, zero
<1>7. amount \in Nat /\ SumOver(d, Res) = -amount
  <2>1. SumOver(owed, Res) \in Nat /\ SumOver(zero, Res) = 0
    BY <1>2, <1>4, SumOverNat
  <2>2. SumOver(zero, Res) = SumOver(owed, Res) + SumOver(d, Res)
    BY <1>2, <1>4, SumOverAdd
  <2>3. SumOver(d, Res) \in Int
    BY <1>2, <1>4, SumOverType
  <2>4. QED
    BY <2>1, <2>2, <2>3 DEF Sum2
<1> HIDE DEF amount
<1>8. /\ StakeAccount # owner
      /\ bal' \in [Accounts -> Nat]
      /\ bal'[StakeAccount] = bal[StakeAccount] - amount
      /\ \A a \in Accounts \ {owner} : bal'[a] <= bal[a]
  <2>1. /\ bal' \in [Accounts -> Nat]
        /\ bal'[StakeAccount] = bal[StakeAccount] - amount
        /\ \A a \in Accounts \ {StakeAccount, owner} : bal'[a] = bal[a]
    BY <1>1, <1>2, <1>7, PayMoves
  <2>2. QED
    BY <1>1, <1>2, <1>7, <2>1 DEF Pay
<1>9. /\ refund' \in [Accounts \X Res -> Nat]
      /\ requested' \in [Accounts -> 0 .. Delay]
      /\ requested[owner] >= Delay
  BY <1>1, <1>2 DEF Mature
<1>10. StakeCustody'
  <2> DEFINE D == SumOver(delband, Stakes)
             W == SumOver(refund, Accounts \X Res)
             W1 == SumOver(refund', Accounts \X Res)
  <2>1. W1 = W + SumOver(d, Res)
    <3>1. refund \in [Accounts \X Res -> Int]
      BY <1>2
    <3>2. QED
      BY <1>5, <1>6, <3>1, RefundTotal
  <2>2. D \in Int /\ W \in Int
    <3> DEFINE T == Accounts \X Res
    <3>1. /\ IsFiniteSet(Stakes) /\ IsFiniteSet(T)
          /\ \A s \in Stakes : delband[s] \in Int
          /\ \A s \in T : refund[s] \in Int
      BY <1>2, TablesFinite
    <3> HIDE DEF T
    <3>2. SumOver(delband, Stakes) \in Int /\ SumOver(refund, T) \in Int
      BY <3>1, SumOverType
    <3>3. QED
      BY <3>2 DEF T
  <2>3. bal[StakeAccount] = D + W + spare /\ bal[StakeAccount] \in Int
    BY <1>2 DEF IInv, StakeCustody
  <2>4. UNCHANGED <<delband, spare>>
    BY <1>1
  <2> HIDE DEF W, W1
  <2>5. bal'[StakeAccount] = D + W1 + spare
    <3> HIDE DEF D
    <3>1. QED
      BY <1>2, <1>7, <1>8, <2>1, <2>2, <2>3
  <2>6. QED
    BY <2>4, <2>5 DEF StakeCustody, W1
<1>11. RefundsDated'
  <2>1. \A a \in Accounts : /\ requested[a] \in Nat /\ quiet[a] \in Nat
                            /\ requested[a] <= quiet[a]
    BY <1>2 DEF IInv, RefundsDated
  <2>2. \A a \in Accounts : requested'[a] <= quiet'[a]
    BY <1>1, <1>2, <2>1
  <2>3. requested'[StakeAccount] = 0
    BY <1>1, <1>2, <1>8 DEF IInv, RefundsDated
  <2>4. \A r \in Res : refund'[<<StakeAccount, r>>] = 0
    BY <1>1, <1>2, <1>8 DEF IInv, RefundsDated
  <2>5. QED
    BY <2>2, <2>3, <2>4 DEF RefundsDated
<1>12. QED
  BY <1>1, <1>8, <1>9, <1>10, <1>11

\* The owner's refund pays out what the refunds row holds.
LEMMA RefundInv ==
  ASSUME IInv, NEW owner \in Accounts, Refund(owner) \/ RunDeferred(owner)
  PROVE  IInv'
<1>1. /\ deferred' \in [Accounts -> (0 .. Delay) \cup {NotQueued}]
      /\ signer' \in Accounts \cup {NotQueued}
  BY DEF IInv, TypeOK, Refund, RunDeferred
<1>2. CASE PayRefund(owner)
  BY <1>1, <1>2, PayRefundKeeps DEF IInv, TypeOK
<1>3. CASE UNCHANGED <<ledger, requested, quiet, producer, activated>>
  <2>1. UNCHANGED <<bal, delband, totals, refund, staked, spare,
                    requested, quiet, producer, activated>>
    BY <1>3 DEF ledger
  <2>2. QED
    BY <1>1, <2>1 DEF IInv, TypeOK, StakeCustody, RefundsDated
<1>4. QED
  BY <1>2, <1>3 DEF Refund, RunDeferred

\* A transfer to or from eosio.stake changes its spare tokens by as much.
LEMMA SendInv ==
  ASSUME IInv, NEW a \in Accounts, NEW to \in Accounts, Send(a, to, 1)
  PROVE  IInv'
<1>1. /\ Pay(a, to, 1)
      /\ spare' = spare + (IF to = StakeAccount THEN 1 ELSE 0)
                        - (IF a = StakeAccount THEN 1 ELSE 0)
      /\ signer' = a
      /\ UNCHANGED <<delband, totals, refund, staked, requested, deferred, quiet,
                     producer, activated>>
  BY DEF Send, schedule
<1>2. bal \in [Accounts -> Nat] /\ spare \in Int /\ StakeAccount \in Accounts
  BY AccountsAssumption DEF IInv, TypeOK
<1>3. /\ a # to
      /\ bal' \in [Accounts -> Nat]
      /\ bal'[a] = bal[a] - 1
      /\ bal'[to] = bal[to] + 1
      /\ \A b \in Accounts \ {a, to} : bal'[b] = bal[b]
  BY <1>1, <1>2, PayMoves DEF Pay
<1>4. bal'[StakeAccount] - spare' = bal[StakeAccount] - spare /\ spare' \in Int
  <2>1. bal[StakeAccount] \in Int /\ bal'[StakeAccount] \in Int
    BY <1>2, <1>3
  <2>2. CASE to = StakeAccount
    <3>1. bal'[StakeAccount] = bal[StakeAccount] + 1 /\ spare' = spare + 1 - 0
      BY <1>1, <1>3, <2>2
    <3>2. QED
      BY <1>2, <2>1, <3>1
  <2>3. CASE a = StakeAccount
    <3>1. bal'[StakeAccount] = bal[StakeAccount] - 1 /\ spare' = spare + 0 - 1
      BY <1>1, <1>3, <2>3
    <3>2. QED
      BY <1>2, <2>1, <3>1
  <2>4. CASE to # StakeAccount /\ a # StakeAccount
    <3>1. bal'[StakeAccount] = bal[StakeAccount] /\ spare' = spare + 0 - 0
      BY <1>1, <1>2, <1>3, <2>4
    <3>2. QED
      BY <1>2, <2>1, <3>1
  <2>5. QED
    BY <2>2, <2>3, <2>4
<1>5. TypeOK'
  BY <1>1, <1>3, <1>4 DEF IInv, TypeOK
<1>6. StakeCustody'
  <2> DEFINE D == SumOver(delband, Stakes)
             W == SumOver(refund, Accounts \X Res)
             T == Accounts \X Res
  <2>1. D \in Int /\ W \in Int
    <3>1. /\ IsFiniteSet(Stakes) /\ IsFiniteSet(T)
          /\ \A s \in Stakes : delband[s] \in Int
          /\ \A s \in T : refund[s] \in Int
      BY TablesFinite DEF IInv, TypeOK
    <3> HIDE DEF T
    <3>2. SumOver(delband, Stakes) \in Int /\ SumOver(refund, T) \in Int
      BY <3>1, SumOverType
    <3>3. QED
      BY <3>2 DEF T
  <2>2. bal[StakeAccount] = D + W + spare /\ bal[StakeAccount] \in Int
    BY <1>2 DEF IInv, StakeCustody
  <2>3. bal'[StakeAccount] \in Int
    BY <1>2, <1>3
  <2> HIDE DEF D, W
  <2>4. bal'[StakeAccount] = D + W + spare'
    BY <1>2, <1>4, <2>1, <2>2, <2>3
  <2>5. QED
    BY <1>1, <2>4 DEF StakeCustody, D, W
<1>7. RefundsDated'
  BY <1>1 DEF IInv, RefundsDated
<1>8. QED
  BY <1>5, <1>6, <1>7 DEF IInv

\* Time passes: no refund is dated later than the last undelegation.
LEMMA TickInv ==
  ASSUME IInv, Tick PROVE IInv'
<1>1. /\ requested' = [a \in Accounts |-> IF Pending(a) THEN Later(requested[a]) ELSE 0]
      /\ deferred' = [a \in Accounts |->
                         IF deferred[a] = NotQueued THEN NotQueued ELSE Later(deferred[a])]
      /\ quiet' = [a \in Accounts |-> Later(quiet[a])]
      /\ signer' = NotQueued
      /\ UNCHANGED <<bal, delband, totals, refund, staked, spare, producer, activated>>
  BY DEF Tick, ledger
<1>2. /\ Delay \in Nat
      /\ \A n \in 0 .. Delay : Later(n) \in 0 .. Delay
      /\ \A m, n \in 0 .. Delay : m <= n => Later(m) <= Later(n)
      /\ \A n \in 0 .. Delay : 0 <= n
  BY AmountsAssumption DEF Later
<1>3. /\ requested \in [Accounts -> 0 .. Delay]
      /\ deferred \in [Accounts -> (0 .. Delay) \cup {NotQueued}]
      /\ quiet \in [Accounts -> 0 .. Delay]
  BY DEF IInv, TypeOK
<1>4. TypeOK'
  <2>1. 0 \in 0 .. Delay
    BY <1>2
  <2>2. /\ requested' \in [Accounts -> 0 .. Delay]
        /\ deferred' \in [Accounts -> (0 .. Delay) \cup {NotQueued}]
        /\ quiet' \in [Accounts -> 0 .. Delay]
    BY <1>1, <1>2, <1>3, <2>1
  <2>3. QED
    BY <1>1, <2>2 DEF IInv, TypeOK
<1>5. StakeCustody'
  BY <1>1 DEF IInv, StakeCustody
<1>6. RefundsDated'
  <2>1. \A a \in Accounts : requested'[a] <= quiet'[a]
    <3> SUFFICES ASSUME NEW a \in Accounts PROVE requested'[a] <= quiet'[a]
      OBVIOUS
    <3>1. requested[a] <= quiet[a]
      BY DEF IInv, RefundsDated
    <3>2. Later(requested[a]) <= Later(quiet[a]) /\ 0 <= Later(quiet[a])
      BY <1>2, <1>3, <3>1
    <3>3. QED
      BY <1>1, <3>2
  <2>2. ~ Pending(StakeAccount)
    <3>1. \A r \in Res : refund[<<StakeAccount, r>>] = 0
      BY DEF IInv, RefundsDated
    <3>2. ~ (0 > 0)
      OBVIOUS
    <3>3. ASSUME NEW r \in Res PROVE ~ (refund[<<StakeAccount, r>>] > 0)
      BY <3>1, <3>2
    <3>4. QED
      BY <3>3, Zenon DEF Pending
  <2>3. requested'[StakeAccount] = 0
    BY <1>1, <2>2, AccountsAssumption
  <2>4. QED
    BY <1>1, <2>1, <2>3 DEF IInv, RefundsDated
<1>7. QED
  BY <1>4, <1>5, <1>6 DEF IInv

\* Registering, and the chain's activation, leave the tokens alone.
LEMMA OthersInv ==
  ASSUME IInv,
         \/ \E a \in Accounts : RegProducer(a) \/ UnregProd(a)
         \/ Activate
         \/ UNCHANGED vars
  PROVE  IInv'
<1>1. /\ UNCHANGED <<bal, delband, totals, refund, staked, spare,
                     requested, deferred, quiet>>
      /\ producer' \in [Accounts -> {"none", "active", "inactive"}]
      /\ activated' \in BOOLEAN
      /\ signer' \in Accounts \cup {NotQueued}
  <2>1. /\ producer \in [Accounts -> {"none", "active", "inactive"}]
        /\ activated \in BOOLEAN
        /\ signer \in Accounts \cup {NotQueued}
    BY DEF IInv, TypeOK
  <2>2. CASE \E a \in Accounts : RegProducer(a) \/ UnregProd(a)
    <3>1. PICK a \in Accounts : RegProducer(a) \/ UnregProd(a)
      BY <2>2
    <3>2. QED
      BY <2>1, <3>1 DEF RegProducer, UnregProd, ledger, schedule
  <2>3. CASE Activate \/ UNCHANGED vars
    BY <2>1, <2>3 DEF Activate, vars, ledger, schedule
  <2>4. QED
    BY <2>2, <2>3
<1>2. QED
  BY <1>1 DEF IInv, TypeOK, StakeCustody, RefundsDated

\* Every step of the staking module preserves the inductive invariant.
LEMMA NextInv == IInv /\ [Next]_vars => IInv'
<1> SUFFICES ASSUME IInv, [Next]_vars PROVE IInv'
  OBVIOUS
<1>1. ASSUME NEW a \in Signers, Transact(a) PROVE IInv'
  <2>1. a \in Accounts
    BY AccountsAssumption
  <2>2. ASSUME NEW to \in Accounts, NEW q \in Quantities, NEW transfer \in BOOLEAN,
               DelegateBw(a, to, q, transfer)
        PROVE  IInv'
    BY <2>1, <2>2, DelegateInv
  <2>3. ASSUME NEW to \in Accounts, NEW q \in Quantities, UndelegateBw(a, to, q)
        PROVE  IInv'
    BY <2>1, <2>3, UndelegateInv
  <2>4. ASSUME NEW to \in Accounts, Send(a, to, 1) PROVE IInv'
    BY <2>1, <2>4, SendInv
  <2>5. CASE Refund(a)
    BY <2>1, <2>5, RefundInv
  <2>6. CASE RegProducer(a) \/ UnregProd(a)
    BY <2>1, <2>6, OthersInv
  <2>7. QED
    BY <1>1, <2>2, <2>3, <2>4, <2>5, <2>6 DEF Transact
<1>2. ASSUME NEW a \in Accounts, RunDeferred(a) PROVE IInv'
  BY <1>2, RefundInv
<1>3. CASE Activate \/ UNCHANGED vars
  BY <1>3, OthersInv
<1>4. CASE Tick
  BY <1>4, TickInv
<1>5. QED
  BY <1>1, <1>2, <1>3, <1>4 DEF Next

\* The invariant holds in every state of every behaviour.
LEMMA Invariance == Spec => []IInv
<1>1. QED
  BY InitInv, NextInv, PTL DEF Spec
-----------------------------------------------------------------------------
\* No stake, weight, refund or balance is ever negative: the checks of
\* changebw are enough, on every path through it.
THEOREM TypeCorrect == Spec => []TypeOK
<1>1. IInv => TypeOK
  BY DEF IInv
<1>2. QED
  BY <1>1, Invariance, PTL

\* eosio.stake always holds exactly what is staked, what is being refunded and
\* what it was given besides.
THEOREM CustodyCorrect == Spec => []StakeCustody
<1>1. IInv => StakeCustody
  BY DEF IInv
<1>2. QED
  BY <1>1, Invariance, PTL

\* What account a has in the refunds table is unchanged when its rows are.
LEMMA SameRefund ==
  ASSUME NEW a \in Accounts,
         refund \in [Accounts \X Res -> Nat], refund' \in [Accounts \X Res -> Nat],
         \A r \in Res : refund'[<<a, r>>] = refund[<<a, r>>]
  PROVE  Refunding(a)' = Refunding(a)
<1> DEFINE f == [r \in Res |-> refund[<<a, r>>]]
           g == [r \in Res |-> refund'[<<a, r>>]]
<1>1. f = g
  OBVIOUS
<1>2. QED
  BY <1>1 DEF Refunding, Sum2

\* No refund reaches its owner before Delay has passed since the owner's last
\* undelegation, whoever asks for it and however often it was rescheduled.
THEOREM RefundWaitsCorrect == Spec => RefundWaits
<1> DEFINE Waits(a) == bal'[a] > bal[a] /\ Refunding(a)' < Refunding(a) => quiet[a] = Delay
<1>1. IInv /\ IInv' /\ [Next]_vars => [\A a \in Accounts : Waits(a)]_vars
  <2> SUFFICES ASSUME IInv, IInv', Next, NEW a \in Accounts,
                      bal'[a] > bal[a], Refunding(a)' < Refunding(a)
               PROVE  quiet[a] = Delay
    OBVIOUS
  <2>1. /\ bal[a] \in Nat /\ bal'[a] \in Nat
        /\ refund \in [Accounts \X Res -> Nat]
        /\ refund' \in [Accounts \X Res -> Nat]
        /\ Delay \in Nat
        /\ requested[a] \in 0 .. Delay
        /\ quiet[a] \in 0 .. Delay
        /\ requested[a] <= quiet[a]
    BY AmountsAssumption DEF IInv, TypeOK, RefundsDated
  <2>2. Refunding(a) \in Int
    <3> DEFINE f == [r \in Res |-> refund[<<a, r>>]]
    <3>1. \A r \in Res : f[r] \in Int
      BY <2>1
    <3> HIDE DEF f
    <3>2. SumOver(f, Res) \in Int
      BY <3>1, AccountsAssumption, SumOverType
    <3>3. QED
      BY <3>2 DEF Refunding, Sum2, f
  <2>3. ~ \A r \in Res : refund'[<<a, r>>] = refund[<<a, r>>]
    <3> SUFFICES ASSUME \A r \in Res : refund'[<<a, r>>] = refund[<<a, r>>] PROVE FALSE
      OBVIOUS
    <3>1. Refunding(a)' = Refunding(a)
      BY <2>1, SameRefund
    <3>2. QED
      BY <2>2, <3>1
  <2>4. a # StakeAccount
    BY <2>3 DEF IInv, RefundsDated
  <2>5. ASSUME NEW b \in Accounts, PayRefund(b) PROVE quiet[a] = Delay
    <3>1. requested[b] >= Delay /\ \A c \in Accounts \ {b} : bal'[c] <= bal[c]
      BY <2>5, PayRefundKeeps
    <3>2. a = b
      <4>1. bal'[a] > bal[a] => ~(bal'[a] <= bal[a])
        BY <2>1
      <4>2. QED
        BY <3>1, <4>1
    <3>3. requested[a] >= Delay
      BY <3>1, <3>2
    <3>4. QED
      BY <2>1, <3>3
  <2>6. ASSUME NEW b \in Accounts, NEW to \in Accounts, NEW q \in Quantities,
               NEW transfer \in BOOLEAN, DelegateBw(b, to, q, transfer)
        PROVE  FALSE
    <3>1. q \in Amounts
      BY AmountsAssumption
    <3>2. Sum2(q) \in Int
      BY <3>1, AccountsAssumption, SumOverType DEF Sum2, Amounts
    <3>3. Sum2(q) < 0 => ~ transfer
      BY <2>6, <3>2 DEF DelegateBw
    <3>4. ChangeBw(b, to, q, transfer)
      BY <2>6 DEF DelegateBw
    <3>5. \A c \in Accounts \ {StakeAccount} : bal'[c] <= bal[c]
      BY <3>1, <3>3, <3>4, ChangeBwKeeps
    <3>6. QED
      BY <2>1, <2>4, <3>5
  <2>7. ASSUME NEW b \in Accounts, NEW to \in Accounts, NEW q \in Quantities,
               UndelegateBw(b, to, q)
        PROVE  FALSE
    <3> DEFINE delta == [r \in Res |-> -q[r]]
    <3>1. q \in Amounts /\ (\A r \in Res : q[r] >= 0) /\ Sum2(q) > 0
      BY <2>7, AmountsAssumption DEF UndelegateBw
    <3>2. delta \in Amounts
      BY <3>1, NegatedTotal
    <3>3. ChangeBw(b, to, delta, FALSE)
      BY <2>7 DEF UndelegateBw
    <3> HIDE DEF delta
    <3>4. \A c \in Accounts \ {StakeAccount} : bal'[c] <= bal[c]
      BY <3>2, <3>3, ChangeBwKeeps
    <3>5. QED
      BY <2>1, <2>4, <3>4
  <2>8. ASSUME NEW b \in Accounts PROVE Refund(b) => quiet[a] = Delay
    BY <2>5 DEF Refund
  <2>9. ASSUME NEW b \in Accounts PROVE RunDeferred(b) => quiet[a] = Delay
    BY <2>3, <2>5 DEF RunDeferred, ledger
  <2>10. ASSUME NEW b \in Accounts, NEW to \in Accounts PROVE ~ Send(b, to, 1)
    BY <2>3 DEF Send
  <2>11. ASSUME NEW b \in Accounts PROVE ~ (RegProducer(b) \/ UnregProd(b))
    BY <2>3 DEF RegProducer, UnregProd, ledger
  <2>12. ~ Activate /\ ~ Tick
    BY <2>3 DEF Activate, Tick, ledger
  <2>13. ASSUME NEW b \in Signers, Transact(b) PROVE quiet[a] = Delay
    <3>1. b \in Accounts
      BY AccountsAssumption
    <3>2. QED
      BY <2>6, <2>7, <2>8, <2>10, <2>11, <2>13, <3>1 DEF Transact
  <2>14. QED
    BY <2>9, <2>12, <2>13 DEF Next
<1>2. RefundWaits <=> [][\A a \in Accounts : Waits(a)]_vars
  BY DEF RefundWaits
<1> HIDE DEF Waits
<1>3. QED
  BY <1>1, <1>2, Invariance, PTL DEF Spec
-----------------------------------------------------------------------------
(* The three views of a stake                                              *)

\* changebw changes delband, the weights and the voters row by the same amounts.
LEMMA ChangeBwAgrees ==
  ASSUME TypeOK, StakesAgree, NEW source \in Accounts, NEW receiver \in Accounts,
         NEW delta \in Amounts, NEW transfer \in BOOLEAN,
         ChangeBw(source, receiver, delta, transfer)
  PROVE  StakesAgree'
<1> DEFINE from == IF transfer THEN receiver ELSE source
           of(a) == [s \in Stakes |-> IF s[1] = a THEN delband[s] ELSE 0]
           then(a) == [s \in Stakes |-> IF s[1] = a THEN delband'[s] ELSE 0]
           to(a, r) == [b \in Accounts |-> delband[<<b, a, r>>]]
           next(a, r) == [b \in Accounts |-> delband'[<<b, a, r>>]]
<1>1. /\ from \in Accounts /\ IsFiniteSet(Stakes) /\ IsFiniteSet(Res) /\ IsFiniteSet(Accounts)
      /\ delband \in [Stakes -> Nat] /\ totals \in [Accounts \X Res -> Nat]
      /\ staked \in [Accounts -> Nat] /\ \A r \in Res : delta[r] \in Int
  BY TablesFinite, AccountsAssumption DEF TypeOK, Amounts
<1>2. /\ delband' = NewDelband(from, receiver, delta)
      /\ totals' = NewTotals(from, receiver, delta)
      /\ staked' = [staked EXCEPT ![from] = @ + Sum2(delta)]
  BY DEF ChangeBw
<1> HIDE DEF from
<1>3. ASSUME NEW s \in Stakes
      PROVE  /\ delband[s] \in Int
             /\ delband'[s] = IF s[1] = from /\ s[2] = receiver
                              THEN delband[s] + delta[s[3]] ELSE delband[s]
             /\ delband'[s] \in Int
  BY <1>1, <1>2 DEF NewDelband, Stakes
<1>4. ASSUME NEW a \in Accounts PROVE staked'[a] = SumOver(then(a), Stakes)
  <2>1. staked[a] = SumOver(of(a), Stakes)
    BY DEF StakesAgree
  <2>2. CASE a # from
    <3>1. then(a) = of(a)
      BY <1>3, <2>2
    <3>2. QED
      BY <1>1, <1>2, <2>1, <2>2, <3>1
  <2>3. CASE a = from
    <3> DEFINE f == of(from)
               h == then(from)
               e == [r \in Res |-> <<from, receiver, r>>]
    <3>1. e \in [Res -> Stakes] /\ \A x, y \in Res : e[x] = e[y] => x = y
      BY <1>1 DEF Stakes
    <3>2. ASSUME NEW r \in Res PROVE h[e[r]] = f[e[r]] + delta[r]
      <4>1. e[r] \in Stakes /\ e[r][1] = from /\ e[r][2] = receiver /\ e[r][3] = r
        BY <1>1 DEF Stakes
      <4> HIDE DEF e
      <4>2. QED
        BY <1>3, <4>1
    <3>3. ASSUME NEW s \in Stakes, \A r \in Res : e[r] # s PROVE h[s] = f[s]
      <4>1. ~ (s[1] = from /\ s[2] = receiver)
        <5> SUFFICES ASSUME s[1] = from, s[2] = receiver PROVE FALSE
          OBVIOUS
        <5>1. s[3] \in Res /\ s = <<from, receiver, s[3]>>
          BY DEF Stakes
        <5>2. QED
          BY <3>3, <5>1
      <4>2. QED
        BY <1>3, <4>1
    <3>4. \A s \in Stakes : f[s] \in Int
      BY <1>3
    <3> HIDE DEF f, h, e
    <3>5. SumOver(h, Stakes) = SumOver(f, Stakes) + SumOver(delta, Res)
      <4>1. /\ IsFiniteSet(Stakes) /\ IsFiniteSet(Res)
            /\ \A r \in Res : delta[r] \in Int
            /\ \A r \in Res : h[e[r]] = f[e[r]] + delta[r]
            /\ \A s \in Stakes : (\A r \in Res : e[r] # s) => h[s] = f[s]
        BY <1>1, <3>2, <3>3
      <4>2. QED
        BY <3>1, <3>4, <4>1, SumOverSlice
    <3>6. staked'[from] = staked[from] + SumOver(delta, Res)
      BY <1>1, <1>2 DEF Sum2
    <3>7. QED
      BY <2>1, <2>3, <3>5, <3>6 DEF f, h
  <2>4. QED
    BY <2>2, <2>3
<1>5. ASSUME NEW a \in Accounts, NEW r \in Res
      PROVE  totals'[<<a, r>>] = SumOver(next(a, r), Accounts)
  <2>1. totals[<<a, r>>] = SumOver(to(a, r), Accounts)
    BY DEF StakesAgree
  <2>2. \A b \in Accounts : <<b, a, r>> \in Stakes
    BY DEF Stakes
  <2>3. CASE a # receiver
    <3>1. next(a, r) = to(a, r)
      BY <1>3, <2>2, <2>3
    <3>2. totals'[<<a, r>>] = totals[<<a, r>>]
      BY <1>2, <2>3 DEF NewTotals
    <3>3. QED
      BY <2>1, <3>1, <3>2
  <2>4. CASE a = receiver
    <3> DEFINE f == to(receiver, r)
               h == next(receiver, r)
    <3>1. /\ \A b \in Accounts : f[b] \in Int
          /\ \A b \in Accounts : h[b] \in Int
          /\ \A b \in Accounts \ {from} : f[b] = h[b]
      BY <1>3, <2>2, <2>4
    <3>2. h[from] = f[from] + delta[r]
      BY <1>1, <1>3, <2>2, <2>4
    <3>3. f[from] \in Int /\ delta[r] \in Int
      BY <1>1, <3>1
    <3> HIDE DEF f, h
    <3>4. SumOver(h, Accounts) = SumOver(f, Accounts) + h[from] - f[from]
      <4>1. IsFiniteSet(Accounts) /\ from \in Accounts
        BY <1>1
      <4>2. QED
        BY <3>1, <4>1, SumOverChange
    <3>5. SumOver(f, Accounts) \in Int
      BY <1>1, <3>1, SumOverType
    <3>6. SumOver(h, Accounts) = SumOver(f, Accounts) + delta[r]
      BY <3>2, <3>3, <3>4, <3>5
    <3>7. totals'[<<receiver, r>>] = totals[<<receiver, r>>] + delta[r]
      BY <1>2, <2>4 DEF NewTotals
    <3>8. QED
      BY <2>1, <2>4, <3>6, <3>7 DEF f, h
  <2>5. QED
    BY <2>3, <2>4
<1>6. QED
  BY <1>4, <1>5 DEF StakesAgree

\* A stake has the same three views in every state.
THEOREM StakesAgreeCorrect == Spec => []StakesAgree
<1>1. Init => StakesAgree
  <2> SUFFICES ASSUME Init PROVE StakesAgree
    OBVIOUS
  <2>1. IsFiniteSet(Stakes) /\ IsFiniteSet(Accounts)
    BY TablesFinite, AccountsAssumption
  <2>2. ASSUME NEW a \in Accounts
        PROVE  staked[a] = SumOver([s \in Stakes |-> IF s[1] = a THEN delband[s] ELSE 0], Stakes)
    <3> DEFINE f == [s \in Stakes |-> IF s[1] = a THEN delband[s] ELSE 0]
    <3>1. \A s \in Stakes : f[s] = 0
      BY DEF Init
    <3> HIDE DEF f
    <3>2. \A s \in Stakes : f[s] \in Nat
      BY <3>1
    <3>3. SumOver(f, Stakes) = 0
      BY <2>1, <3>1, <3>2, SumOverNat
    <3>4. QED
      BY <3>3 DEF f, Init
  <2>3. ASSUME NEW a \in Accounts, NEW r \in Res
        PROVE  totals[<<a, r>>] = SumOver([b \in Accounts |-> delband[<<b, a, r>>]], Accounts)
    <3> DEFINE f == [b \in Accounts |-> delband[<<b, a, r>>]]
    <3>1. \A b \in Accounts : f[b] = 0
      BY DEF Init, Stakes
    <3> HIDE DEF f
    <3>2. \A b \in Accounts : f[b] \in Nat
      BY <3>1
    <3>3. SumOver(f, Accounts) = 0
      BY <2>1, <3>1, <3>2, SumOverNat
    <3>4. QED
      BY <3>3 DEF f, Init
  <2>4. QED
    BY <2>2, <2>3 DEF StakesAgree
<1>2. TypeOK /\ StakesAgree /\ [Next]_vars => StakesAgree'
  <2> SUFFICES ASSUME TypeOK, StakesAgree, [Next]_vars PROVE StakesAgree'
    OBVIOUS
  <2>1. ASSUME UNCHANGED <<delband, totals, staked>> PROVE StakesAgree'
    BY <2>1 DEF StakesAgree
  <2>2. ASSUME NEW b \in Accounts, NEW to \in Accounts, NEW q \in Quantities,
               NEW transfer \in BOOLEAN, DelegateBw(b, to, q, transfer)
        PROVE  StakesAgree'
    BY <2>2, AmountsAssumption, ChangeBwAgrees DEF DelegateBw
  <2>3. ASSUME NEW b \in Accounts, NEW to \in Accounts, NEW q \in Quantities,
               UndelegateBw(b, to, q)
        PROVE  StakesAgree'
    <3> DEFINE delta == [r \in Res |-> -q[r]]
    <3>1. q \in Amounts /\ (\A r \in Res : q[r] >= 0) /\ Sum2(q) > 0
      BY <2>3, AmountsAssumption DEF UndelegateBw
    <3>2. delta \in Amounts
      BY <3>1, NegatedTotal
    <3>3. ChangeBw(b, to, delta, FALSE)
      BY <2>3 DEF UndelegateBw
    <3> HIDE DEF delta
    <3>4. QED
      BY <3>2, <3>3, ChangeBwAgrees
  <2>4. ASSUME NEW b \in Accounts, Refund(b) \/ RunDeferred(b) PROVE StakesAgree'
    BY <2>1, <2>4 DEF Refund, RunDeferred, PayRefund, ledger
  <2>5. ASSUME NEW b \in Accounts, NEW to \in Accounts, Send(b, to, 1) PROVE StakesAgree'
    BY <2>1, <2>5 DEF Send
  <2>6. ASSUME NEW b \in Accounts, RegProducer(b) \/ UnregProd(b) PROVE StakesAgree'
    BY <2>1, <2>6 DEF RegProducer, UnregProd, ledger
  <2>7. CASE Activate \/ Tick \/ UNCHANGED vars
    BY <2>1, <2>7 DEF Activate, Tick, vars, ledger
  <2>8. ASSUME NEW b \in Signers, Transact(b) PROVE StakesAgree'
    <3>1. b \in Accounts
      BY AccountsAssumption
    <3>2. QED
      BY <2>2, <2>3, <2>4, <2>5, <2>6, <2>8, <3>1 DEF Transact
  <2>9. QED
    BY <2>4, <2>7, <2>8 DEF Next
<1>3. QED
  BY <1>1, <1>2, TypeCorrect, PTL DEF Spec
-----------------------------------------------------------------------------
(* Owners                                                                  *)

\* What b signs leaves the tokens, refunds and stakes of the others, or adds to their stakes.
LEMMA ChangeBwOthers ==
  ASSUME TypeOK, NEW source \in Accounts, NEW receiver \in Accounts, NEW delta \in Amounts,
         NEW transfer \in BOOLEAN, ChangeBw(source, receiver, delta, transfer),
         transfer => ~ (Sum2(delta) < 0) /\ \A r \in Res : delta[r] >= 0,
         NEW a \in Accounts \ {StakeAccount}, a # source
  PROVE  /\ bal'[a] = bal[a]
         /\ \A r \in Res : refund'[<<a, r>>] = refund[<<a, r>>]
         /\ \A to \in Accounts, r \in Res : delband'[<<a, to, r>>] >= delband[<<a, to, r>>]
<1> DEFINE from == IF transfer THEN receiver ELSE source
           offsets == Offsets(from, receiver, delta, transfer)
           left(r) == IF offsets THEN LeftInRefund(from, delta, r) ELSE refund[<<from, r>>]
<1>1. /\ bal \in [Accounts -> Nat] /\ refund \in [Accounts \X Res -> Nat]
      /\ delband \in [Stakes -> Nat] /\ from \in Accounts
      /\ \A r \in Res : delta[r] \in Int
  BY DEF TypeOK, Amounts
<1>2. a = from => ~ offsets /\ \A r \in Res : delta[r] >= 0
  BY DEF Offsets
<1>3. UpdateRefund(from, source, delta, offsets) /\ delband' = NewDelband(from, receiver, delta)
  BY DEF ChangeBw
<1> HIDE DEF from, offsets
<1>4. bal'[a] = bal[a]
  <2>1. CASE UNCHANGED bal
    BY <2>1
  <2>2. CASE \E due : Pay(source, StakeAccount, due)
    BY <1>1, <2>2 DEF Pay
  <2>3. QED
    BY <1>3, <2>1, <2>2 DEF UpdateRefund
<1>5. ASSUME NEW r \in Res PROVE refund'[<<a, r>>] = refund[<<a, r>>]
  <2>1. CASE source = StakeAccount
    BY <1>3, <2>1 DEF UpdateRefund
  <2>2. CASE source # StakeAccount
    <3>1. refund' = [s \in Accounts \X Res |-> IF s[1] = from THEN left(s[2]) ELSE refund[s]]
      BY <1>3, <2>2 DEF UpdateRefund
    <3>2. refund'[<<a, r>>] = IF a = from THEN left(r) ELSE refund[<<a, r>>]
      BY <3>1
    <3>3. QED
      BY <1>2, <3>2
  <2>3. QED
    BY <2>1, <2>2
<1>6. ASSUME NEW to \in Accounts, NEW r \in Res
      PROVE  delband'[<<a, to, r>>] >= delband[<<a, to, r>>]
  <2>1. <<a, to, r>> \in Stakes /\ delband[<<a, to, r>>] \in Nat
    BY <1>1 DEF Stakes
  <2>2. delband'[<<a, to, r>>] = IF a = from /\ to = receiver
                                 THEN delband[<<a, to, r>>] + delta[r] ELSE delband[<<a, to, r>>]
    BY <1>3, <2>1 DEF NewDelband
  <2>3. QED
    BY <1>1, <1>2, <2>1, <2>2
<1>7. QED
  BY <1>4, <1>5, <1>6

\* A refund pays its owner what it holds, and concerns nobody else.
LEMMA PayRefundOthers ==
  ASSUME TypeOK, NEW owner \in Accounts, PayRefund(owner), NEW a \in Accounts \ {StakeAccount}
  PROVE  /\ bal'[a] >= bal[a]
         /\ bal'[a] + Refunding(a)' >= bal[a] + Refunding(a)
<1> DEFINE owed == [r \in Res |-> refund[<<owner, r>>]]
           mine == [r \in Res |-> refund[<<a, r>>]]
           none == [r \in Res |-> refund'[<<a, r>>]]
           amount == Sum2(owed)
<1>1. /\ bal \in [Accounts -> Nat] /\ refund \in [Accounts \X Res -> Nat]
      /\ StakeAccount \in Accounts /\ IsFiniteSet(Res)
  BY AccountsAssumption DEF TypeOK
<1>2. /\ Pay(StakeAccount, owner, amount)
      /\ refund' = [s \in Accounts \X Res |-> IF s[1] = owner THEN 0 ELSE refund[s]]
  BY DEF PayRefund
<1>3. \A r \in Res : refund'[<<a, r>>] = IF a = owner THEN 0 ELSE refund[<<a, r>>]
  BY <1>2
<1>4. /\ \A r \in Res : owed[r] \in Nat
      /\ \A r \in Res : mine[r] \in Nat
      /\ \A r \in Res : none[r] \in Nat
  BY <1>1, <1>3
<1>5. a = owner => \A r \in Res : none[r] = 0
  BY <1>3
<1>6. a # owner => none = mine
  BY <1>3
<1>7. a = owner => owed = mine
  OBVIOUS
<1>8. Refunding(a) = Sum2(mine) /\ Refunding(a)' = Sum2(none)
  BY DEF Refunding, Sum2
<1> HIDE DEF owed, mine, none
<1>9. /\ Sum2(owed) \in Nat /\ Sum2(mine) \in Nat /\ Sum2(none) \in Nat
      /\ a = owner => Sum2(none) = 0
  BY <1>1, <1>4, <1>5, SumOverNat DEF Sum2
<1>10. /\ bal' \in [Accounts -> Nat] /\ bal'[owner] = bal[owner] + amount
       /\ \A b \in Accounts \ {StakeAccount, owner} : bal'[b] = bal[b]
  BY <1>1, <1>2, <1>9, PayMoves
<1>11. CASE a = owner
  BY <1>1, <1>7, <1>8, <1>9, <1>10, <1>11
<1>12. CASE a # owner
  BY <1>1, <1>6, <1>8, <1>9, <1>10, <1>12
<1>13. QED
  BY <1>11, <1>12

\* Whatever others sign, and whatever the chain runs, takes no liquid tokens, no stake and
\* no refund from an owner.
THEOREM OwnersDecideCorrect == Spec => OwnersDecide
<1> DEFINE Keeps(a) ==
               /\ bal'[a] >= bal[a]
               /\ bal'[a] + Refunding(a)' >= bal[a] + Refunding(a)
               /\ \A to \in Accounts, r \in Res : delband'[<<a, to, r>>] >= delband[<<a, to, r>>]
           Decides == \A a \in Accounts \ {StakeAccount} : signer' # a => Keeps(a)
<1>1. TypeOK /\ TypeOK' /\ [Next]_vars => [Decides]_vars
  <2> SUFFICES ASSUME TypeOK, TypeOK', Next, NEW a \in Accounts \ {StakeAccount}, signer' # a
               PROVE  Keeps(a)
    OBVIOUS
  <2>1. /\ bal[a] \in Nat /\ bal'[a] \in Nat
        /\ refund \in [Accounts \X Res -> Nat] /\ refund' \in [Accounts \X Res -> Nat]
        /\ \A to \in Accounts, r \in Res : delband[<<a, to, r>>] \in Nat
    BY DEF TypeOK, Stakes
  <2>2. Refunding(a) \in Int
    <3> DEFINE f == [r \in Res |-> refund[<<a, r>>]]
    <3>1. \A r \in Res : f[r] \in Int
      BY <2>1
    <3> HIDE DEF f
    <3>2. SumOver(f, Res) \in Int
      BY <3>1, AccountsAssumption, SumOverType
    <3>3. QED
      BY <3>2 DEF Refunding, Sum2, f
  <2>3. ASSUME bal'[a] = bal[a], \A r \in Res : refund'[<<a, r>>] = refund[<<a, r>>],
               \A to \in Accounts, r \in Res : delband'[<<a, to, r>>] >= delband[<<a, to, r>>]
        PROVE  Keeps(a)
    <3>1. Refunding(a)' = Refunding(a)
      BY <2>1, <2>3, SameRefund
    <3>2. QED
      BY <2>1, <2>2, <2>3, <3>1
  <2>4. ASSUME bal' = bal, refund' = refund, delband' = delband PROVE Keeps(a)
    BY <2>1, <2>3, <2>4
  <2>5. ASSUME NEW b \in Accounts, PayRefund(b) PROVE Keeps(a)
    <3>1. delband' = delband
      BY <2>5 DEF PayRefund
    <3>2. QED
      BY <2>1, <2>5, <3>1, PayRefundOthers
  <2>6. ASSUME NEW b \in Accounts, NEW to \in Accounts, NEW q \in Quantities,
               NEW transfer \in BOOLEAN, DelegateBw(b, to, q, transfer)
        PROVE  Keeps(a)
    <3>1. q \in Amounts /\ (\A r \in Res : q[r] >= 0) /\ Sum2(q) > 0 /\ ChangeBw(b, to, q, transfer)
      BY <2>6, AmountsAssumption DEF DelegateBw
    <3>2. a # b
      BY <3>1 DEF ChangeBw
    <3>3. Sum2(q) \in Int
      BY <3>1, AccountsAssumption, SumOverType DEF Sum2, Amounts
    <3>4. ~ (Sum2(q) < 0)
      BY <3>1, <3>3
    <3>5. QED
      BY <2>3, <3>1, <3>2, <3>4, ChangeBwOthers
  <2>7. ASSUME NEW b \in Accounts, NEW to \in Accounts, NEW q \in Quantities,
               UndelegateBw(b, to, q)
        PROVE  Keeps(a)
    <3> DEFINE delta == [r \in Res |-> -q[r]]
    <3>1. q \in Amounts /\ (\A r \in Res : q[r] >= 0) /\ Sum2(q) > 0
      BY <2>7, AmountsAssumption DEF UndelegateBw
    <3>2. delta \in Amounts
      BY <3>1, NegatedTotal
    <3>3. ChangeBw(b, to, delta, FALSE)
      BY <2>7 DEF UndelegateBw
    <3> HIDE DEF delta
    <3>4. a # b
      BY <3>3 DEF ChangeBw
    <3>5. QED
      BY <2>3, <3>2, <3>3, <3>4, ChangeBwOthers
  <2>8. ASSUME NEW b \in Accounts, NEW to \in Accounts, Send(b, to, 1) PROVE Keeps(a)
    <3>1. /\ Pay(b, to, 1) /\ signer' = b /\ refund' = refund /\ delband' = delband
          /\ bal \in [Accounts -> Nat]
      BY <2>8 DEF Send, TypeOK
    <3>2. bal'[a] >= bal[a]
      BY <2>1, <3>1, PayMoves
    <3>3. Refunding(a)' = Refunding(a)
      BY <3>1 DEF Refunding, Sum2
    <3>4. QED
      BY <2>1, <2>2, <3>1, <3>2, <3>3
  <2>9. ASSUME NEW b \in Accounts, RegProducer(b) \/ UnregProd(b) PROVE Keeps(a)
    BY <2>4, <2>9 DEF RegProducer, UnregProd, ledger
  <2>10. CASE Activate \/ Tick
    BY <2>4, <2>10 DEF Activate, Tick, ledger
  <2>11. ASSUME NEW b \in Accounts, RunDeferred(b) PROVE Keeps(a)
    BY <2>4, <2>5, <2>11 DEF RunDeferred, ledger
  <2>12. ASSUME NEW b \in Signers, Transact(b) PROVE Keeps(a)
    <3>1. b \in Accounts
      BY AccountsAssumption
    <3>2. Refund(b) => Keeps(a)
      BY <2>5, <3>1 DEF Refund
    <3> HIDE DEF Keeps
    <3>3. QED
      BY <2>6, <2>7, <2>8, <2>9, <2>12, <3>1, <3>2 DEF Transact
  <2> HIDE DEF Keeps
  <2>13. QED
    BY <2>10, <2>11, <2>12 DEF Next
<1>2. OwnersDecide <=> [][Decides]_vars
  BY DEF OwnersDecide
<1> HIDE DEF Decides
<1>3. QED
  BY <1>1, <1>2, TypeCorrect, PTL DEF Spec
=============================================================================
