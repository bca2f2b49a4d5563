-------------------------- MODULE EosioToken_proofs --------------------------
(***************************************************************************)
(* Proofs about EosioToken for every set of accounts, every set of         *)
(* quantities and every asset range.  The inductive invariant adds to the  *)
(* checked ones that neither the supply nor the cap ever exceeds what      *)
(* "create" declared; with the circulation this bounds what "retire" and   *)
(* "burn" subtract, so supply and cap never become negative.               *)
(***************************************************************************)
EXTENDS EosioToken, Sums_proofs

Rows == [Names -> Row \cup {NoRow}]

\* What the holders have together.
Circulating(rows) == SumOver(HoldingsIn(rows), Names)

\* "issue" keeps the supply within the cap of its time, and no action raises
\* the cap.
BelowDeclared ==
    stat # NoRow => /\ stat.supply <= declared
                    /\ stat.max_supply <= declared

IInv == TypeOK /\ RowsMatchStat /\ CirculationMatchesBurns /\ BelowDeclared
-----------------------------------------------------------------------------
(* The balance tables as ledgers                                           *)

\* Holdings are naturals, for any balance table ("accounts" rows).
LEMMA HoldingsType ==
  ASSUME NEW rows \in Rows
  PROVE  /\ \A n \in Names : HoldingsIn(rows)[n] \in Nat
         /\ \A n \in Names : HoldingsIn(rows)[n] = HeldIn(rows, n)
         /\ Circulating(rows) \in Nat
<1>1. \A n \in Names : HoldingsIn(rows)[n] = HeldIn(rows, n)
  BY DEF HoldingsIn
<1>2. \A n \in Names : HeldIn(rows, n) \in Nat
  BY AmountsAssumption DEF HeldIn, Rows, Row
<1>3. \A n \in Names : HoldingsIn(rows)[n] \in Nat
  BY <1>1, <1>2
<1>4. Circulating(rows) \in Nat
  BY <1>3, NamesAssumption, SumOverNat DEF Circulating
<1>5. QED
  BY <1>1, <1>3, <1>4

\* No holder has more than what circulates.
LEMMA HeldBound ==
  ASSUME NEW rows \in Rows, NEW n \in Names
  PROVE  HeldIn(rows, n) <= Circulating(rows)
<1>1. /\ \A m \in Names : HoldingsIn(rows)[m] \in Nat
      /\ HoldingsIn(rows)[n] = HeldIn(rows, n)
  BY HoldingsType
<1>2. HoldingsIn(rows)[n] <= SumOver(HoldingsIn(rows), Names)
  BY <1>1, NamesAssumption, SumOverBound
<1>3. QED
  BY <1>1, <1>2 DEF Circulating

\* A table changed at one row circulates the difference at that row.
LEMMA CirculatingChange ==
  ASSUME NEW rows \in Rows, NEW new \in Rows, NEW owner \in Names,
         \A n \in Names \ {owner} : new[n] = rows[n]
  PROVE  Circulating(new) = Circulating(rows) + HeldIn(new, owner) - HeldIn(rows, owner)
<1>1. /\ \A n \in Names : HoldingsIn(rows)[n] \in Int /\ HoldingsIn(new)[n] \in Int
      /\ HoldingsIn(rows)[owner] = HeldIn(rows, owner)
      /\ HoldingsIn(new)[owner] = HeldIn(new, owner)
  BY HoldingsType
<1>2. \A n \in Names \ {owner} : HoldingsIn(rows)[n] = HoldingsIn(new)[n]
  BY HoldingsType DEF HeldIn
<1>3. SumOver(HoldingsIn(new), Names)
        = SumOver(HoldingsIn(rows), Names) + HoldingsIn(new)[owner] - HoldingsIn(rows)[owner]
  BY <1>1, <1>2, NamesAssumption, SumOverChange
<1>4. QED
  BY <1>1, <1>3 DEF Circulating

\* sub_balance takes exactly the quantity, from the owner's row alone, and
\* leaves the owner paying for it.
LEMMA SubBalanceRows ==
  ASSUME NEW rows \in Rows, NEW owner \in Accounts, NEW prec, NEW q \in Nat,
         CanSub(rows, owner, prec, q)
  PROVE  LET new == SubBalance(rows, owner, q)
         IN  /\ new \in Rows
             /\ \A n \in Names \ {owner} : new[n] = rows[n]
             /\ rows[owner] # NoRow /\ new[owner] # NoRow
             /\ rows[owner].precision = prec /\ new[owner].precision = prec
             /\ new[owner].payer = owner
             /\ HeldIn(new, owner) = HeldIn(rows, owner) - q
             /\ q <= HeldIn(rows, owner)
             /\ Circulating(new) = Circulating(rows) - q
<1> DEFINE new == SubBalance(rows, owner, q)
           row == [precision |-> rows[owner].precision,
                   amount |-> rows[owner].amount - q, payer |-> owner]
<1>1. owner \in Names
  BY NamesAssumption
<1>2. rows[owner] \in Row /\ rows[owner].amount >= q /\ rows[owner] # NoRow /\ rows[owner].precision = prec
  BY <1>1 DEF CanSub, Rows
<1>3. row \in Row /\ row.amount = rows[owner].amount - q /\ row.payer = owner /\ row.precision = prec
  BY <1>2, AmountsAssumption DEF Row
<1>4. new = [rows EXCEPT ![owner] = row]
  BY <1>1 DEF SubBalance, Rows
<1>5. new \in Rows /\ new[owner] = row /\ \A n \in Names \ {owner} : new[n] = rows[n]
  BY <1>1, <1>3, <1>4 DEF Rows
<1>6. new[owner] # NoRow
  BY <1>3, <1>5, NoRowAssumption
<1> HIDE DEF new, row
<1>7. HeldIn(new, owner) = HeldIn(rows, owner) - q /\ q <= HeldIn(rows, owner)
  BY <1>2, <1>3, <1>5, <1>6 DEF HeldIn
<1>8. HeldIn(rows, owner) \in Nat /\ Circulating(rows) \in Nat
  BY <1>1, HoldingsType
<1>9. Circulating(new) = Circulating(rows) - q
  BY <1>1, <1>5, <1>7, <1>8, CirculatingChange
<1>10. QED
  BY <1>2, <1>3, <1>5, <1>6, <1>7, <1>9 DEF new

\* add_balance gives exactly the quantity, to the owner's row alone; only a
\* new row is charged to ram_payer.
LEMMA AddBalanceRows ==
  ASSUME NEW rows \in Rows, NEW owner \in Names, NEW prec \in Precisions, NEW q \in Nat,
         NEW payer \in Accounts, IsValid(q), CanAdd(rows, owner, prec, q)
  PROVE  LET new == AddBalance(rows, owner, prec, q, payer)
         IN  /\ new \in Rows
             /\ \A n \in Names \ {owner} : new[n] = rows[n]
             /\ new[owner] # NoRow
             /\ new[owner].precision = prec
             /\ new[owner].payer = IF rows[owner] = NoRow THEN payer ELSE rows[owner].payer
             /\ HeldIn(new, owner) = HeldIn(rows, owner) + q
             /\ Circulating(new) = Circulating(rows) + q
<1> DEFINE new == AddBalance(rows, owner, prec, q, payer)
           row == IF rows[owner] = NoRow
                  THEN [precision |-> prec, amount |-> q, payer |-> payer]
                  ELSE [rows[owner] EXCEPT !.amount = @ + q]
<1>1. rows[owner] # NoRow => rows[owner] \in Row
  BY DEF Rows
<1>2. /\ row \in Row
      /\ row.amount = HeldIn(rows, owner) + q
      /\ row.precision = prec
      /\ row.payer = IF rows[owner] = NoRow THEN payer ELSE rows[owner].payer
  <2>1. CASE rows[owner] = NoRow
    BY <2>1, AmountsAssumption DEF Row, IsValid, HeldIn
  <2>2. CASE rows[owner] # NoRow
    BY <1>1, <2>2, AmountsAssumption DEF Row, IsValid, HeldIn, CanAdd
  <2>3. QED
    BY <2>1, <2>2
<1>3. new = [rows EXCEPT ![owner] = row]
  BY DEF AddBalance, Rows
<1>4. new \in Rows /\ new[owner] = row /\ \A n \in Names \ {owner} : new[n] = rows[n]
  BY <1>2, <1>3 DEF Rows
<1>5. new[owner] # NoRow
  BY <1>2, <1>4, NoRowAssumption
<1> HIDE DEF new, row
<1>6. HeldIn(new, owner) = HeldIn(rows, owner) + q
  BY <1>2, <1>4, <1>5 DEF HeldIn
<1>7. HeldIn(rows, owner) \in Nat /\ Circulating(rows) \in Nat
  BY HoldingsType
<1>8. Circulating(new) = Circulating(rows) + q
  BY <1>4, <1>6, <1>7, CirculatingChange
<1>9. QED
  BY <1>2, <1>4, <1>5, <1>6, <1>8 DEF new
\* "transfer" moves exactly the quantity from one row to the other.
LEMMA TransferredRows ==
  ASSUME NEW rows \in Rows, NEW from \in Accounts, NEW to \in Names,
         NEW prec \in Precisions, NEW q \in Nat, NEW payer \in Accounts,
         IsValid(q), CanTransfer(rows, from, to, prec, q)
  PROVE  LET new == Transferred(rows, from, to, prec, q, payer)
         IN  /\ new \in Rows
             /\ from # to /\ to \in Accounts
             /\ \A n \in Names \ {from, to} : new[n] = rows[n]
             /\ new[from] # NoRow /\ new[to] # NoRow
             /\ new[from].precision = prec /\ new[to].precision = prec
             /\ new[from].payer = from
             /\ new[to].payer = IF rows[to] = NoRow THEN payer ELSE rows[to].payer
             /\ q <= HeldIn(rows, from)
             /\ HeldIn(new, from) = HeldIn(rows, from) - q
             /\ HeldIn(new, to) = HeldIn(rows, to) + q
             /\ Circulating(new) = Circulating(rows)
<1> DEFINE mid == SubBalance(rows, from, q)
           new == AddBalance(mid, to, prec, q, payer)
<1>1. /\ from # to /\ to \in Accounts
      /\ CanSub(rows, from, prec, q)
      /\ CanAdd(mid, to, prec, q)
  BY DEF CanTransfer
<1>2. /\ mid \in Rows
      /\ \A n \in Names \ {from} : mid[n] = rows[n]
      /\ mid[from] # NoRow
      /\ mid[from].precision = prec
      /\ mid[from].payer = from
      /\ HeldIn(mid, from) = HeldIn(rows, from) - q
      /\ q <= HeldIn(rows, from)
      /\ Circulating(mid) = Circulating(rows) - q
  BY <1>1, SubBalanceRows
<1>3. /\ new \in Rows
      /\ \A n \in Names \ {to} : new[n] = mid[n]
      /\ new[to] # NoRow
      /\ new[to].precision = prec
      /\ new[to].payer = IF mid[to] = NoRow THEN payer ELSE mid[to].payer
      /\ HeldIn(new, to) = HeldIn(mid, to) + q
      /\ Circulating(new) = Circulating(mid) + q
  <2> HIDE DEF mid
  <2>1. QED
    BY <1>1, <1>2, AddBalanceRows
<1>4. new = Transferred(rows, from, to, prec, q, payer)
  BY DEF Transferred
<1> HIDE DEF mid, new
<1>5. from \in Names
  BY NamesAssumption
<1>6. mid[to] = rows[to] /\ new[from] = mid[from]
  BY <1>1, <1>2, <1>3, <1>5
<1>7. HeldIn(mid, to) = HeldIn(rows, to) /\ HeldIn(new, from) = HeldIn(mid, from)
  BY <1>6 DEF HeldIn
<1>8. Circulating(rows) \in Nat
  BY HoldingsType
<1>9. Circulating(new) = Circulating(rows)
  BY <1>2, <1>3, <1>8
<1>10. \A n \in Names \ {from, to} : new[n] = rows[n]
  BY <1>2, <1>3
<1>11. QED
  BY <1>1, <1>2, <1>3, <1>4, <1>6, <1>7, <1>9, <1>10
-----------------------------------------------------------------------------
(* What each action does to the tables, from a state of the invariant      *)

\* "issue" adds the quantity to the receiver alone; the issuer, who may be
\* the receiver, ends up with what it had, and is the only one charged.
LEMMA IssueEffect ==
  ASSUME IInv, NEW auths \in AuthSets, NEW to \in Names, NEW prec \in Precisions,
         NEW q \in Quantities, Issue(auths, to, prec, q)
  PROVE  /\ accounts' \in Rows
         /\ q \in Nat \ {0} /\ q <= stat.max_supply - stat.supply
         /\ stat.issuer \in auths /\ stat.issuer \in Accounts /\ to \in Accounts
         /\ HoldingsIn(accounts') = [HoldingsIn(accounts) EXCEPT ![to] = @ + q]
         /\ Circulating(accounts') = Circulating(accounts) + q
         /\ \A n \in Names : accounts'[n] # NoRow =>
               /\ accounts[n] # NoRow \/ n \in {to, stat.issuer}
               /\ accounts'[n].precision = prec
               /\ \/ accounts[n] # NoRow /\ accounts'[n].payer = accounts[n].payer
                  \/ accounts'[n].payer = stat.issuer
<1> DEFINE issuer == stat.issuer
           credited == AddBalance(accounts, issuer, prec, q, issuer)
           payer == TransferPayer({issuer}, issuer, to)
<1>1. /\ stat \in Stat /\ accounts \in Rows
      /\ issuer \in auths /\ issuer \in Accounts /\ issuer \in Names
      /\ IsValid(q) /\ q \in Nat \ {0} /\ prec = stat.precision
      /\ q <= stat.max_supply - stat.supply
      /\ CanAdd(accounts, issuer, prec, q)
  BY NamesAssumption, AmountsAssumption DEF Issue, Available, GoodQuantity, IInv, TypeOK, Rows
<1>2. \A n \in Names : accounts[n] # NoRow => accounts[n].precision = prec
  BY <1>1 DEF IInv, RowsMatchStat
<1>3. /\ credited \in Rows
      /\ \A n \in Names \ {issuer} : credited[n] = accounts[n]
      /\ credited[issuer] # NoRow
      /\ credited[issuer].precision = prec
      /\ credited[issuer].payer = IF accounts[issuer] = NoRow THEN issuer ELSE accounts[issuer].payer
      /\ HeldIn(credited, issuer) = HeldIn(accounts, issuer) + q
      /\ Circulating(credited) = Circulating(accounts) + q
  <2> HIDE DEF issuer
  <2>1. QED
    BY <1>1, AddBalanceRows
<1>4. CASE to = issuer
  <2>1. accounts' = credited
    BY <1>4 DEF Issue
  <2> HIDE DEF credited, issuer
  <2>2. HoldingsIn(accounts') = [HoldingsIn(accounts) EXCEPT ![to] = @ + q]
    BY <1>1, <1>3, <1>4, <2>1 DEF HoldingsIn, HeldIn
  <2>3. QED
    BY <1>1, <1>2, <1>3, <1>4, <2>1, <2>2 DEF issuer
<1>5. CASE to # issuer
  <2>1. /\ CanTransfer(credited, issuer, to, prec, q)
        /\ accounts' = Transferred(credited, issuer, to, prec, q, payer)
    BY <1>5 DEF Issue
  <2>2. payer = issuer
    BY <1>5 DEF TransferPayer
  <2> HIDE DEF credited, issuer, payer
  <2>3. /\ accounts' \in Rows
        /\ to \in Accounts
        /\ \A n \in Names \ {issuer, to} : accounts'[n] = credited[n]
        /\ accounts'[issuer] # NoRow /\ accounts'[to] # NoRow
        /\ accounts'[issuer].precision = prec /\ accounts'[to].precision = prec
        /\ accounts'[issuer].payer = issuer
        /\ accounts'[to].payer = IF credited[to] = NoRow THEN payer ELSE credited[to].payer
        /\ HeldIn(accounts', issuer) = HeldIn(credited, issuer) - q
        /\ HeldIn(accounts', to) = HeldIn(credited, to) + q
        /\ Circulating(accounts') = Circulating(credited)
    BY <1>1, <1>3, <2>1, <2>2, TransferredRows
  <2>4. credited[to] = accounts[to]
    BY <1>3, <1>5
  <2>5. HeldIn(accounts, issuer) \in Nat
    BY <1>1, HoldingsType
  <2>6. \A n \in Names : HeldIn(accounts', n) = IF n = to THEN HeldIn(accounts, n) + q
                                                        ELSE HeldIn(accounts, n)
    <3>1. HeldIn(accounts', issuer) = HeldIn(accounts, issuer)
      BY <1>3, <2>3, <2>5, AmountsAssumption
    <3>2. HeldIn(accounts', to) = HeldIn(accounts, to) + q
      BY <2>3, <2>4 DEF HeldIn
    <3>3. ASSUME NEW n \in Names \ {issuer, to}
          PROVE  HeldIn(accounts', n) = HeldIn(accounts, n)
      BY <1>3, <2>3, <3>3 DEF HeldIn
    <3>4. QED
      BY <1>5, <3>1, <3>2, <3>3
  <2>7. HoldingsIn(accounts') = [HoldingsIn(accounts) EXCEPT ![to] = @ + q]
    BY <2>6 DEF HoldingsIn
  <2>8. QED
    BY <1>1, <1>2, <1>3, <1>5, <2>2, <2>3, <2>4, <2>7 DEF issuer
<1>6. QED
  BY <1>4, <1>5
\* "retire" and "burn" take the quantity from the issuer alone.
LEMMA WithdrawEffect ==
  ASSUME IInv, NEW auths \in AuthSets, NEW prec \in Precisions, NEW q \in Quantities,
         Retire(auths, prec, q) \/ Burn(auths, prec, q)
  PROVE  /\ accounts' \in Rows
         /\ stat \in Stat /\ stat # NoRow
         /\ q \in Nat \ {0} /\ q <= HeldIn(accounts, stat.issuer)
         /\ stat.issuer \in auths /\ stat.issuer \in Accounts
         /\ HoldingsIn(accounts') = [HoldingsIn(accounts) EXCEPT ![stat.issuer] = @ - q]
         /\ Circulating(accounts') = Circulating(accounts) - q
         /\ accounts'[stat.issuer] # NoRow
         /\ \A n \in Names : accounts'[n] # NoRow =>
               /\ accounts[n] # NoRow
               /\ accounts'[n].precision = stat.precision
               /\ accounts'[n].payer \in {accounts[n].payer, stat.issuer}
<1> DEFINE issuer == stat.issuer
<1>1. /\ stat \in Stat /\ stat # NoRow /\ accounts \in Rows
      /\ issuer \in auths /\ issuer \in Accounts /\ issuer \in Names
      /\ q \in Nat \ {0} /\ prec = stat.precision
      /\ CanSub(accounts, issuer, prec, q)
      /\ accounts' = SubBalance(accounts, issuer, q)
  BY NamesAssumption, AmountsAssumption
  DEF Retire, Burn, GoodQuantity, IInv, TypeOK, Rows
<1>2. \A n \in Names : accounts[n] # NoRow => accounts[n].precision = prec
  BY <1>1 DEF IInv, RowsMatchStat
<1> HIDE DEF issuer
<1>3. /\ accounts' \in Rows
      /\ \A n \in Names \ {issuer} : accounts'[n] = accounts[n]
      /\ accounts[issuer] # NoRow /\ accounts'[issuer] # NoRow
      /\ accounts'[issuer].precision = prec
      /\ accounts'[issuer].payer = issuer
      /\ HeldIn(accounts', issuer) = HeldIn(accounts, issuer) - q
      /\ q <= HeldIn(accounts, issuer)
      /\ Circulating(accounts') = Circulating(accounts) - q
  BY <1>1, SubBalanceRows
<1>4. HoldingsIn(accounts') = [HoldingsIn(accounts) EXCEPT ![issuer] = @ - q]
  BY <1>1, <1>3 DEF HoldingsIn, HeldIn
<1>5. QED
  BY <1>1, <1>2, <1>3, <1>4 DEF issuer

\* "transfer" moves the quantity, and charges RAM to a signer only.
LEMMA TransferEffect ==
  ASSUME IInv, NEW auths \in AuthSets, NEW from \in Names, NEW to \in Names,
         NEW prec \in Precisions, NEW q \in Quantities, Transfer(auths, from, to, prec, q)
  PROVE  /\ accounts' \in Rows
         /\ q \in Nat \ {0} /\ q <= HeldIn(accounts, from)
         /\ from \in auths /\ from \in Accounts /\ to \in Accounts /\ from # to
         /\ HoldingsIn(accounts') = [HoldingsIn(accounts) EXCEPT ![from] = @ - q, ![to] = @ + q]
         /\ Circulating(accounts') = Circulating(accounts)
         /\ \A n \in Names : accounts'[n] # NoRow =>
               /\ accounts[n] # NoRow \/ n \in Accounts
               /\ accounts'[n].precision = stat.precision
               /\ \/ accounts[n] # NoRow /\ accounts'[n].payer = accounts[n].payer
                  \/ accounts'[n].payer \in auths
<1> DEFINE payer == TransferPayer(auths, from, to)
<1>1. /\ stat # NoRow /\ accounts \in Rows
      /\ from \in auths /\ from \in Accounts
      /\ payer \in auths /\ payer \in Accounts
      /\ IsValid(q) /\ q \in Nat \ {0} /\ prec = stat.precision
      /\ CanTransfer(accounts, from, to, prec, q)
      /\ accounts' = Transferred(accounts, from, to, prec, q, payer)
  BY NamesAssumption, AmountsAssumption
  DEF Transfer, GoodQuantity, TransferPayer, IInv, TypeOK, Rows
<1>2. \A n \in Names : accounts[n] # NoRow => accounts[n].precision = prec
  BY <1>1 DEF IInv, RowsMatchStat
<1> HIDE DEF payer
<1>3. /\ accounts' \in Rows
      /\ from # to /\ to \in Accounts
      /\ \A n \in Names \ {from, to} : accounts'[n] = accounts[n]
      /\ accounts'[from].precision = prec /\ accounts'[to].precision = prec
      /\ accounts'[from].payer = from
      /\ accounts'[to].payer = IF accounts[to] = NoRow THEN payer ELSE accounts[to].payer
      /\ q <= HeldIn(accounts, from)
      /\ HeldIn(accounts', from) = HeldIn(accounts, from) - q
      /\ HeldIn(accounts', to) = HeldIn(accounts, to) + q
      /\ Circulating(accounts') = Circulating(accounts)
  BY <1>1, TransferredRows
<1>4. \A n \in Names \ {from, to} : HeldIn(accounts', n) = HeldIn(accounts, n)
  BY <1>3 DEF HeldIn
<1>5. HoldingsIn(accounts') = [HoldingsIn(accounts) EXCEPT ![from] = @ - q, ![to] = @ + q]
  BY <1>3, <1>4 DEF HoldingsIn
<1>6. QED
  BY <1>1, <1>2, <1>3, <1>5

\* "open" and "close" touch rows that hold nothing.
LEMMA OpenCloseEffect ==
  ASSUME IInv, NEW auths \in AuthSets, NEW owner \in Names,
         \/ \E prec \in Precisions, payer \in Accounts : Open(auths, owner, prec, payer)
         \/ Close(auths, owner)
  PROVE  /\ accounts' \in Rows
         /\ HoldingsIn(accounts') = HoldingsIn(accounts)
         /\ Circulating(accounts') = Circulating(accounts)
         /\ \A n \in Names : accounts'[n] # NoRow =>
               \/ accounts'[n] = accounts[n]
               \/ /\ n \in Accounts /\ stat # NoRow
                  /\ accounts'[n].precision = stat.precision
                  /\ accounts'[n].payer \in auths
<1>1. accounts \in Rows
  BY DEF IInv, TypeOK, Rows
<1>2. CASE Close(auths, owner)
  <2>1. /\ accounts[owner] # NoRow /\ accounts[owner].amount = 0
        /\ accounts' = [accounts EXCEPT ![owner] = NoRow]
    BY <1>2 DEF Close
  <2>2. accounts' \in Rows
    BY <1>1, <2>1 DEF Rows
  <2>3. \A n \in Names : HeldIn(accounts', n) = HeldIn(accounts, n)
    BY <1>1, <2>1 DEF HeldIn, Rows
  <2>4. HoldingsIn(accounts') = HoldingsIn(accounts)
    BY <2>3 DEF HoldingsIn
  <2>5. \A n \in Names : accounts'[n] # NoRow => accounts'[n] = accounts[n]
    BY <1>1, <2>1 DEF Rows
  <2>6. QED
    BY <2>2, <2>4, <2>5 DEF Circulating
<1>3. ASSUME NEW prec \in Precisions, NEW payer \in Accounts, Open(auths, owner, prec, payer)
      PROVE  /\ accounts' \in Rows
             /\ HoldingsIn(accounts') = HoldingsIn(accounts)
             /\ Circulating(accounts') = Circulating(accounts)
             /\ \A n \in Names : accounts'[n] # NoRow =>
                   \/ accounts'[n] = accounts[n]
                   \/ /\ n \in Accounts /\ stat # NoRow
                      /\ accounts'[n].precision = stat.precision
                      /\ accounts'[n].payer \in auths
  <2> DEFINE row == [precision |-> prec, amount |-> 0, payer |-> payer]
  <2>1. CASE accounts[owner] # NoRow
    <3>1. accounts' = accounts
      BY <1>3, <2>1 DEF Open
    <3>2. QED
      BY <1>1, <3>1
  <2>2. CASE accounts[owner] = NoRow
    <3>1. /\ accounts' = [accounts EXCEPT ![owner] = row]
          /\ owner \in Accounts /\ stat # NoRow /\ prec = stat.precision /\ payer \in auths
      BY <1>3, <2>2 DEF Open
    <3>2. row \in Row /\ row.amount = 0 /\ row.precision = prec /\ row.payer = payer
      BY AmountsAssumption DEF Row
    <3> HIDE DEF row
    <3>3. accounts' \in Rows
      BY <1>1, <3>1, <3>2 DEF Rows
    <3>4. \A n \in Names : accounts'[n] = IF n = owner THEN row ELSE accounts[n]
      BY <1>1, <3>1 DEF Rows
    <3>5. \A n \in Names : HeldIn(accounts', n) = HeldIn(accounts, n)
      BY <2>2, <3>2, <3>4 DEF HeldIn
    <3>6. HoldingsIn(accounts') = HoldingsIn(accounts)
      BY <3>5 DEF HoldingsIn
    <3>7. QED
      BY <3>1, <3>2, <3>3, <3>4, <3>6 DEF Circulating
  <2>3. QED
    BY <2>1, <2>2
<1>4. QED
  BY <1>2, <1>3
-----------------------------------------------------------------------------
(* The inductive invariant                                                 *)

\* Nothing exists before "create".
LEMMA InitInv == Init => IInv
<1> SUFFICES ASSUME Init PROVE IInv
  OBVIOUS
<1>1. TypeOK
  BY AmountsAssumption DEF Init, TypeOK
<1>2. QED
  BY <1>1 DEF Init, IInv, RowsMatchStat, CirculationMatchesBurns, BelowDeclared

\* Every transaction of the token contract preserves the invariant.
LEMMA NextInv == IInv /\ [Next]_vars => IInv'
<1> SUFFICES ASSUME IInv, [Next]_vars PROVE IInv'
  OBVIOUS
<1>1. /\ stat \in Stat \cup {NoRow} /\ accounts \in Rows
      /\ declared \in 0 .. MaxAmount /\ signers \in SUBSET Accounts
      /\ Circulating(accounts) \in Nat
  BY HoldingsType DEF IInv, TypeOK, Rows
<1>2. stat # NoRow => /\ Circulating(accounts) = stat.supply - (declared - stat.max_supply)
                      /\ stat.supply <= declared /\ stat.max_supply <= declared
  BY DEF IInv, CirculationMatchesBurns, BelowDeclared, Circulating, Holdings
<1>3. \A n \in Names : accounts[n] # NoRow =>
         stat # NoRow /\ accounts[n].precision = stat.precision /\ n \in Accounts
  BY DEF IInv, RowsMatchStat
<1>4. \A auths \in AuthSets : auths \in SUBSET Accounts
  BY NamesAssumption
<1>5. ASSUME NEW auths \in AuthSets, NEW n \in Names, NEW prec \in Precisions,
             NEW q \in Quantities, Create(auths, n, prec, q)
      PROVE  IInv'
  <2>1. /\ stat = NoRow /\ q \in 1 .. MaxAmount /\ accounts' = accounts
        /\ stat' = [precision |-> prec, supply |-> 0, max_supply |-> q, issuer |-> n]
        /\ declared' = q /\ signers' = auths
    BY <1>5, AmountsAssumption DEF Create, IsValid
  <2>2. stat' \in Stat /\ stat'.supply = 0 /\ stat'.max_supply = q
    BY <2>1, AmountsAssumption DEF Stat
  <2>3. \A m \in Names : accounts[m] = NoRow
    BY <1>3, <2>1
  <2>4. Circulating(accounts) = 0
    <3>1. \A m \in Names : HoldingsIn(accounts)[m] = 0
      BY <2>3 DEF HoldingsIn, HeldIn
    <3>2. \A m \in Names : HoldingsIn(accounts)[m] \in Nat
      BY <3>1
    <3>3. SumOver(HoldingsIn(accounts), Names) = 0
      BY <3>1, <3>2, NamesAssumption, SumOverNat
    <3>4. QED
      BY <3>3 DEF Circulating
  <2>5. TypeOK'
    BY <1>1, <1>4, <2>1, <2>2 DEF TypeOK, Rows
  <2>6. RowsMatchStat'
    BY <2>1, <2>3 DEF RowsMatchStat
  <2>7. CirculationMatchesBurns'
    BY <2>1, <2>2, <2>4 DEF CirculationMatchesBurns, Circulating, Holdings
  <2>8. BelowDeclared'
    BY <2>1, <2>2 DEF BelowDeclared
  <2>9. QED
    BY <2>5, <2>6, <2>7, <2>8 DEF IInv
<1>6. ASSUME NEW auths \in AuthSets, NEW to \in Names, NEW prec \in Precisions,
             NEW q \in Quantities, Issue(auths, to, prec, q)
      PROVE  IInv'
  <2>1. /\ stat \in Stat /\ stat # NoRow /\ prec = stat.precision
        /\ IsValid(stat.supply + q)
        /\ stat' = [stat EXCEPT !.supply = @ + q]
        /\ declared' = declared /\ signers' = auths
    BY <1>1, <1>6 DEF Issue, GoodQuantity
  <2>2. /\ accounts' \in Rows
        /\ q \in Nat \ {0} /\ q <= stat.max_supply - stat.supply
        /\ stat.issuer \in Accounts /\ to \in Accounts
        /\ Circulating(accounts') = Circulating(accounts) + q
        /\ \A n \in Names : accounts'[n] # NoRow =>
               (accounts[n] # NoRow \/ n \in {to, stat.issuer}) /\ accounts'[n].precision = prec
    BY <1>6, IssueEffect
  <2>3. /\ stat' \in Stat /\ stat' # NoRow
        /\ stat'.supply = stat.supply + q /\ stat'.max_supply = stat.max_supply
        /\ stat'.precision = stat.precision
    BY <2>1, <2>2, AmountsAssumption, NoRowAssumption DEF Stat, IsValid
  <2>4. TypeOK'
    BY <1>1, <1>4, <2>1, <2>2, <2>3 DEF TypeOK, Rows
  <2>5. RowsMatchStat'
    BY <1>3, <2>1, <2>2, <2>3 DEF RowsMatchStat
  <2>6. CirculationMatchesBurns'
    <3>1. stat.supply \in Int /\ stat.max_supply \in Int /\ declared \in Int
      BY <1>1, <2>1 DEF Stat
    <3>2. Circulating(accounts') = stat'.supply - (declared' - stat'.max_supply)
      BY <1>2, <2>1, <2>2, <2>3, <3>1
    <3>3. QED
      BY <3>2 DEF CirculationMatchesBurns, Circulating, Holdings
  <2>7. BelowDeclared'
    BY <1>1, <1>2, <2>1, <2>2, <2>3 DEF BelowDeclared, Stat
  <2>8. QED
    BY <2>4, <2>5, <2>6, <2>7 DEF IInv
<1>7. ASSUME NEW auths \in AuthSets, NEW prec \in Precisions, NEW q \in Quantities,
             Retire(auths, prec, q) \/ Burn(auths, prec, q)
      PROVE  IInv'
  <2>1. /\ accounts' \in Rows
        /\ stat \in Stat /\ stat # NoRow
        /\ q \in Nat \ {0} /\ q <= HeldIn(accounts, stat.issuer)
        /\ stat.issuer \in Accounts
        /\ Circulating(accounts') = Circulating(accounts) - q
        /\ \A n \in Names : accounts'[n] # NoRow =>
              accounts[n] # NoRow /\ accounts'[n].precision = stat.precision
    BY <1>7, WithdrawEffect
  <2>2. /\ declared' = declared /\ signers' = auths
        /\ \/ stat' = [stat EXCEPT !.supply = @ - q]
           \/ stat' = [stat EXCEPT !.max_supply = @ - q]
    BY <1>7 DEF Retire, Burn
  <2>3. /\ stat.supply \in 0 .. MaxAmount /\ stat.max_supply \in 0 .. MaxAmount
        /\ stat.precision \in Precisions /\ stat.issuer \in Names
    BY <2>1 DEF Stat
  <2>4. q <= Circulating(accounts)
    <3>1. HeldIn(accounts, stat.issuer) <= Circulating(accounts)
      BY <1>1, <2>3, HeldBound
    <3>2. HeldIn(accounts, stat.issuer) \in Nat
      BY <1>1, <2>3, HoldingsType
    <3>3. QED
      BY <1>1, <2>1, <3>1, <3>2
  <2>5. q <= stat.supply /\ q <= stat.max_supply
    BY <1>1, <1>2, <2>1, <2>3, <2>4
  <2>6. /\ stat' \in Stat /\ stat' # NoRow /\ stat'.precision = stat.precision
        /\ stat'.supply + stat'.max_supply = stat.supply + stat.max_supply - q
        /\ stat'.supply <= stat.supply /\ stat'.max_supply <= stat.max_supply
        /\ stat'.supply \in Int /\ stat'.max_supply \in Int
    BY <2>1, <2>2, <2>3, <2>5, AmountsAssumption, NoRowAssumption DEF Stat
  <2>7. TypeOK'
    BY <1>1, <1>4, <2>1, <2>2, <2>6 DEF TypeOK, Rows
  <2>8. RowsMatchStat'
    BY <1>3, <2>1, <2>6 DEF RowsMatchStat
  <2>9. CirculationMatchesBurns'
    <3>1. Circulating(accounts') = stat'.supply - (declared' - stat'.max_supply)
      BY <1>1, <1>2, <2>1, <2>2, <2>3, <2>6
    <3>2. QED
      BY <3>1 DEF CirculationMatchesBurns, Circulating, Holdings
  <2>10. BelowDeclared'
    BY <1>1, <1>2, <2>1, <2>2, <2>3, <2>6 DEF BelowDeclared
  <2>11. QED
    BY <2>7, <2>8, <2>9, <2>10 DEF IInv
<1>8. ASSUME stat' = stat, declared' = declared, signers' \in SUBSET Accounts, accounts' \in Rows,
             Circulating(accounts') = Circulating(accounts),
             \A n \in Names : accounts'[n] # NoRow =>
                 \/ accounts'[n] = accounts[n]
                 \/ /\ n \in Accounts /\ stat # NoRow
                    /\ accounts'[n].precision = stat.precision
      PROVE  IInv'
  <2>1. TypeOK'
    BY <1>1, <1>8 DEF TypeOK, Rows
  <2>2. RowsMatchStat'
    BY <1>3, <1>8 DEF RowsMatchStat
  <2>3. CirculationMatchesBurns'
    BY <1>2, <1>8 DEF CirculationMatchesBurns, Circulating, Holdings
  <2>4. BelowDeclared'
    BY <1>2, <1>8 DEF BelowDeclared
  <2>5. QED
    BY <2>1, <2>2, <2>3, <2>4 DEF IInv
<1>9. ASSUME NEW auths \in AuthSets, NEW from \in Names, NEW to \in Names,
             NEW prec \in Precisions, NEW q \in Quantities, Transfer(auths, from, to, prec, q)
      PROVE  IInv'
  <2>1. stat' = stat /\ declared' = declared /\ signers' = auths /\ stat # NoRow
    BY <1>9 DEF Transfer
  <2>2. /\ accounts' \in Rows
        /\ Circulating(accounts') = Circulating(accounts)
        /\ \A n \in Names : accounts'[n] # NoRow =>
              (accounts[n] # NoRow \/ n \in Accounts) /\ accounts'[n].precision = stat.precision
    BY <1>9, TransferEffect
  <2>3. QED
    BY <1>3, <1>4, <1>8, <2>1, <2>2
<1>10. ASSUME NEW auths \in AuthSets, NEW owner \in Names,
              \/ \E prec \in Precisions, payer \in Accounts : Open(auths, owner, prec, payer)
              \/ Close(auths, owner)
       PROVE  IInv'
  <2>1. stat' = stat /\ declared' = declared /\ signers' = auths
    BY <1>10 DEF Open, Close
  <2>2. /\ accounts' \in Rows
        /\ Circulating(accounts') = Circulating(accounts)
        /\ \A n \in Names : accounts'[n] # NoRow =>
              \/ accounts'[n] = accounts[n]
              \/ /\ n \in Accounts /\ stat # NoRow
                 /\ accounts'[n].precision = stat.precision
    BY <1>10, OpenCloseEffect
  <2>3. QED
    BY <1>4, <1>8, <2>1, <2>2
<1>11. CASE UNCHANGED vars
  BY <1>1, <1>8, <1>11 DEF vars
<1>12. QED
  BY <1>5, <1>6, <1>7, <1>9, <1>10, <1>11 DEF Next, Transact
\* The invariant holds in every state of every behaviour.
LEMMA Invariance == Spec => []IInv
  BY InitInv, NextInv, PTL DEF Spec

\* Supply, cap and balances of the token always fit their type: "retire" and
\* "burn" never take supply or cap below zero, although they check neither.
THEOREM TypeCorrect == Spec => []TypeOK
<1>1. IInv => TypeOK
  BY DEF IInv
<1>2. QED
  BY <1>1, Invariance, PTL

\* Balance rows are only ever those of existing accounts and of the token.
THEOREM RowsCorrect == Spec => []RowsMatchStat
<1>1. IInv => RowsMatchStat
  BY DEF IInv
<1>2. QED
  BY <1>1, Invariance, PTL

\* The balances of all names together are the supply less what was burnt.
THEOREM CirculationCorrect == Spec => []CirculationMatchesBurns
<1>1. IInv => CirculationMatchesBurns
  BY DEF IInv
<1>2. QED
  BY <1>1, Invariance, PTL

\* The balances of all names together never exceed the cap that is left.
THEOREM CapCorrect == Spec => []CirculationWithinCap
<1>1. IInv => CirculationWithinCap
  <2> SUFFICES ASSUME IInv, stat # NoRow
               PROVE  SumOver(Holdings, Names) <= stat.max_supply
    BY DEF CirculationWithinCap
  <2>1. stat.supply \in Int /\ stat.max_supply \in Int /\ declared \in Int
    BY DEF IInv, TypeOK, Stat
  <2>2. SumOver(Holdings, Names) = stat.supply - (declared - stat.max_supply)
    BY DEF IInv, CirculationMatchesBurns
  <2>3. stat.supply <= declared
    BY DEF IInv, BelowDeclared
  <2>4. QED
    BY <2>1, <2>2, <2>3
<1>2. QED
  BY <1>1, Invariance, PTL
-----------------------------------------------------------------------------
(* Who is charged                                                          *)

\* n loses units in the step, or becomes the payer of a row in the step.
Loses(n) == HeldIn(accounts', n) < HeldIn(accounts, n)
Pays(n)  == /\ accounts'[n] # NoRow
            /\ accounts[n] = NoRow \/ accounts[n].payer # accounts'[n].payer

ChargesSigners == \A n \in Names : /\ Loses(n) => n \in signers'
                                   /\ Pays(n) => accounts'[n].payer \in signers'

\* No transaction of the token contract takes units or RAM from an account
\* that did not authorise it.
THEOREM SignersCharged == Spec => OnlySignersCharged
<1>1. IInv /\ [Next]_vars => [ChargesSigners]_vars
  <2> SUFFICES ASSUME IInv, Next PROVE ChargesSigners
    OBVIOUS
  <2>1. accounts \in Rows /\ \A n \in Names : HeldIn(accounts, n) \in Nat
    BY HoldingsType DEF IInv, TypeOK, Rows
  <2>2. ASSUME NEW auths \in AuthSets, NEW n \in Names, NEW prec \in Precisions,
               NEW q \in Quantities, Create(auths, n, prec, q)
        PROVE  ChargesSigners
    BY <2>1, <2>2 DEF Create, ChargesSigners, Loses, Pays
  <2>3. ASSUME NEW auths \in AuthSets, NEW to \in Names, NEW prec \in Precisions,
               NEW q \in Quantities, Issue(auths, to, prec, q)
        PROVE  ChargesSigners
    <3>1. /\ q \in Nat /\ stat.issuer \in auths /\ accounts' \in Rows
          /\ HoldingsIn(accounts') = [HoldingsIn(accounts) EXCEPT ![to] = @ + q]
          /\ \A n \in Names : accounts'[n] # NoRow =>
                \/ accounts[n] # NoRow /\ accounts'[n].payer = accounts[n].payer
                \/ accounts'[n].payer = stat.issuer
      BY <2>3, IssueEffect
    <3>2. signers' = auths
      BY <2>3 DEF Issue
    <3>3. \A n \in Names : HeldIn(accounts', n) >= HeldIn(accounts, n)
      <4>1. \A n \in Names : HeldIn(accounts', n) = IF n = to THEN HeldIn(accounts, n) + q
                                                            ELSE HeldIn(accounts, n)
        BY <3>1 DEF HoldingsIn
      <4>2. QED
        BY <2>1, <3>1, <4>1
    <3>4. \A n \in Names : ~ Loses(n)
      BY <2>1, <3>1, <3>3, HoldingsType DEF Loses
    <3>5. QED
      BY <3>1, <3>2, <3>4 DEF ChargesSigners, Pays
  <2>4. ASSUME NEW auths \in AuthSets, NEW prec \in Precisions, NEW q \in Quantities,
               Retire(auths, prec, q) \/ Burn(auths, prec, q)
        PROVE  ChargesSigners
    <3>1. /\ stat.issuer \in auths
          /\ HoldingsIn(accounts') = [HoldingsIn(accounts) EXCEPT ![stat.issuer] = @ - q]
          /\ \A n \in Names : accounts'[n] # NoRow =>
                /\ accounts[n] # NoRow
                /\ accounts'[n].payer \in {accounts[n].payer, stat.issuer}
      BY <2>4, WithdrawEffect
    <3>2. signers' = auths
      BY <2>4 DEF Retire, Burn
    <3>3. \A n \in Names : n # stat.issuer => HeldIn(accounts', n) = HeldIn(accounts, n)
      BY <3>1 DEF HoldingsIn
    <3>4. QED
      BY <2>1, <3>1, <3>2, <3>3 DEF ChargesSigners, Loses, Pays
  <2>5. ASSUME NEW auths \in AuthSets, NEW from \in Names, NEW to \in Names,
               NEW prec \in Precisions, NEW q \in Quantities, Transfer(auths, from, to, prec, q)
        PROVE  ChargesSigners
    <3>1. /\ from \in auths /\ q \in Nat
          /\ HoldingsIn(accounts') = [HoldingsIn(accounts) EXCEPT ![from] = @ - q, ![to] = @ + q]
          /\ \A n \in Names : accounts'[n] # NoRow =>
               \/ accounts[n] # NoRow /\ accounts'[n].payer = accounts[n].payer
               \/ accounts'[n].payer \in auths
      BY <2>5, TransferEffect
    <3>2. signers' = auths
      BY <2>5 DEF Transfer
    <3>3. \A n \in Names : n # from => HeldIn(accounts', n) >= HeldIn(accounts, n)
      <4>1. \A n \in Names : n # from =>
              HeldIn(accounts', n) = IF n = to THEN HeldIn(accounts, n) + q ELSE HeldIn(accounts, n)
        BY <3>1 DEF HoldingsIn
      <4>2. QED
        BY <2>1, <3>1, <4>1
    <3>4. \A n \in Names : Loses(n) => n = from
      <4>1. accounts' \in Rows
        BY <2>5, TransferEffect
      <4>2. \A n \in Names : HeldIn(accounts', n) \in Nat
        BY <4>1, HoldingsType
      <4>3. QED
        BY <2>1, <3>3, <4>2 DEF Loses
    <3>5. QED
      BY <3>1, <3>2, <3>4 DEF ChargesSigners, Pays
  <2>6. ASSUME NEW auths \in AuthSets, NEW owner \in Names,
               \/ \E prec \in Precisions, payer \in Accounts : Open(auths, owner, prec, payer)
               \/ Close(auths, owner)
        PROVE  ChargesSigners
    <3>1. /\ HoldingsIn(accounts') = HoldingsIn(accounts)
          /\ \A n \in Names : accounts'[n] # NoRow =>
                accounts'[n] = accounts[n] \/ accounts'[n].payer \in auths
      BY <2>6, OpenCloseEffect
    <3>2. signers' = auths
      BY <2>6 DEF Open, Close
    <3>3. \A n \in Names : HeldIn(accounts', n) = HeldIn(accounts, n)
      BY <3>1 DEF HoldingsIn
    <3>4. QED
      BY <2>1, <3>1, <3>2, <3>3 DEF ChargesSigners, Loses, Pays
  <2>7. QED
    BY <2>2, <2>3, <2>4, <2>5, <2>6 DEF Next, Transact
<1>2. QED
  BY <1>1, Invariance, PTL DEF Spec, OnlySignersCharged, ChargesSigners, Loses, Pays
-----------------------------------------------------------------------------
(* Refinement                                                              *)

\* Every transaction of the token contract is one step of the abstract
\* ledger, or none: "issue" mints to its receiver, whoever the issuer is,
\* and "open" and "close" are invisible.
THEOREM Refinement == Spec => LedgerSpec
<1>1. Init => Ledger!Init
  BY DEF Init, Ledger!Init, Holdings, HoldingsIn, HeldIn
<1>2. IInv /\ [Next]_vars => [Ledger!Next]_(Ledger!vars)
  <2> SUFFICES ASSUME IInv, [Next]_vars PROVE [Ledger!Next]_(Ledger!vars)
    OBVIOUS
  <2>1. /\ accounts \in Rows /\ stat \in Stat \cup {NoRow}
        /\ Holdings = HoldingsIn(accounts) /\ Holdings' = HoldingsIn(accounts')
        /\ \A n \in Names : Holdings[n] = HeldIn(accounts, n)
    BY DEF IInv, TypeOK, Rows, Holdings, HoldingsIn
  <2>2. ASSUME NEW auths \in AuthSets, NEW n \in Names, NEW prec \in Precisions,
               NEW q \in Quantities, Create(auths, n, prec, q)
        PROVE  Ledger!Next
    <3>1. /\ stat = NoRow /\ q > 0 /\ accounts' = accounts
          /\ IsValid(q)
          /\ stat' = [precision |-> prec, supply |-> 0, max_supply |-> q, issuer |-> n]
      BY <2>2 DEF Create
    <3>2. stat' \in Stat /\ stat'.max_supply - stat'.supply = q
      BY <3>1, AmountsAssumption DEF Stat, IsValid
    <3>3. stat' # NoRow
      BY <3>2, NoRowAssumption
    <3>4. Ledger!Found(q)
      BY <2>1, <3>1, <3>2, <3>3 DEF Ledger!Found
    <3>5. QED
      BY <3>1, <3>4 DEF Ledger!Next
  <2>3. ASSUME NEW auths \in AuthSets, NEW to \in Names, NEW prec \in Precisions,
               NEW q \in Quantities, Issue(auths, to, prec, q)
        PROVE  Ledger!Next
    <3>1. /\ q \in Nat \ {0} /\ q <= stat.max_supply - stat.supply
          /\ HoldingsIn(accounts') = [HoldingsIn(accounts) EXCEPT ![to] = @ + q]
      BY <2>3, IssueEffect
    <3>2. /\ stat \in Stat /\ stat # NoRow /\ stat' = [stat EXCEPT !.supply = @ + q]
          /\ IsValid(stat.supply + q)
      BY <2>1, <2>3 DEF Issue
    <3>3. /\ stat' \in Stat
          /\ stat'.max_supply - stat'.supply = (stat.max_supply - stat.supply) - q
      BY <3>1, <3>2, AmountsAssumption DEF Stat, IsValid
    <3>4. stat' # NoRow
      BY <3>3, NoRowAssumption
    <3>5. Ledger!Mint(to, q)
      BY <2>1, <3>1, <3>2, <3>3, <3>4 DEF Ledger!Mint
    <3>6. QED
      BY <3>1, <3>5 DEF Ledger!Next
  <2>4. ASSUME NEW auths \in AuthSets, NEW prec \in Precisions, NEW q \in Quantities,
               Retire(auths, prec, q) \/ Burn(auths, prec, q)
        PROVE  Ledger!Next
    <3>1. /\ stat \in Stat /\ stat # NoRow
          /\ q \in Nat \ {0} /\ q <= HeldIn(accounts, stat.issuer)
          /\ HoldingsIn(accounts') = [HoldingsIn(accounts) EXCEPT ![stat.issuer] = @ - q]
          /\ stat.issuer \in Names
      BY <2>4, WithdrawEffect, NamesAssumption
    <3>2. /\ stat.supply \in Int /\ stat.max_supply \in Int
      BY <3>1 DEF Stat
    <3>3. stat' # NoRow
      <4>1. IInv'
        BY NextInv
      <4>2. stat' \in Stat \cup {NoRow}
        BY <4>1 DEF IInv, TypeOK
      <4>3. accounts'[stat.issuer] # NoRow
        BY <2>4, WithdrawEffect
      <4>4. QED
        BY <3>1, <4>1, <4>3 DEF IInv, RowsMatchStat
    <3>4. CASE Retire(auths, prec, q)
      <4>1. stat' = [stat EXCEPT !.supply = @ - q]
        BY <3>4 DEF Retire
      <4>2. stat'.max_supply - stat'.supply = (stat.max_supply - stat.supply) + q
        BY <3>1, <3>2, <4>1 DEF Stat
      <4>3. Ledger!Retire(stat.issuer, q)
        BY <2>1, <3>1, <3>3, <4>2 DEF Ledger!Retire
      <4>4. QED
        BY <3>1, <4>3 DEF Ledger!Next
    <3>5. CASE Burn(auths, prec, q)
      <4>1. stat' = [stat EXCEPT !.max_supply = @ - q]
        BY <3>5 DEF Burn
      <4>2. stat'.max_supply - stat'.supply = (stat.max_supply - stat.supply) - q
        BY <3>1, <3>2, <4>1 DEF Stat
      <4>3. Ledger!Burn(stat.issuer, q)
        BY <2>1, <3>1, <3>3, <4>2 DEF Ledger!Burn
      <4>4. QED
        BY <3>1, <4>3 DEF Ledger!Next
    <3>6. QED
      BY <2>4, <3>4, <3>5
  <2>5. ASSUME NEW auths \in AuthSets, NEW from \in Names, NEW to \in Names,
               NEW prec \in Precisions, NEW q \in Quantities, Transfer(auths, from, to, prec, q)
        PROVE  Ledger!Next
    <3>1. /\ q \in Nat \ {0} /\ q <= HeldIn(accounts, from) /\ from # to
          /\ HoldingsIn(accounts') = [HoldingsIn(accounts) EXCEPT ![from] = @ - q, ![to] = @ + q]
      BY <2>5, TransferEffect
    <3>2. stat' = stat
      BY <2>5 DEF Transfer
    <3>3. Ledger!Move(from, to, q)
      BY <2>1, <3>1, <3>2 DEF Ledger!Move
    <3>4. QED
      BY <3>1, <3>3 DEF Ledger!Next
  <2>6. ASSUME NEW auths \in AuthSets, NEW owner \in Names,
               \/ \E prec \in Precisions, payer \in Accounts : Open(auths, owner, prec, payer)
               \/ Close(auths, owner)
        PROVE  UNCHANGED Ledger!vars
    <3>1. HoldingsIn(accounts') = HoldingsIn(accounts) /\ stat' = stat
      BY <2>6, OpenCloseEffect DEF Open, Close
    <3>2. QED
      BY <2>1, <3>1 DEF Ledger!vars
  <2>7. CASE UNCHANGED vars
    BY <2>1, <2>7 DEF vars, Ledger!vars
  <2>8. QED
    BY <2>2, <2>3, <2>4, <2>5, <2>6, <2>7 DEF Next, Transact
<1>3. QED
  BY <1>1, <1>2, Invariance, PTL DEF Spec, LedgerSpec, Ledger!Spec
=============================================================================
