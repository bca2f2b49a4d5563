---------------------------- MODULE Ledgers_proofs ----------------------------
(***************************************************************************)
(* Proofs about the three ledgers that the system contract keeps beside    *)
(* its votes, for every value of their constants: the registry of dapps,   *)
(* the name auction and the RAM market.  Each is a specification of its    *)
(* own; what they share is that amounts are sums over rows of which an     *)
(* action changes one, and the lemmas of Sums_proofs about such sums.      *)
(***************************************************************************)
EXTENDS DappRegistry, NameAuction, RamMarket, FiniteSetTheorems, Sums_proofs
-----------------------------------------------------------------------------
(***************************************************************************)
(* The registry of dapps.  Proofs about DappRegistry for any number of     *)
(* dapps, accounts and senders: the totals that rewards are divided by are *)
(* the sums over the dapps.  Rows are looked at one at a time: each action *)
(* changes one, and TableChange says what becomes of the sums.             *)
(***************************************************************************)

DappTable == [Dapps -> DappRow \cup {NoDapp}]

Volume(row)   == IF row = NoDapp THEN 0 ELSE row.volume
UserCount(row) == IF row = NoDapp THEN 0 ELSE Cardinality(row.users)
Volumes(t)    == [d \in Dapps |-> Volume(t[d])]
UserCounts(t) == [d \in Dapps |-> UserCount(t[d])]

\* The two totals of the table t.
VolumeIn(t) == SumOver(Volumes(t), Dapps)
UsersIn(t)  == SumOver(UserCounts(t), Dapps)

DappInv == DappTypeOK /\ DappTotals

Configuration == [transactions : Nat, users : Nat, rate : Nat, period : Nat]
Orphans       == [transactions : Nat, users : Nat]
-----------------------------------------------------------------------------
(* Sums over the table                                                     *)

LEMMA UsersFinite ==
  ASSUME NEW T \in SUBSET Senders
  PROVE  IsFiniteSet(T) /\ Cardinality(T) \in Nat
<1>1. IsFiniteSet(T)
  BY DappAssumption, FS_Subset
<1>2. QED
  BY <1>1, FS_CardinalityType

LEMMA DappRowType ==
  ASSUME NEW row \in DappRow \cup {NoDapp}
  PROVE  Volume(row) \in Nat /\ UserCount(row) \in Nat
<1>1. CASE row = NoDapp
  BY <1>1 DEF Volume, UserCount
<1>2. CASE row # NoDapp
  <2>1. row.volume \in Nat /\ row.users \in SUBSET Senders
    BY <1>2 DEF DappRow
  <2>2. Cardinality(row.users) \in Nat
    BY <2>1, UsersFinite
  <2>3. QED
    BY <1>2, <2>1, <2>2 DEF Volume, UserCount
<1>3. QED
  BY <1>1, <1>2

\* No dapp has more than the total.
LEMMA TableBound ==
  ASSUME NEW t \in DappTable, NEW d \in Dapps
  PROVE  /\ VolumeIn(t) \in Nat /\ Volume(t[d]) \in Nat /\ Volume(t[d]) <= VolumeIn(t)
         /\ UsersIn(t) \in Nat /\ UserCount(t[d]) \in Nat /\ UserCount(t[d]) <= UsersIn(t)
<1> DEFINE v == Volumes(t)
           u == UserCounts(t)
<1>1. \A x \in Dapps : t[x] \in DappRow \cup {NoDapp}
  BY DEF DappTable
<1>2. /\ \A x \in Dapps : v[x] = Volume(t[x])
      /\ \A x \in Dapps : u[x] = UserCount(t[x])
  BY DEF Volumes, UserCounts
<1>3. /\ \A x \in Dapps : v[x] \in Nat
      /\ \A x \in Dapps : u[x] \in Nat
  BY <1>1, <1>2, DappRowType
<1>4. IsFiniteSet(Dapps)
  BY DappAssumption
<1> HIDE DEF v, u
<1>5. SumOver(v, Dapps) \in Nat /\ v[d] <= SumOver(v, Dapps)
  BY <1>3, <1>4, SumOverNat, SumOverBound
<1>6. SumOver(u, Dapps) \in Nat /\ u[d] <= SumOver(u, Dapps)
  BY <1>3, <1>4, SumOverNat, SumOverBound
<1>7. v[d] = Volume(t[d]) /\ u[d] = UserCount(t[d]) /\ v[d] \in Nat /\ u[d] \in Nat
  BY <1>2, <1>3
<1>8. QED
  BY <1>5, <1>6, <1>7 DEF v, u, VolumeIn, UsersIn

\* One row changes, and the totals by as much.
LEMMA TableChange ==
  ASSUME NEW t \in DappTable, NEW d \in Dapps, NEW row \in DappRow \cup {NoDapp}
  PROVE  LET e == [t EXCEPT ![d] = row]
         IN  /\ e \in DappTable
             /\ VolumeIn(e) = VolumeIn(t) + Volume(row) - Volume(t[d])
             /\ UsersIn(e) = UsersIn(t) + UserCount(row) - UserCount(t[d])
<1> DEFINE e == [t EXCEPT ![d] = row]
           v == Volumes(t)
           w == Volumes(e)
           u == UserCounts(t)
           z == UserCounts(e)
<1>1. e \in DappTable /\ e[d] = row /\ \A x \in Dapps \ {d} : e[x] = t[x]
  BY DEF DappTable
<1> HIDE DEF e
<1>2. \A x \in Dapps : e[x] \in DappRow \cup {NoDapp} /\ t[x] \in DappRow \cup {NoDapp}
  BY <1>1 DEF DappTable
<1>3. \A x \in Dapps : /\ v[x] = Volume(t[x]) /\ w[x] = Volume(e[x])
                       /\ u[x] = UserCount(t[x]) /\ z[x] = UserCount(e[x])
  BY DEF Volumes, UserCounts
<1> HIDE DEF v, w, u, z
<1>4. \A x \in Dapps : v[x] \in Nat /\ w[x] \in Nat /\ u[x] \in Nat /\ z[x] \in Nat
  BY <1>2, <1>3, DappRowType
<1>5. /\ \A x \in Dapps : v[x] \in Int
      /\ \A x \in Dapps : w[x] \in Int
      /\ \A x \in Dapps : u[x] \in Int
      /\ \A x \in Dapps : z[x] \in Int
  BY <1>4
<1>6. /\ \A x \in Dapps \ {d} : v[x] = w[x]
      /\ \A x \in Dapps \ {d} : u[x] = z[x]
  BY <1>1, <1>3
<1>7. IsFiniteSet(Dapps)
  BY DappAssumption
<1>8. SumOver(w, Dapps) = SumOver(v, Dapps) + w[d] - v[d]
  BY <1>5, <1>6, <1>7, SumOverChange
<1>9. SumOver(z, Dapps) = SumOver(u, Dapps) + z[d] - u[d]
  BY <1>5, <1>6, <1>7, SumOverChange
<1>10. w[d] = Volume(row) /\ v[d] = Volume(t[d]) /\ z[d] = UserCount(row) /\ u[d] = UserCount(t[d])
  BY <1>1, <1>3
<1>11. QED
  BY <1>1, <1>8, <1>9, <1>10 DEF e, v, w, u, z, VolumeIn, UsersIn

\* The invariant, said of the sums of the table.
LEMMA TotalsAre ==
  DappTotals <=> /\ config.transactions = VolumeIn(dapps) + orphaned.transactions
                 /\ config.users = UsersIn(dapps) + orphaned.users
<1>1. /\ [d \in Dapps |-> VolumeOf(d)] = Volumes(dapps)
      /\ [d \in Dapps |-> UsersOf(d)] = UserCounts(dapps)
  BY DEF VolumeOf, UsersOf, Volumes, UserCounts, Volume, UserCount
<1>2. QED
  BY <1>1 DEF DappTotals, VolumeIn, UsersIn

LEMMA TotalsAreNext ==
  DappTotals' <=> /\ config'.transactions = VolumeIn(dapps') + orphaned'.transactions
                  /\ config'.users = UsersIn(dapps') + orphaned'.users
<1>1. /\ [d \in Dapps |-> VolumeOf(d)]' = Volumes(dapps')
      /\ [d \in Dapps |-> UsersOf(d)]' = UserCounts(dapps')
  BY DEF VolumeOf, UsersOf, Volumes, UserCounts, Volume, UserCount
<1>2. QED
  BY <1>1 DEF DappTotals, VolumeIn, UsersIn
-----------------------------------------------------------------------------
(* The actions                                                             *)

LEMMA DappInvariantInit == DappInit => DappInv
<1> SUFFICES ASSUME DappInit PROVE DappInv
  OBVIOUS
<1> DEFINE v == [d \in Dapps |-> VolumeOf(d)]
           u == [d \in Dapps |-> UsersOf(d)]
<1>1. DappTypeOK
  BY DappAssumption DEF DappInit, DappTypeOK
<1>2. /\ \A d \in Dapps : v[d] = 0
      /\ \A d \in Dapps : u[d] = 0
  BY DEF DappInit, VolumeOf, UsersOf
<1>3. SumOver(v, Dapps) = 0 /\ SumOver(u, Dapps) = 0
  <2> HIDE DEF v, u
  <2>1. /\ \A d \in Dapps : v[d] \in Nat
        /\ \A d \in Dapps : u[d] \in Nat
    BY <1>2
  <2>2. QED
    BY <1>2, <2>1, SumOverNat, DappAssumption
<1>4. DappTotals
  BY <1>3 DEF DappTotals, DappInit
<1>5. QED
  BY <1>1, <1>4 DEF DappInv

\* What the invariant says of a dapp's row.
LEMMA RowBound ==
  ASSUME DappInv, NEW d \in Dapps
  PROVE  /\ dapps \in DappTable /\ config.transactions \in Nat /\ config.users \in Nat
         /\ Volume(dapps[d]) \in Nat /\ Volume(dapps[d]) <= config.transactions
         /\ UserCount(dapps[d]) \in Nat /\ UserCount(dapps[d]) <= config.users
<1>1. /\ dapps \in DappTable /\ config.transactions \in Nat /\ config.users \in Nat
      /\ orphaned.transactions \in Nat /\ orphaned.users \in Nat
  BY DEF DappInv, DappTypeOK, DappTable
<1>2. /\ config.transactions = VolumeIn(dapps) + orphaned.transactions
      /\ config.users = UsersIn(dapps) + orphaned.users
  BY TotalsAre DEF DappInv
<1>3. QED
  BY <1>1, <1>2, TableBound

\* A step that changes d's row, and the totals by as much as the row or what is orphaned.
LEMMA RowStep ==
  ASSUME DappInv, NEW d \in Dapps, NEW row \in DappRow \cup {NoDapp},
         dapps' = [dapps EXCEPT ![d] = row],
         config' \in Configuration, orphaned' \in Orphans,
         config'.transactions - orphaned'.transactions
             = config.transactions - orphaned.transactions + Volume(row) - Volume(dapps[d]),
         config'.users - orphaned'.users
             = config.users - orphaned.users + UserCount(row) - UserCount(dapps[d]),
         linked' \in [DappAccounts -> Dapps \cup {NoDapp}]
  PROVE  DappInv'
<1>1. dapps \in DappTable /\ config \in Configuration /\ orphaned \in Orphans
  BY DEF DappInv, DappTypeOK, DappTable, Configuration, Orphans
<1>2. /\ dapps' \in DappTable
      /\ VolumeIn(dapps') = VolumeIn(dapps) + Volume(row) - Volume(dapps[d])
      /\ UsersIn(dapps') = UsersIn(dapps) + UserCount(row) - UserCount(dapps[d])
  BY <1>1, TableChange
<1>3. /\ VolumeIn(dapps) \in Nat /\ UsersIn(dapps) \in Nat
      /\ Volume(dapps[d]) \in Nat /\ UserCount(dapps[d]) \in Nat
      /\ Volume(row) \in Nat /\ UserCount(row) \in Nat
  BY <1>1, TableBound, DappRowType
<1>4. /\ config.transactions = VolumeIn(dapps) + orphaned.transactions
      /\ config.users = UsersIn(dapps) + orphaned.users
  BY TotalsAre DEF DappInv
<1>5. DappTotals'
  <2>1. /\ config.transactions \in Nat /\ config.users \in Nat
        /\ orphaned.transactions \in Nat /\ orphaned.users \in Nat
        /\ config'.transactions \in Nat /\ config'.users \in Nat
        /\ orphaned'.transactions \in Nat /\ orphaned'.users \in Nat
    BY <1>1 DEF Configuration, Orphans
  <2>2. /\ config'.transactions = VolumeIn(dapps') + orphaned'.transactions
        /\ config'.users = UsersIn(dapps') + orphaned'.users
    BY <1>2, <1>3, <1>4, <2>1
  <2>3. QED
    BY <2>2, TotalsAreNext
<1>6. DappTypeOK'
  BY <1>2 DEF DappTypeOK, DappTable, Configuration, Orphans
<1>7. QED
  BY <1>5, <1>6 DEF DappInv

LEMMA AddPreserves ==
  ASSUME DappInv, NEW time \in Nat, NEW d \in Dapps, NEW owner \in DappAccounts,
         NEW preference \in Preferences, AddDapp(d, owner, preference, time)
  PROVE  DappInv'
<1> DEFINE row == [owner |-> owner, preference |-> preference, volume |-> 0, users |-> {},
                   claimed |-> time]
<1>1. row \in DappRow /\ row.volume = 0 /\ row.users = {}
  BY DEF DappRow
<1>2. dapps' = [dapps EXCEPT ![d] = row] /\ dapps[d] = NoDapp
  BY DEF AddDapp
<1>3. linked' \in [DappAccounts -> Dapps \cup {NoDapp}] /\ config' = config /\ orphaned' = orphaned
  BY DEF AddDapp, DappInv, DappTypeOK
<1> HIDE DEF row
<1>4. Volume(row) = 0 /\ UserCount(row) = 0 /\ Volume(dapps[d]) = 0 /\ UserCount(dapps[d]) = 0
  BY <1>1, <1>2, DappAssumption, FS_EmptySet DEF Volume, UserCount
<1>5. /\ config.transactions \in Nat /\ config.users \in Nat
      /\ orphaned.transactions \in Nat /\ orphaned.users \in Nat
      /\ config' \in Configuration /\ orphaned' \in Orphans
  BY <1>3 DEF DappInv, DappTypeOK, Configuration, Orphans
<1>6. /\ config'.transactions - orphaned'.transactions
          = config.transactions - orphaned.transactions + Volume(row) - Volume(dapps[d])
      /\ config'.users - orphaned'.users
          = config.users - orphaned.users + UserCount(row) - UserCount(dapps[d])
  BY <1>3, <1>4, <1>5
<1>7. QED
  BY <1>1, <1>2, <1>3, <1>5, <1>6, RowStep

LEMMA RemovePreserves ==
  ASSUME DappInv, NEW d \in Dapps, RemoveDapp(d)
  PROVE  DappInv'
<1>1. /\ dapps[d] # NoDapp /\ dapps' = [dapps EXCEPT ![d] = NoDapp]
      /\ orphaned' = [transactions |-> orphaned.transactions + dapps[d].volume,
                      users |-> orphaned.users + Cardinality(dapps[d].users)]
      /\ config' = config /\ linked' \in [DappAccounts -> Dapps \cup {NoDapp}]
  BY DEF RemoveDapp, DappInv, DappTypeOK
<1>2. /\ Volume(NoDapp) = 0 /\ UserCount(NoDapp) = 0
      /\ Volume(dapps[d]) = dapps[d].volume /\ UserCount(dapps[d]) = Cardinality(dapps[d].users)
  BY <1>1 DEF Volume, UserCount
<1>3. /\ config.transactions \in Nat /\ config.users \in Nat
      /\ dapps[d].volume \in Nat /\ Cardinality(dapps[d].users) \in Nat
  BY <1>2, RowBound
<1>4. /\ orphaned.transactions + dapps[d].volume \in Nat
      /\ orphaned.users + Cardinality(dapps[d].users) \in Nat
      /\ orphaned.transactions \in Nat /\ orphaned.users \in Nat
      /\ config' \in Configuration
  BY <1>1, <1>3 DEF DappInv, DappTypeOK, Configuration
<1>5. /\ orphaned' \in Orphans
      /\ orphaned'.transactions = orphaned.transactions + dapps[d].volume
      /\ orphaned'.users = orphaned.users + Cardinality(dapps[d].users)
  BY <1>1, <1>4 DEF Orphans
<1>6. /\ config'.transactions - orphaned'.transactions
           = config.transactions - orphaned.transactions + Volume(NoDapp) - Volume(dapps[d])
      /\ config'.users - orphaned'.users
           = config.users - orphaned.users + UserCount(NoDapp) - UserCount(dapps[d])
  BY <1>1, <1>2, <1>3, <1>4, <1>5
<1>7. QED
  BY <1>1, <1>4, <1>5, <1>6, RowStep

\* The notification of a transfer.  A sender that is new counts once.
LEMMA TransferPreserves ==
  ASSUME DappInv, NEW user \in Senders, NEW to \in DappAccounts, NEW amount \in Amounts,
         DappTransfer(user, to, amount)
  PROVE  DappInv'
<1> DEFINE d == linked[to]
           row == dapps[d]
<1>1. /\ d \in Dapps /\ row # NoDapp /\ row \in DappRow
      /\ OnTransfer(d, user, amount) /\ linked' = linked /\ orphaned' = orphaned
      /\ dapps \in DappTable
      /\ linked' \in [DappAccounts -> Dapps \cup {NoDapp}]
  BY DappAssumption DEF DappTransfer, DappInv, DappTypeOK, DappTable
<1> HIDE DEF d
<1>2. /\ config.transactions \in Nat /\ config.users \in Nat /\ amount \in Nat
      /\ orphaned.transactions \in Nat /\ orphaned.users \in Nat
      /\ orphaned' \in Orphans /\ config \in Configuration
  BY <1>1, DappAssumption DEF DappInv, DappTypeOK, Configuration, Orphans
<1>3. /\ Volume(row) = row.volume /\ UserCount(row) = Cardinality(row.users)
      /\ row.volume \in Nat /\ row.users \in SUBSET Senders
  BY <1>1 DEF Volume, UserCount, DappRow
<1>4. Cardinality(row.users) \in Nat /\ IsFiniteSet(row.users)
  BY <1>3, UsersFinite
<1>5. CASE row.preference = "TokenCirculation"
  <2> DEFINE new == [row EXCEPT !.volume = row.volume + amount]
  <2>1. new \in DappRow /\ new.volume = row.volume + amount /\ new.users = row.users /\ new # NoDapp
    BY <1>1, <1>2, <1>3, DappAssumption DEF DappRow
  <2>2. /\ dapps' = [dapps EXCEPT ![d] = new]
        /\ config' = [config EXCEPT !.transactions = config.transactions + amount]
    BY <1>1, <1>2, <1>5 DEF OnTransfer, DappTable
  <2> HIDE DEF new, row
  <2>3. Volume(new) = row.volume + amount /\ UserCount(new) = Cardinality(row.users)
    BY <2>1 DEF Volume, UserCount
  <2>4. /\ config' \in Configuration /\ config'.users = config.users
        /\ config'.transactions = config.transactions + amount
    BY <1>2, <2>2 DEF Configuration
  <2>5. /\ config'.transactions - orphaned'.transactions
            = config.transactions - orphaned.transactions + Volume(new) - Volume(dapps[d])
        /\ config'.users - orphaned'.users
            = config.users - orphaned.users + UserCount(new) - UserCount(dapps[d])
    BY <1>1, <1>2, <1>3, <1>4, <2>3, <2>4 DEF row
  <2>6. QED
    BY <1>1, <1>2, <2>1, <2>2, <2>4, <2>5, RowStep
<1>6. CASE row.preference # "TokenCirculation"
  <2> DEFINE new == [row EXCEPT !.users = row.users \cup {user}]
             more == Cardinality({user} \ row.users)
  <2>1. new \in DappRow /\ new.volume = row.volume /\ new.users = row.users \cup {user} /\ new # NoDapp
    BY <1>1, <1>2, <1>3, DappAssumption DEF DappRow
  <2>2. /\ dapps' = [dapps EXCEPT ![d] = new]
        /\ config' = [config EXCEPT !.users = config.users + more]
    BY <1>1, <1>2, <1>6 DEF OnTransfer, DappTable
  <2>3. more \in Nat /\ Cardinality(row.users \cup {user}) = Cardinality(row.users) + more
    <3>1. CASE user \in row.users
      <4>1. {user} \ row.users = {} /\ row.users \cup {user} = row.users
        BY <3>1
      <4>2. more = Cardinality({})
        BY <4>1
      <4>3. more = 0
        BY <4>2, FS_EmptySet
      <4>4. Cardinality(row.users \cup {user}) = Cardinality(row.users)
        BY <4>1
      <4> HIDE DEF more
      <4>5. QED
        BY <1>4, <4>3, <4>4
    <3>2. CASE user \notin row.users
      <4>1. {user} \ row.users = {user}
        BY <3>2
      <4>2. more = 1
        BY <4>1, FS_Singleton
      <4>3. Cardinality(row.users \cup {user}) = Cardinality(row.users) + 1
        BY <1>4, <3>2, FS_AddElement
      <4>4. QED
        BY <4>2, <4>3
    <3>3. QED
      BY <3>1, <3>2
  <2> HIDE DEF new, row, more
  <2>4. Volume(new) = row.volume /\ UserCount(new) = Cardinality(row.users) + more
    BY <2>1, <2>3 DEF Volume, UserCount
  <2>5. /\ config' \in Configuration /\ config'.users = config.users + more
        /\ config'.transactions = config.transactions
    BY <1>2, <2>2, <2>3 DEF Configuration
  <2>6. /\ config'.transactions - orphaned'.transactions
            = config.transactions - orphaned.transactions + Volume(new) - Volume(dapps[d])
        /\ config'.users - orphaned'.users
            = config.users - orphaned.users + UserCount(new) - UserCount(dapps[d])
    BY <1>1, <1>2, <1>3, <1>4, <2>3, <2>4, <2>5 DEF row
  <2>7. QED
    BY <1>1, <1>2, <2>1, <2>2, <2>5, <2>6, RowStep
<1>7. QED
  BY <1>5, <1>6

\* A row once it is claimed.
LEMMA ClaimedRow ==
  ASSUME NEW row \in DappRow, NEW time \in Nat
  PROVE  LET new == [row EXCEPT !.volume = 0, !.users = {}, !.claimed = time]
         IN  new \in DappRow /\ new.volume = 0 /\ new.users = {}
<1> DEFINE unpaid == [row EXCEPT !.volume = 0]
           left   == [unpaid EXCEPT !.users = {}]
           new    == [left EXCEPT !.claimed = time]
<1>1. unpaid \in DappRow /\ unpaid.volume = 0
  BY DEF DappRow
<1> HIDE DEF unpaid
<1>2. left \in DappRow /\ left.volume = 0 /\ left.users = {}
  BY <1>1 DEF DappRow
<1> HIDE DEF left
<1>3. new \in DappRow /\ new.volume = 0 /\ new.users = {}
  BY <1>2 DEF DappRow
<1>4. QED
  BY <1>3 DEF unpaid, left, new

LEMMA DappClaimPreserves ==
  ASSUME DappInv, NEW time \in Nat, NEW owner \in DappAccounts, NEW d \in Dapps,
         ClaimDapp(owner, d, time)
  PROVE  DappInv'
<1> DEFINE new == [dapps[d] EXCEPT !.volume = 0, !.users = {}, !.claimed = time]
<1>1. /\ dapps[d] # NoDapp /\ dapps[d] \in DappRow /\ dapps \in DappTable
      /\ linked' \in [DappAccounts -> Dapps \cup {NoDapp}] /\ orphaned' = orphaned
      /\ orphaned \in Orphans /\ config \in Configuration
      /\ config' = [config EXCEPT !.transactions = config.transactions - dapps[d].volume,
                                  !.users = config.users - Cardinality(dapps[d].users)]
  BY DEF ClaimDapp, DappInv, DappTypeOK, DappTable, Orphans, Configuration
<1>2. new \in DappRow /\ new.volume = 0 /\ new.users = {} /\ new # NoDapp
  <2>1. new \in DappRow /\ new.volume = 0 /\ new.users = {}
    BY <1>1, ClaimedRow
  <2>2. QED
    BY <2>1, DappAssumption
<1>3. dapps' = [dapps EXCEPT ![d] = new]
  BY <1>1 DEF ClaimDapp, DappTable
<1> HIDE DEF new
<1>4. /\ Volume(new) = 0 /\ UserCount(new) = 0
      /\ Volume(dapps[d]) = dapps[d].volume /\ UserCount(dapps[d]) = Cardinality(dapps[d].users)
  BY <1>1, <1>2, FS_EmptySet DEF Volume, UserCount
<1>5. /\ config.transactions \in Nat /\ config.users \in Nat
      /\ dapps[d].volume \in Nat /\ Cardinality(dapps[d].users) \in Nat
      /\ dapps[d].volume <= config.transactions /\ Cardinality(dapps[d].users) <= config.users
  BY <1>4, RowBound
<1>6. /\ config.transactions - dapps[d].volume \in Nat
      /\ config.users - Cardinality(dapps[d].users) \in Nat
      /\ orphaned.transactions \in Nat /\ orphaned.users \in Nat
  BY <1>1, <1>5 DEF Orphans
<1>7. /\ config' \in Configuration /\ orphaned' \in Orphans
      /\ config'.transactions = config.transactions - dapps[d].volume
      /\ config'.users = config.users - Cardinality(dapps[d].users)
  BY <1>1, <1>6 DEF Configuration
<1>8. /\ config'.transactions - orphaned'.transactions
          = config.transactions - orphaned.transactions + Volume(new) - Volume(dapps[d])
      /\ config'.users - orphaned'.users
          = config.users - orphaned.users + UserCount(new) - UserCount(dapps[d])
  BY <1>1, <1>4, <1>5, <1>6, <1>7
<1>9. QED
  BY <1>1, <1>2, <1>3, <1>7, <1>8, RowStep

LEMMA DappInvariantStep == DappInv /\ [\E time \in Nat : DappNext(time)]_dappVars => DappInv'
<1> SUFFICES ASSUME DappInv, [\E time \in Nat : DappNext(time)]_dappVars PROVE DappInv'
  OBVIOUS
<1>1. ASSUME dapps' = dapps, orphaned' = orphaned,
             config' \in [transactions : Nat, users : Nat, rate : Nat, period : Nat],
             config'.transactions = config.transactions, config'.users = config.users,
             linked' \in [DappAccounts -> Dapps \cup {NoDapp}]
      PROVE  DappInv'
  BY <1>1, TotalsAre, TotalsAreNext DEF DappInv, DappTypeOK
<1>2. CASE UNCHANGED dappVars
  BY <1>1, <1>2 DEF DappInv, DappTypeOK, dappVars
<1>3. ASSUME NEW time \in Nat, DappNext(time) PROVE DappInv'
  <2>1. ASSUME NEW d \in Dapps, NEW owner \in DappAccounts, NEW preference \in Preferences,
               AddDapp(d, owner, preference, time)
        PROVE  DappInv'
    BY <2>1, AddPreserves
  <2>2. ASSUME NEW d \in Dapps, RemoveDapp(d) PROVE DappInv'
    BY <2>2, RemovePreserves
  <2>3. ASSUME NEW d \in Dapps, NEW a \in DappAccounts, LinkAccount(d, a) PROVE DappInv'
    BY <1>1, <2>3 DEF LinkAccount, DappInv, DappTypeOK
  <2>4. ASSUME NEW a \in DappAccounts, UnlinkAccount(a) PROVE DappInv'
    BY <1>1, <2>4 DEF UnlinkAccount, DappInv, DappTypeOK
  <2>5. ASSUME NEW user \in Senders, NEW to \in DappAccounts, NEW amount \in Amounts,
               DappTransfer(user, to, amount)
        PROVE  DappInv'
    BY <2>5, TransferPreserves
  <2>6. ASSUME NEW owner \in DappAccounts, NEW d \in Dapps, ClaimDapp(owner, d, time) PROVE DappInv'
    BY <2>6, DappClaimPreserves
  <2>7. ASSUME NEW rate \in RewardRates, SetRewardRate(rate) PROVE DappInv'
    BY <1>1, <2>7, DappAssumption DEF SetRewardRate, DappInv, DappTypeOK
  <2>8. ASSUME NEW period \in ClaimPeriods, SetClaimPeriod(period) PROVE DappInv'
    BY <1>1, <2>8, DappAssumption DEF SetClaimPeriod, DappInv, DappTypeOK
  <2>9. QED
    BY <1>3, <2>1, <2>2, <2>3, <2>4, <2>5, <2>6, <2>7, <2>8 DEF DappNext
<1>4. QED
  BY <1>2, <1>3
-----------------------------------------------------------------------------
LEMMA DappInvariant == DappSpec => []DappInv
  BY DappInvariantInit, DappInvariantStep, PTL DEF DappSpec

\* Type correctness of the registry: no total of the configuration falls below zero when
\* dapp_registry.cpp takes a claimed dapp's part off it.
THEOREM DappTypeCorrect == DappSpec => []DappTypeOK
<1>1. DappInv => DappTypeOK
  BY DEF DappInv
<1>2. QED
  BY <1>1, DappInvariant, PTL

\* The totals that get_dapp_rewards divides by are the sums over the dapps and what was
\* never claimed of those that were removed.
THEOREM DappTotalsCorrect == DappSpec => []DappTotals
<1>1. DappInv => DappTotals
  BY DEF DappInv
<1>2. QED
  BY <1>1, DappInvariant, PTL
-----------------------------------------------------------------------------
(***************************************************************************)
(* The name auction.  Proofs about NameAuction for any number of names and *)
(* bidders: who owns what of the tokens on eosio.names, and that no bidder *)
(* loses a bid.  Both are sums over the names, and each action changes the *)
(* bid and the refunds of at most one name.  OneName says what becomes of  *)
(* the sums.                                                               *)
(***************************************************************************)

RefundRow == [Bidders -> Nat]
BidTable  == [Names -> BidRow \cup {NoBid}]

\* What eosio.names holds for the name whose row is r, with the refunds f.
Open(r)    == IF r # NoBid /\ r.bid > 0 THEN r.bid ELSE 0
Held(r, f) == Open(r) + SumOver(f, Bidders)

\* What b has in it.
Bid(r, b)      == IF r # NoBid /\ r.bidder = b THEN IF r.bid > 0 THEN r.bid ELSE -r.bid ELSE 0
Share(r, f, b) == Bid(r, b) + f[b]

\* The sums over the names.
HeldFor(t, f)     == SumOver([n \in Names |-> Held(t[n], f[n])], Names)
SharesOf(t, f, b) == SumOver([n \in Names |-> Share(t[n], f[n], b)], Names)

\* No proceeds are on their way while there is no REX, which would forget them.
NoneWithoutRex == ~rex => proceeds = 0

AuctionInv == AuctionTypeOK /\ NoneWithoutRex /\ NamesCustody /\ BiddersWhole
-----------------------------------------------------------------------------
(* Sums over the names                                                     *)

LEMMA RefundsType ==
  ASSUME NEW f \in RefundRow
  PROVE  SumOver(f, Bidders) \in Nat
<1>1. \A b \in Bidders : f[b] \in Nat
  BY DEF RefundRow
<1>2. QED
  BY <1>1, SumOverNat, AuctionAssumption

LEMMA HeldType ==
  ASSUME NEW r \in BidRow \cup {NoBid}, NEW f \in RefundRow
  PROVE  /\ Held(r, f) \in Nat /\ Open(r) \in Nat
         /\ \A b \in Bidders : Bid(r, b) \in Int /\ Share(r, f, b) \in Int
<1>1. SumOver(f, Bidders) \in Nat /\ \A b \in Bidders : f[b] \in Nat
  BY RefundsType DEF RefundRow
<1>2. r # NoBid => r.bid \in Int
  BY DEF BidRow
<1>3. Open(r) \in Nat
  BY <1>2 DEF Open
<1>4. \A b \in Bidders : Bid(r, b) \in Int
  BY <1>2 DEF Bid
<1>5. QED
  BY <1>1, <1>3, <1>4 DEF Held, Share

\* The bid and the refunds of n change.
LEMMA OneName ==
  ASSUME NEW t \in BidTable, NEW f \in [Names -> RefundRow],
         NEW u \in BidTable, NEW g \in [Names -> RefundRow], NEW n \in Names,
         \A m \in Names \ {n} : u[m] = t[m], \A m \in Names \ {n} : g[m] = f[m]
  PROVE  /\ HeldFor(u, g) = HeldFor(t, f) + Held(u[n], g[n]) - Held(t[n], f[n])
         /\ \A b \in Bidders :
               SharesOf(u, g, b) = SharesOf(t, f, b) + Share(u[n], g[n], b) - Share(t[n], f[n], b)
<1>1. IsFiniteSet(Names)
  BY AuctionAssumption
<1>2. \A m \in Names : /\ t[m] \in BidRow \cup {NoBid} /\ f[m] \in RefundRow
                       /\ u[m] \in BidRow \cup {NoBid} /\ g[m] \in RefundRow
  BY DEF BidTable
<1>3. HeldFor(u, g) = HeldFor(t, f) + Held(u[n], g[n]) - Held(t[n], f[n])
  <2> DEFINE v == [m \in Names |-> Held(t[m], f[m])]
             w == [m \in Names |-> Held(u[m], g[m])]
  <2>1. \A m \in Names : v[m] = Held(t[m], f[m]) /\ w[m] = Held(u[m], g[m])
    OBVIOUS
  <2>2. HeldFor(t, f) = SumOver(v, Names) /\ HeldFor(u, g) = SumOver(w, Names)
    BY DEF HeldFor
  <2> HIDE DEF v, w
  <2>3. /\ \A m \in Names : v[m] \in Int
        /\ \A m \in Names : w[m] \in Int
    <3>1. ASSUME NEW m \in Names PROVE Held(t[m], f[m]) \in Int /\ Held(u[m], g[m]) \in Int
      <4>1. /\ t[m] \in BidRow \cup {NoBid} /\ f[m] \in RefundRow
            /\ u[m] \in BidRow \cup {NoBid} /\ g[m] \in RefundRow
        BY <1>2
      <4>2. Held(t[m], f[m]) \in Nat
        BY <4>1, HeldType
      <4>3. Held(u[m], g[m]) \in Nat
        BY <4>1, HeldType
      <4>4. QED
        BY <4>2, <4>3
    <3>2. QED
      BY <2>1, <3>1
  <2>4. \A m \in Names \ {n} : v[m] = w[m]
    BY <2>1
  <2>5. SumOver(w, Names) = SumOver(v, Names) + w[n] - v[n]
    BY <1>1, <2>3, <2>4, SumOverChange
  <2>6. QED
    BY <2>1, <2>2, <2>5
<1>4. ASSUME NEW b \in Bidders
      PROVE  SharesOf(u, g, b) = SharesOf(t, f, b) + Share(u[n], g[n], b) - Share(t[n], f[n], b)
  <2> DEFINE v == [m \in Names |-> Share(t[m], f[m], b)]
             w == [m \in Names |-> Share(u[m], g[m], b)]
  <2>1. \A m \in Names : v[m] = Share(t[m], f[m], b) /\ w[m] = Share(u[m], g[m], b)
    OBVIOUS
  <2>2. SharesOf(t, f, b) = SumOver(v, Names) /\ SharesOf(u, g, b) = SumOver(w, Names)
    BY DEF SharesOf
  <2> HIDE DEF v, w
  <2>3. /\ \A m \in Names : v[m] \in Int
        /\ \A m \in Names : w[m] \in Int
    BY <1>2, <2>1, HeldType
  <2>4. \A m \in Names \ {n} : v[m] = w[m]
    BY <2>1
  <2>5. SumOver(w, Names) = SumOver(v, Names) + w[n] - v[n]
    BY <1>1, <2>3, <2>4, SumOverChange
  <2>6. QED
    BY <2>1, <2>2, <2>5
<1>5. QED
  BY <1>3, <1>4

LEMMA SumsType ==
  ASSUME NEW t \in BidTable, NEW f \in [Names -> RefundRow]
  PROVE  /\ HeldFor(t, f) \in Nat
         /\ \A n \in Names : Held(t[n], f[n]) \in Nat /\ Held(t[n], f[n]) <= HeldFor(t, f)
         /\ \A b \in Bidders : SharesOf(t, f, b) \in Int
<1>1. IsFiniteSet(Names)
  BY AuctionAssumption
<1>2. \A m \in Names : t[m] \in BidRow \cup {NoBid} /\ f[m] \in RefundRow
  BY DEF BidTable
<1>3. HeldFor(t, f) \in Nat /\ \A n \in Names : Held(t[n], f[n]) \in Nat /\ Held(t[n], f[n]) <= HeldFor(t, f)
  <2> DEFINE v == [m \in Names |-> Held(t[m], f[m])]
  <2>1. \A m \in Names : v[m] = Held(t[m], f[m])
    OBVIOUS
  <2>2. HeldFor(t, f) = SumOver(v, Names)
    BY DEF HeldFor
  <2> HIDE DEF v
  <2>3. \A m \in Names : v[m] \in Nat
    BY <1>2, <2>1, HeldType
  <2>4. SumOver(v, Names) \in Nat
    BY <1>1, <2>3, SumOverNat
  <2>5. \A n \in Names : v[n] <= SumOver(v, Names)
    BY <1>1, <2>3, SumOverBound
  <2>6. QED
    BY <2>1, <2>2, <2>3, <2>4, <2>5
<1>4. ASSUME NEW b \in Bidders PROVE SharesOf(t, f, b) \in Int
  <2> DEFINE v == [m \in Names |-> Share(t[m], f[m], b)]
  <2>1. \A m \in Names : v[m] = Share(t[m], f[m], b)
    OBVIOUS
  <2>2. SharesOf(t, f, b) = SumOver(v, Names)
    BY DEF SharesOf
  <2> HIDE DEF v
  <2>3. \A m \in Names : v[m] \in Int
    BY <1>2, <2>1, HeldType
  <2>4. QED
    BY <1>1, <2>2, <2>3, SumOverType
<1>5. QED
  BY <1>3, <1>4

LEMMA RefundChange ==
  ASSUME NEW f \in RefundRow, NEW g \in RefundRow, NEW b \in Bidders,
         \A x \in Bidders \ {b} : g[x] = f[x]
  PROVE  SumOver(g, Bidders) = SumOver(f, Bidders) + g[b] - f[b]
<1>1. /\ \A x \in Bidders : f[x] \in Int
      /\ \A x \in Bidders : g[x] \in Int
      /\ \A x \in Bidders \ {b} : f[x] = g[x]
  BY DEF RefundRow
<1>2. QED
  BY <1>1, SumOverChange, AuctionAssumption

\* The two claims, said of the sums.
LEMMA ClaimsAre ==
  /\ NamesCustody <=> names = HeldFor(bids, refunds) + proceeds + idle
  /\ BiddersWhole <=> \A b \in Bidders : paid[b] = SharesOf(bids, refunds, b)
<1>1. [n \in Names |-> OpenBid(n) + RefundsOf(n)] = [n \in Names |-> Held(bids[n], refunds[n])]
  BY DEF OpenBid, RefundsOf, Held, Open
<1>2. ASSUME NEW b \in Bidders
      PROVE  [n \in Names |-> StakeIn(n, b)] = [n \in Names |-> Share(bids[n], refunds[n], b)]
  BY DEF StakeIn, BidOf, Share, Bid
<1>3. QED
  BY <1>1, <1>2 DEF NamesCustody, BiddersWhole, HeldFor, SharesOf

LEMMA ClaimsAreNext ==
  /\ NamesCustody' <=> names' = HeldFor(bids', refunds') + proceeds' + idle'
  /\ BiddersWhole' <=> \A b \in Bidders : paid'[b] = SharesOf(bids', refunds', b)
<1>1. [n \in Names |-> OpenBid(n) + RefundsOf(n)]' = [n \in Names |-> Held(bids'[n], refunds'[n])]
  BY DEF OpenBid, RefundsOf, Held, Open
<1>2. ASSUME NEW b \in Bidders
      PROVE  [n \in Names |-> StakeIn(n, b)]' = [n \in Names |-> Share(bids'[n], refunds'[n], b)]
  BY DEF StakeIn, BidOf, Share, Bid
<1>3. QED
  BY <1>1, <1>2 DEF NamesCustody, BiddersWhole, HeldFor, SharesOf
-----------------------------------------------------------------------------
(* The actions                                                             *)

LEMMA AuctionInvariantInit == AuctionInit => AuctionInv
<1> SUFFICES ASSUME AuctionInit PROVE AuctionInv
  OBVIOUS
<1>1. AuctionTypeOK /\ NoneWithoutRex
  <2>1. bids \in [Names -> BidRow \cup {NoBid}] /\ refunds \in [Names -> [Bidders -> Nat]]
    BY DEF AuctionInit
  <2>2. names = 0 /\ proceeds = 0 /\ closed = 0 /\ idle = 0 /\ taken = {} /\ rex = FALSE
    BY DEF AuctionInit
  <2>3. paid \in [Bidders -> Int]
    BY DEF AuctionInit
  <2>4. {names, proceeds, closed, idle} \subseteq Nat /\ taken \subseteq Names
    BY <2>2
  <2>5. rex \in BOOLEAN /\ NoneWithoutRex
    BY <2>2 DEF NoneWithoutRex
  <2>6. QED
    BY <2>1, <2>3, <2>4, <2>5 DEF AuctionTypeOK
<1>2. /\ IsFiniteSet(Names) /\ IsFiniteSet(Bidders)
      /\ bids \in BidTable /\ refunds \in [Names -> RefundRow]
      /\ \A n \in Names : bids[n] = NoBid /\ \A b \in Bidders : refunds[n][b] = 0
  BY AuctionAssumption DEF AuctionInit, BidTable, RefundRow
<1>3. \A n \in Names : Held(bids[n], refunds[n]) = 0 /\ \A b \in Bidders : Share(bids[n], refunds[n], b) = 0
  <2>1. ASSUME NEW n \in Names PROVE SumOver(refunds[n], Bidders) = 0
    <3>1. \A b \in Bidders : refunds[n][b] \in Nat /\ refunds[n][b] = 0
      BY <1>2
    <3>2. QED
      BY <1>2, <3>1, SumOverNat
  <2>2. QED
    BY <1>2, <2>1 DEF Held, Open, Share, Bid
<1>4. HeldFor(bids, refunds) = 0
  <2> DEFINE v == [m \in Names |-> Held(bids[m], refunds[m])]
  <2>1. \A m \in Names : v[m] = 0
    BY <1>3
  <2> HIDE DEF v
  <2>2. SumOver(v, Names) = 0
    <3>1. \A m \in Names : v[m] \in Nat
      BY <2>1
    <3>2. QED
      BY <1>2, <2>1, <3>1, SumOverNat
  <2>3. QED
    BY <2>2 DEF v, HeldFor
<1>5. ASSUME NEW b \in Bidders PROVE SharesOf(bids, refunds, b) = 0
  <2> DEFINE v == [m \in Names |-> Share(bids[m], refunds[m], b)]
  <2>1. \A m \in Names : v[m] = 0
    BY <1>3
  <2> HIDE DEF v
  <2>2. SumOver(v, Names) = 0
    <3>1. \A m \in Names : v[m] \in Nat
      BY <2>1
    <3>2. QED
      BY <1>2, <2>1, <3>1, SumOverNat
  <2>3. QED
    BY <2>2 DEF v, SharesOf
<1>6. NamesCustody /\ BiddersWhole
  BY <1>4, <1>5, ClaimsAre DEF AuctionInit
<1>7. QED
  BY <1>1, <1>6 DEF AuctionInv

\* A step that changes the bid and the refunds of n.
LEMMA NameStep ==
  ASSUME AuctionInv, NEW n \in Names, NEW r \in BidRow \cup {NoBid}, NEW f \in RefundRow,
         bids' = [bids EXCEPT ![n] = r], refunds' = [refunds EXCEPT ![n] = f],
         names' \in Nat, proceeds' \in Nat, closed' \in Nat, idle' \in Nat, taken' \subseteq Names,
         rex' \in BOOLEAN, paid' \in [Bidders -> Int], NoneWithoutRex',
         names' - proceeds' - idle'
             = names - proceeds - idle + Held(r, f) - Held(bids[n], refunds[n]),
         \A b \in Bidders : paid'[b] = paid[b] + Share(r, f, b) - Share(bids[n], refunds[n], b)
  PROVE  AuctionInv'
<1>1. /\ bids \in BidTable /\ refunds \in [Names -> RefundRow]
      /\ names \in Nat /\ proceeds \in Nat /\ idle \in Nat /\ paid \in [Bidders -> Int]
  BY DEF AuctionInv, AuctionTypeOK, BidTable, RefundRow
<1>2. /\ bids' \in BidTable /\ refunds' \in [Names -> RefundRow]
      /\ bids'[n] = r /\ refunds'[n] = f
      /\ \A m \in Names \ {n} : bids'[m] = bids[m] /\ refunds'[m] = refunds[m]
  BY <1>1 DEF BidTable
<1>3. /\ HeldFor(bids', refunds') = HeldFor(bids, refunds) + Held(r, f) - Held(bids[n], refunds[n])
      /\ \A b \in Bidders : SharesOf(bids', refunds', b)
             = SharesOf(bids, refunds, b) + Share(r, f, b) - Share(bids[n], refunds[n], b)
  <2> DEFINE u == bids'
             g == refunds'
  <2>1. /\ u \in BidTable /\ g \in [Names -> RefundRow] /\ u[n] = r /\ g[n] = f
        /\ \A m \in Names \ {n} : u[m] = bids[m]
        /\ \A m \in Names \ {n} : g[m] = refunds[m]
    BY <1>2
  <2>2. bids \in BidTable /\ refunds \in [Names -> RefundRow]
    BY <1>1
  <2> HIDE DEF u, g
  <2>3. HeldFor(u, g) = HeldFor(bids, refunds) + Held(u[n], g[n]) - Held(bids[n], refunds[n])
    BY <2>1, <2>2, OneName
  <2>4. ASSUME NEW b \in Bidders
        PROVE  SharesOf(u, g, b) = SharesOf(bids, refunds, b) + Share(u[n], g[n], b)
                                      - Share(bids[n], refunds[n], b)
    BY <2>1, <2>2, OneName
  <2>5. QED
    BY <2>1, <2>3, <2>4 DEF u, g
<1>4. /\ names = HeldFor(bids, refunds) + proceeds + idle
      /\ \A b \in Bidders : paid[b] = SharesOf(bids, refunds, b)
  BY ClaimsAre DEF AuctionInv
<1>5. /\ HeldFor(bids, refunds) \in Nat /\ Held(bids[n], refunds[n]) \in Nat /\ Held(r, f) \in Nat
      /\ \A b \in Bidders : SharesOf(bids, refunds, b) \in Int
  BY <1>1, SumsType, HeldType
<1>6. names' = HeldFor(bids', refunds') + proceeds' + idle'
  <2>1. /\ names = HeldFor(bids, refunds) + proceeds + idle
        /\ HeldFor(bids', refunds') = HeldFor(bids, refunds) + Held(r, f) - Held(bids[n], refunds[n])
    BY <1>3, <1>4
  <2>2. /\ HeldFor(bids, refunds) \in Nat /\ Held(bids[n], refunds[n]) \in Nat /\ Held(r, f) \in Nat
        /\ names \in Nat /\ proceeds \in Nat /\ idle \in Nat
    BY <1>1, <1>5
  <2>3. QED
    BY <2>1, <2>2
<1>7. \A b \in Bidders : paid'[b] = SharesOf(bids', refunds', b)
  BY <1>3, <1>4
<1>8. NamesCustody' /\ BiddersWhole'
  BY <1>6, <1>7, ClaimsAreNext
<1>9. AuctionTypeOK'
  BY <1>2 DEF AuctionTypeOK, BidTable, RefundRow
<1>10. QED
  BY <1>8, <1>9 DEF AuctionInv

\* A step that changes no bid and no refund.
LEMMA FundsStep ==
  ASSUME AuctionInv, bids' = bids, refunds' = refunds, paid' = paid,
         names' \in Nat, proceeds' \in Nat, closed' \in Nat, idle' \in Nat, taken' \subseteq Names,
         rex' \in BOOLEAN, NoneWithoutRex',
         names' - proceeds' - idle' = names - proceeds - idle
  PROVE  AuctionInv'
<1>1. names \in Nat /\ proceeds \in Nat /\ idle \in Nat
      /\ bids \in BidTable /\ refunds \in [Names -> RefundRow]
  BY DEF AuctionInv, AuctionTypeOK, BidTable, RefundRow
<1>2. HeldFor(bids, refunds) \in Nat
  BY <1>1, SumsType
<1>3. /\ names = HeldFor(bids, refunds) + proceeds + idle
      /\ \A b \in Bidders : paid[b] = SharesOf(bids, refunds, b)
  BY ClaimsAre DEF AuctionInv
<1>4. /\ names' = HeldFor(bids', refunds') + proceeds' + idle'
      /\ \A b \in Bidders : paid'[b] = SharesOf(bids', refunds', b)
  BY <1>1, <1>2, <1>3
<1>5. NamesCustody' /\ BiddersWhole'
  BY <1>4, ClaimsAreNext
<1>6. AuctionTypeOK'
  BY DEF AuctionInv, AuctionTypeOK
<1>7. QED
  BY <1>5, <1>6 DEF AuctionInv

\* What the invariant says of the types.
LEMMA Types ==
  ASSUME AuctionInv
  PROVE  /\ bids \in BidTable /\ refunds \in [Names -> RefundRow] /\ taken \subseteq Names
         /\ names \in Nat /\ proceeds \in Nat /\ closed \in Nat /\ idle \in Nat
         /\ rex \in BOOLEAN /\ paid \in [Bidders -> Int]
  BY DEF AuctionInv, AuctionTypeOK, BidTable, RefundRow

\* A bid, which outbids another or is the first.
LEMMA BidPreserves ==
  ASSUME AuctionInv, NEW time \in Nat, NEW b \in Bidders, NEW n \in Names, NEW bid \in BidAmounts,
         BidName(b, n, bid, time)
  PROVE  AuctionInv'
<1> DEFINE old  == bids[n]
           r    == [bidder |-> b, bid |-> bid, at |-> time]
           f    == refunds[n]
           left == old.bidder
           g    == IF old = NoBid THEN f ELSE [f EXCEPT ![left] = f[left] + old.bid]
<1>1. /\ bids \in BidTable /\ refunds \in [Names -> RefundRow] /\ taken \subseteq Names
      /\ names \in Nat /\ proceeds \in Nat /\ closed \in Nat /\ idle \in Nat
      /\ rex \in BOOLEAN /\ paid \in [Bidders -> Int] /\ bid \in Nat \ {0}
      /\ NoneWithoutRex
  BY Types, AuctionAssumption DEF AuctionInv
<1>2. /\ old # NoBid => old.bid > 0 /\ old.bidder # b
      /\ bids' = [bids EXCEPT ![n] = r]
      /\ names' = names + bid /\ paid' = [paid EXCEPT ![b] = paid[b] + bid]
      /\ taken' = taken /\ proceeds' = proceeds /\ rex' = rex /\ closed' = closed /\ idle' = idle
  BY DEF BidName
<1>3. r \in BidRow /\ r \in BidRow \cup {NoBid} /\ r # NoBid /\ r.bid = bid /\ r.bidder = b
  BY <1>1, AuctionAssumption DEF BidRow
<1>4. /\ old \in BidRow \cup {NoBid} /\ f \in RefundRow
      /\ old # NoBid => old.bid \in Nat /\ left \in Bidders
  BY <1>1, <1>2 DEF BidTable, BidRow
<1>5. refunds' = [refunds EXCEPT ![n] = g]
  <2>1. CASE old = NoBid
    BY <1>1, <2>1 DEF BidName
  <2>2. CASE old # NoBid
    BY <1>1, <2>2 DEF BidName, Outbid
  <2>3. QED
    BY <2>1, <2>2
<1>6. /\ g \in RefundRow /\ SumOver(g, Bidders) = SumOver(f, Bidders) + Open(old) /\ SumOver(f, Bidders) \in Nat
      /\ \A x \in Bidders : g[x] = f[x] + Bid(old, x)
      /\ \A x \in Bidders : f[x] \in Nat
  <2>1. SumOver(f, Bidders) \in Nat /\ \A x \in Bidders : f[x] \in Nat
    BY <1>4, RefundsType DEF RefundRow
  <2>2. CASE old = NoBid
    <3>1. Open(old) = 0 /\ \A x \in Bidders : Bid(old, x) = 0
      BY <2>2 DEF Open, Bid
    <3>2. g = f
      BY <2>2
    <3> HIDE DEF g, f, old
    <3>3. QED
      BY <1>4, <2>1, <3>1, <3>2
  <2>3. CASE old # NoBid
    <3>1. /\ Open(old) = old.bid /\ old.bid \in Nat /\ left \in Bidders
          /\ \A x \in Bidders : Bid(old, x) = IF x = left THEN old.bid ELSE 0
      BY <1>2, <1>4, <2>3 DEF Open, Bid
    <3> DEFINE v == f[left] + old.bid
    <3>2. g = [f EXCEPT ![left] = v] /\ v \in Nat /\ f[left] \in Nat /\ v = f[left] + old.bid
      BY <2>1, <2>3, <3>1
    <3> HIDE DEF g, f, old, left, v
    <3>3. /\ g \in RefundRow /\ g[left] = v /\ \A x \in Bidders \ {left} : g[x] = f[x]
          /\ SumOver(g, Bidders) = SumOver(f, Bidders) + v - f[left]
      <4>1. f \in RefundRow /\ left \in Bidders
        BY <1>4, <3>1
      <4>2. g \in RefundRow /\ g[left] = v /\ \A x \in Bidders \ {left} : g[x] = f[x]
        BY <3>2, <4>1 DEF RefundRow
      <4>3. SumOver(g, Bidders) = SumOver(f, Bidders) + g[left] - f[left]
        BY <4>1, <4>2, RefundChange
      <4>4. QED
        BY <4>2, <4>3
    <3>4. SumOver(g, Bidders) = SumOver(f, Bidders) + Open(old)
      <4>1. /\ SumOver(g, Bidders) = SumOver(f, Bidders) + v - f[left] /\ Open(old) = old.bid
            /\ SumOver(f, Bidders) \in Nat /\ f[left] \in Nat /\ old.bid \in Nat
        BY <2>1, <3>1, <3>2, <3>3
      <4>2. v = f[left] + old.bid
        BY <3>2
      <4>3. QED
        BY <4>1, <4>2
    <3>5. \A x \in Bidders : g[x] = f[x] + Bid(old, x)
      BY <2>1, <3>1, <3>2, <3>3
    <3>6. QED
      BY <2>1, <3>3, <3>4, <3>5
  <2>4. QED
    BY <2>2, <2>3
<1>7. /\ Open(r) = bid /\ Open(old) \in Nat
      /\ \A x \in Bidders : Bid(r, x) = (IF x = b THEN bid ELSE 0) /\ Bid(old, x) \in Int
  BY <1>1, <1>3, <1>4, HeldType DEF Open, Bid
<1> HIDE DEF r, g, f, old, left
<1>8. Held(r, g) - Held(old, f) = bid
  BY <1>1, <1>6, <1>7 DEF Held
<1>9. \A x \in Bidders : Share(r, g, x) - Share(old, f, x) = IF x = b THEN bid ELSE 0
  BY <1>1, <1>6, <1>7 DEF Share
<1>10. /\ names' - proceeds' - idle' = names - proceeds - idle + Held(r, g) - Held(old, f)
       /\ Held(r, g) \in Int /\ Held(old, f) \in Int
  <2>1. Held(r, g) \in Int /\ Held(old, f) \in Int
    BY <1>3, <1>4, <1>6, HeldType
  <2>2. QED
    BY <1>1, <1>2, <1>8, <2>1
<1>11. \A x \in Bidders : paid'[x] = paid[x] + Share(r, g, x) - Share(old, f, x)
  <2>1. \A x \in Bidders : Share(r, g, x) \in Int /\ Share(old, f, x) \in Int
    BY <1>3, <1>4, <1>6, HeldType
  <2>2. QED
    BY <1>1, <1>2, <1>9, <2>1
<1>12. /\ names' \in Nat /\ proceeds' \in Nat /\ closed' \in Nat /\ idle' \in Nat /\ taken' \subseteq Names
       /\ rex' \in BOOLEAN /\ paid' \in [Bidders -> Int] /\ NoneWithoutRex'
  BY <1>1, <1>2 DEF NoneWithoutRex
<1>13. /\ bids' = [bids EXCEPT ![n] = r] /\ refunds' = [refunds EXCEPT ![n] = g]
       /\ r \in BidRow \cup {NoBid} /\ g \in RefundRow
       /\ names' - proceeds' - idle'
             = names - proceeds - idle + Held(r, g) - Held(bids[n], refunds[n])
       /\ \A x \in Bidders : paid'[x] = paid[x] + Share(r, g, x) - Share(bids[n], refunds[n], x)
  BY <1>2, <1>3, <1>5, <1>6, <1>10, <1>11 DEF old, f
<1>14. QED
  BY <1>12, <1>13, NameStep

\* A refund, by whoever sends it.
LEMMA RefundPreserves ==
  ASSUME AuctionInv, NEW b \in Bidders, NEW n \in Names, BidRefund(b, n)
  PROVE  AuctionInv'
<1> DEFINE r == bids[n]
           f == refunds[n]
           g == [f EXCEPT ![b] = 0]
<1>1. /\ bids \in BidTable /\ refunds \in [Names -> RefundRow] /\ taken \subseteq Names
      /\ names \in Nat /\ proceeds \in Nat /\ closed \in Nat /\ idle \in Nat
      /\ rex \in BOOLEAN /\ paid \in [Bidders -> Int]
      /\ NoneWithoutRex
  BY Types DEF AuctionInv
<1>2. r \in BidRow \cup {NoBid} /\ f \in RefundRow /\ \A x \in Bidders : f[x] \in Nat
  BY <1>1 DEF BidTable, RefundRow
<1>3. /\ f[b] <= names /\ names' = names - f[b] /\ paid' = [paid EXCEPT ![b] = paid[b] - f[b]]
      /\ taken' = taken /\ proceeds' = proceeds /\ rex' = rex /\ closed' = closed /\ idle' = idle
      /\ bids' = [bids EXCEPT ![n] = r]
      /\ refunds' = [refunds EXCEPT ![n] = g]
  BY <1>1 DEF BidRefund, BidTable
<1>4. /\ g \in RefundRow /\ g[b] = 0 /\ \A x \in Bidders \ {b} : g[x] = f[x]
      /\ SumOver(g, Bidders) = SumOver(f, Bidders) + 0 - f[b]
  <2>1. g \in RefundRow /\ g[b] = 0 /\ \A x \in Bidders \ {b} : g[x] = f[x]
    BY <1>2 DEF RefundRow
  <2> HIDE DEF g, f
  <2>2. SumOver(g, Bidders) = SumOver(f, Bidders) + g[b] - f[b]
    BY <1>2, <2>1, RefundChange
  <2>3. QED
    BY <2>1, <2>2
<1>5. SumOver(f, Bidders) \in Nat /\ SumOver(g, Bidders) \in Nat
      /\ Open(r) \in Nat /\ \A x \in Bidders : Bid(r, x) \in Int
  BY <1>2, <1>4, HeldType, RefundsType
<1> HIDE DEF r, f, g
<1>6. Held(r, g) - Held(r, f) = -f[b] /\ Held(r, g) \in Int /\ Held(r, f) \in Int
  BY <1>2, <1>4, <1>5 DEF Held
<1>7. names' - proceeds' - idle' = names - proceeds - idle + Held(r, g) - Held(r, f)
  BY <1>1, <1>2, <1>3, <1>6
<1>8. \A x \in Bidders : paid'[x] = paid[x] + Share(r, g, x) - Share(r, f, x)
  BY <1>1, <1>2, <1>3, <1>4, <1>5 DEF Share
<1>9. /\ names' \in Nat /\ proceeds' \in Nat /\ closed' \in Nat /\ idle' \in Nat /\ taken' \subseteq Names
      /\ rex' \in BOOLEAN /\ paid' \in [Bidders -> Int] /\ NoneWithoutRex'
  BY <1>1, <1>2, <1>3 DEF NoneWithoutRex
<1>10. r \in BidRow \cup {NoBid} /\ g \in RefundRow /\ r = bids[n] /\ f = refunds[n]
  BY <1>2, <1>4 DEF r, f
<1>11. /\ bids' = [bids EXCEPT ![n] = r] /\ refunds' = [refunds EXCEPT ![n] = g]
       /\ names' - proceeds' - idle' = names - proceeds - idle + Held(r, g) - Held(bids[n], refunds[n])
       /\ \A x \in Bidders : paid'[x] = paid[x] + Share(r, g, x) - Share(bids[n], refunds[n], x)
  BY <1>3, <1>7, <1>8, <1>10
<1>12. QED
  BY <1>9, <1>10, <1>11, NameStep

\* The name is taken: the bid, already closed, leaves the table.
LEMMA AuctionClaimPreserves ==
  ASSUME AuctionInv, NEW b \in Bidders, NEW n \in Names, ClaimName(b, n)
  PROVE  AuctionInv'
<1> DEFINE old == bids[n]
           f   == refunds[n]
<1>1. /\ bids \in BidTable /\ refunds \in [Names -> RefundRow] /\ taken \subseteq Names
      /\ names \in Nat /\ proceeds \in Nat /\ closed \in Nat /\ idle \in Nat
      /\ rex \in BOOLEAN /\ paid \in [Bidders -> Int]
      /\ NoneWithoutRex
  BY Types DEF AuctionInv
<1>2. old \in BidRow \cup {NoBid} /\ f \in RefundRow /\ \A x \in Bidders : f[x] \in Nat
  BY <1>1 DEF BidTable, RefundRow
<1>3. /\ old # NoBid /\ old.bidder = b /\ old.bid < 0
      /\ bids' = [bids EXCEPT ![n] = NoBid] /\ refunds' = [refunds EXCEPT ![n] = f]
      /\ paid' = [paid EXCEPT ![b] = paid[b] + old.bid] /\ taken' = taken \cup {n}
      /\ names' = names /\ proceeds' = proceeds /\ rex' = rex /\ closed' = closed /\ idle' = idle
  BY <1>1 DEF ClaimName
<1>4. old.bid \in Int
  BY <1>2, <1>3 DEF BidRow
<1>5. /\ Open(old) = 0 /\ Open(NoBid) = 0
      /\ \A x \in Bidders : Bid(NoBid, x) = 0 /\ Bid(old, x) = IF x = b THEN -old.bid ELSE 0
  BY <1>3, <1>4 DEF Open, Bid
<1>6. SumOver(f, Bidders) \in Nat
  BY <1>2, RefundsType
<1> HIDE DEF old, f
<1>7. Held(NoBid, f) - Held(old, f) = 0 /\ Held(NoBid, f) \in Int /\ Held(old, f) \in Int
  BY <1>5, <1>6 DEF Held
<1>8. names' - proceeds' - idle' = names - proceeds - idle + Held(NoBid, f) - Held(old, f)
  BY <1>1, <1>3, <1>7
<1>9. \A x \in Bidders : paid'[x] = paid[x] + Share(NoBid, f, x) - Share(old, f, x)
  BY <1>1, <1>2, <1>3, <1>4, <1>5 DEF Share
<1>10. /\ names' \in Nat /\ proceeds' \in Nat /\ closed' \in Nat /\ idle' \in Nat /\ taken' \subseteq Names
       /\ rex' \in BOOLEAN /\ paid' \in [Bidders -> Int] /\ NoneWithoutRex'
  BY <1>1, <1>3, <1>4 DEF NoneWithoutRex
<1>11. /\ NoBid \in BidRow \cup {NoBid} /\ old = bids[n] /\ f = refunds[n]
  BY DEF old, f
<1>12. /\ bids' = [bids EXCEPT ![n] = NoBid] /\ refunds' = [refunds EXCEPT ![n] = f]
       /\ paid' \in [Bidders -> Int]
       /\ names' - proceeds' - idle' = names - proceeds - idle + Held(NoBid, f) - Held(bids[n], refunds[n])
       /\ \A x \in Bidders : paid'[x] = paid[x] + Share(NoBid, f, x) - Share(bids[n], refunds[n], x)
  BY <1>3, <1>8, <1>9, <1>10, <1>11
<1>13. QED
  BY <1>2, <1>10, <1>11, <1>12, NameStep

\* The daily close: an open bid becomes proceeds, or idle.
LEMMA ClosePreserves ==
  ASSUME AuctionInv, NEW time \in Nat, NEW activated \in Nat, CloseHighest(time, activated)
  PROVE  AuctionInv'
<1>1. /\ bids \in BidTable /\ refunds \in [Names -> RefundRow] /\ taken \subseteq Names
      /\ names \in Nat /\ proceeds \in Nat /\ closed \in Nat /\ idle \in Nat
      /\ rex \in BOOLEAN /\ paid \in [Bidders -> Int]
      /\ NoneWithoutRex
  BY Types DEF AuctionInv
<1>2. refunds' = refunds /\ taken' = taken /\ names' = names /\ rex' = rex /\ paid' = paid
  BY DEF CloseHighest
<1>3. CASE ~\E n \in Names : ToClose(n, time, activated)
  <2>1. closed' = closed /\ proceeds' = proceeds /\ idle' = idle /\ bids' = bids
    BY <1>3 DEF CloseHighest
  <2>2. NoneWithoutRex'
    BY <1>1, <1>2, <2>1 DEF NoneWithoutRex
  <2>3. QED
    BY <1>1, <1>2, <2>1, <2>2, FundsStep
<1>4. CASE \E n \in Names : ToClose(n, time, activated)
  <2> DEFINE n   == CHOOSE m \in Names : ToClose(m, time, activated)
             old == bids[n]
             f   == refunds[n]
             r   == [old EXCEPT !.bid = -old.bid]
  <2>1. n \in Names /\ ToClose(n, time, activated)
    BY <1>4
  <2>2. /\ closed' = time
        /\ proceeds' = IF rex THEN proceeds + old.bid ELSE proceeds
        /\ idle' = IF rex THEN idle ELSE idle + old.bid
        /\ bids' = [bids EXCEPT ![n].bid = -old.bid]
    BY <1>4 DEF CloseHighest
  <2> HIDE DEF n
  <2>3. old # NoBid /\ old.bid > 0
    BY <2>1 DEF ToClose, IsHighest
  <2>4. old \in BidRow /\ f \in RefundRow /\ old.bid \in Nat \ {0} /\ \A x \in Bidders : f[x] \in Nat
    BY <1>1, <2>1, <2>3 DEF BidTable, BidRow, RefundRow
  <2>5. r \in BidRow /\ r.bid = -old.bid /\ r.bidder = old.bidder
    BY <2>4 DEF BidRow
  <2>6. bids' = [bids EXCEPT ![n] = r] /\ refunds' = [refunds EXCEPT ![n] = f]
    BY <1>1, <1>2, <2>1, <2>2
  <2> HIDE DEF old, f, r
  <2>7. r # NoBid /\ r \in BidRow \cup {NoBid}
    BY <2>5, AuctionAssumption
  <2>8. /\ Open(r) = 0 /\ Open(old) = old.bid /\ \A x \in Bidders : Bid(r, x) = Bid(old, x)
    BY <2>3, <2>4, <2>5, <2>7 DEF Open, Bid
  <2>9. SumOver(f, Bidders) \in Nat
    BY <2>4, RefundsType
  <2>10. Held(r, f) - Held(old, f) = -old.bid /\ Held(r, f) \in Int /\ Held(old, f) \in Int
    BY <2>4, <2>8, <2>9 DEF Held
  <2>11. proceeds' \in Nat /\ idle' \in Nat /\ proceeds' + idle' = proceeds + idle + old.bid
    BY <1>1, <2>2, <2>4
  <2>12. names' - proceeds' - idle' = names - proceeds - idle + Held(r, f) - Held(old, f)
    <3> DEFINE i == Held(r, f)
               j == Held(old, f)
               c == old.bid
               p == proceeds'
               m == idle'
    <3>1. /\ i \in Int /\ j \in Int /\ c \in Int /\ p \in Int /\ m \in Int
          /\ names \in Int /\ proceeds \in Int /\ idle \in Int
      BY <1>1, <2>4, <2>10, <2>11
    <3>2. i - j = -c /\ p + m = proceeds + idle + c /\ names' = names
      BY <1>2, <2>10, <2>11
    <3> HIDE DEF i, j, c, p, m
    <3>3. i = j - c /\ m = proceeds + idle + c - p
      BY <3>1, <3>2
    <3>4. names - p - m = names - proceeds - idle + i - j
      BY <3>1, <3>3
    <3>5. QED
      BY <3>2, <3>4 DEF i, j, p, m
  <2>13. \A x \in Bidders : paid'[x] = paid[x] + Share(r, f, x) - Share(old, f, x)
    <3>1. ASSUME NEW x \in Bidders PROVE Share(r, f, x) = Share(old, f, x) /\ Share(old, f, x) \in Int
      BY <2>4, <2>8, HeldType DEF Share
    <3>2. QED
      BY <1>1, <1>2, <3>1
  <2>14. NoneWithoutRex'
    BY <1>1, <1>2, <2>2 DEF NoneWithoutRex
  <2>15. closed' \in Nat /\ names' \in Nat /\ taken' \subseteq Names /\ rex' \in BOOLEAN
         /\ paid' \in [Bidders -> Int]
    BY <1>1, <1>2, <2>2
  <2>16. n \in Names /\ old = bids[n] /\ f = refunds[n]
    BY <2>1 DEF old, f
  <2>17. /\ names' - proceeds' - idle' = names - proceeds - idle + Held(r, f) - Held(bids[n], refunds[n])
         /\ \A x \in Bidders : paid'[x] = paid[x] + Share(r, f, x) - Share(bids[n], refunds[n], x)
    BY <2>12, <2>13, <2>16
  <2>18. QED
    BY <2>4, <2>6, <2>7, <2>11, <2>14, <2>15, <2>16, <2>17, NameStep
<1>5. QED
  BY <1>3, <1>4

\* The tokens move to the REX pool, and nothing is forgotten: without REX there are none.
LEMMA ChannelPreserves ==
  ASSUME AuctionInv, Channelled, bids' = bids, refunds' = refunds, taken' = taken, closed' = closed,
         idle' = idle, paid' = paid, rex' \in BOOLEAN
  PROVE  AuctionInv'
<1>1. /\ names \in Nat /\ proceeds \in Nat /\ closed \in Nat /\ idle \in Nat /\ taken \subseteq Names
      /\ NoneWithoutRex
  BY Types DEF AuctionInv
<1>2. /\ rex => proceeds <= names
      /\ names' = IF rex THEN names - proceeds ELSE names
      /\ proceeds' = 0
  BY DEF Channelled
<1>3. names' = names - proceeds /\ names' \in Nat
  BY <1>1, <1>2 DEF NoneWithoutRex
<1>4. names' - proceeds' - idle' = names - proceeds - idle
  BY <1>1, <1>2, <1>3
<1>5. NoneWithoutRex'
  BY <1>2 DEF NoneWithoutRex
<1>6. proceeds' \in Nat /\ closed' \in Nat /\ idle' \in Nat /\ taken' \subseteq Names
  BY <1>1, <1>2
<1>7. QED
  BY <1>3, <1>4, <1>5, <1>6, FundsStep

LEMMA AuctionInvariantStep ==
  AuctionInv /\ [\E time, activated \in Nat :
                     AuctionNext(time) \/ CloseHighest(time, activated)]_auctionVars
  => AuctionInv'
<1> SUFFICES ASSUME AuctionInv,
                    [\E time, activated \in Nat :
                        AuctionNext(time) \/ CloseHighest(time, activated)]_auctionVars
             PROVE  AuctionInv'
  OBVIOUS
<1>1. /\ names \in Nat /\ proceeds \in Nat /\ closed \in Nat /\ idle \in Nat /\ taken \subseteq Names
      /\ rex \in BOOLEAN /\ NoneWithoutRex
  BY Types DEF AuctionInv
<1>2. CASE UNCHANGED auctionVars
  <2>1. NoneWithoutRex'
    BY <1>1, <1>2 DEF NoneWithoutRex, auctionVars
  <2>2. QED
    BY <1>1, <1>2, <2>1, FundsStep DEF auctionVars
<1>3. ASSUME NEW time \in Nat, AuctionNext(time) PROVE AuctionInv'
  <2>1. ASSUME NEW b \in Bidders, NEW n \in Names, NEW bid \in BidAmounts, BidName(b, n, bid, time)
        PROVE  AuctionInv'
    BY <2>1, BidPreserves
  <2>2. ASSUME NEW b \in Bidders, NEW n \in Names, BidRefund(b, n) PROVE AuctionInv'
    BY <2>2, RefundPreserves
  <2>3. ASSUME NEW b \in Bidders, NEW n \in Names, ClaimName(b, n) PROVE AuctionInv'
    BY <2>3, AuctionClaimPreserves
  <2>4. ASSUME NEW n \in Names, SystemName(n) PROVE AuctionInv'
    <3>1. /\ taken' = taken \cup {n} /\ bids' = bids /\ refunds' = refunds /\ names' = names
          /\ proceeds' = proceeds /\ rex' = rex /\ closed' = closed /\ idle' = idle /\ paid' = paid
      BY <2>4 DEF SystemName
    <3>2. NoneWithoutRex' /\ taken' \subseteq Names
      BY <1>1, <3>1 DEF NoneWithoutRex
    <3>3. QED
      BY <1>1, <3>1, <3>2, FundsStep
  <2>5. CASE OpenRex
    <3>1. /\ rex' = TRUE /\ bids' = bids /\ refunds' = refunds /\ names' = names /\ taken' = taken
          /\ proceeds' = proceeds /\ closed' = closed /\ idle' = idle /\ paid' = paid
      BY <2>5 DEF OpenRex
    <3>2. NoneWithoutRex' /\ rex' \in BOOLEAN
      BY <3>1 DEF NoneWithoutRex
    <3>3. QED
      BY <1>1, <3>1, <3>2, FundsStep
  <2>6. CASE ChannelProceeds
    BY <1>1, <2>6, ChannelPreserves DEF ChannelProceeds
  <2>7. CASE SellAllRex
    BY <2>7, ChannelPreserves DEF SellAllRex
  <2>8. QED
    BY <1>3, <2>1, <2>2, <2>3, <2>4, <2>5, <2>6, <2>7 DEF AuctionNext
<1>4. ASSUME NEW time \in Nat, NEW activated \in Nat, CloseHighest(time, activated) PROVE AuctionInv'
  BY <1>4, ClosePreserves
<1>5. QED
  BY <1>2, <1>3, <1>4
-----------------------------------------------------------------------------
LEMMA AuctionInvariant == AuctionSpec => []AuctionInv
  BY AuctionInvariantInit, AuctionInvariantStep, PTL DEF AuctionSpec

\* Type correctness of the auction: no refund and no account falls below zero.
THEOREM AuctionTypeCorrect == AuctionSpec => []AuctionTypeOK
<1>1. AuctionInv => AuctionTypeOK
  BY DEF AuctionInv
<1>2. QED
  BY <1>1, AuctionInvariant, PTL

\* eosio.names always holds what it owes, whenever proceeds, refunds and claims are taken.
THEOREM NamesCustodyCorrect == AuctionSpec => []NamesCustody
<1>1. AuctionInv => NamesCustody
  BY DEF AuctionInv
<1>2. QED
  BY <1>1, AuctionInvariant, PTL

\* No bidder loses a bid, however often it is outbid and whenever it is refunded.
THEOREM BiddersWholeCorrect == AuctionSpec => []BiddersWhole
<1>1. AuctionInv => BiddersWhole
  BY DEF AuctionInv
<1>2. QED
  BY <1>1, AuctionInvariant, PTL
-----------------------------------------------------------------------------
(***************************************************************************)
(* The RAM market.  Proofs about RamMarket for every size of the market    *)
(* and every number of users.  The core is one inequality on a conversion  *)
(* (ConvertedBound): what comes out of one connector is no larger a part   *)
(* of it than what went in is of the other, although both steps round.  It *)
(* makes a trade keep the product of the balances, from where the other    *)
(* claims follow.                                                          *)
(***************************************************************************)

\* The product of the balances does not fall below what it was for the RAM there is.
ProductKept == market.base * market.quote >= ram.size * InitQuote

RamInv == RamTypeOK /\ RamConserved /\ ProductKept
-----------------------------------------------------------------------------
(* Rounding                                                                *)

\* The number of elements of an initial segment is its last element.
LEMMA CountIsLast ==
  ASSUME NEW R \in Nat, NEW S \in SUBSET (1 .. R),
         \A x \in S : \A y \in 1 .. R : y <= x => y \in S
  PROVE  /\ Cardinality(S) \in 0 .. R
         /\ Cardinality(S) # 0 => Cardinality(S) \in S
<1> DEFINE n == Cardinality(S)
<1>1. IsFiniteSet(1 .. R) /\ Cardinality(1 .. R) = R
  BY FS_Interval
<1>2. IsFiniteSet(S) /\ n \in Nat /\ n <= R
  BY <1>1, FS_Subset, FS_CardinalityType
<1>3. ASSUME n # 0, n \notin S PROVE FALSE
  <2>1. S \subseteq 1 .. (n - 1)
    BY <1>2, <1>3
  <2>2. IsFiniteSet(1 .. (n - 1)) /\ Cardinality(1 .. (n - 1)) = n - 1
    <3>1. n - 1 \in Int /\ (IF 1 > n - 1 THEN 0 ELSE (n - 1) - 1 + 1) = n - 1
      BY <1>2, <1>3
    <3> HIDE DEF n
    <3>2. QED
      BY <3>1, FS_Interval
  <2>3. Cardinality(S) <= Cardinality(1 .. (n - 1))
    <3> DEFINE T == 1 .. (n - 1)
    <3>1. S \subseteq T /\ IsFiniteSet(T)
      BY <2>1, <2>2
    <3> HIDE DEF T
    <3>2. Cardinality(S) <= Cardinality(T)
      BY <3>1, FS_Subset
    <3>3. QED
      BY <3>2 DEF T
  <2>4. n <= n - 1
    BY <2>2, <2>3
  <2>5. QED
    BY <1>2, <2>4
<1>4. QED
  BY <1>2, <1>3
-----------------------------------------------------------------------------
(* The conversion                                                          *)

\* The tokens issued for what goes in are worth no more than it.
LEMMA IssuedBound ==
  ASSUME NEW from \in Nat, NEW in \in Nat
  PROVE  LET e == Issued(from, in)
             R == CoreSupply
             C == from + in
         IN  e \in Nat /\ (R + e) * (R + e) * C <= R * R * (C + in)
<1> DEFINE R == CoreSupply
           C == from + in
           Worth(e) == (R + e) * (R + e) * C
           S == {e \in 1 .. R : Worth(e) <= R * R * (C + in)}
<1>1. R \in Nat \ {0} /\ C \in Nat
  BY RamAssumption
<1>2. Issued(from, in) = Cardinality(S)
  BY DEF Issued
<1>3. ASSUME NEW x \in S, NEW y \in 1 .. R, y <= x PROVE y \in S
  <2>1. R + y \in Nat /\ R + x \in Nat /\ R + y <= R + x
    BY <1>1, <1>3
  <2>2. (R + y) * (R + y) <= (R + x) * (R + y)
    BY <2>1, TimesMonotone
  <2>3. (R + y) * (R + x) <= (R + x) * (R + x)
    BY <2>1, TimesMonotone
  <2>4. (R + y) * (R + y) <= (R + x) * (R + x)
    BY <2>1, <2>2, <2>3
  <2>5. Worth(y) <= Worth(x)
    BY <1>1, <2>1, <2>4, TimesMonotone
  <2>6. Worth(x) <= R * R * (C + in)
    BY <1>3
  <2>7. Worth(y) \in Int /\ Worth(x) \in Int /\ R * R * (C + in) \in Int
    BY <1>1, <2>1
  <2> HIDE DEF Worth
  <2>8. Worth(y) <= R * R * (C + in)
    BY <2>5, <2>6, <2>7, <1>1
  <2>9. QED
    BY <2>8
<1>4. Cardinality(S) \in 0 .. R /\ (Cardinality(S) # 0 => Cardinality(S) \in S)
  <2>1. S \in SUBSET (1 .. R)
    OBVIOUS
  <2> HIDE DEF S
  <2>2. QED
    BY <1>1, <1>3, <2>1, CountIsLast
<1>5. CASE Cardinality(S) = 0
  <2>1. R * R * C <= R * R * (C + in)
    <3>1. C <= C + in /\ R * R \in Nat /\ C \in Int /\ C + in \in Int
      BY <1>1
    <3>2. C * (R * R) <= (C + in) * (R * R)
      BY <3>1, TimesMonotone
    <3>3. QED
      BY <3>2, <1>1
  <2>2. (R + 0) * (R + 0) * C <= R * R * (C + in)
    BY <2>1, <1>1
  <2>3. QED
    BY <1>2, <1>5, <2>2
<1>6. CASE Cardinality(S) # 0
  BY <1>2, <1>4, <1>6
<1>7. QED
  BY <1>5, <1>6

\* What comes out is no larger a part of its connector than what goes in is of its own.
LEMMA ConvertedBound ==
  ASSUME NEW from \in Nat, NEW to \in Nat, NEW in \in Nat
  PROVE  LET out == Converted(from, to, in)
         IN  out \in Nat /\ out * (from + in) <= to * in
<1> DEFINE R == CoreSupply
           C == from + in
           e == Issued(from, in)
           k == e * e + 2 * e * R
           out == Converted(from, to, in)
<1>1. R \in Nat \ {0} /\ C \in Nat /\ R * R \in Nat \ {0}
  BY RamAssumption
<1>2. e \in Nat /\ (R + e) * (R + e) * C <= R * R * (C + in)
  BY IssuedBound
<1> HIDE DEF e
<1>3. k \in Nat /\ k * C <= R * R * in
  BY <1>1, <1>2
<1>4. out = (to * k) \div (R * R)
  BY DEF Converted, Withdrawn, e
<1>5. to * k \in Nat
  BY <1>3
<1>6. out \in Nat /\ (R * R) * out <= to * k
  BY <1>1, <1>4, <1>5, QuotientBound
<1> HIDE DEF out, k, R
<1>7. ((R * R) * out) * C <= (to * k) * C
  BY <1>1, <1>5, <1>6, TimesMonotone
<1>8. (k * C) * to <= (R * R * in) * to
  BY <1>1, <1>3, TimesMonotone
<1>9. (R * R) * (out * C) <= (R * R) * (to * in)
  <2> DEFINE Q == R * R
  <2>1. Q \in Nat
    BY <1>1
  <2> HIDE DEF Q
  <2>2. (Q * out) * C <= (to * k) * C /\ (k * C) * to <= (Q * in) * to
    BY <1>7, <1>8 DEF Q
  <2>3. Q * (out * C) <= Q * (to * in)
    BY <1>1, <1>3, <1>6, <2>1, <2>2
  <2>4. QED
    BY <2>3 DEF Q
<1>10. out * C \in Int /\ to * in \in Int
  BY <1>1, <1>6
<1>11. out * C <= to * in
  BY <1>1, <1>9, <1>10, TimesCancels
<1>12. QED
  BY <1>6, <1>11 DEF out

\* A trade at these terms leaves the product of the balances no smaller.
LEMMA TradeKeepsProduct ==
  ASSUME NEW from \in Nat, NEW to \in Nat, NEW in \in Nat \ {0}
  PROVE  LET out == Converted(from, to, in)
         IN  out \in Nat /\ out <= to /\ (to - out) * (from + in) >= from * to
<1> DEFINE out == Converted(from, to, in)
<1>1. out \in Nat /\ out * (from + in) <= to * in
  BY ConvertedBound
<1> HIDE DEF out
<1>2. (to - out) * (from + in) >= from * to
  BY <1>1
<1>3. ASSUME out > to PROVE FALSE
  <2>1. (to + 1) * (from + in) <= out * (from + in)
    BY <1>1, <1>3, TimesMonotone
  <2>2. (to + 1) * (from + in) = to * from + to * in + from + in
    OBVIOUS
  <2>3. to * from \in Nat /\ to * in \in Nat
    OBVIOUS
  <2>4. QED
    BY <1>1, <2>1, <2>2, <2>3
<1>4. QED
  BY <1>1, <1>2, <1>3 DEF out
-----------------------------------------------------------------------------
(* The invariant                                                           *)

\* One account gets or gives bytes, and the sum follows.
LEMMA HeldChange ==
  ASSUME RamTypeOK, NEW a \in RamUsers, NEW n \in Int, held[a] + n >= 0
  PROVE  LET h == [held EXCEPT ![a] = held[a] + n]
         IN  /\ h \in [RamUsers -> Nat]
             /\ SumOver(h, RamUsers) = SumOver(held, RamUsers) + n
             /\ held[a] <= SumOver(held, RamUsers)
<1> DEFINE h == [held EXCEPT ![a] = held[a] + n]
<1>1. held \in [RamUsers -> Nat] /\ IsFiniteSet(RamUsers)
  BY RamAssumption DEF RamTypeOK
<1>2. h \in [RamUsers -> Nat] /\ h[a] = held[a] + n /\ \A x \in RamUsers \ {a} : held[x] = h[x]
  BY <1>1
<1>3. /\ \A x \in RamUsers : held[x] \in Int
      /\ \A x \in RamUsers : h[x] \in Int
      /\ \A x \in RamUsers : held[x] \in Nat
  BY <1>1, <1>2
<1> HIDE DEF h
<1>4. SumOver(h, RamUsers) = SumOver(held, RamUsers) + h[a] - held[a]
  <2>1. \A x \in RamUsers \ {a} : held[x] = h[x]
    BY <1>2
  <2>2. QED
    BY <1>1, <1>3, <2>1, SumOverChange
<1>5. SumOver(held, RamUsers) \in Int /\ held[a] <= SumOver(held, RamUsers)
  BY <1>1, <1>3, SumOverType, SumOverBound
<1>6. SumOver(h, RamUsers) = SumOver(held, RamUsers) + n
  BY <1>2, <1>3, <1>4, <1>5
<1>7. QED
  BY <1>2, <1>5, <1>6 DEF h

LEMMA RamInvariantInit == RamInit => RamInv
<1> SUFFICES ASSUME RamInit PROVE RamInv
  OBVIOUS
<1>1. InitRam \in Nat /\ InitQuote \in Nat /\ IsFiniteSet(RamUsers)
  BY RamAssumption
<1>2. held = [a \in RamUsers |-> 0]
  BY DEF RamInit
<1>3. SumOver(held, RamUsers) = 0
  BY <1>1, <1>2, SumOverNat
<1>4. RamTypeOK
  BY <1>1 DEF RamInit, RamTypeOK
<1>5. RamConserved
  BY <1>1, <1>3 DEF RamInit, RamConserved
<1>6. ProductKept
  BY <1>1 DEF RamInit, ProductKept
<1>7. QED
  BY <1>4, <1>5, <1>6 DEF RamInv

\* RAM that grows is for sale, and the product grows with it.
LEMMA Grown ==
  ASSUME RamInv, NEW time \in Nat
  PROVE  LET m == GrownMarket(time)
             g == GrownRam(time)
         IN  /\ m \in [base : Nat, quote : Nat]
             /\ g \in [size : Nat, reserved : Nat, stake : Nat, rate : Nat, at : Nat]
             /\ m.base + g.reserved = g.size
             /\ g.reserved = ram.reserved /\ g.stake = ram.stake
             /\ m.quote = InitQuote + g.stake
             /\ m.base * m.quote >= g.size * InitQuote
<1> DEFINE n == NewRam(time)
           m == GrownMarket(time)
           g == GrownRam(time)
<1>1. /\ market \in [base : Nat, quote : Nat]
      /\ ram \in [size : Nat, reserved : Nat, stake : Nat, rate : Nat, at : Nat]
  BY DEF RamInv, RamTypeOK
<1>2. n \in Nat
  <2>1. CASE time <= ram.at
    BY <2>1 DEF NewRam
  <2>2. CASE ~(time <= ram.at)
    <3>1. RamWord \in Nat \ {0} /\ (time - ram.at) * ram.rate \in Nat
      BY <1>1, <2>2, RamAssumption
    <3>2. QED
      BY <2>2, <3>1 DEF NewRam
  <2>3. QED
    BY <2>1, <2>2
<1>3. m = [base |-> market.base + n, quote |-> market.quote]
  BY <1>1 DEF GrownMarket
<1>4. /\ g.size = ram.size + n /\ g.reserved = ram.reserved /\ g.stake = ram.stake
      /\ g \in [size : Nat, reserved : Nat, stake : Nat, rate : Nat, at : Nat]
  <2>1. (IF time <= ram.at THEN ram.at ELSE time) \in Nat /\ ram.size + n \in Nat
    BY <1>1, <1>2
  <2>2. g = [ram EXCEPT !.size = ram.size + n, !.at = IF time <= ram.at THEN ram.at ELSE time]
    BY DEF GrownRam
  <2> HIDE DEF n, m, g
  <2>3. g = [size |-> ram.size + n, reserved |-> ram.reserved, stake |-> ram.stake, rate |-> ram.rate,
             at |-> IF time <= ram.at THEN ram.at ELSE time]
    BY <1>1, <2>2
  <2>4. QED
    BY <1>1, <2>1, <2>3
<1>5. market.base + ram.reserved = ram.size /\ market.quote = InitQuote + ram.stake
  BY DEF RamInv, RamConserved
<1> HIDE DEF n, m, g
<1>6. m.base * m.quote >= g.size * InitQuote
  <2>1. market.base * market.quote >= ram.size * InitQuote
    BY DEF RamInv, ProductKept
  <2>2. InitQuote \in Nat /\ InitQuote <= market.quote
    BY <1>1, <1>5, RamAssumption
  <2>3. InitQuote * n <= market.quote * n
    BY <1>1, <1>2, <2>2, TimesMonotone
  <2>4. /\ m.base * m.quote = market.base * market.quote + market.quote * n
        /\ g.size * InitQuote = ram.size * InitQuote + InitQuote * n
    BY <1>1, <1>2, <1>3, <1>4, <2>2
  <2>5. /\ market.base * market.quote \in Int /\ market.quote * n \in Int
        /\ ram.size * InitQuote \in Int /\ InitQuote * n \in Int
    BY <1>1, <1>2, <2>2
  <2>6. QED
    BY <2>1, <2>3, <2>4, <2>5
<1>7. QED
  BY <1>1, <1>2, <1>3, <1>4, <1>5, <1>6 DEF m, g

LEMMA BuyRamPreserves ==
  ASSUME RamInv, NEW time \in Nat, NEW a \in RamUsers, NEW amount \in Nat, BuyRam(a, amount, time)
  PROVE  RamInv'
<1> DEFINE m     == GrownMarket(time)
           g     == GrownRam(time)
           net   == amount - RamFee(amount)
           bytes == Converted(m.quote, m.base, net)
<1>1. /\ m \in [base : Nat, quote : Nat]
      /\ g \in [size : Nat, reserved : Nat, stake : Nat, rate : Nat, at : Nat]
      /\ m.base + g.reserved = g.size
      /\ g.reserved = ram.reserved /\ g.stake = ram.stake
      /\ m.quote = InitQuote + g.stake
      /\ m.base * m.quote >= g.size * InitQuote
  BY Grown
<1>2. /\ net > 0 /\ bytes > 0
      /\ market' = [base |-> m.base - bytes, quote |-> m.quote + net]
      /\ ram' = [g EXCEPT !.reserved = g.reserved + bytes, !.stake = g.stake + net]
      /\ held' = [held EXCEPT ![a] = held[a] + bytes]
      /\ tokens' = tokens + net
  BY DEF BuyRam
<1>3. net \in Nat \ {0}
  BY <1>2 DEF RamFee
<1> HIDE DEF m, g, net
<1>4. bytes \in Nat /\ bytes <= m.base /\ (m.base - bytes) * (m.quote + net) >= m.quote * m.base
  BY <1>1, <1>3, TradeKeepsProduct
<1>5. RamTypeOK /\ tokens = ram.stake /\ ram.reserved = SumOver(held, RamUsers) /\ held[a] \in Nat
      /\ InitQuote \in Nat
  BY RamAssumption DEF RamInv, RamConserved, RamTypeOK
<1> HIDE DEF bytes
<1>6. held' \in [RamUsers -> Nat] /\ SumOver(held', RamUsers) = SumOver(held, RamUsers) + bytes
  <2>1. bytes \in Int /\ held[a] + bytes >= 0
    BY <1>4, <1>5
  <2> HIDE DEF bytes
  <2>2. QED
    BY <1>2, <1>5, <2>1, HeldChange
<1>7. /\ market'.base = m.base - bytes /\ market'.quote = m.quote + net
      /\ ram'.size = g.size /\ ram'.reserved = g.reserved + bytes /\ ram'.stake = g.stake + net
  BY <1>1, <1>2
<1>8. RamTypeOK'
  <2>1. m.base - bytes \in Nat /\ m.quote + net \in Nat /\ g.reserved + bytes \in Nat /\ g.stake + net \in Nat
        /\ tokens + net \in Nat
    BY <1>1, <1>2, <1>3, <1>4, <1>5, <1>6 DEF RamTypeOK
  <2>2. ram' = [size |-> g.size, reserved |-> g.reserved + bytes, stake |-> g.stake + net,
                rate |-> g.rate, at |-> g.at]
    BY <1>1, <1>2
  <2>3. ram' \in [size : Nat, reserved : Nat, stake : Nat, rate : Nat, at : Nat]
    BY <1>1, <2>1, <2>2
  <2>4. QED
    BY <1>2, <1>6, <2>1, <2>3 DEF RamTypeOK
<1>9. RamConserved'
  BY <1>1, <1>2, <1>3, <1>4, <1>5, <1>6, <1>7 DEF RamConserved
<1>10. ProductKept'
  <2>1. m.quote * m.base = m.base * m.quote /\ m.base * m.quote \in Int /\ g.size * InitQuote \in Int
        /\ (m.base - bytes) * (m.quote + net) \in Int
    BY <1>1, <1>3, <1>4, <1>5
  <2>2. (m.base - bytes) * (m.quote + net) >= g.size * InitQuote
    BY <1>1, <1>4, <2>1
  <2>3. QED
    BY <1>7, <2>2 DEF ProductKept
<1>11. QED
  BY <1>8, <1>9, <1>10 DEF RamInv

LEMMA SellRamPreserves ==
  ASSUME RamInv, NEW time \in Nat, NEW a \in RamUsers, NEW bytes \in Nat \ {0}, SellRam(a, bytes, time)
  PROVE  RamInv'
<1> DEFINE m   == GrownMarket(time)
           g   == GrownRam(time)
           out == Converted(m.base, m.quote, bytes)
<1>1. /\ m \in [base : Nat, quote : Nat]
      /\ g \in [size : Nat, reserved : Nat, stake : Nat, rate : Nat, at : Nat]
      /\ m.base + g.reserved = g.size
      /\ g.reserved = ram.reserved /\ g.stake = ram.stake
      /\ m.quote = InitQuote + g.stake
      /\ m.base * m.quote >= g.size * InitQuote
  BY Grown
<1>2. /\ held[a] >= bytes /\ g.stake - out >= 0 /\ tokens >= out
      /\ market' = [base |-> m.base + bytes, quote |-> m.quote - out]
      /\ ram' = [g EXCEPT !.reserved = g.reserved - bytes, !.stake = g.stake - out]
      /\ held' = [held EXCEPT ![a] = held[a] - bytes]
      /\ tokens' = tokens - out
  BY DEF SellRam
<1> HIDE DEF m, g
<1>3. out \in Nat /\ out <= m.quote /\ (m.quote - out) * (m.base + bytes) >= m.base * m.quote
  BY <1>1, TradeKeepsProduct
<1> HIDE DEF out
<1>4. RamTypeOK /\ tokens = ram.stake /\ ram.reserved = SumOver(held, RamUsers) /\ held[a] \in Nat
      /\ InitQuote \in Nat
  BY RamAssumption DEF RamInv, RamConserved, RamTypeOK
<1>5. /\ held' \in [RamUsers -> Nat] /\ SumOver(held', RamUsers) = SumOver(held, RamUsers) - bytes
      /\ held[a] <= SumOver(held, RamUsers)
  <2>1. -bytes \in Int /\ held[a] + (-bytes) >= 0 /\ held[a] + (-bytes) = held[a] - bytes
    BY <1>2, <1>4
  <2>2. SumOver(held, RamUsers) \in Int
    BY <1>1, <1>4
  <2>3. QED
    BY <1>2, <1>4, <2>1, <2>2, HeldChange
<1>6. /\ market'.base = m.base + bytes /\ market'.quote = m.quote - out
      /\ ram'.size = g.size /\ ram'.reserved = g.reserved - bytes /\ ram'.stake = g.stake - out
  BY <1>1, <1>2
<1>7. RamTypeOK'
  <2>1. m.base + bytes \in Nat /\ m.quote - out \in Nat /\ g.reserved - bytes \in Nat /\ g.stake - out \in Nat
        /\ tokens - out \in Nat
    BY <1>1, <1>2, <1>3, <1>4, <1>5 DEF RamTypeOK
  <2>2. ram' = [size |-> g.size, reserved |-> g.reserved - bytes, stake |-> g.stake - out,
                rate |-> g.rate, at |-> g.at]
    BY <1>1, <1>2
  <2>3. ram' \in [size : Nat, reserved : Nat, stake : Nat, rate : Nat, at : Nat]
    BY <1>1, <2>1, <2>2
  <2>4. QED
    BY <1>2, <1>5, <2>1, <2>3 DEF RamTypeOK
<1>8. RamConserved'
  BY <1>1, <1>2, <1>3, <1>4, <1>5, <1>6 DEF RamConserved
<1>9. ProductKept'
  <2>1. m.base * m.quote \in Int /\ g.size * InitQuote \in Int
        /\ (m.quote - out) * (m.base + bytes) \in Int
        /\ (m.base + bytes) * (m.quote - out) = (m.quote - out) * (m.base + bytes)
    BY <1>1, <1>3, <1>4
  <2>2. (m.base + bytes) * (m.quote - out) >= g.size * InitQuote
    BY <1>1, <1>3, <2>1
  <2>3. QED
    BY <1>6, <2>2 DEF ProductKept
<1>10. QED
  BY <1>7, <1>8, <1>9 DEF RamInv

LEMMA SetRamPreserves ==
  ASSUME RamInv, NEW size \in Nat, SetRam(size)
  PROVE  RamInv'
<1>1. /\ market \in [base : Nat, quote : Nat] /\ InitQuote \in Nat
      /\ ram \in [size : Nat, reserved : Nat, stake : Nat, rate : Nat, at : Nat]
      /\ market.base + ram.reserved = ram.size /\ market.quote = InitQuote + ram.stake
  BY RamAssumption DEF RamInv, RamTypeOK, RamConserved
<1>2. /\ ram.size < size /\ ram' = [ram EXCEPT !.size = size] /\ UNCHANGED <<held, tokens>>
      /\ market' = [market EXCEPT !.base = market.base + (size - ram.size)]
  BY DEF SetRam
<1>3. /\ market'.base = market.base + (size - ram.size) /\ market'.quote = market.quote
      /\ ram'.size = size /\ ram'.reserved = ram.reserved /\ ram'.stake = ram.stake
  BY <1>1, <1>2
<1>4. RamTypeOK'
  BY <1>1, <1>2 DEF RamInv, RamTypeOK
<1>5. RamConserved'
  BY <1>1, <1>2, <1>3 DEF RamInv, RamConserved
<1>6. ProductKept'
  <2> DEFINE n == size - ram.size
  <2>1. n \in Nat /\ size = ram.size + n
    BY <1>1, <1>2
  <2> HIDE DEF n
  <2>2. InitQuote * n <= market.quote * n
    BY <1>1, <2>1, TimesMonotone
  <2>3. /\ (market.base + n) * market.quote = market.base * market.quote + market.quote * n
        /\ size * InitQuote = ram.size * InitQuote + InitQuote * n
    <3>1. market.base \in Nat /\ market.quote \in Nat /\ ram.size \in Nat /\ InitQuote \in Nat
      BY <1>1
    <3>2. (market.base + n) * market.quote = market.base * market.quote + market.quote * n
      BY <2>1, <3>1
    <3>3. (ram.size + n) * InitQuote = ram.size * InitQuote + InitQuote * n
      BY <2>1, <3>1
    <3>4. QED
      BY <2>1, <3>2, <3>3
  <2>4. /\ market.base * market.quote \in Int /\ market.quote * n \in Int
        /\ ram.size * InitQuote \in Int /\ InitQuote * n \in Int
    BY <1>1, <2>1
  <2>5. (market.base + n) * market.quote >= size * InitQuote
    BY <2>2, <2>3, <2>4 DEF RamInv, ProductKept
  <2>6. QED
    BY <1>3, <2>5 DEF ProductKept, n
<1>7. QED
  BY <1>4, <1>5, <1>6 DEF RamInv

LEMMA SetRamRatePreserves ==
  ASSUME RamInv, NEW time \in Nat, NEW rate \in Nat, SetRamRate(rate, time)
  PROVE  RamInv'
<1> DEFINE m == GrownMarket(time)
           g == GrownRam(time)
<1>1. /\ m \in [base : Nat, quote : Nat]
      /\ g \in [size : Nat, reserved : Nat, stake : Nat, rate : Nat, at : Nat]
      /\ m.base + g.reserved = g.size
      /\ g.reserved = ram.reserved /\ g.stake = ram.stake
      /\ m.quote = InitQuote + g.stake
      /\ m.base * m.quote >= g.size * InitQuote
  BY Grown
<1>2. market' = m /\ ram' = [g EXCEPT !.rate = rate] /\ UNCHANGED <<held, tokens>>
  BY DEF SetRamRate
<1> HIDE DEF m, g
<1>3. RamTypeOK'
  BY <1>1, <1>2 DEF RamInv, RamTypeOK
<1>4. RamConserved'
  BY <1>1, <1>2 DEF RamInv, RamConserved
<1>5. ProductKept'
  BY <1>1, <1>2 DEF ProductKept
<1>6. QED
  BY <1>3, <1>4, <1>5 DEF RamInv

LEMMA RamInvariantStep == RamInv /\ [\E time \in Nat : RamNext(time)]_ramVars => RamInv'
<1> SUFFICES ASSUME RamInv, [\E time \in Nat : RamNext(time)]_ramVars PROVE RamInv'
  OBVIOUS
<1>1. CASE UNCHANGED ramVars
  BY <1>1 DEF RamInv, RamTypeOK, RamConserved, ProductKept, ramVars
<1>2. ASSUME NEW time \in Nat, RamNext(time) PROVE RamInv'
  <2>1. Payments \subseteq Nat /\ ByteAmounts \subseteq Nat \ {0} /\ RamSizes \subseteq Nat /\ RamRates \subseteq Nat
    BY RamAssumption
  <2>2. ASSUME NEW a \in RamUsers, NEW amount \in Payments, BuyRam(a, amount, time) PROVE RamInv'
    BY <2>1, <2>2, BuyRamPreserves
  <2>3. ASSUME NEW a \in RamUsers, NEW bytes \in ByteAmounts, BuyRamBytes(a, bytes, time) PROVE RamInv'
    <3>1. market.base \in Nat /\ market.quote \in Nat /\ bytes \in Nat
      BY <2>1 DEF RamInv, RamTypeOK
    <3>2. Converted(market.base, market.quote, bytes) \in Nat
      BY <3>1, ConvertedBound
    <3>3. QED
      BY <2>3, <3>2, BuyRamPreserves DEF BuyRamBytes
  <2>4. ASSUME NEW a \in RamUsers, NEW bytes \in ByteAmounts, SellRam(a, bytes, time) PROVE RamInv'
    BY <2>1, <2>4, SellRamPreserves
  <2>5. ASSUME NEW size \in RamSizes, SetRam(size) PROVE RamInv'
    BY <2>1, <2>5, SetRamPreserves
  <2>6. ASSUME NEW rate \in RamRates, SetRamRate(rate, time) PROVE RamInv'
    BY <2>1, <2>6, SetRamRatePreserves
  <2>7. QED
    BY <1>2, <2>2, <2>3, <2>4, <2>5, <2>6 DEF RamNext
<1>3. QED
  BY <1>1, <1>2

\* What is sold brings no more than was paid, because the market keeps what it started with.
LEMMA NoProfit == RamInv => RamNoProfit
<1> SUFFICES ASSUME RamInv, NEW a \in RamUsers, NEW bytes \in ByteAmounts, held[a] >= bytes
             PROVE  Converted(market.base, market.quote, bytes) <= ram.stake
  BY DEF RamInv, ProductKept, RamNoProfit
<1> DEFINE B == market.base
           Q == market.quote
           out == Converted(B, Q, bytes)
<1>1. /\ B \in Nat /\ Q \in Nat /\ bytes \in Nat \ {0} /\ InitQuote \in Nat \ {0}
      /\ ram.size \in Nat /\ ram.stake \in Nat /\ ram.reserved \in Nat /\ held[a] \in Nat
  BY RamAssumption DEF RamInv, RamTypeOK
<1>2. /\ B + ram.reserved = ram.size /\ Q = InitQuote + ram.stake /\ held[a] <= ram.reserved
      /\ B * Q >= ram.size * InitQuote
  <2>1. held[a] + 0 >= 0 /\ RamTypeOK
    BY <1>1 DEF RamInv
  <2>2. held[a] <= SumOver(held, RamUsers)
    <3>1. held \in [RamUsers -> Nat] /\ IsFiniteSet(RamUsers)
      BY <2>1, RamAssumption DEF RamTypeOK
    <3>2. \A x \in RamUsers : held[x] \in Nat
      BY <3>1
    <3>3. QED
      BY <3>1, <3>2, SumOverBound
  <2>3. QED
    BY <2>2 DEF RamInv, RamConserved, ProductKept
<1> HIDE DEF B, Q
<1>3. out \in Nat /\ (Q - out) * (B + bytes) >= B * Q
  BY <1>1, TradeKeepsProduct
<1> HIDE DEF out
<1>4. B + bytes <= ram.size /\ B + bytes \in Nat \ {0}
  BY <1>1, <1>2
<1>5. (B + bytes) * InitQuote <= ram.size * InitQuote
  BY <1>1, <1>4, TimesMonotone
<1>6. (B + bytes) * InitQuote <= (B + bytes) * (Q - out)
  <2>1. B * Q \in Int /\ ram.size * InitQuote \in Int /\ (B + bytes) * InitQuote \in Int
        /\ (Q - out) * (B + bytes) \in Int /\ (B + bytes) * (Q - out) = (Q - out) * (B + bytes)
    BY <1>1, <1>3
  <2>2. QED
    BY <1>2, <1>3, <1>5, <2>1
<1>7. InitQuote <= Q - out
  BY <1>1, <1>3, <1>4, <1>6, TimesCancels
<1>8. out <= ram.stake
  BY <1>1, <1>2, <1>3, <1>7
<1>9. QED
  BY <1>8 DEF out, B, Q
-----------------------------------------------------------------------------
LEMMA RamInvariant == RamSpec => []RamInv
  BY RamInvariantInit, RamInvariantStep, PTL DEF RamSpec

\* Type correctness of the RAM market: no balance of the market, no account's bytes and no
\* total falls below zero (exchange_state::convert takes no more than there is).
THEOREM RamTypeCorrect == RamSpec => []RamTypeOK
<1>1. RamInv => RamTypeOK
  BY DEF RamInv
<1>2. QED
  BY <1>1, RamInvariant, PTL

\* Bytes and tokens are conserved by buyram, buyrambytes, sellram, setram and setramrate.
THEOREM RamConservedCorrect == RamSpec => []RamConserved
<1>1. RamInv => RamConserved
  BY DEF RamInv
<1>2. QED
  BY <1>1, RamInvariant, PTL

\* Trading RAM never pays for itself, whatever is bought and sold in whatever pieces.
THEOREM RamNoProfitCorrect == RamSpec => []RamNoProfit
  BY RamInvariant, NoProfit, PTL
=============================================================================
