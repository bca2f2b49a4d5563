------------------------ MODULE SystemContract_proofs ------------------------
(***************************************************************************)
(* Proofs about SystemContract for any accounts, requests and dapps, any   *)
(* amounts and any width of its counters.                                  *)
(*                                                                         *)
(* SysInv is the invariant of every part and what ties parts together: the *)
(* tables of voting with their tallies, their votepay shares and the votes *)
(* that are unpaid (VotesInv), a counter of oracles differs from what it   *)
(* counts by a multiple of Word (OracleInv), and buckets are covered by    *)
(* their accounts (PayInv).  An operation of a part is a lemma on that     *)
(* part; the claims, which change several, have a lemma for each that they *)
(* change.  The witness shares have no part here: a claim adds the rate of *)
(* a witness that the total has already.                                   *)
(***************************************************************************)
EXTENDS SystemContract, Voting_proofs, Ledgers_proofs
-----------------------------------------------------------------------------
(* The votes that are not paid                                             *)

UnpaidOf(t, a)  == IF t.voters[a] = NoRow THEN 0 ELSE t.voters[a].unpaid
UnpaidIn(t)     == SumOver([a \in Accounts |-> UnpaidOf(t, a)], Accounts)
UnpaidAgrees(t) == t.gstate.unpaid = UnpaidIn(t)

LEMMA UnpaidType ==
  ASSUME NEW t \in Tables
  PROVE  \A a \in Accounts : UnpaidOf(t, a) \in Nat
BY TablesHave, RowType DEF UnpaidOf

LEMMA SameUnpaid ==
  ASSUME NEW t \in Tables, NEW r, UnpaidAgrees(t), r.gstate.unpaid = t.gstate.unpaid,
         \A x \in Accounts : UnpaidOf(r, x) = UnpaidOf(t, x)
  PROVE  UnpaidAgrees(r)
<1>1. UnpaidIn(r) = UnpaidIn(t)
  BY DEF UnpaidIn
<1>2. QED
  BY <1>1 DEF UnpaidAgrees

\* One row changes what is unpaid, and the total with it.
LEMMA UnpaidChange ==
  ASSUME NEW t \in Tables, NEW r \in Tables, UnpaidAgrees(t), NEW a \in Accounts,
         \A x \in Accounts \ {a} : UnpaidOf(r, x) = UnpaidOf(t, x),
         NEW change \in Int, UnpaidOf(r, a) = UnpaidOf(t, a) + change,
         r.gstate.unpaid = t.gstate.unpaid + change
  PROVE  UnpaidAgrees(r)
<1> DEFINE f == [x \in Accounts |-> UnpaidOf(t, x)]
           h == [x \in Accounts |-> UnpaidOf(r, x)]
<1>1. \A x \in Accounts : f[x] \in Int /\ h[x] \in Int
  BY UnpaidType
<1>2. \A x \in Accounts \ {a} : f[x] = h[x]
  OBVIOUS
<1>3. h[a] = f[a] + change
  OBVIOUS
<1>4. UnpaidIn(t) = SumOver(f, Accounts) /\ UnpaidIn(r) = SumOver(h, Accounts)
  BY DEF UnpaidIn
<1> HIDE DEF f, h
<1>5. SumOver(h, Accounts) = SumOver(f, Accounts) + h[a] - f[a]
  BY <1>1, <1>2, AccountsAssumption, SumOverChange
<1>6. SumOver(f, Accounts) \in Int
  BY <1>1, AccountsAssumption, SumOverType
<1>7. QED
  BY <1>1, <1>3, <1>4, <1>5, <1>6 DEF UnpaidAgrees

LEMMA KinUnpaid ==
  ASSUME NEW t \in Tables, NEW r, NEW a \in Accounts, t.voters[a] # NoRow,
         Kin(t.voters[a], r.voters[a])
  PROVE  UnpaidOf(r, a) = UnpaidOf(t, a)
BY RowType DEF Kin, UnpaidOf

LEMMA AlikeUnpaid ==
  ASSUME NEW t \in Tables, NEW r, UnpaidAgrees(t), Alike(t, r)
  PROVE  UnpaidAgrees(r)
<1>1. ASSUME NEW x \in Accounts PROVE UnpaidOf(r, x) = UnpaidOf(t, x)
  <2>1. CASE t.voters[x] = NoRow
    BY <2>1 DEF Alike, UnpaidOf
  <2>2. CASE t.voters[x] # NoRow
    BY <2>2, KinUnpaid DEF Alike
  <2>3. QED
    BY <2>1, <2>2
<1>2. r.gstate.unpaid = t.gstate.unpaid
  BY DEF Alike
<1>3. QED
  BY <1>1, <1>2, SameUnpaid

LEMMA RecastUnpaid ==
  ASSUME NEW t \in Tables, NEW r, UnpaidAgrees(t), NEW a \in Accounts, t.voters[a] # NoRow,
         NEW proxy, NEW ps, Recast(t, r, a, proxy, ps)
  PROVE  UnpaidAgrees(r)
<1>1. ASSUME NEW x \in Accounts PROVE UnpaidOf(r, x) = UnpaidOf(t, x)
  <2>1. CASE x = a
    <3>1. r.voters[a] # NoRow /\ r.voters[a].unpaid = t.voters[a].unpaid
      BY RowType DEF Recast
    <3>2. QED
      BY <2>1, <3>1 DEF UnpaidOf
  <2>2. CASE x # a /\ t.voters[x] = NoRow
    BY <2>2 DEF Recast, UnpaidOf
  <2>3. CASE x # a /\ t.voters[x] # NoRow
    <3>1. Kin(t.voters[x], r.voters[x])
      BY <2>3 DEF Recast
    <3>2. QED
      BY <2>3, <3>1, KinUnpaid
  <2>4. QED
    BY <2>1, <2>2, <2>3
<1>2. r.gstate.unpaid = t.gstate.unpaid
  BY DEF Recast
<1>3. QED
  BY <1>1, <1>2, SameUnpaid

LEMMA OneRowUnpaid ==
  ASSUME NEW t \in Tables, NEW r, UnpaidAgrees(t), NEW a \in Accounts, NEW new,
         OneRow(t, r, a, new), new # NoRow, new.unpaid = UnpaidOf(t, a)
  PROVE  UnpaidAgrees(r)
<1>1. ASSUME NEW x \in Accounts PROVE UnpaidOf(r, x) = UnpaidOf(t, x)
  BY DEF OneRow, UnpaidOf
<1>2. r.gstate.unpaid = t.gstate.unpaid
  BY DEF OneRow
<1>3. QED
  BY <1>1, <1>2, SameUnpaid

LEMMA CountUnpaidAgrees ==
  ASSUME NEW t \in Tables, UnpaidAgrees(t), NEW a \in Accounts, t.voters[a] # NoRow
  PROVE  UnpaidAgrees(CountUnpaid(t, a))
<1> DEFINE row   == t.voters[a]
           power == VotePower(row)
           n     == row.unpaid + power
           m     == t.gstate.unpaid + power
           new   == [row EXCEPT !.unpaid = n]
           g     == [t.gstate EXCEPT !.unpaid = m]
           put   == [t EXCEPT !.voters = [t.voters EXCEPT ![a] = new]]
           r     == [put EXCEPT !.gstate = g]
<1>1. /\ row \in VoterRow /\ t.gstate \in GState /\ t.voters \in VoterTable
      /\ row.unpaid \in Nat /\ t.gstate.unpaid \in Nat /\ power \in Nat
  BY TablesHave, RowType, PowerType DEF GState
<1>2. CountUnpaid(t, a) = r
  BY <1>1 DEF CountUnpaid, VoterTable, Tables
<1>3. n \in Nat /\ m \in Nat /\ n = row.unpaid + power /\ m = t.gstate.unpaid + power
  BY <1>1
<1> HIDE DEF n, m, power
<1>4. new \in VoterRow /\ new.unpaid = n
  BY <1>1, <1>3 DEF VoterRow
<1>5. g \in GState /\ g.unpaid = m
  BY <1>1, <1>3 DEF GState
<1> HIDE DEF new, g
<1>6. OneRow(t, put, a, new)
  BY <1>4, PutRow
<1> HIDE DEF put
<1>7. r \in Tables /\ r.voters = put.voters /\ r.gstate = g
  BY <1>5, <1>6 DEF OneRow, Tables
<1> HIDE DEF r
<1>8. \A x \in Accounts \ {a} : UnpaidOf(r, x) = UnpaidOf(t, x)
  BY <1>6, <1>7 DEF OneRow, UnpaidOf
<1>9. UnpaidOf(t, a) = row.unpaid /\ UnpaidOf(r, a) = n
  <2>1. r.voters[a] = new /\ new # NoRow
    BY <1>4, <1>6, <1>7, RowType DEF OneRow
  <2>2. QED
    BY <1>4, <2>1 DEF UnpaidOf
<1>10. UnpaidAgrees(r)
  BY <1>1, <1>3, <1>5, <1>7, <1>8, <1>9, UnpaidChange
<1>11. QED
  BY <1>2, <1>10

LEMMA UnpaidTaken ==
  ASSUME NEW r, UnpaidAgrees(r), voters' = r.voters, gstate' = r.gstate
  PROVE  UnpaidAgrees(VotingTables)'
<1>1. VotingTables.voters' = voters' /\ VotingTables.gstate' = gstate'
  BY DEF VotingTables
<1>2. \A a \in Accounts : UnpaidOf(VotingTables, a)' = UnpaidOf(r, a)
  BY <1>1 DEF UnpaidOf
<1>3. UnpaidIn(VotingTables)' = UnpaidIn(r)
  BY <1>2 DEF UnpaidIn
<1>4. QED
  BY <1>1, <1>3 DEF UnpaidAgrees

\* Where nothing of voters or votes changes but the producers.
LEMMA SameVotersUnpaid ==
  ASSUME UnpaidAgrees(VotingTables), UNCHANGED <<voters, gstate>>
  PROVE  UnpaidAgrees(VotingTables)'
<1>1. VotingTables.voters = voters /\ VotingTables.gstate = gstate
  BY DEF VotingTables
<1>2. QED
  BY <1>1, UnpaidTaken

LEMMA RegProxyUnpaid ==
  ASSUME VotingInv, UnpaidAgrees(VotingTables), NEW a \in Accounts, NEW isproxy \in BOOLEAN,
         RegProxy(a, isproxy)
  PROVE  UnpaidAgrees(VotingTables)'
<1> DEFINE t      == VotingTables
           row    == voters[a]
           new    == [row EXCEPT !.is_proxy = isproxy]
           marked == [t EXCEPT !.voters = [t.voters EXCEPT ![a] = new]]
           passed == Propagate(marked, a)
           r      == UpdateWitnesses(t, passed)
<1>1. TablesInv(t) /\ now \in Nat /\ t.voters = voters
  BY InvOfTables
<1>2. row # NoRow /\ row \in VoterRow
  BY <1>1, TablesHave DEF RegProxy, TablesInv
<1>3. row.proxy = None
  <2>1. CASE isproxy
    BY <2>1 DEF RegProxy
  <2>2. CASE ~isproxy
    <3>1. row.is_proxy
      BY <1>2, <2>2, RowType DEF RegProxy
    <3>2. a \notin Users(t)
      BY <1>1, <3>1 DEF TablesInv, ProxiesEndOf
    <3>3. QED
      BY <1>1, <1>2, <3>2 DEF Users
  <2>3. QED
    BY <2>1, <2>2
<1>4. CommitVotes(r)
  <2>1. marked = [t EXCEPT !.voters = [t.voters EXCEPT ![a].is_proxy = isproxy]]
    BY <1>1 DEF TablesInv, Tables, VoterTable
  <2> HIDE DEF marked
  <2>2. QED
    BY <2>1 DEF RegProxy
<1>5. new \in VoterRow /\ new.proxy = None /\ new.unpaid = row.unpaid /\ new # NoRow
  <2>1. new \in VoterRow /\ new.proxy = None /\ new.unpaid = row.unpaid
    BY <1>2, <1>3 DEF VoterRow
  <2>2. QED
    BY <2>1, RowType
<1> HIDE DEF new
<1>6. OneRow(t, marked, a, new) /\ TimesOK(marked)
  <2> HIDE DEF t
  <2>1. QED
    BY <1>1, <1>2, <1>3, <1>5, OtherRow
<1> HIDE DEF marked
<1>7. marked \in Tables /\ marked.voters[a] = new /\ marked.producers = t.producers
  BY <1>6 DEF OneRow
<1>8. Alike(marked, passed)
  <2>1. LET b == marked.voters[a].proxy IN b # None => b # a /\ marked.voters[b] # NoRow
    BY <1>5, <1>7
  <2>2. QED
    BY <1>1, <1>5, <1>6, <1>7, <2>1, PropagateFacts
<1> HIDE DEF passed
<1>9. Alike(passed, r)
  <2>1. /\ passed \in Tables /\ TimesOK(passed)
        /\ \A p \in Candidates : t.producers[p] = NoRow <=> passed.producers[p] = NoRow
    BY <1>7, <1>8 DEF Alike
  <2>2. LET s == UpdateWitnesses(t, passed) IN Alike(passed, s)
    BY <1>1, <2>1, UpdateWitnessesFacts
  <2>3. QED
    BY <2>2
<1>10. UnpaidAgrees(marked)
  <2>1. new.unpaid = UnpaidOf(t, a) /\ t \in Tables
    BY <1>1, <1>2, <1>5 DEF UnpaidOf, TablesInv
  <2> HIDE DEF t
  <2>2. QED
    BY <1>5, <1>6, <2>1, OneRowUnpaid DEF t
<1> HIDE DEF r, t
<1>11. UnpaidAgrees(r)
  <2>1. UnpaidAgrees(passed) /\ passed \in Tables
    BY <1>7, <1>8, <1>10, AlikeUnpaid DEF Alike
  <2>2. QED
    BY <1>9, <2>1, AlikeUnpaid
<1>12. QED
  BY <1>4, <1>11, UnpaidTaken DEF CommitVotes

LEMMA NewVoterUnpaid ==
  ASSUME NEW stake
  PROVE  NewVoter(stake).unpaid = 0
BY DEF NewVoter

LEMMA RegNewProxyUnpaid ==
  ASSUME VotingInv, UnpaidAgrees(VotingTables), NEW a \in Accounts, NEW isproxy \in BOOLEAN,
         RegNewProxy(a, isproxy)
  PROVE  UnpaidAgrees(VotingTables)'
<1> DEFINE t   == VotingTables
           new == [NewVoter(0) EXCEPT !.is_proxy = isproxy]
           r   == [t EXCEPT !.voters = [t.voters EXCEPT ![a] = new]]
<1>1. TablesInv(t) /\ t.voters = voters /\ t.gstate = gstate
  BY InvOfTables
<1>2. new \in VoterRow /\ new.unpaid = 0 /\ new # NoRow
  <2> DEFINE row == NewVoter(0)
  <2>1. row \in VoterRow /\ row.unpaid = 0
    BY NewVoterType, NewVoterUnpaid
  <2> HIDE DEF row
  <2>2. [row EXCEPT !.is_proxy = isproxy] \in VoterRow
        /\ [row EXCEPT !.is_proxy = isproxy].unpaid = 0
    BY <2>1 DEF VoterRow
  <2>3. QED
    BY <2>2, RowType DEF row
<1>3. t.voters[a] = NoRow /\ voters' = [voters EXCEPT ![a] = new] /\ gstate' = gstate
  BY <1>1 DEF RegNewProxy
<1>4. t \in Tables /\ r.voters = voters' /\ r.gstate = gstate'
  BY <1>1, <1>3 DEF TablesInv, Tables
<1> HIDE DEF new, t
<1>5. OneRow(t, r, a, new)
  BY <1>2, <1>4, PutRow
<1>6. UnpaidOf(t, a) = 0
  BY <1>3 DEF UnpaidOf
<1> HIDE DEF r
<1>7. UnpaidAgrees(r)
  BY <1>2, <1>4, <1>5, <1>6, OneRowUnpaid DEF t
<1>8. QED
  BY <1>4, <1>7, UnpaidTaken

LEMMA VoteProducerUnpaid ==
  ASSUME VotingInv, UnpaidAgrees(VotingTables), NEW a \in Accounts,
         NEW proxy \in Accounts \cup {None}, NEW ps \in SUBSET Candidates,
         VoteProducer(a, proxy, ps)
  PROVE  UnpaidAgrees(VotingTables)'
<1> DEFINE t == VotingTables
           u == UpdateVotes(t, a, proxy, ps)
           r == CountUnpaid(u, a)
<1>1. TablesInv(t) /\ now \in Nat /\ UnpaidAgrees(t)
  BY InvOfTables
<1>2. CanUpdateVotes(t, a, proxy, ps, TRUE) /\ CommitVotes(r)
  BY DEF VoteProducer
<1> HIDE DEF t
<1>3. t.voters[a] # NoRow /\ (proxy # None => t.voters[proxy] # NoRow)
  BY <1>2 DEF CanUpdateVotes
<1>4. ProxiesThere(t)
  BY <1>1, EndIsThere DEF TablesInv
<1>5. Recast(t, u, a, proxy, ps)
  BY <1>1, <1>3, <1>4, UpdateVotesFacts DEF TablesInv
<1> HIDE DEF u
<1>6. u \in Tables /\ u.voters[a] # NoRow
  BY <1>5, RowType DEF Recast
<1>7. UnpaidAgrees(u)
  BY <1>1, <1>3, <1>5, RecastUnpaid DEF TablesInv
<1>8. UnpaidAgrees(r)
  BY <1>6, <1>7, CountUnpaidAgrees
<1> HIDE DEF r
<1>9. QED
  BY <1>2, <1>8, UnpaidTaken DEF CommitVotes

LEMMA UpdateVotingPowerUnpaid ==
  ASSUME NEW t, TablesInv(t), UnpaidAgrees(t), now \in Nat,
         NEW a \in Accounts, NEW stake \in Nat, UpdateVotingPower(t, a, stake)
  PROVE  UnpaidAgrees(VotingTables)'
<1> DEFINE old   == IF t.voters[a] = NoRow THEN NewVoter(0) ELSE t.voters[a]
           row   == [old EXCEPT !.staked = stake]
           grown == [t EXCEPT !.voters = [t.voters EXCEPT ![a] = row]]
           votes == row.producers # {} \/ row.proxy # None
           r     == IF votes THEN UpdateVotes(grown, a, row.proxy, row.producers) ELSE grown
<1>1. /\ votes => CanUpdateVotes(grown, a, row.proxy, row.producers, FALSE)
      /\ CommitVotes(r)
  BY DEF UpdateVotingPower
<1>2. /\ old \in VoterRow /\ (t.voters[a] = NoRow => old.proxy = None)
      /\ old.unpaid = UnpaidOf(t, a) /\ t \in Tables
  BY TablesHave, NewVoterType, NewVoterUnpaid DEF TablesInv, UnpaidOf
<1>3. t.voters[a] # NoRow => old = t.voters[a]
  OBVIOUS
<1> HIDE DEF old
<1>4. /\ row \in VoterRow /\ row.proxy = old.proxy /\ row.is_proxy = old.is_proxy
      /\ row.unpaid = old.unpaid
  BY <1>2 DEF VoterRow
<1>5. row.proxy \in Accounts \cup {None} /\ row.producers \in SUBSET Candidates /\ row # NoRow
  BY <1>4, RowType
<1> HIDE DEF row
<1>6. OneRow(t, grown, a, row) /\ TimesOK(grown) /\ ProxiesEndOf(grown)
  BY <1>2, <1>3, <1>4, OtherRow
<1> HIDE DEF grown
<1>7. grown \in Tables /\ grown.voters[a] = row
  BY <1>6 DEF OneRow
<1>8. UnpaidAgrees(grown)
  BY <1>2, <1>4, <1>5, <1>6, OneRowUnpaid
<1>9. UnpaidAgrees(r)
  <2>1. CASE votes
    <3> DEFINE u == UpdateVotes(grown, a, row.proxy, row.producers)
    <3>1. row.proxy # None => grown.voters[row.proxy] # NoRow
      BY <1>1, <2>1 DEF CanUpdateVotes
    <3>2. ProxiesThere(grown)
      BY <1>6, <1>7, EndIsThere
    <3>3. Recast(grown, u, a, row.proxy, row.producers)
      BY <1>5, <1>6, <1>7, <3>1, <3>2, UpdateVotesFacts
    <3> HIDE DEF u
    <3>4. UnpaidAgrees(u)
      BY <1>5, <1>7, <1>8, <3>3, RecastUnpaid
    <3>5. QED
      BY <2>1, <3>4 DEF u
  <2>2. CASE ~votes
    BY <1>8, <2>2
  <2>3. QED
    BY <2>1, <2>2
<1> HIDE DEF r
<1>10. QED
  BY <1>1, <1>9, UnpaidTaken DEF CommitVotes

LEMMA UndelegateUnpaid ==
  ASSUME VotingInv, UnpaidAgrees(VotingTables), NEW a \in Accounts, NEW stake \in Stakes[a],
         Undelegate(a, stake)
  PROVE  UnpaidAgrees(VotingTables)'
<1> DEFINE t     == VotingTables
           big   == voters[a].staked > FreeStake
           rows  == [t.producers EXCEPT ![a].active = FALSE]
           ended == [t EXCEPT !.producers = rows]
           from  == IF big THEN ended ELSE t
<1>1. TablesInv(t) /\ now \in Nat /\ t.producers = producers /\ UnpaidAgrees(t)
  BY InvOfTables
<1>2. /\ UpdateVotingPower(from, a, stake)
      /\ big => a \in Candidates /\ producers[a] # NoRow
  BY DEF Undelegate
<1>3. stake \in Nat
  BY VotingBoundsAssumption
<1>4. TablesInv(from) /\ UnpaidAgrees(from)
  <2>1. CASE big
    <3>1. /\ t.producers \in ProducerTable /\ a \in Candidates /\ t.producers[a] # NoRow
          /\ \A q \in Candidates : t.producers[q] # NoRow => Dated(t.producers[q])
      BY <1>1, <1>2, <2>1, TablesHave DEF TablesInv, TimesOK
    <3> HIDE DEF t, big
    <3>2. /\ rows \in ProducerTable
          /\ \A q \in Candidates : rows[q] # NoRow => Dated(rows[q])
      BY <3>1, EndedTable
    <3> HIDE DEF rows
    <3>3. TablesInv(ended) /\ ended.voters = t.voters /\ ended.gstate = t.gstate
      BY <1>1, <3>2, OtherProducers
    <3>4. t \in Tables
      BY <1>1 DEF TablesInv
    <3> HIDE DEF ended
    <3>5. \A x \in Accounts : UnpaidOf(ended, x) = UnpaidOf(t, x)
      BY <3>3 DEF UnpaidOf
    <3>6. UnpaidAgrees(ended)
      BY <1>1, <3>3, <3>4, <3>5, SameUnpaid
    <3>7. QED
      BY <2>1, <3>3, <3>6
  <2>2. CASE ~big
    BY <1>1, <2>2
  <2>3. QED
    BY <2>1, <2>2
<1> HIDE DEF from, t
<1>5. QED
  BY <1>1, <1>2, <1>3, <1>4, UpdateVotingPowerUnpaid

LEMMA InitUnpaid ==
  ASSUME VotingInit
  PROVE  UnpaidAgrees(VotingTables)
<1> DEFINE f == [a \in Accounts |-> UnpaidOf(VotingTables, a)]
<1>1. VotingTables.voters = voters /\ VotingTables.gstate.unpaid = 0
  BY DEF VotingTables, VotingInit
<1>2. \A a \in Accounts : f[a] = 0
  <2>1. \A a \in Accounts : voters[a] = NoRow \/ voters[a] = NewVoter(InitStake[a])
    BY DEF VotingInit
  <2>2. QED
    BY <1>1, <2>1, NewVoterUnpaid DEF UnpaidOf
<1>3. SumOver(f, Accounts) = 0
  <2> HIDE DEF f
  <2>1. QED
    BY <1>2, AccountsAssumption, SumOverNat
<1>4. QED
  BY <1>1, <1>3 DEF UnpaidAgrees, UnpaidIn

LEMMA UnpaidStep ==
  ASSUME VotingInv, UnpaidAgrees(VotingTables), [VotingNext]_votingVars
  PROVE  UnpaidAgrees(VotingTables)'
<1>1. ASSUME NEW p \in Candidates, RegProducer(p) PROVE UnpaidAgrees(VotingTables)'
  BY <1>1, SameVotersUnpaid DEF RegProducer
<1>2. ASSUME NEW p \in Candidates, Deactivate(p) PROVE UnpaidAgrees(VotingTables)'
  BY <1>2, SameVotersUnpaid DEF Deactivate
<1>3. ASSUME NEW a \in Proxies, NEW isproxy \in BOOLEAN, RegProxy(a, isproxy)
      PROVE  UnpaidAgrees(VotingTables)'
  BY <1>3, AccountsAssumption, RegProxyUnpaid
<1>4. ASSUME NEW a \in Proxies, NEW isproxy \in BOOLEAN, RegNewProxy(a, isproxy)
      PROVE  UnpaidAgrees(VotingTables)'
  BY <1>4, AccountsAssumption, RegNewProxyUnpaid
<1>5. ASSUME NEW a \in Accounts, NEW proxy \in Accounts \cup {None}, NEW ps \in SUBSET Candidates,
             VoteProducer(a, proxy, ps)
      PROVE  UnpaidAgrees(VotingTables)'
  BY <1>5, VoteProducerUnpaid
<1>6. ASSUME NEW a \in Accounts, NEW stake \in Stakes[a], Delegate(a, stake)
      PROVE  UnpaidAgrees(VotingTables)'
  <2>1. TablesInv(VotingTables) /\ now \in Nat
    BY InvOfTables
  <2>2. UpdateVotingPower(VotingTables, a, stake) /\ stake \in Nat
    BY <1>6, VotingBoundsAssumption DEF Delegate
  <2>3. QED
    BY <2>1, <2>2, UpdateVotingPowerUnpaid
<1>7. ASSUME NEW a \in Accounts, NEW stake \in Stakes[a], Undelegate(a, stake)
      PROVE  UnpaidAgrees(VotingTables)'
  BY <1>7, UndelegateUnpaid
<1>8. ASSUME VotingTick PROVE UnpaidAgrees(VotingTables)'
  BY <1>8, SameVotersUnpaid DEF VotingTick
<1>9. CASE UNCHANGED votingVars
  BY <1>9, SameVotersUnpaid DEF votingVars
<1>10. QED
  BY <1>1, <1>2, <1>3, <1>4, <1>5, <1>6, <1>7, <1>8, <1>9 DEF VotingNext
-----------------------------------------------------------------------------
(* Words: numbers that differ by a multiple of Word                        *)

Multiple(x) == \E k \in Int : x = k * Word

LEMMA MultipleAdd ==
  ASSUME NEW x \in Int, NEW y \in Int, Multiple(x), Multiple(y)
  PROVE  Multiple(x + y) /\ Multiple(x - y)
<1>1. Word \in Nat
  BY OracleAssumption
<1>2. PICK i \in Int : x = i * Word
  BY DEF Multiple
<1>3. PICK j \in Int : y = j * Word
  BY DEF Multiple
<1>4. x + y = (i + j) * Word /\ x - y = (i - j) * Word
  BY <1>1, <1>2, <1>3
<1>5. i + j \in Int /\ i - j \in Int
  OBVIOUS
<1>6. QED
  BY <1>4, <1>5 DEF Multiple

LEMMA MultipleZero == Multiple(0)
<1>1. 0 = 0 * Word
  BY OracleAssumption
<1>2. QED
  BY <1>1 DEF Multiple

LEMMA MultipleMod ==
  ASSUME NEW x \in Int
  PROVE  x % Word \in Counters /\ Multiple((x % Word) - x)
<1> DEFINE q == x \div Word
           m == x % Word
<1>1. Word \in Nat \ {0}
  BY OracleAssumption
<1>2. q \in Int /\ m \in 0 .. Word - 1 /\ x = q * Word + m
  BY <1>1
<1> HIDE DEF q, m
<1>3. m - x = (-q) * Word
  BY <1>1, <1>2
<1>4. -q \in Int
  BY <1>2
<1>5. Multiple(m - x)
  BY <1>3, <1>4 DEF Multiple
<1>6. QED
  BY <1>2, <1>5 DEF m, Counters

LEMMA SmallMultiple ==
  ASSUME NEW x \in Int, Multiple(x), x < Word, -x < Word
  PROVE  x = 0
<1>1. Word \in Nat \ {0}
  BY OracleAssumption
<1>2. PICK k \in Int : x = k * Word
  BY DEF Multiple
<1>3. k < 1
  <2>1. ASSUME 1 <= k PROVE FALSE
    <3>1. 1 * Word <= k * Word
      BY <1>1, <2>1, TimesMonotone
    <3>2. QED
      BY <1>1, <1>2, <3>1
  <2>2. QED
    BY <2>1
<1>4. -1 < k
  <2>1. ASSUME k <= -1 PROVE FALSE
    <3>1. k * Word <= (-1) * Word
      BY <1>1, <2>1, TimesMonotone
    <3>2. QED
      BY <1>1, <1>2, <3>1
  <2>2. QED
    BY <2>1
<1>5. k = 0
  BY <1>3, <1>4
<1>6. QED
  BY <1>1, <1>2, <1>5

LEMMA WordIs ==
  ASSUME NEW c \in Counters, NEW x \in Int, Multiple(c - x)
  PROVE  c = x % Word
<1> DEFINE m == x % Word
<1>1. Word \in Nat \ {0} /\ c \in Int /\ m \in Counters /\ Multiple(m - x)
  <2>1. m \in Counters /\ Multiple(m - x)
    BY MultipleMod
  <2>2. Word \in Nat \ {0} /\ c \in Int
    BY OracleAssumption DEF Counters
  <2>3. QED
    BY <2>1, <2>2
<1> HIDE DEF m
<1>2. m \in Int
  BY <1>1 DEF Counters
<1>3. Multiple((c - x) - (m - x))
  BY <1>1, <1>2, MultipleAdd
<1>4. (c - x) - (m - x) = c - m
  BY <1>1, <1>2
<1>5. c - m \in Int /\ c - m < Word /\ -(c - m) < Word
  BY <1>1 DEF Counters
<1>6. c - m = 0
  BY <1>3, <1>4, <1>5, SmallMultiple
<1>7. QED
  BY <1>1, <1>2, <1>6 DEF m

LEMMA WordOf ==
  ASSUME NEW c \in Counters
  PROVE  c % Word = c
<1>1. Word \in Nat \ {0}
  BY OracleAssumption
<1>2. QED
  BY <1>1 DEF Counters

LEMMA CountersAre == \A c \in Counters : c \in Nat /\ c <= Word - 1
  BY OracleAssumption DEF Counters
-----------------------------------------------------------------------------
(* The rows of oracles                                                     *)

OracleTable  == [Candidates -> OracleRow \cup {NoRow}]
RequestTable == [RequestKeys -> RequestRow \cup {NoRow}]

PendingOf(t, p) == IF t[p] = NoRow THEN 0 ELSE t[p].pending
SuccessOf(t, p) == IF t[p] = NoRow THEN 0 ELSE t[p].successful
PendingIn(t)    == SumOver([p \in Candidates |-> PendingOf(t, p)], Candidates)
SuccessIn(t)    == SumOver([p \in Candidates |-> SuccessOf(t, p)], Candidates)

LEMMA CandidatesFinite == IsFiniteSet(Candidates)
BY AccountsAssumption, FS_Subset

LEMMA OracleRowType ==
  ASSUME NEW row \in OracleRow
  PROVE  /\ row.account \in OracleAccounts \cup {None} /\ row.pending \in Counters
         /\ row.successful \in Counters /\ row.failed \in Counters /\ row.punishment \in Nat
         /\ row # NoRow
BY OracleRowsAssumption DEF OracleRow

LEMMA RowsOf ==
  ASSUME NEW t \in OracleTable, NEW p \in Candidates
  PROVE  /\ PendingOf(t, p) \in Counters /\ PendingOf(t, p) \in Nat
         /\ SuccessOf(t, p) \in Counters /\ SuccessOf(t, p) \in Nat
         /\ t[p] # NoRow => t[p] \in OracleRow
<1>1. 0 \in Counters
  BY OracleAssumption DEF Counters
<1>2. t[p] # NoRow => t[p] \in OracleRow
  BY DEF OracleTable
<1>3. PendingOf(t, p) \in Counters /\ SuccessOf(t, p) \in Counters
  BY <1>1, <1>2, OracleRowType DEF PendingOf, SuccessOf
<1>4. QED
  BY <1>2, <1>3, CountersAre

LEMMA OracleSumsType ==
  ASSUME NEW t \in OracleTable
  PROVE  /\ PendingIn(t) \in Nat /\ SuccessIn(t) \in Nat
         /\ \A p \in Candidates : SuccessOf(t, p) <= SuccessIn(t)
<1> DEFINE f == [p \in Candidates |-> PendingOf(t, p)]
           h == [p \in Candidates |-> SuccessOf(t, p)]
<1>1. \A p \in Candidates : f[p] \in Nat /\ h[p] \in Nat
  BY RowsOf
<1>2. \A p \in Candidates : h[p] = SuccessOf(t, p)
  OBVIOUS
<1>3. PendingIn(t) = SumOver(f, Candidates) /\ SuccessIn(t) = SumOver(h, Candidates)
  BY DEF PendingIn, SuccessIn
<1> HIDE DEF f, h
<1>4. SumOver(f, Candidates) \in Nat /\ SumOver(h, Candidates) \in Nat
  BY <1>1, CandidatesFinite, SumOverNat
<1>5. \A p \in Candidates : h[p] <= SumOver(h, Candidates)
  BY <1>1, CandidatesFinite, SumOverBound
<1>6. QED
  BY <1>2, <1>3, <1>4, <1>5

\* The sums when one row is another.
LEMMA RowChange ==
  ASSUME NEW t \in OracleTable, NEW r \in OracleTable, NEW p \in Candidates,
         \A q \in Candidates \ {p} : r[q] = t[q]
  PROVE  /\ PendingIn(r) = PendingIn(t) + PendingOf(r, p) - PendingOf(t, p)
         /\ SuccessIn(r) = SuccessIn(t) + SuccessOf(r, p) - SuccessOf(t, p)
<1> DEFINE f == [q \in Candidates |-> PendingOf(t, q)]
           g == [q \in Candidates |-> PendingOf(r, q)]
           h == [q \in Candidates |-> SuccessOf(t, q)]
           i == [q \in Candidates |-> SuccessOf(r, q)]
<1>1. \A q \in Candidates : f[q] \in Int /\ g[q] \in Int /\ h[q] \in Int /\ i[q] \in Int
  BY RowsOf
<1>2. \A q \in Candidates \ {p} : f[q] = g[q] /\ h[q] = i[q]
  BY DEF PendingOf, SuccessOf
<1>3. /\ PendingIn(t) = SumOver(f, Candidates) /\ SuccessIn(t) = SumOver(h, Candidates)
      /\ PendingIn(r) = SumOver(g, Candidates) /\ SuccessIn(r) = SumOver(i, Candidates)
  BY DEF PendingIn, SuccessIn
<1>4. /\ f[p] = PendingOf(t, p) /\ g[p] = PendingOf(r, p)
      /\ h[p] = SuccessOf(t, p) /\ i[p] = SuccessOf(r, p)
  OBVIOUS
<1> HIDE DEF f, g, h, i
<1>5. SumOver(g, Candidates) = SumOver(f, Candidates) + g[p] - f[p]
  BY <1>1, <1>2, CandidatesFinite, SumOverChange
<1>6. SumOver(i, Candidates) = SumOver(h, Candidates) + i[p] - h[p]
  BY <1>1, <1>2, CandidatesFinite, SumOverChange
<1>7. QED
  BY <1>3, <1>4, <1>5, <1>6

\* Of the rows that name an account, the index finds exactly one.
LEMMA FirstNamed ==
  ASSUME NEW S \in SUBSET Candidates, S # {}
  PROVE  \E p \in S : \A q \in S : /\ NameValue[p] <= NameValue[q]
                                   /\ NameValue[q] <= NameValue[p] => q = p
<1> DEFINE T == {NameValue[q] : q \in S}
<1>1. \A q \in S : NameValue[q] \in Nat /\ q \in Accounts
  BY AccountsAssumption
<1>2. T \in SUBSET Nat /\ T # {}
  BY <1>1
<1>3. PICK m \in T : \A k \in T : m <= k
  BY <1>2, LeastNat
<1>4. PICK p \in S : m = NameValue[p]
  OBVIOUS
<1>5. ASSUME NEW q \in S PROVE /\ NameValue[p] <= NameValue[q]
                               /\ NameValue[q] <= NameValue[p] => q = p
  <2>1. NameValue[p] <= NameValue[q]
    BY <1>3, <1>4
  <2>2. ASSUME NameValue[q] <= NameValue[p] PROVE q = p
    <3>1. NameValue[q] = NameValue[p]
      BY <1>1, <2>1, <2>2
    <3>2. QED
      BY <1>1, <3>1, AccountsAssumption
  <2>3. QED
    BY <2>1, <2>2
<1>6. QED
  BY <1>5

\* A change adds dp to what is pending, up to wrapping, and ds to what succeeded.
IsBump(change, dp, ds) ==
    \A row \in OracleRow :
        LET new == Counted(row, change)
        IN  /\ new \in OracleRow /\ new.account = row.account
            /\ Multiple(new.pending - row.pending - dp)
            /\ new.successful = (row.successful + ds) % Word

\* What Bump does: where nobody names the account nothing, and else one row is changed.
Bumped(t, r, account, dp, ds) ==
    IF Naming(t, account) = {} THEN r = t
    ELSE \E p \in Naming(t, account), new \in OracleRow :
            /\ r = [t EXCEPT ![p] = new]
            /\ new.account = account
            /\ Multiple(new.pending - t[p].pending - dp)
            /\ new.successful = (t[p].successful + ds) % Word

LEMMA BumpIs ==
  ASSUME NEW t \in OracleTable, NEW account, NEW change, NEW dp \in Int, NEW ds \in Int,
         IsBump(change, dp, ds)
  PROVE  Bumped(t, Bump(t, account, change), account, dp, ds)
<1> DEFINE S == Naming(t, account)
           r == Bump(t, account, change)
<1>1. S \in SUBSET Candidates /\ \A p \in S : t[p] # NoRow /\ t[p].account = account
  BY DEF Naming
<1>2. CASE S = {}
  <2>1. r = [p \in Candidates |-> t[p]]
    BY <1>2 DEF Bump
  <2>2. r = t
    BY <2>1 DEF OracleTable
  <2>3. QED
    BY <1>2, <2>2 DEF Bumped
<1>3. CASE S # {}
  <2>1. PICK p \in S : \A q \in S : /\ NameValue[p] <= NameValue[q]
                                    /\ NameValue[q] <= NameValue[p] => q = p
    BY <1>1, <1>3, FirstNamed
  <2> DEFINE new == Counted(t[p], change)
  <2>2. t[p] \in OracleRow /\ t[p].account = account /\ p \in Candidates
    BY <1>1, RowsOf
  <2>3. /\ new \in OracleRow /\ new.account = account
        /\ Multiple(new.pending - t[p].pending - dp)
        /\ new.successful = (t[p].successful + ds) % Word
    BY <2>2 DEF IsBump
  <2>4. r = [t EXCEPT ![p] = new]
    <3> HIDE DEF S
    <3>1. \A x \in Candidates :
             (x \in S /\ \A q \in S : NameValue[x] <= NameValue[q]) <=> x = p
      BY <2>1
    <3>2. r = [x \in Candidates |->
                 IF x \in S /\ \A q \in S : NameValue[x] <= NameValue[q]
                 THEN Counted(t[x], change) ELSE t[x]]
      BY DEF Bump, S
    <3>3. r = [x \in Candidates |-> IF x = p THEN Counted(t[x], change) ELSE t[x]]
      BY <3>1, <3>2
    <3>4. QED
      BY <2>2, <3>3 DEF OracleTable
  <2> HIDE DEF new, r
  <2>5. QED
    BY <1>3, <2>1, <2>3, <2>4 DEF Bumped, r
<1>4. QED
  BY <1>2, <1>3

\* A counter of which one is added or taken, as a word.
LEMMA WordStep ==
  ASSUME NEW c \in Counters, NEW d \in Int
  PROVE  /\ (c + d) % Word \in Counters
         /\ Multiple(((c + d) % Word) - c - d)
<1> DEFINE x == c + d
<1>1. x \in Int /\ c \in Int
  BY CountersAre
<1>2. x % Word \in Counters /\ Multiple((x % Word) - x)
  BY <1>1, MultipleMod
<1>3. (x % Word) - x = (x % Word) - c - d
  <2>1. x % Word \in Int
    BY <1>2, CountersAre
  <2>2. QED
    BY <1>1, <2>1
<1>4. QED
  BY <1>2, <1>3

LEMMA SameWord ==
  ASSUME NEW c \in Counters
  PROVE  Multiple(c - c - 0) /\ c = (c + 0) % Word
<1>1. c \in Int /\ c - c - 0 = 0 /\ c + 0 = c
  BY CountersAre
<1>2. QED
  BY <1>1, MultipleZero, WordOf

\* What Counted does to a row whose fields are spelt out.
LEMMA CountedRow ==
  ASSUME NEW row \in OracleRow, NEW new, NEW dp \in Int, NEW ds \in Int, NEW df \in Int,
         DOMAIN new = DOMAIN row,
         new = [f \in DOMAIN row |-> new[f]],
         new.account = row.account, new.punishment = row.punishment,
         new.pending = (row.pending + dp) % Word,
         new.successful = (row.successful + ds) % Word,
         new.failed = (row.failed + df) % Word
  PROVE  /\ new \in OracleRow
         /\ Multiple(new.pending - row.pending - dp)
<1>1. /\ row.account \in OracleAccounts \cup {None} /\ row.punishment \in Nat
      /\ row.pending \in Counters /\ row.successful \in Counters /\ row.failed \in Counters
  BY OracleRowType
<1>2. /\ new.pending \in Counters /\ new.successful \in Counters /\ new.failed \in Counters
      /\ Multiple(new.pending - row.pending - dp)
  BY <1>1, WordStep
<1>3. DOMAIN row = {"account", "pending", "successful", "failed", "punishment"}
  BY DEF OracleRow
<1>4. new = [account |-> new.account, pending |-> new.pending, successful |-> new.successful,
             failed |-> new.failed, punishment |-> new.punishment]
  BY <1>3
<1>5. QED
  BY <1>1, <1>2, <1>4 DEF OracleRow

LEMMA BumpsAre ==
  /\ IsBump(Requested, 1, 0)
  /\ IsBump(Answered, -1, 0)
  /\ IsBump(Missed, -1, 0)
  /\ IsBump(StandbyMiss, 0, 0)
  /\ IsBump(Succeeded, 0, 1)
<1> DEFINE Fits(change, dp, ds, df) ==
               \A row \in OracleRow :
                   LET new == Counted(row, change)
                   IN  /\ new.account = row.account /\ new.punishment = row.punishment
                       /\ new.pending = (row.pending + dp) % Word
                       /\ new.successful = (row.successful + ds) % Word
                       /\ new.failed = (row.failed + df) % Word
<1>1. ASSUME NEW row \in OracleRow
      PROVE  /\ DOMAIN row = {"account", "pending", "successful", "failed", "punishment"}
             /\ row.pending = (row.pending + 0) % Word
             /\ row.successful = (row.successful + 0) % Word
             /\ row.failed = (row.failed + 0) % Word
  <2>1. row.pending \in Counters /\ row.successful \in Counters /\ row.failed \in Counters
    BY OracleRowType
  <2>2. DOMAIN row = {"account", "pending", "successful", "failed", "punishment"}
    BY DEF OracleRow
  <2>3. QED
    BY <2>1, <2>2, SameWord
<1>2. Fits(Requested, 1, 0, 0)
  BY <1>1 DEF Counted, Requested
<1>3. Fits(Answered, -1, 0, 0)
  BY <1>1 DEF Counted, Answered
<1>4. Fits(Missed, -1, 0, 1)
  BY <1>1 DEF Counted, Missed
<1>5. Fits(StandbyMiss, 0, 0, 1)
  BY <1>1 DEF Counted, StandbyMiss
<1>6. Fits(Succeeded, 0, 1, 0)
  BY <1>1 DEF Counted, Succeeded
<1>7. ASSUME NEW change, NEW dp \in Int, NEW ds \in Int, NEW df \in Int, Fits(change, dp, ds, df)
      PROVE  IsBump(change, dp, ds)
  <2>1. ASSUME NEW row \in OracleRow
        PROVE  LET new == Counted(row, change)
               IN  /\ new \in OracleRow /\ new.account = row.account
                   /\ Multiple(new.pending - row.pending - dp)
                   /\ new.successful = (row.successful + ds) % Word
    <3> DEFINE new == Counted(row, change)
    <3>1. /\ new.account = row.account /\ new.punishment = row.punishment
          /\ new.pending = (row.pending + dp) % Word
          /\ new.successful = (row.successful + ds) % Word
          /\ new.failed = (row.failed + df) % Word
      BY <1>7, <2>1
    <3>2. DOMAIN new = DOMAIN row /\ new = [f \in DOMAIN row |-> new[f]]
      BY DEF Counted
    <3> HIDE DEF new
    <3>3. new \in OracleRow /\ Multiple(new.pending - row.pending - dp)
      BY <2>1, <3>1, <3>2, CountedRow
    <3>4. QED
      BY <3>1, <3>3 DEF new
  <2>2. QED
    BY <2>1 DEF IsBump
<1> HIDE DEF Fits
<1>8. QED
  BY <1>2, <1>3, <1>4, <1>5, <1>6, <1>7

LEMMA BumpedFacts ==
  ASSUME NEW t \in OracleTable, NEW r, NEW account, NEW dp \in Int, NEW ds \in {0, 1},
         Bumped(t, r, account, dp, ds)
  PROVE  /\ r \in OracleTable
         /\ \A p \in Candidates : /\ t[p] = NoRow <=> r[p] = NoRow
                                  /\ t[p] # NoRow => r[p].account = t[p].account
         /\ \A a : Naming(r, a) = Naming(t, a)
         /\ Naming(t, account) # {} => Multiple(PendingIn(r) - PendingIn(t) - dp)
         /\ Naming(t, account) = {} => r = t
         /\ ds = 0 => SuccessIn(r) = SuccessIn(t)
         /\ ds = 1 /\ Naming(t, account) # {} /\ SuccessIn(t) < Word - 1 =>
               SuccessIn(r) = SuccessIn(t) + 1
         /\ dp = 0 => \A p \in Candidates : Multiple(PendingOf(r, p) - PendingOf(t, p))
         /\ \A p \in Candidates : Naming(t, account) = {p} =>
               /\ Multiple(PendingOf(r, p) - PendingOf(t, p) - dp)
               /\ \A q \in Candidates \ {p} : r[q] = t[q]
<1>1. CASE Naming(t, account) = {}
  <2>1. r = t
    BY <1>1 DEF Bumped
  <2>2. ASSUME NEW p \in Candidates PROVE Multiple(PendingOf(t, p) - PendingOf(t, p))
    <3>1. PendingOf(t, p) - PendingOf(t, p) = 0
      BY RowsOf
    <3>2. QED
      BY <3>1, MultipleZero
  <2>3. QED
    BY <1>1, <2>1, <2>2
<1>2. CASE Naming(t, account) # {}
  <2>1. PICK p \in Naming(t, account), new \in OracleRow :
            /\ r = [t EXCEPT ![p] = new]
            /\ new.account = account
            /\ Multiple(new.pending - t[p].pending - dp)
            /\ new.successful = (t[p].successful + ds) % Word
    BY <1>2 DEF Bumped
  <2>2. p \in Candidates /\ t[p] # NoRow /\ t[p].account = account /\ t[p] \in OracleRow
    BY RowsOf DEF Naming
  <2>3. r \in OracleTable /\ r[p] = new /\ \A q \in Candidates \ {p} : r[q] = t[q]
    BY <2>1, <2>2 DEF OracleTable
  <2>4. new # NoRow /\ new.pending \in Counters /\ new.successful \in Counters
    BY OracleRowType
  <2>5. /\ PendingOf(r, p) = new.pending /\ PendingOf(t, p) = t[p].pending
        /\ SuccessOf(r, p) = new.successful /\ SuccessOf(t, p) = t[p].successful
    BY <2>2, <2>3, <2>4 DEF PendingOf, SuccessOf
  <2>6. \A q \in Candidates : /\ t[q] = NoRow <=> r[q] = NoRow
                              /\ t[q] # NoRow => r[q].account = t[q].account
    BY <2>1, <2>2, <2>3, <2>4
  <2>7. \A a : Naming(r, a) = Naming(t, a)
    BY <2>6 DEF Naming
  <2>8. /\ PendingIn(r) = PendingIn(t) + PendingOf(r, p) - PendingOf(t, p)
        /\ SuccessIn(r) = SuccessIn(t) + SuccessOf(r, p) - SuccessOf(t, p)
    BY <2>2, <2>3, RowChange
  <2>9. /\ PendingIn(r) \in Nat /\ PendingIn(t) \in Nat /\ SuccessIn(t) \in Nat
        /\ SuccessIn(r) \in Nat /\ SuccessOf(t, p) <= SuccessIn(t)
        /\ PendingOf(r, p) \in Nat /\ PendingOf(t, p) \in Nat /\ SuccessOf(t, p) \in Counters
        /\ SuccessOf(t, p) \in Nat
    BY <2>2, <2>3, OracleSumsType, RowsOf
  <2>10. Multiple(PendingOf(r, p) - PendingOf(t, p) - dp)
    BY <2>1, <2>5
  <2>11. Multiple(PendingIn(r) - PendingIn(t) - dp)
    <3>1. PendingIn(r) - PendingIn(t) - dp = PendingOf(r, p) - PendingOf(t, p) - dp
      BY <2>8, <2>9
    <3>2. QED
      BY <2>10, <3>1
  <2>12. ds = 0 => SuccessIn(r) = SuccessIn(t)
    <3>1. ASSUME ds = 0 PROVE SuccessOf(r, p) = SuccessOf(t, p)
      BY <2>1, <2>2, <2>5, <2>9, <3>1, SameWord
    <3>2. QED
      BY <2>8, <2>9, <3>1
  <2>13. ds = 1 /\ SuccessIn(t) < Word - 1 => SuccessIn(r) = SuccessIn(t) + 1
    <3>1. ASSUME ds = 1, SuccessIn(t) < Word - 1 PROVE SuccessOf(r, p) = SuccessOf(t, p) + 1
      <4>1. Word \in Nat
        BY OracleAssumption
      <4>2. SuccessOf(t, p) + 1 \in Counters
        BY <2>9, <3>1, <4>1 DEF Counters
      <4>3. (SuccessOf(t, p) + 1) % Word = SuccessOf(t, p) + 1
        BY <4>2, WordOf
      <4>4. QED
        BY <2>1, <2>5, <3>1, <4>3
    <3>2. QED
      BY <2>8, <2>9, <3>1
  <2>14. ASSUME dp = 0, NEW q \in Candidates PROVE Multiple(PendingOf(r, q) - PendingOf(t, q))
    <3>1. CASE q = p
      <4>1. PendingOf(r, p) - PendingOf(t, p) - dp = PendingOf(r, p) - PendingOf(t, p)
        BY <2>9, <2>14
      <4>2. QED
        BY <2>10, <3>1, <4>1
    <3>2. CASE q # p
      <4>1. PendingOf(r, q) = PendingOf(t, q) /\ PendingOf(t, q) \in Nat
        BY <2>3, <3>2, RowsOf DEF PendingOf
      <4>2. PendingOf(r, q) - PendingOf(t, q) = 0
        BY <4>1
      <4>3. QED
        BY <4>2, MultipleZero
    <3>3. QED
      BY <3>1, <3>2
  <2>15. \A q \in Candidates : Naming(t, account) = {q} => q = p
    OBVIOUS
  <2>16. QED
    BY <1>2, <2>3, <2>6, <2>7, <2>10, <2>11, <2>12, <2>13, <2>14, <2>15
<1>3. QED
  BY <1>1, <1>2

-----------------------------------------------------------------------------
(* Requests and the rows that count them                                   *)

OpenIn(q)        == {k \in RequestKeys : q[k] # NoRow}
AssignedIn(q, a) == {k \in OpenIn(q) : q[k].assigned = a}

\* While producers keep to accounts of their own.
Orderly(t, q) ==
    /\ \A p, r \in Candidates :
          t[p] # NoRow /\ t[r] # NoRow /\ t[p].account = t[r].account /\ t[p].account # None
              => p = r
    /\ \A k \in OpenIn(q) : Naming(t, q[k].assigned) # {} /\ q[k].standby # q[k].assigned
    /\ \A p \in Candidates : t[p] # NoRow =>
          Multiple(PendingOf(t, p) - Cardinality(AssignedIn(q, t[p].account)))

\* The rows t and the open requests q agree: up to wrapping, what is pending is what is open but
\* for the l replies nobody was found for, and s have succeeded; unless tangled, each row agrees.
OracleOK(t, q, s, l, g) ==
    /\ t \in OracleTable /\ q \in RequestTable
    /\ s \in Counters /\ l \in Counters /\ g \in BOOLEAN
    /\ Multiple(PendingIn(t) - Cardinality(OpenIn(q)) - l)
    /\ SuccessIn(t) = s
    /\ ~g => l = 0 /\ Orderly(t, q)

OracleInv == OracleOK(oracles, requests, successes, lost, tangled)

LEMMA OpenFinite ==
  ASSUME NEW q
  PROVE  /\ IsFiniteSet(OpenIn(q)) /\ Cardinality(OpenIn(q)) \in Nat
         /\ \A a : IsFiniteSet(AssignedIn(q, a)) /\ Cardinality(AssignedIn(q, a)) \in Nat
<1>1. OpenIn(q) \subseteq RequestKeys /\ \A a : AssignedIn(q, a) \subseteq RequestKeys
  BY DEF OpenIn, AssignedIn
<1>2. IsFiniteSet(OpenIn(q)) /\ \A a : IsFiniteSet(AssignedIn(q, a))
  BY <1>1, OracleAssumption, FS_Subset
<1>3. QED
  BY <1>2, FS_CardinalityType

LEMMA RequestRowType ==
  ASSUME NEW q \in RequestTable, NEW k \in OpenIn(q)
  PROVE  /\ q[k].time \in Nat /\ q[k].assigned \in OracleAccounts
         /\ q[k].standby \in OracleAccounts \cup {None} /\ q[k].assigned # None
<1>1. q[k] \in RequestRow
  BY DEF OpenIn, RequestTable
<1>2. QED
  BY <1>1, OracleAssumption DEF RequestRow

\* A request is made: it is open, and assigned to its oracle.
Made(q, k, row, n) ==
    /\ n \in RequestTable
    /\ OpenIn(n) = OpenIn(q) \cup {k} /\ k \notin OpenIn(q) /\ n[k] = row
    /\ \A j \in OpenIn(q) : n[j] = q[j]
    /\ Cardinality(OpenIn(n)) = Cardinality(OpenIn(q)) + 1
    /\ \A a : Cardinality(AssignedIn(n, a))
                 = Cardinality(AssignedIn(q, a)) + (IF a = row.assigned THEN 1 ELSE 0)

LEMMA RequestMade ==
  ASSUME NEW q \in RequestTable, NEW k \in RequestKeys, q[k] = NoRow, NEW row \in RequestRow
  PROVE  Made(q, k, row, [q EXCEPT ![k] = row])
<1> DEFINE n == [q EXCEPT ![k] = row]
<1>1. n \in RequestTable /\ n[k] = row /\ row # NoRow /\ \A j \in RequestKeys \ {k} : n[j] = q[j]
  BY OracleRowsAssumption DEF RequestTable
<1> HIDE DEF n
<1>2. OpenIn(n) = OpenIn(q) \cup {k} /\ k \notin OpenIn(q)
  BY <1>1 DEF OpenIn
<1>3. \A j \in OpenIn(q) : n[j] = q[j]
  BY <1>1, <1>2 DEF OpenIn
<1>4. Cardinality(OpenIn(n)) = Cardinality(OpenIn(q)) + 1
  BY <1>2, OpenFinite, FS_AddElement
<1>5. ASSUME NEW a
      PROVE  Cardinality(AssignedIn(n, a))
                = Cardinality(AssignedIn(q, a)) + (IF a = row.assigned THEN 1 ELSE 0)
  <2>1. CASE a = row.assigned
    <3>1. AssignedIn(n, a) = AssignedIn(q, a) \cup {k} /\ k \notin AssignedIn(q, a)
      BY <1>1, <1>2, <1>3, <2>1 DEF AssignedIn
    <3>2. Cardinality(AssignedIn(n, a)) = Cardinality(AssignedIn(q, a)) + 1
      BY <3>1, OpenFinite, FS_AddElement
    <3>3. QED
      BY <2>1, <3>2
  <2>2. CASE a # row.assigned
    <3>1. AssignedIn(n, a) = AssignedIn(q, a)
      BY <1>1, <1>2, <1>3, <2>2 DEF AssignedIn
    <3>2. Cardinality(AssignedIn(q, a)) \in Nat
      BY OpenFinite
    <3>3. QED
      BY <2>2, <3>1, <3>2
  <2>3. QED
    BY <2>1, <2>2
<1>6. Made(q, k, row, n)
  BY <1>1, <1>2, <1>3, <1>4, <1>5 DEF Made
<1>7. QED
  BY <1>6 DEF n

\* A request is closed.
Unmade(q, k, n) ==
    /\ n \in RequestTable
    /\ OpenIn(q) = OpenIn(n) \cup {k} /\ k \notin OpenIn(n)
    /\ \A j \in OpenIn(n) : n[j] = q[j]
    /\ Cardinality(OpenIn(n)) = Cardinality(OpenIn(q)) - 1
    /\ \A a : Cardinality(AssignedIn(n, a))
                 = Cardinality(AssignedIn(q, a)) - (IF a = q[k].assigned THEN 1 ELSE 0)

LEMMA RequestClosed ==
  ASSUME NEW q \in RequestTable, NEW k \in RequestKeys, q[k] # NoRow
  PROVE  Unmade(q, k, [q EXCEPT ![k] = NoRow])
<1> DEFINE n == [q EXCEPT ![k] = NoRow]
<1>1. n \in RequestTable /\ n[k] = NoRow /\ \A j \in RequestKeys \ {k} : n[j] = q[j]
  BY DEF RequestTable
<1> HIDE DEF n
<1>2. OpenIn(q) = OpenIn(n) \cup {k} /\ k \notin OpenIn(n)
  BY <1>1 DEF OpenIn
<1>3. \A j \in OpenIn(n) : n[j] = q[j]
  BY <1>1, <1>2 DEF OpenIn
<1>4. Cardinality(OpenIn(q)) = Cardinality(OpenIn(n)) + 1
  BY <1>2, OpenFinite, FS_AddElement
<1>5. ASSUME NEW a
      PROVE  Cardinality(AssignedIn(n, a))
                = Cardinality(AssignedIn(q, a)) - (IF a = q[k].assigned THEN 1 ELSE 0)
  <2>1. CASE a = q[k].assigned
    <3>1. AssignedIn(q, a) = AssignedIn(n, a) \cup {k} /\ k \notin AssignedIn(n, a)
      BY <1>1, <1>2, <1>3, <2>1 DEF AssignedIn
    <3>2. Cardinality(AssignedIn(q, a)) = Cardinality(AssignedIn(n, a)) + 1
      BY <3>1, OpenFinite, FS_AddElement
    <3>3. Cardinality(AssignedIn(n, a)) \in Nat
      BY OpenFinite
    <3>4. QED
      BY <2>1, <3>2, <3>3
  <2>2. CASE a # q[k].assigned
    <3>1. AssignedIn(n, a) = AssignedIn(q, a)
      BY <1>1, <1>2, <1>3, <2>2 DEF AssignedIn
    <3>2. Cardinality(AssignedIn(q, a)) \in Nat
      BY OpenFinite
    <3>3. QED
      BY <2>2, <3>1, <3>2
  <2>3. QED
    BY <2>1, <2>2
<1>6. Cardinality(OpenIn(n)) = Cardinality(OpenIn(q)) - 1
  BY <1>4, OpenFinite
<1>7. Unmade(q, k, n)
  BY <1>1, <1>2, <1>3, <1>5, <1>6 DEF Unmade
<1>8. QED
  BY <1>7 DEF n

\* One account's oracle has d more pending, and d more requests are assigned to it.
LEMMA OrderlyChange ==
  ASSUME NEW t \in OracleTable, NEW r \in OracleTable, NEW q, NEW n, Orderly(t, q),
         \A x \in Candidates : /\ t[x] = NoRow <=> r[x] = NoRow
                               /\ t[x] # NoRow => r[x].account = t[x].account,
         \A b : Naming(r, b) = Naming(t, b),
         NEW a, NEW d \in Int, NEW p \in Candidates, Naming(t, a) = {p},
         Multiple(PendingOf(r, p) - PendingOf(t, p) - d),
         \A x \in Candidates \ {p} : r[x] = t[x],
         \A b : Cardinality(AssignedIn(n, b))
                    = Cardinality(AssignedIn(q, b)) + (IF b = a THEN d ELSE 0),
         \A k \in OpenIn(n) : Naming(t, n[k].assigned) # {} /\ n[k].standby # n[k].assigned
  PROVE  Orderly(r, n)
<1>1. ASSUME NEW x \in Candidates, r[x] # NoRow
      PROVE  Multiple(PendingOf(r, x) - Cardinality(AssignedIn(n, r[x].account)))
  <2> DEFINE b == t[x].account
  <2>1. t[x] # NoRow /\ r[x].account = b
    BY <1>1
  <2>2. /\ PendingOf(r, x) \in Int /\ PendingOf(t, x) \in Int
        /\ Cardinality(AssignedIn(n, b)) \in Int /\ Cardinality(AssignedIn(q, b)) \in Int
    <3>1. PendingOf(r, x) \in Int /\ PendingOf(t, x) \in Int
      BY RowsOf
    <3>2. Cardinality(AssignedIn(n, b)) \in Int /\ Cardinality(AssignedIn(q, b)) \in Int
      BY OpenFinite
    <3>3. QED
      BY <3>1, <3>2
  <2>3. Multiple(PendingOf(t, x) - Cardinality(AssignedIn(q, b)))
    BY <2>1 DEF Orderly
  <2>4. Cardinality(AssignedIn(n, b)) = Cardinality(AssignedIn(q, b)) + (IF b = a THEN d ELSE 0)
    OBVIOUS
  <2>5. x \in Naming(t, b)
    BY <2>1 DEF Naming
  <2> HIDE DEF b
  <2>6. CASE b = a
    <3>1. x = p
      BY <2>5, <2>6
    <3>2. Multiple((PendingOf(t, x) - Cardinality(AssignedIn(q, b)))
                     + (PendingOf(r, x) - PendingOf(t, x) - d))
      BY <2>2, <2>3, <3>1, MultipleAdd
    <3>3. (PendingOf(t, x) - Cardinality(AssignedIn(q, b))) + (PendingOf(r, x) - PendingOf(t, x) - d)
              = PendingOf(r, x) - Cardinality(AssignedIn(n, b))
      BY <2>2, <2>4, <2>6
    <3>4. QED
      BY <2>1, <3>2, <3>3
  <2>7. CASE b # a
    <3>1. x # p
      <4>1. p \in Naming(t, a)
        OBVIOUS
      <4>2. t[p].account = a
        BY <4>1 DEF Naming
      <4>3. QED
        BY <2>7, <4>2 DEF b
    <3>2. PendingOf(r, x) = PendingOf(t, x)
      BY <3>1 DEF PendingOf
    <3>3. Cardinality(AssignedIn(n, b)) = Cardinality(AssignedIn(q, b))
      BY <2>2, <2>4, <2>7
    <3>4. QED
      BY <2>1, <2>3, <3>2, <3>3
  <2>8. QED
    BY <2>6, <2>7
<1>2. \A x, y \in Candidates :
          r[x] # NoRow /\ r[y] # NoRow /\ r[x].account = r[y].account /\ r[x].account # None
              => x = y
  BY DEF Orderly
<1>3. QED
  BY <1>1, <1>2 DEF Orderly

LEMMA OneNaming ==
  ASSUME NEW t \in OracleTable, NEW q, Orderly(t, q), NEW a, a # None, Naming(t, a) # {}
  PROVE  \E p \in Candidates : Naming(t, a) = {p}
BY DEF Orderly, Naming

\* Nothing that is pending changes.
LEMMA OrderlySame ==
  ASSUME NEW t \in OracleTable, NEW r, NEW q, Orderly(t, q),
         NEW account, NEW ds \in {0, 1}, Bumped(t, r, account, 0, ds)
  PROVE  Orderly(r, q)
<1>1. /\ r \in OracleTable
      /\ \A p \in Candidates : /\ t[p] = NoRow <=> r[p] = NoRow
                               /\ t[p] # NoRow => r[p].account = t[p].account
      /\ \A a : Naming(r, a) = Naming(t, a)
      /\ \A p \in Candidates : Multiple(PendingOf(r, p) - PendingOf(t, p))
  BY BumpedFacts
<1>2. ASSUME NEW x \in Candidates, r[x] # NoRow
      PROVE  Multiple(PendingOf(r, x) - Cardinality(AssignedIn(q, r[x].account)))
  <2> DEFINE c == Cardinality(AssignedIn(q, t[x].account))
  <2>1. t[x] # NoRow /\ r[x].account = t[x].account
    BY <1>1, <1>2
  <2>2. Multiple(PendingOf(t, x) - c) /\ Multiple(PendingOf(r, x) - PendingOf(t, x))
    BY <1>1, <2>1 DEF Orderly
  <2>3. PendingOf(r, x) \in Int /\ PendingOf(t, x) \in Int /\ c \in Int
    <3>1. PendingOf(r, x) \in Int /\ PendingOf(t, x) \in Int
      BY <1>1, RowsOf
    <3>2. c \in Int
      BY OpenFinite
    <3>3. QED
      BY <3>1, <3>2
  <2> HIDE DEF c
  <2>4. Multiple((PendingOf(t, x) - c) + (PendingOf(r, x) - PendingOf(t, x)))
    BY <2>2, <2>3, MultipleAdd
  <2>5. (PendingOf(t, x) - c) + (PendingOf(r, x) - PendingOf(t, x)) = PendingOf(r, x) - c
    BY <2>3
  <2>6. QED
    BY <2>1, <2>4, <2>5 DEF c
<1>3. QED
  BY <1>1, <1>2 DEF Orderly

LEMMA MadeOrderly ==
  ASSUME NEW t \in OracleTable, NEW r, NEW q \in RequestTable, Orderly(t, q),
         NEW k \in RequestKeys, q[k] = NoRow, NEW row \in RequestRow,
         Bumped(t, r, row.assigned, 1, 0), Naming(t, row.assigned) # {},
         row.standby # row.assigned
  PROVE  Orderly(r, [q EXCEPT ![k] = row])
<1> DEFINE n == [q EXCEPT ![k] = row]
           a == row.assigned
<1>1. /\ n \in RequestTable
      /\ OpenIn(n) = OpenIn(q) \cup {k} /\ n[k] = row
      /\ \A j \in OpenIn(q) : n[j] = q[j]
      /\ \A b : Cardinality(AssignedIn(n, b))
                   = Cardinality(AssignedIn(q, b)) + (IF b = a THEN 1 ELSE 0)
  <2>1. Made(q, k, row, n)
    BY RequestMade
  <2> HIDE DEF n
  <2>2. QED
    BY <2>1 DEF Made
<1>2. a # None
  <2>1. k \in OpenIn(n)
    BY <1>1
  <2>2. QED
    BY <1>1, <2>1, RequestRowType
<1>3. PICK p \in Candidates : Naming(t, a) = {p}
  BY <1>2, OneNaming
<1>4. /\ r \in OracleTable
      /\ \A x \in Candidates : /\ t[x] = NoRow <=> r[x] = NoRow
                               /\ t[x] # NoRow => r[x].account = t[x].account
      /\ \A b : Naming(r, b) = Naming(t, b)
      /\ Multiple(PendingOf(r, p) - PendingOf(t, p) - 1)
      /\ \A x \in Candidates \ {p} : r[x] = t[x]
  BY <1>3, BumpedFacts
<1>5. \A j \in OpenIn(n) : Naming(t, n[j].assigned) # {} /\ n[j].standby # n[j].assigned
  BY <1>1 DEF Orderly
<1> HIDE DEF n, a
<1>6. Orderly(r, n)
  <2>1. /\ Orderly(t, q) /\ p \in Candidates /\ Naming(t, a) = {p}
        /\ Multiple(PendingOf(r, p) - PendingOf(t, p) - 1)
        /\ \A x \in Candidates \ {p} : r[x] = t[x]
        /\ \A b : Naming(r, b) = Naming(t, b)
        /\ \A b : Cardinality(AssignedIn(n, b))
                      = Cardinality(AssignedIn(q, b)) + (IF b = a THEN 1 ELSE 0)
    BY <1>1, <1>3, <1>4
  <2>2. QED
    BY <2>1, <1>4, <1>5, OrderlyChange
<1>7. QED
  BY <1>6 DEF n

LEMMA ClosedOrderly ==
  ASSUME NEW t \in OracleTable, NEW r, NEW q \in RequestTable, Orderly(t, q),
         NEW k \in RequestKeys, q[k] # NoRow, Bumped(t, r, q[k].assigned, -1, 0)
  PROVE  Naming(t, q[k].assigned) # {} /\ Orderly(r, [q EXCEPT ![k] = NoRow])
<1> DEFINE n == [q EXCEPT ![k] = NoRow]
           a == q[k].assigned
<1>1. /\ n \in RequestTable
      /\ OpenIn(q) = OpenIn(n) \cup {k}
      /\ \A j \in OpenIn(n) : n[j] = q[j]
      /\ \A b : Cardinality(AssignedIn(n, b))
                   = Cardinality(AssignedIn(q, b)) - (IF b = a THEN 1 ELSE 0)
  <2>1. Unmade(q, k, n)
    BY RequestClosed
  <2> HIDE DEF n
  <2>2. QED
    BY <2>1 DEF Unmade
<1>2. k \in OpenIn(q) /\ a # None /\ Naming(t, a) # {}
  BY <1>1, RequestRowType DEF Orderly
<1>3. PICK p \in Candidates : Naming(t, a) = {p}
  BY <1>2, OneNaming
<1>4. /\ r \in OracleTable
      /\ \A x \in Candidates : /\ t[x] = NoRow <=> r[x] = NoRow
                               /\ t[x] # NoRow => r[x].account = t[x].account
      /\ \A b : Naming(r, b) = Naming(t, b)
      /\ Multiple(PendingOf(r, p) - PendingOf(t, p) - (-1))
      /\ \A x \in Candidates \ {p} : r[x] = t[x]
  BY <1>3, BumpedFacts
<1>5. \A j \in OpenIn(n) : Naming(t, n[j].assigned) # {} /\ n[j].standby # n[j].assigned
  BY <1>1 DEF Orderly
<1>6. \A b : Cardinality(AssignedIn(n, b))
                = Cardinality(AssignedIn(q, b)) + (IF b = a THEN -1 ELSE 0)
  <2>1. ASSUME NEW b PROVE Cardinality(AssignedIn(q, b)) \in Int
    BY OpenFinite
  <2> HIDE DEF n, a
  <2>2. QED
    BY <1>1, <2>1
<1> HIDE DEF n, a
<1>7. Orderly(r, n)
  <2>1. /\ Orderly(t, q) /\ p \in Candidates /\ Naming(t, a) = {p}
        /\ Multiple(PendingOf(r, p) - PendingOf(t, p) - (-1))
        /\ \A x \in Candidates \ {p} : r[x] = t[x]
        /\ \A b : Naming(r, b) = Naming(t, b)
        /\ \A b : Cardinality(AssignedIn(n, b))
                      = Cardinality(AssignedIn(q, b)) + (IF b = a THEN -1 ELSE 0)
    BY <1>3, <1>4, <1>6
  <2>2. QED
    BY <2>1, <1>4, <1>5, OrderlyChange
<1>8. QED
  BY <1>2, <1>7 DEF n, a
-----------------------------------------------------------------------------
(* The oracle of a slot                                                    *)

LEMMA SumOverMore ==
  ASSUME NEW S, IsFiniteSet(S), NEW T, NEW x, x \notin T, S = T \cup {x},
         NEW h, \A y \in S : h[y] \in Int, NEW d, \A y \in T : d[y] = h[y]
  PROVE  SumOver(h, S) = SumOver(d, T) + h[x]
<1> DEFINE z == [y \in S |-> 0]
           f == [y \in S |-> IF y = x THEN h[x] ELSE 0]
           e == [y \in T |-> y]
<1>1. IsFiniteSet(T) /\ x \in S /\ T \subseteq S
  <2>1. T \subseteq S /\ x \in S
    OBVIOUS
  <2>2. QED
    BY <2>1, FS_Subset
<1>2. \A y \in S : z[y] = 0 /\ z[y] \in Nat /\ z[y] \in Int /\ f[y] \in Int
  OBVIOUS
<1>3. f[x] = h[x] /\ z[x] = 0 /\ \A y \in S \ {x} : z[y] = f[y]
  BY <1>1
<1>4. e \in [T -> S] /\ \A y \in T : e[y] = y
  BY <1>1
<1>5. \A y \in T : f[y] = 0 /\ d[y] \in Int
  BY <1>1
<1> HIDE DEF z, f, e
<1>6. SumOver(z, S) = 0
  BY <1>2, SumOverNat
<1>7. SumOver(f, S) = SumOver(z, S) + f[x] - z[x]
  <2>1. /\ IsFiniteSet(S) /\ x \in S
        /\ \A y \in S : z[y] \in Int
        /\ \A y \in S : f[y] \in Int
        /\ \A y \in S \ {x} : z[y] = f[y]
    BY <1>1, <1>2, <1>3
  <2>2. QED
    BY <2>1, SumOverChange
<1>8. \A y, w \in T : e[y] = e[w] => y = w
  BY <1>4
<1>9. \A y \in T : h[e[y]] = f[e[y]] + d[y]
  BY <1>1, <1>4, <1>5
<1>10. \A s \in S : (\A y \in T : e[y] # s) => h[s] = f[s]
  BY <1>3, <1>4
<1>11. SumOver(h, S) = SumOver(f, S) + SumOver(d, T)
  BY <1>1, <1>2, <1>4, <1>5, <1>8, <1>9, <1>10, SumOverSlice
<1>12. SumOver(d, T) \in Int
  BY <1>1, <1>5, SumOverType
<1>13. QED
  BY <1>1, <1>3, <1>6, <1>7, <1>11, <1>12

\* The ends of ranges that are not empty, the last of which is not all there is but for one.
Ends(n, upper) ==
    /\ \A i \in 0 .. n : upper[i] \in Nat
    /\ \A i \in 1 .. n : upper[i - 1] < upper[i]
    /\ \A i \in 1 .. n : i < n => upper[i] - upper[i - 1] <= upper[n - 1]

LEMMA EndsOfWidths ==
  ASSUME NEW n \in Nat, NEW w, \A j \in 1 .. n : w[j] \in Nat \ {0}
  PROVE  Ends(n, [i \in 0 .. n |-> SumOver([j \in 1 .. i |-> w[j]], 1 .. i)])
<1> DEFINE g(i) == [j \in 1 .. i |-> w[j]]
           upper == [i \in 0 .. n |-> SumOver(g(i), 1 .. i)]
<1>1. ASSUME NEW i \in 0 .. n
      PROVE  /\ IsFiniteSet(1 .. i) /\ upper[i] = SumOver(g(i), 1 .. i)
             /\ \A j \in 1 .. i : g(i)[j] = w[j] /\ w[j] \in Nat \ {0}
  BY FS_Interval
<1> HIDE DEF g, upper
<1>2. ASSUME NEW i \in 0 .. n
      PROVE  upper[i] \in Nat /\ \A j \in 1 .. i : w[j] <= upper[i]
  <2>1. \A j \in 1 .. i : g(i)[j] \in Nat
    BY <1>1
  <2>2. SumOver(g(i), 1 .. i) \in Nat
    BY <1>1, <2>1, SumOverNat
  <2>3. \A j \in 1 .. i : g(i)[j] <= SumOver(g(i), 1 .. i)
    BY <1>1, <2>1, SumOverBound
  <2>4. QED
    BY <1>1, <2>2, <2>3
<1>3. ASSUME NEW i \in 1 .. n PROVE upper[i] = upper[i - 1] + w[i]
  <2> DEFINE S == 1 .. i
             T == 1 .. i - 1
             h == g(i)
             d == g(i - 1)
  <2>1. i \in 0 .. n /\ i - 1 \in 0 .. n
    OBVIOUS
  <2>2. IsFiniteSet(S) /\ \A y \in S : h[y] \in Int
    BY <1>1, <2>1
  <2>3. \A y \in T : d[y] = h[y]
    BY <1>1, <2>1
  <2>4. i \notin T /\ S = T \cup {i}
    OBVIOUS
  <2>5. h[i] = w[i] /\ upper[i] = SumOver(h, S) /\ upper[i - 1] = SumOver(d, T)
    BY <1>1, <2>1
  <2> HIDE DEF S, T, h, d
  <2>6. SumOver(h, S) = SumOver(d, T) + h[i]
    BY <2>2, <2>3, <2>4, SumOverMore
  <2>7. QED
    BY <2>5, <2>6
<1>4. ASSUME NEW i \in 1 .. n
      PROVE  /\ upper[i - 1] < upper[i]
             /\ i < n => upper[i] - upper[i - 1] <= upper[n - 1]
  <2>1. i \in 0 .. n /\ i - 1 \in 0 .. n /\ n - 1 \in 0 .. n
    OBVIOUS
  <2>2. upper[i - 1] \in Nat /\ w[i] \in Nat \ {0} /\ upper[i] = upper[i - 1] + w[i]
    BY <1>2, <1>3, <2>1
  <2>3. i < n => w[i] <= upper[n - 1]
    <3>1. i < n => i \in 1 .. n - 1
      OBVIOUS
    <3>2. QED
      BY <1>2, <2>1, <3>1
  <2>4. QED
    BY <2>2, <2>3
<1>5. Ends(n, upper)
  BY <1>2, <1>4 DEF Ends
<1>6. QED
  BY <1>5 DEF upper, g

LEMMA UpperEndsAre ==
  ASSUME NEW n \in Nat, NEW s, DOMAIN s = 1 .. n
  PROVE  Ends(n, UpperEnds(s))
<1> DEFINE J(i) == {j \in 2 .. i : oracles[s[j - 1]].pending > oracles[s[j]].pending}
           w == [i \in 1 .. n |-> BaseRange + Cardinality(J(i))]
<1>1. Cardinality(DOMAIN s) = n
  BY FS_Interval
<1>2. ASSUME NEW i \in 1 .. n PROVE w[i] = BaseRange + Cardinality(J(i)) /\ w[i] \in Nat \ {0}
  <2>1. J(i) \subseteq 2 .. i /\ IsFiniteSet(2 .. i)
    BY FS_Interval
  <2>2. Cardinality(J(i)) \in Nat
    BY <2>1, FS_Subset, FS_CardinalityType
  <2> HIDE DEF J
  <2>3. QED
    BY <2>2, OracleAssumption
<1>3. UpperEnds(s) = [i \in 0 .. n |->
                        SumOver([j \in 1 .. i |-> BaseRange + Cardinality(J(j))], 1 .. i)]
  BY <1>1 DEF UpperEnds
<1> HIDE DEF J
<1>4. UpperEnds(s) = [i \in 0 .. n |-> SumOver([j \in 1 .. i |-> w[j]], 1 .. i)]
  <2>1. ASSUME NEW i \in 0 .. n
        PROVE  [j \in 1 .. i |-> BaseRange + Cardinality(J(j))] = [j \in 1 .. i |-> w[j]]
    BY <1>2
  <2>2. QED
    BY <1>3, <2>1
<1>5. \A i \in 1 .. n : w[i] \in Nat \ {0}
  BY <1>2
<1> HIDE DEF w
<1>6. Ends(n, [i \in 0 .. n |-> SumOver([j \in 1 .. i |-> w[j]], 1 .. i)])
  BY <1>5, EndsOfWidths
<1>7. QED
  BY <1>4, <1>6

LEMMA FirstAboveIn ==
  ASSUME NEW I \in SUBSET Nat, NEW upper, NEW x \in Nat, \A i \in I : upper[i] \in Nat,
         \E i \in I : x < upper[i]
  PROVE  FirstAbove(I, upper, x) \in I
<1> DEFINE T == {i \in I : x < upper[i]}
<1>1. T \in SUBSET Nat /\ T # {}
  OBVIOUS
<1>2. PICK m \in T : \A k \in T : m <= k
  BY <1>1, LeastNat
<1>3. m \in I /\ x < upper[m] /\ \A j \in I : j < m => x >= upper[j]
  BY <1>2
<1>4. \E i \in I : x < upper[i] /\ \A j \in I : j < i => x >= upper[j]
  BY <1>3
<1>5. QED
  BY <1>4 DEF FirstAbove

\* The oracles that get_current_oracle finds are those of two producers.
LEMMA CurrentOracleFound ==
  ASSUME NEW s \in Orders(ActiveOracles), ActiveOracles # {}, NEW slot \in Nat
  PROVE  \E p \in ActiveOracles :
            /\ CurrentOracle(s, slot).assigned = oracles[p].account
            /\ \/ CurrentOracle(s, slot).standby = None
               \/ \E q \in ActiveOracles \ {p} : CurrentOracle(s, slot).standby = oracles[q].account
<1> DEFINE A     == ActiveOracles
           n     == Cardinality(A)
           upper == UpperEnds(s)
           x     == slot % upper[n]
           first == FirstAbove(1 .. n, upper, x)
           left  == upper[n] - (upper[first] - upper[first - 1])
           rest  == (1 .. n) \ {first}
           y     == slot % left
           next  == FirstAbove(rest, upper, y)
<1>1. A \subseteq Candidates /\ IsFiniteSet(A)
  <2>1. A \subseteq Candidates
    BY DEF ActiveOracles, Registered
  <2>2. QED
    BY <2>1, CandidatesFinite, FS_Subset
<1>2. n \in Nat /\ n # 0
  BY <1>1, FS_CardinalityType, FS_EmptySet
<1>3. /\ DOMAIN s = 1 .. n /\ \A i \in 1 .. n : s[i] \in A
      /\ \A i, j \in 1 .. n : i < j => s[i] # s[j]
  <2> HIDE DEF A, n
  <2>1. s \in [1 .. n -> A] /\ \A i, j \in DOMAIN s : i < j => s[i] # s[j]
    BY DEF Orders, A, n
  <2>2. QED
    BY <2>1
<1>4. Ends(n, upper)
  BY <1>2, <1>3, UpperEndsAre
<1>5. Cardinality(DOMAIN s) = n
  BY <1>2, <1>3, FS_Interval
<1>6. /\ CurrentOracle(s, slot).assigned = oracles[s[first]].account
      /\ CurrentOracle(s, slot).standby = IF rest = {} THEN None ELSE oracles[s[next]].account
  <2> HIDE DEF n, upper
  <2>1. CurrentOracle(s, slot) = [assigned |-> oracles[s[first]].account,
                                  standby  |-> IF rest = {} THEN None
                                               ELSE oracles[s[next]].account]
    BY <1>5 DEF CurrentOracle, upper
  <2>2. QED
    BY <2>1
<1> HIDE DEF A, n, upper
<1>7. n \in 1 .. n /\ upper[n] \in Nat \ {0}
  <2>1. n \in 1 .. n /\ n - 1 \in 0 .. n /\ n \in 0 .. n
    BY <1>2
  <2>2. QED
    BY <1>4, <2>1 DEF Ends
<1>8. x \in Nat /\ x < upper[n]
  BY <1>7
<1> HIDE DEF x
<1>9. first \in 1 .. n
  <2>1. \A i \in 1 .. n : upper[i] \in Nat
    BY <1>4 DEF Ends
  <2>2. 1 .. n \in SUBSET Nat
    OBVIOUS
  <2>3. QED
    BY <1>7, <1>8, <2>1, <2>2, FirstAboveIn
<1> HIDE DEF first
<1>10. CASE rest = {}
  BY <1>3, <1>6, <1>9, <1>10 DEF A
<1>11. CASE rest # {}
  <2>1. /\ upper[first] \in Nat /\ upper[first - 1] \in Nat /\ upper[first - 1] < upper[first]
        /\ n - 1 \in 0 .. n /\ upper[n - 1] \in Nat /\ upper[n - 1] < upper[n]
        /\ first < n => upper[first] - upper[first - 1] <= upper[n - 1]
    <3>1. first \in 0 .. n /\ first - 1 \in 0 .. n /\ n - 1 \in 0 .. n
      BY <1>2, <1>9
    <3>2. QED
      BY <1>4, <1>7, <1>9, <3>1 DEF Ends
  <2>2. \E i \in rest : left \in Nat \ {0} /\ left <= upper[i]
    <3>1. CASE first = n
      <4>1. left = upper[n - 1]
        BY <1>7, <2>1, <3>1
      <4>2. PICK i \in 1 .. n : i # n
        BY <1>11, <3>1
      <4>3. n - 1 \in rest /\ n - 2 \in 0 .. n /\ n - 1 \in 1 .. n
        BY <1>2, <3>1, <4>2
      <4>4. upper[n - 2] \in Nat /\ upper[n - 2] < upper[n - 1]
        <5>1. (n - 1) - 1 = n - 2
          BY <1>2
        <5>2. QED
          BY <1>4, <4>3, <5>1 DEF Ends
      <4>5. QED
        BY <2>1, <4>1, <4>3, <4>4
    <3>2. CASE first # n
      <4>1. n \in rest /\ first < n
        BY <1>2, <1>7, <1>9, <3>2
      <4>2. left \in Nat \ {0} /\ left <= upper[n]
        BY <1>7, <2>1, <4>1
      <4>3. QED
        BY <4>1, <4>2
    <3>3. QED
      BY <3>1, <3>2
  <2> HIDE DEF left
  <2>3. PICK i \in rest : left \in Nat \ {0} /\ left <= upper[i]
    BY <2>2
  <2>4. y \in Nat /\ y < left
    BY <2>3
  <2>5. \A j \in rest : upper[j] \in Nat
    BY <1>4 DEF Ends
  <2>6. y < upper[i]
    BY <2>3, <2>4, <2>5
  <2>7. rest \in SUBSET Nat
    OBVIOUS
  <2> HIDE DEF y
  <2>8. next \in rest
    BY <2>3, <2>4, <2>5, <2>6, <2>7, FirstAboveIn
  <2> HIDE DEF next
  <2>9. s[next] # s[first] /\ s[next] \in A /\ s[first] \in A
    <3>1. next \in 1 .. n /\ next # first
      BY <2>8
    <3>2. next < first \/ first < next
      BY <1>9, <3>1
    <3>3. QED
      BY <1>3, <1>9, <3>1, <3>2
  <2>10. QED
    BY <1>6, <1>11, <2>9 DEF A
<1>12. QED
  BY <1>10, <1>11
-----------------------------------------------------------------------------
(* What operations do to the rows and the requests                         *)

\* A counter changes, but nothing that is pending.
LEMMA BumpKeeps ==
  ASSUME NEW t, NEW q, NEW s, NEW l, NEW g, OracleOK(t, q, s, l, g),
         NEW r, NEW account, Bumped(t, r, account, 0, 0)
  PROVE  OracleOK(r, q, s, l, g)
<1>1. /\ t \in OracleTable /\ q \in RequestTable /\ s \in Counters /\ l \in Counters
      /\ g \in BOOLEAN /\ Multiple(PendingIn(t) - Cardinality(OpenIn(q)) - l)
      /\ SuccessIn(t) = s /\ (~g => l = 0 /\ Orderly(t, q))
  BY DEF OracleOK
<1>2. /\ r \in OracleTable /\ SuccessIn(r) = SuccessIn(t)
      /\ Naming(t, account) # {} => Multiple(PendingIn(r) - PendingIn(t) - 0)
      /\ Naming(t, account) = {} => r = t
  BY <1>1, BumpedFacts
<1>3. Multiple(PendingIn(r) - Cardinality(OpenIn(q)) - l)
  <2>1. CASE Naming(t, account) = {}
    BY <1>1, <1>2, <2>1
  <2>2. CASE Naming(t, account) # {}
    <3>1. /\ PendingIn(r) \in Int /\ PendingIn(t) \in Int /\ l \in Int
          /\ Cardinality(OpenIn(q)) \in Int
      BY <1>1, <1>2, OracleSumsType, OpenFinite, CountersAre
    <3>2. Multiple((PendingIn(r) - PendingIn(t) - 0) + (PendingIn(t) - Cardinality(OpenIn(q)) - l))
      BY <1>1, <1>2, <2>2, <3>1, MultipleAdd
    <3>3. (PendingIn(r) - PendingIn(t) - 0) + (PendingIn(t) - Cardinality(OpenIn(q)) - l)
              = PendingIn(r) - Cardinality(OpenIn(q)) - l
      BY <3>1
    <3>4. QED
      BY <3>2, <3>3
  <2>3. QED
    BY <2>1, <2>2
<1>4. ~g => Orderly(r, q)
  BY <1>1, OrderlySame
<1>5. QED
  BY <1>1, <1>2, <1>3, <1>4 DEF OracleOK

\* An oracle is credited with a success, as is the total.
LEMMA RewardKeeps ==
  ASSUME NEW t, NEW q, NEW s, NEW l, NEW g, OracleOK(t, q, s, l, g), s # Word - 1,
         NEW r, NEW account, Bumped(t, r, account, 0, 1), Naming(t, account) # {}
  PROVE  OracleOK(r, q, s + 1, l, g)
<1>1. /\ t \in OracleTable /\ q \in RequestTable /\ s \in Counters /\ l \in Counters
      /\ g \in BOOLEAN /\ Multiple(PendingIn(t) - Cardinality(OpenIn(q)) - l)
      /\ SuccessIn(t) = s /\ (~g => l = 0 /\ Orderly(t, q))
  BY DEF OracleOK
<1>2. s < Word - 1 /\ s + 1 \in Counters
  BY <1>1, OracleAssumption DEF Counters
<1>3. /\ r \in OracleTable /\ SuccessIn(r) = SuccessIn(t) + 1
      /\ Multiple(PendingIn(r) - PendingIn(t) - 0)
  BY <1>1, <1>2, BumpedFacts
<1>4. Multiple(PendingIn(r) - Cardinality(OpenIn(q)) - l)
  <2>1. /\ PendingIn(r) \in Int /\ PendingIn(t) \in Int /\ l \in Int
        /\ Cardinality(OpenIn(q)) \in Int
    BY <1>1, <1>3, OracleSumsType, OpenFinite, CountersAre
  <2>2. Multiple((PendingIn(r) - PendingIn(t) - 0) + (PendingIn(t) - Cardinality(OpenIn(q)) - l))
    BY <1>1, <1>3, <2>1, MultipleAdd
  <2>3. (PendingIn(r) - PendingIn(t) - 0) + (PendingIn(t) - Cardinality(OpenIn(q)) - l)
            = PendingIn(r) - Cardinality(OpenIn(q)) - l
    BY <2>1
  <2>4. QED
    BY <2>2, <2>3
<1>5. ~g => Orderly(r, q)
  BY <1>1, OrderlySame
<1>6. QED
  BY <1>1, <1>2, <1>3, <1>4, <1>5 DEF OracleOK

\* A request is assigned to an oracle with a row.
LEMMA RequestKeeps ==
  ASSUME NEW t, NEW q, NEW s, NEW l, NEW g, OracleOK(t, q, s, l, g),
         NEW k \in RequestKeys, q[k] = NoRow, NEW row \in RequestRow,
         NEW r, Bumped(t, r, row.assigned, 1, 0), Naming(t, row.assigned) # {},
         ~g => row.standby # row.assigned
  PROVE  OracleOK(r, [q EXCEPT ![k] = row], s, l, g)
<1> DEFINE n == [q EXCEPT ![k] = row]
<1>1. /\ t \in OracleTable /\ q \in RequestTable /\ s \in Counters /\ l \in Counters
      /\ g \in BOOLEAN /\ Multiple(PendingIn(t) - Cardinality(OpenIn(q)) - l)
      /\ SuccessIn(t) = s /\ (~g => l = 0 /\ Orderly(t, q))
  BY DEF OracleOK
<1>2. /\ r \in OracleTable /\ SuccessIn(r) = SuccessIn(t)
      /\ Multiple(PendingIn(r) - PendingIn(t) - 1)
  BY <1>1, BumpedFacts
<1>3. n \in RequestTable /\ Cardinality(OpenIn(n)) = Cardinality(OpenIn(q)) + 1
  <2>1. Made(q, k, row, n)
    BY <1>1, RequestMade
  <2> HIDE DEF n
  <2>2. QED
    BY <2>1 DEF Made
<1>4. ~g => Orderly(r, n)
  BY <1>1, MadeOrderly
<1> HIDE DEF n
<1>5. Multiple(PendingIn(r) - Cardinality(OpenIn(n)) - l)
  <2>1. /\ PendingIn(r) \in Int /\ PendingIn(t) \in Int /\ l \in Int
        /\ Cardinality(OpenIn(q)) \in Int
    BY <1>1, <1>2, OracleSumsType, OpenFinite, CountersAre
  <2>2. Multiple((PendingIn(r) - PendingIn(t) - 1) + (PendingIn(t) - Cardinality(OpenIn(q)) - l))
    BY <1>1, <1>2, <2>1, MultipleAdd
  <2>3. (PendingIn(r) - PendingIn(t) - 1) + (PendingIn(t) - Cardinality(OpenIn(q)) - l)
            = PendingIn(r) - Cardinality(OpenIn(n)) - l
    BY <1>3, <2>1
  <2>4. QED
    BY <2>2, <2>3
<1>6. OracleOK(r, n, s, l, g)
  BY <1>1, <1>2, <1>3, <1>4, <1>5 DEF OracleOK
<1>7. QED
  BY <1>6 DEF n

\* A request is closed: its oracle has one less pending, or the reply is lost.
LEMMA CloseKeeps ==
  ASSUME NEW t, NEW q, NEW s, NEW l, NEW g, OracleOK(t, q, s, l, g),
         NEW k \in RequestKeys, q[k] # NoRow, NEW r, Bumped(t, r, q[k].assigned, -1, 0)
  PROVE  OracleOK(r, [q EXCEPT ![k] = NoRow], s,
                  IF Naming(t, q[k].assigned) # {} THEN l ELSE (l + 1) % Word, g)
<1> DEFINE n == [q EXCEPT ![k] = NoRow]
           a == q[k].assigned
           m == IF Naming(t, a) # {} THEN l ELSE (l + 1) % Word
<1>1. /\ t \in OracleTable /\ q \in RequestTable /\ s \in Counters /\ l \in Counters
      /\ g \in BOOLEAN /\ Multiple(PendingIn(t) - Cardinality(OpenIn(q)) - l)
      /\ SuccessIn(t) = s /\ (~g => l = 0 /\ Orderly(t, q))
  BY DEF OracleOK
<1>2. n \in RequestTable /\ Cardinality(OpenIn(n)) = Cardinality(OpenIn(q)) - 1
  <2>1. Unmade(q, k, n)
    BY <1>1, RequestClosed
  <2> HIDE DEF n
  <2>2. QED
    BY <2>1 DEF Unmade
<1>3. ~g => Naming(t, a) # {} /\ Orderly(r, n)
  BY <1>1, ClosedOrderly
<1>4. /\ r \in OracleTable /\ SuccessIn(r) = SuccessIn(t)
      /\ Naming(t, a) # {} => Multiple(PendingIn(r) - PendingIn(t) - (-1))
      /\ Naming(t, a) = {} => r = t
  BY <1>1, BumpedFacts
<1> HIDE DEF n, a
<1>5. /\ PendingIn(r) \in Int /\ PendingIn(t) \in Int /\ l \in Int
      /\ Cardinality(OpenIn(q)) \in Int
  BY <1>1, <1>4, OracleSumsType, OpenFinite, CountersAre
<1>6. CASE Naming(t, a) # {}
  <2>1. m = l
    BY <1>6
  <2>2. Multiple((PendingIn(r) - PendingIn(t) - (-1)) + (PendingIn(t) - Cardinality(OpenIn(q)) - l))
    BY <1>1, <1>4, <1>5, <1>6, MultipleAdd
  <2>3. (PendingIn(r) - PendingIn(t) - (-1)) + (PendingIn(t) - Cardinality(OpenIn(q)) - l)
            = PendingIn(r) - Cardinality(OpenIn(n)) - l
    BY <1>2, <1>5
  <2>4. OracleOK(r, n, s, m, g)
    BY <1>1, <1>2, <1>3, <1>4, <2>1, <2>2, <2>3 DEF OracleOK
  <2>5. QED
    BY <2>4 DEF n, a
<1>7. CASE Naming(t, a) = {}
  <2>1. m = (l + 1) % Word
    BY <1>7
  <2>2. m \in Counters /\ Multiple(m - l - 1) /\ m \in Int
    <3>1. (l + 1) % Word \in Counters /\ Multiple(((l + 1) % Word) - l - 1)
      BY <1>1, WordStep
    <3> HIDE DEF m
    <3>2. QED
      BY <2>1, <3>1, CountersAre
  <2> HIDE DEF m
  <2>3. Multiple((PendingIn(t) - Cardinality(OpenIn(q)) - l) - (m - l - 1))
    BY <1>1, <1>5, <2>2, MultipleAdd
  <2>4. (PendingIn(t) - Cardinality(OpenIn(q)) - l) - (m - l - 1)
            = PendingIn(r) - Cardinality(OpenIn(n)) - m
    BY <1>2, <1>4, <1>5, <1>7, <2>2
  <2>5. OracleOK(r, n, s, m, g)
    BY <1>1, <1>2, <1>3, <1>4, <1>7, <2>2, <2>3, <2>4 DEF OracleOK
  <2>6. QED
    BY <2>5 DEF n, m, a
<1>8. QED
  BY <1>6, <1>7

\* Whether rows are tangled once p names an account.
Tangles(t, p, account, g, h) ==
    /\ h \in BOOLEAN
    /\ ~h => /\ ~g
             /\ Naming(t, account) \ {p} = {} \/ account = None
             /\ t[p] = NoRow \/ t[p].account \in {None, account}

\* A producer names an account as its oracle: tangled, unless the account is nobody else's and
\* none was named before.
LEMMA NameKeeps ==
  ASSUME NEW t, NEW q, NEW s, NEW l, NEW g, OracleOK(t, q, s, l, g),
         NEW p \in Candidates, NEW account \in OracleAccounts \cup {None},
         NEW r, NEW row, r = [t EXCEPT ![p] = row],
         row \in OracleRow, row.account = account,
         row.pending = PendingOf(t, p), row.successful = SuccessOf(t, p),
         NEW h, Tangles(t, p, account, g, h)
  PROVE  OracleOK(r, q, s, l, h)
<1>1. /\ t \in OracleTable /\ q \in RequestTable /\ s \in Counters /\ l \in Counters
      /\ g \in BOOLEAN /\ Multiple(PendingIn(t) - Cardinality(OpenIn(q)) - l)
      /\ SuccessIn(t) = s /\ (~g => l = 0 /\ Orderly(t, q))
  BY DEF OracleOK
<1>2. r \in OracleTable /\ r[p] = row /\ \A x \in Candidates \ {p} : r[x] = t[x]
  BY <1>1 DEF OracleTable
<1>3. row # NoRow
  BY OracleRowsAssumption
<1>4. PendingOf(r, p) = PendingOf(t, p) /\ SuccessOf(r, p) = SuccessOf(t, p)
  BY <1>2, <1>3 DEF PendingOf, SuccessOf
<1>5. PendingIn(r) = PendingIn(t) /\ SuccessIn(r) = SuccessIn(t)
  <2>1. /\ PendingIn(r) = PendingIn(t) + PendingOf(r, p) - PendingOf(t, p)
        /\ SuccessIn(r) = SuccessIn(t) + SuccessOf(r, p) - SuccessOf(t, p)
    BY <1>1, <1>2, RowChange
  <2>2. /\ PendingIn(t) \in Nat /\ SuccessIn(t) \in Nat
        /\ PendingOf(t, p) \in Nat /\ SuccessOf(t, p) \in Nat
    BY <1>1, OracleSumsType, RowsOf
  <2>3. QED
    BY <1>4, <2>1, <2>2
<1>6. ASSUME ~h PROVE Orderly(r, q)
  <2>1. /\ Orderly(t, q)
        /\ Naming(t, account) \ {p} = {} \/ account = None
        /\ t[p] = NoRow \/ t[p].account \in {None, account}
    BY <1>1, <1>6 DEF Tangles
  <2>2. \A x \in Candidates \ {p} : t[x] # NoRow /\ account # None => t[x].account # account
    BY <2>1 DEF Naming
  <2>3. \A x, y \in Candidates :
            r[x] # NoRow /\ r[y] # NoRow /\ r[x].account = r[y].account /\ r[x].account # None
                => x = y
    <3>1. \A x, y \in Candidates :
            t[x] # NoRow /\ t[y] # NoRow /\ t[x].account = t[y].account /\ t[x].account # None
                => x = y
      BY <2>1 DEF Orderly
    <3>2. QED
      BY <1>2, <2>2, <3>1
  <2>4. ASSUME NEW k \in OpenIn(q)
        PROVE  Naming(r, q[k].assigned) # {} /\ q[k].standby # q[k].assigned
    <3>1. Naming(t, q[k].assigned) # {} /\ q[k].standby # q[k].assigned
      BY <2>1 DEF Orderly
    <3>2. PICK x \in Naming(t, q[k].assigned) : TRUE
      BY <3>1
    <3>3. x \in Candidates /\ t[x] # NoRow /\ t[x].account = q[k].assigned /\ q[k].assigned # None
      BY <1>1, <3>2, RequestRowType DEF Naming
    <3>4. r[x] # NoRow /\ r[x].account = q[k].assigned
      BY <1>2, <1>3, <2>1, <3>3
    <3>5. QED
      BY <3>1, <3>3, <3>4 DEF Naming
  <2>5. \A x \in Candidates : t[x] # NoRow =>
            Multiple(PendingOf(t, x) - Cardinality(AssignedIn(q, t[x].account)))
    BY <2>1 DEF Orderly
  <2>6. CASE t[p] # NoRow /\ t[p].account = account
    <3>1. Multiple(PendingOf(r, p) - Cardinality(AssignedIn(q, r[p].account)))
      BY <1>2, <1>4, <2>5, <2>6
    <3>2. \A x \in Candidates \ {p} : PendingOf(r, x) = PendingOf(t, x)
      BY <1>2 DEF PendingOf
    <3>3. \A x \in Candidates : r[x] # NoRow =>
              Multiple(PendingOf(r, x) - Cardinality(AssignedIn(q, r[x].account)))
      BY <1>2, <2>5, <3>1, <3>2
    <3>4. QED
      BY <2>3, <2>4, <3>3 DEF Orderly
  <2>7. CASE t[p] = NoRow \/ t[p].account # account
    <3>1. ASSUME NEW k \in OpenIn(q) PROVE q[k].assigned # account
      <4>1. q[k].assigned # None
        BY <1>1, RequestRowType
      <4>2. PICK x \in Naming(t, q[k].assigned) : TRUE
        BY <2>1 DEF Orderly
      <4>3. x \in Candidates /\ t[x] # NoRow /\ t[x].account = q[k].assigned
        BY <4>2 DEF Naming
      <4>4. QED
        BY <2>1, <2>2, <2>7, <4>1, <4>3
    <3>2. Cardinality(AssignedIn(q, account)) = 0
      <4>1. AssignedIn(q, account) = {}
        BY <3>1 DEF AssignedIn
      <4>2. QED
        BY <4>1, FS_EmptySet
    <3>3. Multiple(PendingOf(t, p) - 0)
      <4>1. CASE t[p] = NoRow
        BY <4>1, MultipleZero DEF PendingOf
      <4>2. CASE t[p] # NoRow
        <5>1. t[p].account = None
          BY <2>1, <2>7, <4>2
        <5>2. AssignedIn(q, None) = {}
          BY <1>1, RequestRowType DEF AssignedIn
        <5>3. Cardinality(AssignedIn(q, None)) = 0
          BY <5>2, FS_EmptySet
        <5>4. QED
          BY <2>5, <4>2, <5>1, <5>3
      <4>3. QED
        BY <4>1, <4>2
    <3>4. Multiple(PendingOf(r, p) - Cardinality(AssignedIn(q, r[p].account)))
      BY <1>2, <1>4, <3>2, <3>3
    <3>5. \A x \in Candidates \ {p} : PendingOf(r, x) = PendingOf(t, x)
      BY <1>2 DEF PendingOf
    <3>6. \A x \in Candidates : r[x] # NoRow =>
              Multiple(PendingOf(r, x) - Cardinality(AssignedIn(q, r[x].account)))
      BY <1>2, <2>5, <3>4, <3>5
    <3>7. QED
      BY <2>3, <2>4, <3>6 DEF Orderly
  <2>8. QED
    BY <2>6, <2>7
<1>7. h \in BOOLEAN /\ (~h => l = 0)
  BY <1>1 DEF Tangles
<1>8. QED
  BY <1>1, <1>2, <1>5, <1>6, <1>7 DEF OracleOK

\* A claim takes the successes of an oracle from the total, and its failures from the row.
LEMMA ClaimKeeps ==
  ASSUME NEW t, NEW q, NEW s, NEW l, NEW g, OracleOK(t, q, s, l, g),
         NEW p \in Candidates, t[p] # NoRow,
         NEW row \in OracleRow, row.account = t[p].account, row.pending = t[p].pending,
         row.successful = 0,
         NEW r, r = [t EXCEPT ![p] = row]
  PROVE  OracleOK(r, q, s - t[p].successful, l, g)
<1>1. /\ t \in OracleTable /\ q \in RequestTable /\ s \in Counters /\ l \in Counters
      /\ g \in BOOLEAN /\ Multiple(PendingIn(t) - Cardinality(OpenIn(q)) - l)
      /\ SuccessIn(t) = s /\ (~g => l = 0 /\ Orderly(t, q))
  BY DEF OracleOK
<1>2. r \in OracleTable /\ r[p] = row /\ \A x \in Candidates \ {p} : r[x] = t[x]
  BY <1>1 DEF OracleTable
<1>3. row # NoRow
  BY OracleRowsAssumption
<1>4. /\ PendingOf(r, p) = PendingOf(t, p) /\ SuccessOf(r, p) = 0
      /\ SuccessOf(t, p) = t[p].successful
  BY <1>2, <1>3 DEF PendingOf, SuccessOf
<1>5. /\ PendingIn(t) \in Nat /\ SuccessIn(t) \in Nat /\ SuccessIn(r) \in Nat
      /\ PendingOf(t, p) \in Nat /\ SuccessOf(t, p) \in Nat
  BY <1>1, <1>2, OracleSumsType, RowsOf
<1>6. PendingIn(r) = PendingIn(t) /\ SuccessIn(r) = s - t[p].successful
  <2>1. /\ PendingIn(r) = PendingIn(t) + PendingOf(r, p) - PendingOf(t, p)
        /\ SuccessIn(r) = SuccessIn(t) + SuccessOf(r, p) - SuccessOf(t, p)
    BY <1>1, <1>2, RowChange
  <2>2. QED
    BY <1>1, <1>4, <1>5, <2>1
<1>7. s - t[p].successful \in Counters
  <2>1. SuccessIn(r) <= s /\ s \in 0 .. Word - 1
    BY <1>1, <1>4, <1>5, <1>6 DEF Counters
  <2>2. SuccessIn(r) \in Counters
    BY <1>5, <2>1, OracleAssumption DEF Counters
  <2>3. QED
    BY <1>6, <2>2
<1>8. ASSUME ~g PROVE Orderly(r, q)
  <2>1. Orderly(t, q)
    BY <1>1, <1>8
  <2>2. \A x \in Candidates : /\ r[x] = NoRow <=> t[x] = NoRow
                              /\ t[x] # NoRow => r[x].account = t[x].account
                              /\ PendingOf(r, x) = PendingOf(t, x)
    <3>1. \A x \in Candidates \ {p} : PendingOf(r, x) = PendingOf(t, x)
      BY <1>2 DEF PendingOf
    <3>2. QED
      BY <1>2, <1>3, <1>4, <3>1
  <2>3. \A a : Naming(r, a) = Naming(t, a)
    BY <2>2 DEF Naming
  <2>4. \A x \in Candidates : r[x] # NoRow =>
            Multiple(PendingOf(r, x) - Cardinality(AssignedIn(q, r[x].account)))
    BY <2>1, <2>2 DEF Orderly
  <2>5. \A x, y \in Candidates :
            r[x] # NoRow /\ r[y] # NoRow /\ r[x].account = r[y].account /\ r[x].account # None
                => x = y
    BY <2>1, <2>2 DEF Orderly
  <2>6. \A k \in OpenIn(q) : Naming(r, q[k].assigned) # {} /\ q[k].standby # q[k].assigned
    BY <2>1, <2>3 DEF Orderly
  <2>7. QED
    BY <2>4, <2>5, <2>6 DEF Orderly
<1>9. QED
  BY <1>1, <1>2, <1>6, <1>7, <1>8 DEF OracleOK
-----------------------------------------------------------------------------
(* The operations of oracles                                               *)

LEMMA AddRequestKeeps ==
  ASSUME OracleInv, now \in Nat, NEW k \in RequestKeys, NEW slot \in Slots, AddRequest(k, slot)
  PROVE  OracleInv'
<1>1. PICK s \in Orders(ActiveOracles) :
        LET chosen == CurrentOracle(s, slot)
        IN  /\ oracles' = Bump(oracles, chosen.assigned, Requested)
            /\ requests' = [requests EXCEPT ![k] = [time |-> now, assigned |-> chosen.assigned,
                                                    standby |-> chosen.standby]]
  BY DEF AddRequest
<1>2. /\ requests[k] = NoRow /\ ActiveOracles # {}
      /\ successes' = successes /\ lost' = lost /\ tangled' = tangled
  BY DEF AddRequest
<1>3. slot \in Nat
  BY OracleAssumption
<1> DEFINE assigned == CurrentOracle(s, slot).assigned
           standby  == CurrentOracle(s, slot).standby
           row      == [time |-> now, assigned |-> assigned, standby |-> standby]
<1>4. oracles' = Bump(oracles, assigned, Requested) /\ requests' = [requests EXCEPT ![k] = row]
  BY <1>1
<1>5. PICK p \in ActiveOracles :
        /\ assigned = oracles[p].account
        /\ \/ standby = None
           \/ \E q \in ActiveOracles \ {p} : standby = oracles[q].account
  BY <1>2, <1>3, CurrentOracleFound
<1>6. row.assigned = assigned /\ row.standby = standby
  OBVIOUS
<1> HIDE DEF assigned, standby
<1>7. /\ oracles \in OracleTable /\ requests \in RequestTable
      /\ ~tangled => Orderly(oracles, requests)
  BY DEF OracleInv, OracleOK
<1>8. \A q \in ActiveOracles : /\ q \in Candidates /\ oracles[q] # NoRow
                               /\ oracles[q].account \in OracleAccounts
  <2>1. \A q \in ActiveOracles : /\ q \in Candidates /\ oracles[q] # NoRow
                                 /\ oracles[q].account # None
    BY DEF ActiveOracles, Registered
  <2>2. QED
    BY <1>7, <2>1, RowsOf, OracleRowType
<1>9. assigned \in OracleAccounts /\ standby \in OracleAccounts \cup {None}
  BY <1>5, <1>8
<1>10. row \in RequestRow
  BY <1>9 DEF RequestRow
<1>11. Naming(oracles, assigned) # {}
  BY <1>5, <1>8 DEF Naming
<1>12. ~tangled => standby # assigned
  <2>1. assigned # None
    BY <1>9, OracleAssumption
  <2>2. ASSUME ~tangled, NEW q \in ActiveOracles \ {p} PROVE oracles[q].account # assigned
    <3>1. Orderly(oracles, requests)
      BY <1>7, <2>2
    <3>2. QED
      BY <1>5, <1>8, <2>1, <2>2, <3>1 DEF Orderly
  <2>3. QED
    BY <1>5, <2>1, <2>2
<1> HIDE DEF row
<1>13. Bumped(oracles, oracles', row.assigned, 1, 0)
  BY <1>4, <1>6, <1>7, BumpsAre, BumpIs
<1>14. OracleOK(oracles, requests, successes, lost, tangled)
  BY DEF OracleInv
<1>15. OracleOK(oracles', [requests EXCEPT ![k] = row], successes, lost, tangled)
  BY <1>2, <1>6, <1>10, <1>11, <1>12, <1>13, <1>14, RequestKeeps
<1>16. QED
  BY <1>2, <1>4, <1>15 DEF OracleInv

LEMMA ReplyKeeps ==
  ASSUME OracleInv, NEW k \in RequestKeys, NEW by, Reply(k, by)
  PROVE  OracleInv'
<1> DEFINE assigned == requests[k].assigned
           standby  == requests[k].standby
           found    == Naming(oracles, assigned) # {}
           answered == Bump(oracles, assigned, IF First(k) THEN Answered ELSE Missed)
           noticed  == IF Timeout(k) /\ standby # None
                       THEN Bump(answered, standby, StandbyMiss) ELSE answered
           winner   == CASE First(k) /\ found -> assigned [] Second(k) -> standby [] OTHER -> None
           rewarded == Naming(oracles, winner) # {} /\ winner # None
           shut     == [requests EXCEPT ![k] = NoRow]
           lost_    == IF found THEN lost ELSE (lost + 1) % Word
<1>1. /\ requests[k] # NoRow
      /\ rewarded => successes # Word - 1
      /\ oracles' = IF rewarded THEN Bump(noticed, winner, Succeeded) ELSE noticed
      /\ successes' = IF rewarded THEN successes + 1 ELSE successes
      /\ lost' = lost_
      /\ requests' = shut
      /\ tangled' = tangled
  BY DEF Reply
<1>2. OracleOK(oracles, requests, successes, lost, tangled)
  BY DEF OracleInv
<1>3. oracles \in OracleTable
  BY <1>2 DEF OracleOK
<1>4. Bumped(oracles, answered, assigned, -1, 0)
  <2>1. IsBump(IF First(k) THEN Answered ELSE Missed, -1, 0)
    BY BumpsAre
  <2>2. QED
    BY <1>3, <2>1, BumpIs
<1>5. answered \in OracleTable /\ \A a : Naming(answered, a) = Naming(oracles, a)
  <2> HIDE DEF answered
  <2>1. QED
    BY <1>3, <1>4, BumpedFacts
<1>6. OracleOK(answered, shut, successes, lost_, tangled)
  <2> HIDE DEF answered
  <2>1. QED
    BY <1>1, <1>2, <1>4, CloseKeeps
<1> HIDE DEF answered, shut, lost_
<1>7. /\ OracleOK(noticed, shut, successes, lost_, tangled)
      /\ noticed \in OracleTable /\ \A a : Naming(noticed, a) = Naming(oracles, a)
  <2>1. CASE ~(Timeout(k) /\ standby # None)
    BY <1>5, <1>6, <2>1
  <2>2. CASE Timeout(k) /\ standby # None
    <3> DEFINE r == Bump(answered, standby, StandbyMiss)
    <3>1. Bumped(answered, r, standby, 0, 0)
      BY <1>5, BumpsAre, BumpIs
    <3> HIDE DEF r
    <3>2. OracleOK(r, shut, successes, lost_, tangled)
      BY <1>6, <3>1, BumpKeeps
    <3>3. r \in OracleTable /\ \A a : Naming(r, a) = Naming(answered, a)
      BY <1>5, <3>1, BumpedFacts
    <3>4. noticed = r
      BY <2>2 DEF r
    <3>5. QED
      BY <1>5, <3>2, <3>3, <3>4
  <2>3. QED
    BY <2>1, <2>2
<1> HIDE DEF noticed, winner
<1>8. OracleOK(oracles', shut, successes', lost_, tangled)
  <2>1. CASE ~rewarded
    BY <1>1, <1>7, <2>1
  <2>2. CASE rewarded
    <3>1. Bumped(noticed, Bump(noticed, winner, Succeeded), winner, 0, 1)
      BY <1>7, BumpsAre, BumpIs
    <3>2. oracles' = Bump(noticed, winner, Succeeded) /\ successes' = successes + 1
      BY <1>1, <2>2
    <3>3. Bumped(noticed, oracles', winner, 0, 1)
      BY <3>1, <3>2
    <3>4. Naming(noticed, winner) # {} /\ successes # Word - 1
      BY <1>1, <1>7, <2>2
    <3>5. OracleOK(oracles', shut, successes + 1, lost_, tangled)
      BY <1>7, <3>3, <3>4, RewardKeeps
    <3>6. QED
      BY <3>2, <3>5
  <2>3. QED
    BY <2>1, <2>2
<1>9. QED
  BY <1>1, <1>8 DEF OracleInv

LEMMA SetOracleKeeps ==
  ASSUME OracleInv, NEW p \in Candidates, NEW account \in OracleAccounts \cup {None},
         SetOracle(p, account)
  PROVE  OracleInv'
<1> DEFINE old == oracles[p]
           row == IF old = NoRow
                  THEN [account |-> account, pending |-> 0, successful |-> 0,
                        failed |-> 0, punishment |-> 0]
                  ELSE [old EXCEPT !.account = account]
<1>1. OracleOK(oracles, requests, successes, lost, tangled)
  BY DEF OracleInv
<1>2. oracles \in OracleTable /\ tangled \in BOOLEAN
  BY <1>1 DEF OracleOK
<1>3. oracles' = [oracles EXCEPT ![p] = row]
  BY DEF SetOracle
<1>4. /\ requests' = requests /\ successes' = successes /\ lost' = lost
      /\ tangled' = (\/ tangled
                     \/ Naming(oracles, account) \ {p} # {} /\ account # None
                     \/ oracles[p] # NoRow /\ oracles[p].account \notin {None, account})
  BY DEF SetOracle
<1>5. /\ row \in OracleRow /\ row.account = account
      /\ row.pending = PendingOf(oracles, p) /\ row.successful = SuccessOf(oracles, p)
  <2>1. CASE old = NoRow
    <3>1. 0 \in Counters
      BY OracleAssumption DEF Counters
    <3>2. row = [account |-> account, pending |-> 0, successful |-> 0, failed |-> 0,
                 punishment |-> 0]
      BY <2>1
    <3> HIDE DEF row
    <3>3. QED
      BY <2>1, <3>1, <3>2 DEF OracleRow, PendingOf, SuccessOf
  <2>2. CASE old # NoRow
    <3>1. old \in OracleRow
      BY <1>2, <2>2, RowsOf
    <3>2. row = [old EXCEPT !.account = account]
      BY <2>2
    <3>3. PendingOf(oracles, p) = old.pending /\ SuccessOf(oracles, p) = old.successful
      BY <2>2 DEF PendingOf, SuccessOf
    <3> HIDE DEF row, old
    <3>4. QED
      BY <3>1, <3>2, <3>3 DEF OracleRow
  <2>3. QED
    BY <2>1, <2>2
<1>6. Tangles(oracles, p, account, tangled, tangled')
  BY <1>2, <1>4 DEF Tangles
<1> HIDE DEF row, old
<1>7. OracleOK(oracles', requests, successes, lost, tangled')
  BY <1>1, <1>3, <1>5, <1>6, NameKeeps
<1>8. QED
  BY <1>4, <1>7 DEF OracleInv

LEMMA OracleStepKeeps ==
  ASSUME OracleInv, now \in Nat, OracleNext \/ UNCHANGED oracleVars
  PROVE  OracleInv'
<1>1. CASE UNCHANGED oracleVars
  BY <1>1 DEF oracleVars, OracleInv
<1>2. CASE OracleNext
  BY <1>2, AddRequestKeeps, ReplyKeeps, SetOracleKeeps DEF OracleNext
<1>3. QED
  BY <1>1, <1>2

LEMMA OracleInitOK ==
  ASSUME OracleInit
  PROVE  OracleInv
<1>1. /\ oracles = [p \in Candidates |-> NoRow] /\ requests = [k \in RequestKeys |-> NoRow]
      /\ successes = 0 /\ lost = 0 /\ tangled = FALSE
  BY DEF OracleInit
<1>2. oracles \in OracleTable /\ requests \in RequestTable /\ 0 \in Counters
  BY <1>1, OracleAssumption DEF OracleTable, RequestTable, Counters
<1>3. PendingIn(oracles) = 0 /\ SuccessIn(oracles) = 0
  <2> DEFINE f == [p \in Candidates |-> PendingOf(oracles, p)]
             h == [p \in Candidates |-> SuccessOf(oracles, p)]
  <2>1. \A p \in Candidates : f[p] = 0 /\ f[p] \in Nat /\ h[p] = 0 /\ h[p] \in Nat
    BY <1>1 DEF PendingOf, SuccessOf
  <2>2. PendingIn(oracles) = SumOver(f, Candidates) /\ SuccessIn(oracles) = SumOver(h, Candidates)
    BY DEF PendingIn, SuccessIn
  <2> HIDE DEF f, h
  <2>3. QED
    BY <2>1, <2>2, CandidatesFinite, SumOverNat
<1>4. OpenIn(requests) = {} /\ Cardinality(OpenIn(requests)) = 0
  <2>1. OpenIn(requests) = {}
    BY <1>1 DEF OpenIn
  <2>2. QED
    BY <2>1, FS_EmptySet
<1>5. Multiple(PendingIn(oracles) - Cardinality(OpenIn(requests)) - lost)
  <2>1. PendingIn(oracles) - Cardinality(OpenIn(requests)) - lost = 0
    BY <1>1, <1>3, <1>4
  <2>2. QED
    BY <2>1, MultipleZero
<1>6. Orderly(oracles, requests)
  BY <1>1, <1>4 DEF Orderly
<1>7. QED
  BY <1>1, <1>2, <1>3, <1>5, <1>6 DEF OracleInv, OracleOK

LEMMA OracleInvMeans ==
  ASSUME OracleInv
  PROVE  OracleTypeOK /\ RequestsAccounted /\ SuccessesAddUp
<1>1. /\ oracles \in OracleTable /\ requests \in RequestTable /\ successes \in Counters
      /\ lost \in Counters /\ tangled \in BOOLEAN
      /\ Multiple(PendingIn(oracles) - Cardinality(OpenIn(requests)) - lost)
      /\ SuccessIn(oracles) = successes
      /\ ~tangled => lost = 0 /\ Orderly(oracles, requests)
  BY DEF OracleInv, OracleOK
<1>2. OracleTypeOK
  BY <1>1 DEF OracleTypeOK, OracleTable, RequestTable
<1> DEFINE R == OraclesWithRow
           f == [p \in Candidates |-> PendingOf(oracles, p)]
           h == [p \in Candidates |-> SuccessOf(oracles, p)]
           d == [p \in R |-> oracles[p].pending]
           e == [p \in R |-> oracles[p].successful]
<1>3. /\ R \in SUBSET Candidates
      /\ \A p \in Candidates : f[p] \in Int /\ h[p] \in Int
      /\ \A p \in Candidates \ R : f[p] = 0 /\ h[p] = 0
      /\ \A p \in R : d[p] = f[p] /\ e[p] = h[p]
  <2>1. R \in SUBSET Candidates /\ \A p \in Candidates : p \in R <=> oracles[p] # NoRow
    BY DEF OraclesWithRow
  <2>2. \A p \in Candidates : f[p] \in Int /\ h[p] \in Int
    BY <1>1, RowsOf
  <2>3. QED
    BY <2>1, <2>2 DEF PendingOf, SuccessOf
<1>4. PendingIn(oracles) = SumOver(f, Candidates) /\ SuccessIn(oracles) = SumOver(h, Candidates)
  BY DEF PendingIn, SuccessIn
<1> HIDE DEF R, f, h, d, e
<1>5. SumOver(d, R) = PendingIn(oracles) /\ SumOver(e, R) = SuccessIn(oracles)
  <2>1. SumOver(d, R) = SumOver(f, Candidates)
    BY <1>3, CandidatesFinite, SumOverPart
  <2>2. SumOver(e, R) = SumOver(h, Candidates)
    BY <1>3, CandidatesFinite, SumOverPart
  <2>3. QED
    BY <1>4, <2>1, <2>2
<1>6. SuccessesAddUp
  BY <1>1, <1>5 DEF SuccessesAddUp, R, e
<1>7. OpenRequests = OpenIn(requests) /\ \A a : Assigned(a) = AssignedIn(requests, a)
  BY DEF OpenRequests, OpenIn, Assigned, AssignedIn
<1>8. (SumOver(d, R) - Cardinality(OpenRequests) - lost) % Word = 0
  <2> DEFINE x == PendingIn(oracles) - Cardinality(OpenIn(requests)) - lost
  <2>1. x \in Int
    BY <1>1, OracleSumsType, OpenFinite, CountersAre
  <2>2. Multiple(x)
    BY <1>1
  <2> HIDE DEF x
  <2>3. Multiple(0 - x)
    BY <2>1, <2>2, MultipleZero, MultipleAdd
  <2>4. 0 \in Counters
    BY OracleAssumption DEF Counters
  <2>5. x % Word = 0
    BY <2>1, <2>3, <2>4, WordIs
  <2>6. QED
    BY <1>5, <1>7, <2>5 DEF x
<1>9. ASSUME ~tangled
      PROVE  /\ \A p \in OraclesWithRow :
                   oracles[p].account # None =>
                       oracles[p].pending = Cardinality(Assigned(oracles[p].account)) % Word
             /\ \A k \in OpenRequests : requests[k].standby # requests[k].assigned
  <2>1. Orderly(oracles, requests)
    BY <1>1, <1>9
  <2>2. ASSUME NEW p \in OraclesWithRow
        PROVE  oracles[p].pending = Cardinality(Assigned(oracles[p].account)) % Word
    <3> DEFINE c == Cardinality(AssignedIn(requests, oracles[p].account))
    <3>1. p \in Candidates /\ oracles[p] # NoRow
      BY DEF OraclesWithRow
    <3>2. Multiple(PendingOf(oracles, p) - c)
      BY <2>1, <3>1 DEF Orderly
    <3>3. PendingOf(oracles, p) = oracles[p].pending /\ PendingOf(oracles, p) \in Counters
      BY <1>1, <3>1, RowsOf DEF PendingOf
    <3>4. c \in Int
      BY OpenFinite
    <3> HIDE DEF c
    <3>5. PendingOf(oracles, p) = c % Word
      BY <3>2, <3>3, <3>4, WordIs
    <3>6. QED
      BY <1>7, <3>3, <3>5 DEF c
  <2>3. \A k \in OpenRequests : requests[k].standby # requests[k].assigned
    BY <1>7, <2>1 DEF Orderly
  <2>4. QED
    BY <2>2, <2>3
<1>10. RequestsAccounted
  BY <1>1, <1>8, <1>9 DEF RequestsAccounted, R, d
<1>11. QED
  BY <1>2, <1>6, <1>10
-----------------------------------------------------------------------------
(* Buckets and the accounts behind them                                    *)

\* While no dapp was paid more than there was, each account has what its bucket says.
Covers(b, v, over) ==
    /\ b \in [BucketNames -> Int] /\ v \in [VaultNames -> Nat] /\ over \in BOOLEAN
    /\ v.bpay = b.block /\ v.vpay = b.vote /\ v.wpay = b.witness /\ v.oracle = b.oracle
    /\ b.oracle < Word
    /\ ~over => /\ b.transfers >= 0 /\ b.users >= 0
                /\ v.dpay >= b.transfers + b.users

\* A bucket that is not below zero grows by what its account gets.
Splits(t, share) ==
    /\ Part(t, share) \in Nat
    /\ \A b \in Nat : Filled(b, t, share) = b + Part(t, share)
    /\ \A b \in Int : Filled(b, t, share) \in Int

LEMMA SplitsAt ==
  ASSUME NEW t \in Nat, NEW share \in Nat
  PROVE  Splits(t, share)
<1> DEFINE x == t * share
<1>1. x \in Nat
  BY TimesNat
<1>2. Part(t, share) = x \div 10000
  BY DEF Part
<1>3. \A b : Filled(b, t, share) = LET sum == 10000 * b + x
                                   IN  IF sum >= 0 THEN sum \div 10000
                                       ELSE -((-sum) \div 10000)
  BY DEF Filled
<1> HIDE DEF x
<1>4. \A b \in Nat : (10000 * b + x) \div 10000 = b + (x \div 10000) /\ 10000 * b + x >= 0
  BY <1>1
<1>5. x \div 10000 \in Nat
  BY <1>1
<1>6. ASSUME NEW b \in Int PROVE Filled(b, t, share) \in Int
  <2> DEFINE sum == 10000 * b + x
  <2>1. sum \in Int /\ -sum \in Int
    BY <1>1
  <2> HIDE DEF sum
  <2>2. sum \div 10000 \in Int /\ (-sum) \div 10000 \in Int
    BY <2>1
  <2>3. Filled(b, t, share) = IF sum >= 0 THEN sum \div 10000 ELSE -((-sum) \div 10000)
    BY <1>3 DEF sum
  <2>4. QED
    BY <2>2, <2>3
<1>7. \A b \in Nat : Filled(b, t, share) = b + (x \div 10000)
  BY <1>3, <1>4
<1>8. QED
  BY <1>2, <1>5, <1>6, <1>7 DEF Splits

LEMMA PartsSplit ==
  ASSUME NEW t \in Nat
  PROVE  /\ Splits(t, 3000) /\ Splits(t, 1000) /\ Splits(t, 750) /\ Splits(t, 250)
         /\ Splits(t, 3250) /\ Splits(t, 500) /\ Splits(t, 1250) /\ Splits(t, 5000)
         /\ Splits(t, OracleShare)
<1>1. OracleShare \in Nat
  BY PayAssumption
<1>2. /\ 3000 \in Nat /\ 1000 \in Nat /\ 750 \in Nat /\ 250 \in Nat
      /\ 3250 \in Nat /\ 500 \in Nat /\ 1250 \in Nat /\ 5000 \in Nat
  OBVIOUS
<1>3. QED
  BY <1>1, <1>2, SplitsAt

\* The parts of a half are no more than the half, and those of a part no more than the part.
LEMMA PartsFit ==
  ASSUME NEW t \in Nat
  PROVE  /\ Part(t, 3000) + Part(t, 1000) + Part(t, 750) + Part(t, 250) <= Part(t, 5000)
         /\ Part(t, 3250) + Part(t, 500) + Part(t, 1250) <= Part(t, 5000)
         /\ Part(t, 500) + Part(t, 500) <= Part(t, 1000)
         /\ Part(t, OracleShare) <= Part(t, 3250)
<1>1. /\ Part(t, 3000) + Part(t, 1000) + Part(t, 750) + Part(t, 250) <= Part(t, 5000)
      /\ Part(t, 3250) + Part(t, 500) + Part(t, 1250) <= Part(t, 5000)
      /\ Part(t, 500) + Part(t, 500) <= Part(t, 1000)
  BY DEF Part
<1>2. Part(t, OracleShare) <= Part(t, 3250)
  <2>1. OracleShare \in Nat /\ OracleShare <= 3250
    BY PayAssumption
  <2>2. OracleShare * t <= 3250 * t
    BY <2>1, TimesMonotone
  <2> DEFINE x == t * OracleShare
             y == t * 3250
  <2>3. x \in Nat /\ y \in Nat /\ x <= y
    BY <2>1, <2>2, TimesNat
  <2> HIDE DEF x, y
  <2>4. x \div 10000 <= y \div 10000
    BY <2>3
  <2>5. QED
    BY <2>4 DEF Part, x, y
<1>3. QED
  BY <1>1, <1>2

LEMMA NewTokensType ==
  ASSUME now \in Nat, fills \in [vote : Nat, dapp : Nat], NEW timer \in {"vote", "dapp"}
  PROVE  NewTokens(timer) \in Nat /\ SetTimer(timer) \in [vote : Nat, dapp : Nat]
<1>1. fills[timer] \in Nat
  OBVIOUS
<1>2. NewTokens(timer) \in Nat
  <2>1. CASE ~Due(timer)
    BY <2>1 DEF NewTokens
  <2>2. CASE Due(timer)
    <3>1. now - fills[timer] \in Nat /\ Inflation \in Nat
      BY <1>1, <2>2, PayAssumption DEF Due
    <3>2. NewTokens(timer) = Inflation * (now - fills[timer])
      BY <2>2 DEF NewTokens
    <3>3. QED
      BY <3>1, <3>2, TimesNat
  <2>3. QED
    BY <2>1, <2>2
<1>3. SetTimer(timer) \in [vote : Nat, dapp : Nat]
  BY DEF SetTimer
<1>4. QED
  BY <1>2, <1>3

LEMMA SharedCovers ==
  ASSUME Covers(buckets, vaults, overdrawn), now \in Nat, fills \in [vote : Nat, dapp : Nat],
         NEW timer \in {"vote", "dapp"}, CanShare(timer)
  PROVE  Covers(SharedBuckets(NewTokens(timer)), SharedVaults(NewTokens(timer)), overdrawn)
<1> DEFINE t == NewTokens(timer)
           b == SharedBuckets(t)
           v == SharedVaults(t)
<1>1. t \in Nat
  BY NewTokensType
<1>2. /\ buckets \in [BucketNames -> Int] /\ vaults \in [VaultNames -> Nat]
      /\ overdrawn \in BOOLEAN
      /\ vaults.bpay = buckets.block /\ vaults.vpay = buckets.vote
      /\ vaults.wpay = buckets.witness /\ vaults.oracle = buckets.oracle
      /\ buckets.oracle < Word
      /\ ~overdrawn => /\ buckets.transfers >= 0 /\ buckets.users >= 0
                       /\ vaults.dpay >= buckets.transfers + buckets.users
  BY DEF Covers
<1>3. /\ vaults.network \in Nat /\ vaults.infrastructure \in Nat /\ vaults.community \in Nat
      /\ vaults.marketing \in Nat /\ vaults.founding \in Nat /\ vaults.bpay \in Nat
      /\ vaults.vpay \in Nat /\ vaults.wpay \in Nat /\ vaults.dpay \in Nat /\ vaults.oracle \in Nat
      /\ buckets.block \in Nat /\ buckets.vote \in Nat /\ buckets.witness \in Nat
      /\ buckets.oracle \in Nat /\ buckets.transfers \in Int /\ buckets.users \in Int
  BY <1>2 DEF VaultNames, BucketNames
<1>4. CanShare(timer) /\ (Due(timer) => t = NewTokens(timer)) /\ (~Due(timer) => t = 0)
  BY DEF NewTokens
<1> HIDE DEF t
<1>5. /\ Splits(t, 3000) /\ Splits(t, 1000) /\ Splits(t, 750) /\ Splits(t, 250)
      /\ Splits(t, 3250) /\ Splits(t, 500) /\ Splits(t, 1250) /\ Splits(t, 5000)
      /\ Splits(t, OracleShare)
  BY <1>1, PartsSplit
<1>6. /\ \A y \in Nat : /\ Filled(y, t, 3000) = y + Part(t, 3000)
                        /\ Filled(y, t, 500) = y + Part(t, 500)
                        /\ Filled(y, t, 750) = y + Part(t, 750)
                        /\ Filled(y, t, 250) = y + Part(t, 250)
                        /\ Filled(y, t, OracleShare) = y + Part(t, OracleShare)
      /\ \A y \in Int : Filled(y, t, 500) \in Int
      /\ Part(t, 3000) \in Nat /\ Part(t, 1000) \in Nat /\ Part(t, 750) \in Nat
      /\ Part(t, 250) \in Nat /\ Part(t, 3250) \in Nat /\ Part(t, 500) \in Nat
      /\ Part(t, 1250) \in Nat /\ Part(t, 5000) \in Nat /\ Part(t, OracleShare) \in Nat
  <2> HIDE DEF b, v
  <2>1. \A y \in Nat : Filled(y, t, 3000) = y + Part(t, 3000)
    BY <1>5 DEF Splits
  <2>2. \A y \in Nat : Filled(y, t, 500) = y + Part(t, 500)
    BY <1>5 DEF Splits
  <2>3. \A y \in Nat : Filled(y, t, 750) = y + Part(t, 750)
    BY <1>5 DEF Splits
  <2>4. \A y \in Nat : Filled(y, t, 250) = y + Part(t, 250)
    BY <1>5 DEF Splits
  <2>5. \A y \in Nat : Filled(y, t, OracleShare) = y + Part(t, OracleShare)
    BY <1>5 DEF Splits
  <2>6. \A y \in Int : Filled(y, t, 500) \in Int
    BY <1>5 DEF Splits
  <2>7. /\ Part(t, 3000) \in Nat /\ Part(t, 1000) \in Nat /\ Part(t, 750) \in Nat
        /\ Part(t, 250) \in Nat /\ Part(t, 3250) \in Nat /\ Part(t, 500) \in Nat
        /\ Part(t, 1250) \in Nat /\ Part(t, 5000) \in Nat /\ Part(t, OracleShare) \in Nat
    BY <1>5 DEF Splits
  <2>8. QED
    BY <2>1, <2>2, <2>3, <2>4, <2>5, <2>6, <2>7
<1>7. /\ b \in [BucketNames -> Int]
      /\ b.block = buckets.block + Part(t, 3000)
      /\ b.transfers = Filled(buckets.transfers, t, 500)
      /\ b.users = Filled(buckets.users, t, 500)
      /\ b.witness = buckets.witness + Part(t, 750)
      /\ b.vote = buckets.vote + Part(t, 250)
      /\ b.oracle = buckets.oracle + Part(t, OracleShare)
  <2>1. /\ b = [x \in BucketNames |-> b[x]]
        /\ b["block"] = Filled(buckets.block, t, 3000)
        /\ b["transfers"] = Filled(buckets.transfers, t, 500)
        /\ b["users"] = Filled(buckets.users, t, 500)
        /\ b["witness"] = Filled(buckets.witness, t, 750)
        /\ b["vote"] = Filled(buckets.vote, t, 250)
        /\ b["oracle"] = Filled(buckets.oracle, t, OracleShare)
    BY DEF SharedBuckets, BucketNames
  <2> HIDE DEF b
  <2>2. /\ b["block"] = buckets.block + Part(t, 3000)
        /\ b["witness"] = buckets.witness + Part(t, 750)
        /\ b["vote"] = buckets.vote + Part(t, 250)
        /\ b["oracle"] = buckets.oracle + Part(t, OracleShare)
        /\ b["transfers"] \in Int /\ b["users"] \in Int
    BY <1>3, <1>6, <2>1
  <2>3. \A x \in BucketNames : b[x] \in Int
    <3>1. b["block"] \in Int /\ b["witness"] \in Int /\ b["vote"] \in Int /\ b["oracle"] \in Int
      <4>1. /\ buckets.block \in Nat /\ buckets.witness \in Nat /\ buckets.vote \in Nat
            /\ buckets.oracle \in Nat
        BY <1>3
      <4>2. /\ Part(t, 3000) \in Nat /\ Part(t, 750) \in Nat /\ Part(t, 250) \in Nat
            /\ Part(t, OracleShare) \in Nat
        BY <1>6
      <4>3. \A i, j \in Nat : i + j \in Int
        OBVIOUS
      <4>4. QED
        BY <2>2, <4>1, <4>2, <4>3
    <3>2. QED
      BY <2>2, <3>1 DEF BucketNames
  <2>4. b \in [BucketNames -> Int]
    BY <2>1, <2>3
  <2>5. QED
    BY <2>1, <2>2, <2>4
<1>8. /\ v = [x \in VaultNames |-> v[x]]
      /\ v["network"] = vaults.network
             + (Part(t, 5000) - (Part(t, 3000) + Part(t, 1000) + Part(t, 750) + Part(t, 250)))
      /\ v["infrastructure"] = vaults.infrastructure
             + (Part(t, 5000) - (Part(t, 3250) + Part(t, 500) + Part(t, 1250)))
      /\ v["community"] = vaults.community + (Part(t, 3250) - Part(t, OracleShare))
      /\ v["marketing"] = vaults.marketing + Part(t, 500)
      /\ v["founding"] = vaults.founding + Part(t, 1250)
      /\ v["bpay"] = vaults.bpay + Part(t, 3000)
      /\ v["dpay"] = vaults.dpay + Part(t, 1000)
      /\ v["wpay"] = vaults.wpay + Part(t, 750)
      /\ v["vpay"] = vaults.vpay + Part(t, 250)
      /\ v["oracle"] = vaults.oracle + Part(t, OracleShare)
  BY DEF SharedVaults, VaultNames
<1> HIDE DEF b, v
<1>9. v \in [VaultNames -> Nat]
  <2>1. \A x \in VaultNames : v[x] \in Nat
    BY <1>1, <1>3, <1>6, <1>8, PartsFit DEF VaultNames
  <2>2. QED
    BY <1>8, <2>1
<1>10. /\ v.bpay = b.block /\ v.vpay = b.vote /\ v.wpay = b.witness /\ v.oracle = b.oracle
       /\ b.oracle < Word
  <2>1. v.bpay = b.block /\ v.vpay = b.vote /\ v.wpay = b.witness /\ v.oracle = b.oracle
    BY <1>2, <1>7, <1>8
  <2>2. CASE Due(timer)
    BY <1>4, <1>7, <2>1, <2>2 DEF CanShare
  <2>3. CASE ~Due(timer)
    <3>1. Part(t, OracleShare) = 0
      <4>1. t = 0 /\ OracleShare \in Nat
        BY <1>4, <2>3, PayAssumption
      <4>2. QED
        BY <4>1 DEF Part
    <3>2. QED
      BY <1>2, <1>3, <1>7, <2>1, <3>1
  <2>4. QED
    BY <2>1, <2>2, <2>3
<1>11. ASSUME ~overdrawn
       PROVE  b.transfers >= 0 /\ b.users >= 0 /\ v.dpay >= b.transfers + b.users
  <2>1. buckets.transfers \in Nat /\ buckets.users \in Nat
    BY <1>2, <1>3, <1>11
  <2>2. /\ b.transfers = buckets.transfers + Part(t, 500)
        /\ b.users = buckets.users + Part(t, 500)
    BY <1>6, <1>7, <2>1
  <2>3. Part(t, 500) + Part(t, 500) <= Part(t, 1000)
    BY <1>1, PartsFit
  <2>4. QED
    BY <1>2, <1>3, <1>6, <1>8, <1>11, <2>1, <2>2, <2>3
<1>12. Covers(b, v, overdrawn)
  BY <1>2, <1>7, <1>9, <1>10, <1>11 DEF Covers
<1>13. QED
  BY <1>12 DEF b, v, t

\* What is paid to a voter, to a producer for its blocks, as a witness and for its oracle, and
\* to a dapp leaves buckets and accounts as they should be.
LEMMA VoterPaidCovers ==
  ASSUME NEW b, NEW v, NEW over, Covers(b, v, over), NEW r \in Int, r <= v.vpay
  PROVE  Covers([b EXCEPT !.vote = b.vote - r], [v EXCEPT !.vpay = v.vpay - r], over)
<1> DEFINE c == [b EXCEPT !.vote = b.vote - r]
           w == [v EXCEPT !.vpay = v.vpay - r]
<1>1. /\ b \in [BucketNames -> Int] /\ v \in [VaultNames -> Nat]
      /\ v.vpay \in Nat /\ b.vote = v.vpay
  BY DEF Covers, BucketNames, VaultNames
<1>2. v.vpay - r \in Nat /\ b.vote - r \in Int
  BY <1>1
<1>3. c \in [BucketNames -> Int] /\ w \in [VaultNames -> Nat]
  BY <1>1, <1>2
<1>4. /\ c.vote = w.vpay /\ c.block = b.block /\ c.witness = b.witness /\ c.oracle = b.oracle
      /\ c.transfers = b.transfers /\ c.users = b.users
      /\ w.bpay = v.bpay /\ w.wpay = v.wpay /\ w.oracle = v.oracle /\ w.dpay = v.dpay
  BY <1>1 DEF BucketNames, VaultNames
<1> HIDE DEF c, w
<1>5. Covers(c, w, over)
  BY <1>3, <1>4 DEF Covers
<1>6. QED
  BY <1>5 DEF c, w

LEMMA ProducerPaidCovers ==
  ASSUME NEW b, NEW v, NEW over, Covers(b, v, over),
         NEW r \in Int, r <= v.bpay, NEW x \in Int, x <= v.wpay, NEW y \in Nat, y <= v.oracle
  PROVE  Covers([b EXCEPT !.block = b.block - r, !.witness = b.witness - x,
                          !.oracle = b.oracle - y],
                [v EXCEPT !.bpay = v.bpay - r, !.wpay = v.wpay - x, !.oracle = v.oracle - y],
                over)
<1> DEFINE c == [b EXCEPT !.block = b.block - r, !.witness = b.witness - x,
                          !.oracle = b.oracle - y]
           w == [v EXCEPT !.bpay = v.bpay - r, !.wpay = v.wpay - x, !.oracle = v.oracle - y]
<1>1. /\ b \in [BucketNames -> Int] /\ v \in [VaultNames -> Nat]
      /\ v.bpay \in Nat /\ b.block = v.bpay /\ v.wpay \in Nat /\ b.witness = v.wpay
      /\ v.oracle \in Nat /\ b.oracle = v.oracle /\ b.oracle < Word
  BY DEF Covers, BucketNames, VaultNames
<1>2. /\ v.bpay - r \in Nat /\ b.block - r \in Int /\ v.wpay - x \in Nat /\ b.witness - x \in Int
      /\ v.oracle - y \in Nat /\ b.oracle - y \in Int /\ b.oracle - y < Word
  BY <1>1, OracleAssumption
<1>3. c \in [BucketNames -> Int] /\ w \in [VaultNames -> Nat]
  BY <1>1, <1>2
<1>4. /\ c.block = w.bpay /\ c.witness = w.wpay /\ c.oracle = w.oracle /\ c.oracle < Word
      /\ c.vote = b.vote /\ c.transfers = b.transfers /\ c.users = b.users
      /\ w.vpay = v.vpay /\ w.dpay = v.dpay
  BY <1>1, <1>2 DEF BucketNames, VaultNames
<1> HIDE DEF c, w
<1>5. Covers(c, w, over)
  BY <1>3, <1>4 DEF Covers
<1>6. QED
  BY <1>5 DEF c, w

\* Whether a dapp was paid too much, once r is paid from bucket n.
Overpays(b, n, r, over, o) == o = (over \/ b[n] < r)

LEMMA DappPaidCovers ==
  ASSUME NEW b, NEW v, NEW over, Covers(b, v, over),
         NEW n \in {"transfers", "users"}, NEW r \in Int, r <= v.dpay,
         NEW o, Overpays(b, n, r, over, o)
  PROVE  Covers([b EXCEPT ![n] = b[n] - r], [v EXCEPT !.dpay = v.dpay - r], o)
<1> DEFINE c == [b EXCEPT ![n] = b[n] - r]
           w == [v EXCEPT !.dpay = v.dpay - r]
<1>1. /\ b \in [BucketNames -> Int] /\ v \in [VaultNames -> Nat] /\ v.dpay \in Nat
      /\ b.transfers \in Int /\ b.users \in Int /\ over \in BOOLEAN
  BY DEF Covers, BucketNames, VaultNames
<1>2. v.dpay - r \in Nat /\ b[n] - r \in Int
  BY <1>1
<1>3. c \in [BucketNames -> Int] /\ w \in [VaultNames -> Nat]
  BY <1>1, <1>2
<1>4. /\ c.block = b.block /\ c.witness = b.witness /\ c.oracle = b.oracle /\ c.vote = b.vote
      /\ w.bpay = v.bpay /\ w.wpay = v.wpay /\ w.oracle = v.oracle /\ w.vpay = v.vpay
  BY <1>1 DEF BucketNames, VaultNames
<1>5. ASSUME ~o PROVE c.transfers >= 0 /\ c.users >= 0 /\ w.dpay >= c.transfers + c.users
  <2>1. b.transfers >= 0 /\ b.users >= 0 /\ v.dpay >= b.transfers + b.users /\ ~(b[n] < r)
    BY <1>5 DEF Covers, Overpays
  <2>2. w.dpay = v.dpay - r
    BY <1>1 DEF VaultNames
  <2>3. CASE n = "transfers"
    <3>1. c.transfers = b.transfers - r /\ c.users = b.users
      BY <1>1, <2>3 DEF BucketNames
    <3>2. QED
      BY <1>1, <2>1, <2>2, <2>3, <3>1
  <2>4. CASE n = "users"
    <3>1. c.users = b.users - r /\ c.transfers = b.transfers
      BY <1>1, <2>4 DEF BucketNames
    <3>2. QED
      BY <1>1, <2>1, <2>2, <2>4, <3>1
  <2>5. QED
    BY <2>3, <2>4
<1>6. o \in BOOLEAN
  BY <1>1 DEF Overpays
<1> HIDE DEF c, w
<1>7. Covers(c, w, o)
  BY <1>3, <1>4, <1>5, <1>6 DEF Covers
<1>8. QED
  BY <1>7 DEF c, w
-----------------------------------------------------------------------------
(* What claims do to votes                                                 *)

LEMMA OtherState ==
  ASSUME NEW t, TablesInv(t), NEW g \in GState, g.wat <= now
  PROVE  LET r == [t EXCEPT !.gstate = g]
         IN  /\ TablesInv(r) /\ r.gstate = g
             /\ r.voters = t.voters /\ r.producers = t.producers /\ r.withheld = t.withheld
             /\ r.below = t.below /\ r.failed = t.failed
<1> DEFINE r == [t EXCEPT !.gstate = g]
<1>1. t \in Tables /\ TimesOK(t) /\ ProxiesEndOf(t) /\ \A x \in Accounts : Follows(t, x)
  BY DEF TablesInv
<1>2. /\ r \in Tables /\ r.gstate = g
      /\ r.voters = t.voters /\ r.producers = t.producers /\ r.withheld = t.withheld
      /\ r.below = t.below /\ r.failed = t.failed
  BY <1>1 DEF Tables
<1> HIDE DEF r
<1>3. TimesOK(r)
  BY <1>1, <1>2 DEF TimesOK
<1>4. ProxiesEndOf(r)
  BY <1>1, <1>2 DEF ProxiesEndOf, Users
<1>5. \A x \in Accounts : Follows(r, x)
  BY <1>1, <1>2 DEF Follows
<1>6. TablesInv(r)
  BY <1>2, <1>3, <1>4, <1>5 DEF TablesInv
<1>7. QED
  BY <1>2, <1>6 DEF r

Reset(row, a, b, c, d, e) ==
    [row EXCEPT !.claimed = a, !.vshare = b, !.vat = c, !.wshare = d, !.wat = e]

LEMMA SharesReset ==
  ASSUME NEW row \in ProducerRow, NEW a \in Nat, NEW b \in Int, NEW c \in Nat, NEW d \in Nat,
         NEW e \in Nat
  PROVE  /\ Reset(row, a, b, c, d, e) \in ProducerRow
         /\ Reset(row, a, b, c, d, e).claimed = a
         /\ Reset(row, a, b, c, d, e).wshare = d
         /\ Reset(row, a, b, c, d, e).wat = e
         /\ Reset(row, a, b, c, d, e).vshare = b
         /\ Reset(row, a, b, c, d, e).vat = c
         /\ Reset(row, a, b, c, d, e).votes = row.votes
BY DEF ProducerRow, Reset

\* What is shown of votes, of what is unpaid, of tallies and of votepay shares: what claims
\* keep of them, too.
VotesInv ==
    /\ VotingInv
    /\ UnpaidAgrees(VotingTables)
    /\ TallyInv(VotingTables)
    /\ VotepayInv(VotingTables)

\* Rows with the same votes, proxies and weights.
LEMMA TallySame ==
  ASSUME NEW t \in Tables, TallyInv(t), NEW r,
         r.withheld = t.withheld, r.below = t.below, r.failed = t.failed,
         r.gstate.weight = t.gstate.weight,
         \A x \in Accounts : /\ t.voters[x] = NoRow <=> r.voters[x] = NoRow
                             /\ t.voters[x] # NoRow =>
                                   /\ r.voters[x].last = t.voters[x].last
                                   /\ r.voters[x].proxied = t.voters[x].proxied
                                   /\ r.voters[x].producers = t.voters[x].producers
                                   /\ r.voters[x].proxy = t.voters[x].proxy,
         \A p \in Candidates : /\ t.producers[p] = NoRow <=> r.producers[p] = NoRow
                               /\ t.producers[p] # NoRow => r.producers[p].votes = t.producers[p].votes
  PROVE  TallyInv(r)
<1>1. Tallied(t) /\ VotedFor(t) /\ OneWay(t)
  BY DEF TallyInv
<1>2. \A p \in Candidates : CastBy(r, p) = CastBy(t, p)
  BY DEF CastBy
<1>3. \A b \in Accounts : HandedBy(r, b) = HandedBy(t, b)
  BY DEF HandedBy
<1>4. /\ \A p \in Candidates : Cast(r, p) = Cast(t, p)
      /\ \A b \in Accounts : Handed(r, b) = Handed(t, b)
  BY <1>2, <1>3 DEF Cast, Handed
<1>5. Weighed(r) = Weighed(t)
  BY <1>4 DEF Weighed
<1>6. /\ \A p \in Candidates : t.producers[p] # NoRow => VoteOff(r, p) = VoteOff(t, p)
      /\ \A b \in Accounts : t.voters[b] # NoRow => HandOff(r, b) = HandOff(t, b)
      /\ WeightOff(r) = WeightOff(t)
  BY <1>4, <1>5 DEF VoteOff, HandOff, WeightOff
<1>7. Tallied(r)
  BY <1>1, <1>6 DEF Tallied
<1>8. VotedFor(r)
  <2>1. ASSUME ~t.below, ~t.failed, NEW x \in Accounts, t.voters[x] # NoRow,
               NEW p \in t.voters[x].producers
        PROVE  r.producers[p] # NoRow
    <3>1. t.producers[p] # NoRow /\ p \in Candidates
      BY <1>1, <2>1, TablesHave, RowType DEF VotedFor
    <3>2. QED
      BY <3>1
  <2>2. QED
    BY <2>1 DEF VotedFor
<1>9. OneWay(r)
  BY <1>1 DEF OneWay
<1>10. QED
  BY <1>7, <1>8, <1>9 DEF TallyInv

LEMMA TotalVotepayIs ==
  ASSUME NEW g \in GState, NEW shares, NEW rate
  PROVE  LET h == UpdateTotalVotepay(g, shares, rate)
         IN  /\ h.vrate = Floored(g.vrate, rate) /\ h.vat = now
             /\ h.vtotal = Floored(g.vtotal, g.vrate * (now - g.vat) + shares)
<1> DEFINE total == Floored(g.vtotal, g.vrate * (now - g.vat) + shares)
           speed == Floored(g.vrate, rate)
<1>1. UpdateTotalVotepay(g, shares, rate) = [g EXCEPT !.vtotal = total, !.vrate = speed, !.vat = now]
  BY DEF UpdateTotalVotepay
<1> HIDE DEF total, speed
<1>2. LET h == UpdateTotalVotepay(g, shares, rate)
      IN  h.vrate = speed /\ h.vat = now /\ h.vtotal = total
  BY <1>1 DEF GState
<1>3. QED
  BY <1>2 DEF total, speed

\* A share that is claimed leaves the total, and counts again from now.
LEMMA ShareClaimed ==
  ASSUME NEW t \in Tables, NEW r \in Tables, now \in Nat, VotepayInv(t),
         NEW p \in Candidates, t.producers[p] # NoRow, r.producers[p] # NoRow,
         r.producers[p].votes = t.producers[p].votes,
         r.producers[p].claimed = now, r.producers[p].vshare = 0, r.producers[p].vat = now,
         \A q \in Candidates \ {p} : r.producers[q] = t.producers[q],
         NEW drawn, NEW more,
         drawn = GrownVotepay(t.producers[p],
                              IF UpdatedAfter(t.producers[p]) THEN 0 ELSE t.producers[p].votes),
         more = IF UpdatedAfter(t.producers[p]) THEN t.producers[p].votes ELSE 0,
         r.gstate.vrate = Floored(t.gstate.vrate, more),
         r.gstate.vtotal = Floored(t.gstate.vtotal,
                                   t.gstate.vrate * (now - t.gstate.vat) + -drawn),
         r.gstate.vat = now, r.below = t.below
  PROVE  VotepayInv(r)
<1> DEFINE row   == t.producers[p]
           new   == r.producers[p]
           grown == t.gstate.vrate * (now - t.gstate.vat)
<1>1. row \in ProducerRow /\ new \in ProducerRow /\ Since(row) /\ VotepayTimes(t)
  BY TablesHave DEF VotepayInv, VotepayTimes
<1>2. /\ row.votes \in Int /\ row.vshare \in Int /\ PayWindow \in Nat /\ PayWindow > 0
      /\ UpdatedAfter(row) => row.vshare = 0
  BY <1>1, ShareTypes, VotingBoundsAssumption DEF Since
<1>3. ~UpdatedAfter(new) /\ Since(new)
  BY <1>2 DEF UpdatedAfter, Since
<1>4. VotepayTimes(r)
  BY <1>3 DEF VotepayInv, VotepayTimes
<1>5. /\ VoteOf(new) = VoteOf(row) + more
      /\ PastOf(row) = PastOf(new) + drawn
      /\ more \in Int /\ drawn \in Int
  <2>1. VoteOf(new) = row.votes /\ PastOf(new) = 0
    <3>1. new.votes * (now - new.vat) = 0
      BY <1>2
    <3>2. QED
      BY <1>3, <3>1 DEF VoteOf, PastOf, GrownVotepay
  <2>2. CASE UpdatedAfter(row)
    <3>1. VoteOf(row) = 0 /\ PastOf(row) = 0 /\ more = row.votes
      BY <2>2 DEF VoteOf, PastOf
    <3>2. drawn = 0
      <4>1. drawn = GrownVotepay(row, 0)
        BY <2>2
      <4>2. GrownVotepay(row, 0) = row.vshare + 0
        BY DEF GrownVotepay
      <4>3. row.vshare = 0
        BY <1>2, <2>2
      <4>4. QED
        BY <4>1, <4>2, <4>3
    <3>3. /\ VoteOf(new) = VoteOf(row) + more /\ more \in Int
      <4>1. row.votes \in Int /\ 0 + row.votes = row.votes
        BY <1>2
      <4>2. QED
        BY <2>1, <3>1, <4>1
    <3>4. PastOf(row) = PastOf(new) + drawn /\ drawn \in Int
      BY <2>1, <3>1, <3>2
    <3>5. QED
      BY <3>3, <3>4
  <2>3. CASE ~UpdatedAfter(row)
    <3>1. VoteOf(row) = row.votes /\ PastOf(row) = drawn /\ more = 0
      BY <2>3 DEF VoteOf, PastOf
    <3>2. GrownVotepay(row, row.votes) \in Int
      BY <1>1, <1>2, GrownType
    <3>3. drawn \in Int
      BY <2>3, <3>2
    <3>4. QED
      BY <1>2, <2>1, <3>1, <3>3
  <2>4. QED
    BY <2>2, <2>3
<1>6. ASSUME ~r.below PROVE VotepayAdds(r)
  <2>1. VotepayAdds(t)
    BY <1>6 DEF VotepayInv
  <2>2. \A q \in Candidates : r.producers[q] # NoRow => r.producers[q].votes >= 0
    BY <2>1 DEF VotepayAdds
  <2>3. /\ VotesOf(r)[p] = VotesOf(t)[p] + more /\ PastsOf(t)[p] = PastsOf(r)[p] + drawn
        /\ \A q \in Candidates \ {p} : VotesOf(r)[q] = VotesOf(t)[q] /\ PastsOf(r)[q] = PastsOf(t)[q]
    BY <1>5 DEF VotesOf, PastsOf
  <2>4. /\ IsFiniteSet(Candidates)
        /\ \A q \in Candidates : VotesOf(t)[q] \in Int /\ PastsOf(t)[q] \in Int
        /\ \A q \in Candidates : VotesOf(r)[q] \in Int /\ PastsOf(r)[q] \in Nat
        /\ t.gstate.vrate \in Int /\ t.gstate.vtotal \in Int /\ now - t.gstate.vat \in Nat
    BY <1>1, <1>4, PastTypes
  <2>5. grown \in Int
    BY <2>4
  <2> HIDE DEF grown, row, new
  <2> DEFINE votes  == SumOver(VotesOf(t), Candidates)
             pasts  == SumOver(PastsOf(t), Candidates)
             votes1 == SumOver(VotesOf(r), Candidates)
             pasts1 == SumOver(PastsOf(r), Candidates)
  <2>6. votes1 = votes + VotesOf(r)[p] - VotesOf(t)[p]
    BY <2>3, <2>4, SumOverChange
  <2>7. pasts1 = pasts + PastsOf(r)[p] - PastsOf(t)[p]
    <3>1. \A q \in Candidates : PastsOf(r)[q] \in Int
      BY <2>4
    <3>2. QED
      BY <2>3, <2>4, <3>1, SumOverChange
  <2>8. votes \in Int /\ pasts \in Int
    BY <2>4, SumOverType
  <2>9. votes1 \in Nat /\ pasts1 \in Nat
    <3>1. \A q \in Candidates : VotesOf(r)[q] \in Nat
      <4>1. ASSUME NEW q \in Candidates PROVE VotesOf(r)[q] >= 0
        BY <2>2 DEF VotesOf, VoteOf
      <4>2. QED
        BY <2>4, <4>1
    <3>2. QED
      BY <2>4, <3>1, SumOverNat
  <2>10. t.gstate.vrate = votes /\ t.gstate.vtotal + grown = pasts
    BY <2>1 DEF VotepayAdds, grown
  <2> HIDE DEF votes, pasts, votes1, pasts1
  <2>11. votes1 = votes + more /\ pasts1 = pasts + -drawn
    BY <1>5, <2>3, <2>4, <2>6, <2>7, <2>8
  <2>12. r.gstate.vrate = votes1
    <3>1. t.gstate.vrate + more >= 0
      BY <2>9, <2>10, <2>11
    <3>2. QED
      BY <1>5, <2>4, <2>10, <2>11, <3>1, FlooredAdds
  <2>13. r.gstate.vtotal = pasts1
    <3> DEFINE change == grown + -drawn
    <3>1. change \in Int /\ t.gstate.vtotal + change = pasts1
      BY <1>5, <2>4, <2>5, <2>8, <2>10, <2>11
    <3>2. r.gstate.vtotal = Floored(t.gstate.vtotal, change)
      BY DEF grown
    <3> HIDE DEF change
    <3>3. t.gstate.vtotal + change >= 0
      BY <2>9, <3>1
    <3>4. QED
      BY <2>4, <3>1, <3>2, <3>3, FlooredAdds
  <2>14. votes1 * (now - r.gstate.vat) = 0
    BY <2>9
  <2>15. QED
    BY <2>2, <2>9, <2>12, <2>13, <2>14 DEF VotepayAdds, votes1, pasts1
<1>7. QED
  BY <1>4, <1>6 DEF VotepayInv

LEMMA VotesTaken ==
  ASSUME VotingInv, NEW r \in Tables, TallyInv(r), VotepayInv(r), ~r.failed,
         now' = now, gone' = gone,
         voters' = r.voters, producers' = r.producers, gstate' = r.gstate,
         withheld' = r.withheld, below' = r.below
  PROVE  TallyInv(VotingTables)' /\ VotepayInv(VotingTables)'
<1>1. gone \in Nat
  BY InvOfTables, VotingBoundsAssumption
<1>2. TallyInv(VotingTables)'
  BY TallyTaken
<1>3. SharesInv(r, gone' + 1)
  BY <1>1 DEF SharesInv
<1>4. SharesInv(VotingTables, gone + 1)'
  BY <1>3, SharesTaken
<1>5. VotepayInv(VotingTables)'
  BY <1>4 DEF SharesInv
<1>6. QED
  BY <1>2, <1>5

\* claimrewards: the shares of the producer start anew.
LEMMA ClaimRewardsKeeps ==
  ASSUME VotesInv, NEW p \in Candidates, ClaimRewards(p)
  PROVE  VotesInv'
<1> DEFINE t         == VotingTables
           row       == producers[p]
           updated   == UpdatedAfter(row)
           voteshare == GrownVotepay(row, IF updated THEN 0 ELSE row.votes)
           shares    == IF ClaimsAsWitness(p) THEN 1 ELSE 0
           rated     == UpdateWitnesspay(row, shares)
           witness   == rated.wshare
           grown     == UpdateTotalWitnesspay(gstate, 0, 0)
           fewer     == UpdateTotalWitnesspay(grown, -witness, shares)
           more      == IF updated THEN row.votes ELSE 0
           g         == UpdateTotalVotepay(fewer, -voteshare, more)
           new       == [row EXCEPT !.claimed = now, !.vshare = 0, !.vat = now, !.wshare = 0,
                                    !.wat = now]
           rows      == [producers EXCEPT ![p] = new]
<1>1. /\ p \in Registered(t)
      /\ producers' = rows /\ gstate' = g
      /\ voters' = voters /\ now' = now /\ withheld' = withheld /\ below' = below /\ gone' = gone
  BY DEF ClaimRewards, ClaimedVotepay
<1>2. /\ TablesInv(t) /\ now \in Nat /\ now \in 1 .. MaxNow /\ gone \in 0 .. MaxGone
      /\ t.voters = voters /\ t.producers = producers
      /\ t.gstate = gstate /\ t.withheld = withheld /\ t.below = below /\ t.failed = FALSE
      /\ UnpaidAgrees(t) /\ TallyInv(t) /\ VotepayInv(t)
  BY InvOfTables DEF VotesInv, VotingTables
<1>3. t \in Tables /\ TimesOK(t) /\ row # NoRow
  BY <1>1, <1>2 DEF TablesInv, Registered
<1> HIDE DEF t
<1>4. /\ producers \in ProducerTable /\ gstate \in GState /\ row \in ProducerRow
      /\ gstate.wat <= now /\ \A q \in Candidates : producers[q] # NoRow => Dated(producers[q])
  BY <1>2, <1>3, TablesHave DEF TimesOK
<1>5. row.votes \in Int /\ shares \in {0, 1} /\ shares \in Int
  BY <1>4 DEF ProducerRow
<1> HIDE DEF shares
<1>6. voteshare \in Int /\ more \in Int /\ -voteshare \in Int
  <2> HIDE DEF row, updated
  <2>1. (IF updated THEN 0 ELSE row.votes) \in Int /\ more \in Int
    BY <1>5
  <2>2. voteshare \in Int
    BY <1>2, <1>4, <2>1, GrownType
  <2> HIDE DEF voteshare
  <2>3. QED
    BY <2>1, <2>2
<1>7. witness \in Nat /\ -witness \in Int
  <2>1. rated \in ProducerRow
    <3> HIDE DEF row
    <3>1. row # NoRow /\ Dated(row)
      BY <1>3, <1>4 DEF row
    <3>2. QED
      BY <1>2, <1>4, <1>5, <3>1, WitnesspayType
  <2> HIDE DEF rated
  <2>2. QED
    BY <2>1 DEF ProducerRow
<1>8. /\ voteshare = GrownVotepay(row, IF UpdatedAfter(row) THEN 0 ELSE row.votes)
          /\ more = IF UpdatedAfter(row) THEN row.votes ELSE 0
  OBVIOUS
<1> HIDE DEF voteshare, rated, more
<1>9. /\ grown \in GState /\ grown.unpaid = gstate.unpaid /\ grown.wat = now
      /\ grown.weight = gstate.weight /\ grown.vrate = gstate.vrate
      /\ grown.vtotal = gstate.vtotal /\ grown.vat = gstate.vat
  BY <1>2, <1>4, TotalWitnesspayType
<1> HIDE DEF grown
<1>10. /\ fewer \in GState /\ fewer.unpaid = gstate.unpaid /\ fewer.wat = now
      /\ fewer.weight = gstate.weight /\ fewer.vrate = gstate.vrate
      /\ fewer.vtotal = gstate.vtotal /\ fewer.vat = gstate.vat
  BY <1>2, <1>5, <1>7, <1>9, TotalWitnesspayType
<1> HIDE DEF fewer, witness
<1>11. /\ g \in GState /\ g.unpaid = gstate.unpaid /\ g.wat = now /\ g.weight = gstate.weight
       /\ g.vrate = Floored(gstate.vrate, more) /\ g.vat = now
       /\ g.vtotal = Floored(gstate.vtotal, gstate.vrate * (now - gstate.vat) + -voteshare)
  <2>1. /\ g \in GState /\ g.unpaid = fewer.unpaid /\ g.wat = fewer.wat /\ g.weight = fewer.weight
    BY <1>2, <1>6, <1>10, TotalVotepayType
  <2>2. /\ g.vrate = Floored(fewer.vrate, more) /\ g.vat = now
        /\ g.vtotal = Floored(fewer.vtotal, fewer.vrate * (now - fewer.vat) + -voteshare)
    BY <1>10, TotalVotepayIs
  <2> HIDE DEF g
  <2>3. QED
    BY <1>10, <2>1, <2>2
<1> HIDE DEF g
<1>12. /\ new \in ProducerRow /\ Dated(new)
       /\ new.claimed = now /\ new.vshare = 0 /\ new.vat = now /\ new.votes = row.votes
  <2>1. now + 0 <= now /\ now <= now
    BY <1>2
  <2>2. /\ new \in ProducerRow
        /\ new.claimed = now /\ new.wshare = 0 /\ new.wat = now
        /\ new.vshare = 0 /\ new.vat = now /\ new.votes = row.votes
    <3> HIDE DEF row, rows
    <3>1. new = Reset(row, now, 0, now, 0, now)
      BY DEF Reset
    <3> HIDE DEF new
    <3>2. row \in ProducerRow /\ now \in Nat /\ 0 \in Int /\ 0 \in Nat
      BY <1>2, <1>4
    <3>3. /\ Reset(row, now, 0, now, 0, now) \in ProducerRow
          /\ Reset(row, now, 0, now, 0, now).claimed = now
          /\ Reset(row, now, 0, now, 0, now).wshare = 0
          /\ Reset(row, now, 0, now, 0, now).wat = now
          /\ Reset(row, now, 0, now, 0, now).vshare = 0
          /\ Reset(row, now, 0, now, 0, now).vat = now
          /\ Reset(row, now, 0, now, 0, now).votes = row.votes
      BY <3>2, SharesReset
    <3>4. QED
      BY <3>1, <3>3
  <2> HIDE DEF new
  <2>3. QED
    BY <2>1, <2>2 DEF Dated
<1>13. /\ rows \in ProducerTable /\ \A q \in Candidates : rows[q] # NoRow => Dated(rows[q])
       /\ rows[p] = new /\ \A q \in Candidates \ {p} : rows[q] = producers[q]
  <2> HIDE DEF new
  <2>1. QED
    BY <1>4, <1>12 DEF ProducerTable
<1> HIDE DEF new, rows, row
<1> DEFINE s == [t EXCEPT !.producers = rows]
<1>14. /\ TablesInv(s) /\ s.producers = rows
       /\ s.voters = t.voters /\ s.gstate = t.gstate /\ s.withheld = t.withheld
       /\ s.below = t.below /\ s.failed = t.failed
  BY <1>2, <1>13, OtherProducers
<1> HIDE DEF s
<1> DEFINE r == [s EXCEPT !.gstate = g]
<1>15. /\ TablesInv(r) /\ r.gstate = g /\ r.producers = rows
       /\ r.voters = t.voters /\ r.withheld = t.withheld /\ r.below = t.below
       /\ r.failed = t.failed
  <2>1. g.wat <= now
    BY <1>2, <1>11
  <2>2. QED
    BY <1>11, <1>14, <2>1, OtherState
<1> HIDE DEF r
<1>16. VotingInv'
  BY <1>1, <1>2, <1>15, TablesTaken
<1>17. UnpaidAgrees(VotingTables)'
  <2>1. r.gstate.unpaid = t.gstate.unpaid /\ \A x \in Accounts : UnpaidOf(r, x) = UnpaidOf(t, x)
    BY <1>2, <1>11, <1>15 DEF UnpaidOf
  <2>2. UnpaidAgrees(t)
    BY <1>2
  <2>3. UnpaidAgrees(r)
    BY <1>3, <2>1, <2>2, SameUnpaid
  <2>4. voters' = r.voters /\ gstate' = r.gstate
    BY <1>1, <1>2, <1>15
  <2>5. QED
    BY <2>3, <2>4, UnpaidTaken
<1>18. \A q \in Candidates : /\ t.producers[q] = NoRow <=> r.producers[q] = NoRow
                             /\ t.producers[q] # NoRow => r.producers[q].votes = t.producers[q].votes
  <2>1. r.producers[p].votes = t.producers[p].votes /\ r.producers[p] # NoRow
    BY <1>2, <1>12, <1>13, <1>15, ShareTypes DEF row
  <2>2. t.producers[p] # NoRow
    BY <1>2, <1>3 DEF row
  <2>3. QED
    BY <1>2, <1>13, <1>15, <2>1, <2>2
<1>19. TallyInv(r)
  <2>1. r.gstate.weight = t.gstate.weight
    BY <1>2, <1>11, <1>15
  <2>2. QED
    BY <1>2, <1>3, <1>15, <1>18, <2>1, TallySame
<1>20. VotepayInv(r)
  <2>1. /\ t.producers[p] = row /\ r.producers[p] = new /\ new # NoRow
        /\ r \in Tables /\ r.gstate = g /\ t.gstate = gstate /\ r.below = t.below
        /\ \A q \in Candidates \ {p} : r.producers[q] = t.producers[q]
    BY <1>2, <1>12, <1>13, <1>15, ShareTypes DEF TablesInv, row
  <2>2. /\ r.producers[p].votes = t.producers[p].votes /\ t.producers[p] # NoRow
        /\ r.producers[p] # NoRow
        /\ r.producers[p].claimed = now /\ r.producers[p].vshare = 0 /\ r.producers[p].vat = now
        /\ r.gstate.vrate = Floored(t.gstate.vrate, more) /\ r.gstate.vat = now
        /\ r.gstate.vtotal = Floored(t.gstate.vtotal,
                                     t.gstate.vrate * (now - t.gstate.vat) + -voteshare)
        /\ voteshare = GrownVotepay(t.producers[p],
                            IF UpdatedAfter(t.producers[p]) THEN 0 ELSE t.producers[p].votes)
        /\ more = IF UpdatedAfter(t.producers[p]) THEN t.producers[p].votes ELSE 0
    BY <1>3, <1>11, <1>12, <1>8, <2>1
  <2>3. QED
    BY <1>2, <1>3, <2>1, <2>2, ShareClaimed
<1>21. TallyInv(VotingTables)' /\ VotepayInv(VotingTables)'
  <2>1. /\ VotingInv /\ r \in Tables /\ ~r.failed
        /\ voters' = r.voters /\ producers' = r.producers /\ gstate' = r.gstate
        /\ withheld' = r.withheld /\ below' = r.below
    BY <1>1, <1>2, <1>15 DEF VotesInv, TablesInv
  <2>2. QED
    BY <1>1, <1>19, <1>20, <2>1, VotesTaken
<1>22. QED
  BY <1>16, <1>17, <1>21 DEF VotesInv

\* claimvoterwd: the votes of a are paid, and the total is less by them.
LEMMA ClaimVoterKeeps ==
  ASSUME VotesInv, NEW a \in Accounts, ClaimVoterReward(a)
  PROVE  VotesInv'
<1> DEFINE t    == VotingTables
           row  == voters[a]
           new  == [row EXCEPT !.unpaid = 0, !.claimed = now]
           n    == gstate.unpaid - row.unpaid
           g    == [gstate EXCEPT !.unpaid = n]
           rows == [voters EXCEPT ![a] = new]
<1>1. /\ row # NoRow /\ gstate' = g
      /\ voters' = [voters EXCEPT ![a].unpaid = 0, ![a].claimed = now]
      /\ producers' = producers
      /\ now' = now /\ withheld' = withheld /\ below' = below /\ gone' = gone
  BY DEF ClaimVoterReward
<1>2. /\ TablesInv(t) /\ now \in Nat /\ now \in 1 .. MaxNow /\ gone \in 0 .. MaxGone
      /\ t.voters = voters /\ t.producers = producers
      /\ t.gstate = gstate /\ t.withheld = withheld /\ t.below = below /\ t.failed = FALSE
      /\ UnpaidAgrees(t) /\ TallyInv(t) /\ VotepayInv(t)
  BY InvOfTables DEF VotesInv, VotingTables
<1>3. /\ t \in Tables /\ TimesOK(t) /\ ProxiesEndOf(t) /\ \A x \in Accounts : Follows(t, x)
      /\ UnpaidAgrees(t)
  BY <1>2 DEF TablesInv
<1> HIDE DEF t
<1>4. /\ voters \in VoterTable /\ gstate \in GState /\ row \in VoterRow /\ gstate.wat <= now
      /\ \A x \in Accounts : voters[x] # NoRow => voters[x] \in VoterRow
  BY <1>1, <1>2, <1>3, TablesHave DEF TimesOK
<1>5. voters' = rows
  <2>1. DOMAIN voters = Accounts
    BY <1>4 DEF VoterTable
  <2>2. QED
    BY <1>1, <2>1
<1>6. /\ new \in VoterRow /\ new.unpaid = 0 /\ new.staked = row.staked
      /\ new.producers = row.producers /\ new.proxy = row.proxy /\ new.last = row.last
      /\ new.is_proxy = row.is_proxy /\ new.proxied = row.proxied
  <2> HIDE DEF row
  <2>1. QED
    BY <1>2, <1>4 DEF VoterRow
<1>7. row.unpaid \in Nat /\ n \in Nat /\ row.unpaid <= gstate.unpaid /\ gstate.unpaid \in Nat
  <2> DEFINE f == [x \in Accounts |-> UnpaidOf(t, x)]
  <2>1. \A x \in Accounts : f[x] \in Nat
    BY <1>3, UnpaidType
  <2>2. gstate.unpaid = SumOver(f, Accounts)
    BY <1>2, <1>3 DEF UnpaidAgrees, UnpaidIn
  <2>3. f[a] = row.unpaid
    BY <1>1, <1>2 DEF UnpaidOf
  <2> HIDE DEF f
  <2>4. f[a] <= SumOver(f, Accounts)
    BY <2>1, AccountsAssumption, SumOverBound
  <2>5. row.unpaid \in Nat /\ gstate.unpaid \in Nat
    BY <1>4, RowType DEF GState
  <2>6. QED
    BY <2>2, <2>3, <2>4, <2>5
<1>8. /\ g \in GState /\ g.unpaid = gstate.unpaid - row.unpaid /\ g.wat <= now
      /\ g.weight = gstate.weight /\ g.vrate = gstate.vrate
      /\ g.vtotal = gstate.vtotal /\ g.vat = gstate.vat
  <2> HIDE DEF n
  <2>1. /\ g \in GState /\ g.unpaid = n /\ g.wat = gstate.wat
        /\ g.weight = gstate.weight /\ g.vrate = gstate.vrate
        /\ g.vtotal = gstate.vtotal /\ g.vat = gstate.vat
    BY <1>4, <1>7 DEF GState
  <2>2. QED
    BY <1>4, <2>1 DEF n
<1> HIDE DEF new, g, n
<1> DEFINE s == [t EXCEPT !.voters = rows]
<1>9. /\ OneRow(t, s, a, new) /\ s.below = t.below
  BY <1>2, <1>3, <1>6, PutRow
<1>10. s.voters = rows
  BY <1>3 DEF Tables
<1> HIDE DEF s, rows
<1>11. TablesInv(s)
  <2>1. s \in Tables /\ s.voters[a] = new /\ \A x \in Accounts \ {a} : s.voters[x] = t.voters[x]
    BY <1>9 DEF OneRow
  <2>2. s.producers = t.producers /\ s.gstate = t.gstate
    BY <1>9 DEF OneRow
  <2>3. TimesOK(s)
    BY <1>3, <2>2 DEF TimesOK
  <2>4. new # NoRow
    BY <1>6, RowType
  <2>5. ProxiesEndOf(s)
    <3>1. \A x \in Accounts : t.voters[x] # NoRow => /\ s.voters[x] # NoRow
                                                     /\ s.voters[x].proxy = t.voters[x].proxy
      BY <1>2, <1>6, <2>1, <2>4
    <3>2. \A x \in Users(t) : s.voters[x].is_proxy = t.voters[x].is_proxy
      BY <1>2, <1>6, <2>1 DEF Users
    <3>3. \A x \in Accounts : t.voters[x] = NoRow => s.voters[x] = NoRow
      BY <1>1, <1>2, <2>1
    <3>4. QED
      BY <1>3, <2>1, <3>1, <3>2, <3>3, SameEnds
  <2>6. ASSUME NEW x \in Accounts PROVE Follows(s, x)
    <3>1. CASE x # a
      BY <1>3, <2>1, <3>1 DEF Follows
    <3>2. CASE x = a
      <4>1. VoteWeight(new) = VoteWeight(row)
        BY <1>4, <1>6, WeightOf
      <4>2. Follows(t, a)
        BY <1>3
      <4>3. QED
        BY <1>1, <1>2, <1>6, <2>1, <3>2, <4>1, <4>2 DEF Follows
    <3>3. QED
      BY <3>1, <3>2
  <2>7. QED
    BY <2>1, <2>3, <2>5, <2>6 DEF TablesInv
<1> DEFINE r == [s EXCEPT !.gstate = g]
<1>12. /\ TablesInv(r) /\ r.gstate = g /\ r.producers = s.producers
       /\ r.voters = s.voters /\ r.withheld = s.withheld /\ r.below = s.below
       /\ r.failed = s.failed
  BY <1>8, <1>11, OtherState
<1>13. /\ s.producers = t.producers /\ s.withheld = t.withheld /\ s.below = t.below
       /\ s.failed = t.failed
  BY <1>9 DEF OneRow
<1> HIDE DEF r
<1>14. VotingInv'
  BY <1>1, <1>2, <1>5, <1>10, <1>12, <1>13, TablesTaken
<1>15. UnpaidAgrees(VotingTables)'
  <2>1. UnpaidAgrees(r)
    <3>1. r \in Tables
      BY <1>12 DEF TablesInv
    <3>2. \A x \in Accounts \ {a} : UnpaidOf(r, x) = UnpaidOf(t, x)
      BY <1>9, <1>12 DEF OneRow, UnpaidOf
    <3>3. UnpaidOf(r, a) = 0 /\ UnpaidOf(t, a) = row.unpaid
      <4>1. r.voters[a] = new /\ new # NoRow
        BY <1>6, <1>9, <1>12, RowType DEF OneRow
      <4>2. QED
        BY <1>1, <1>2, <1>6, <4>1 DEF UnpaidOf
    <3> DEFINE change == -row.unpaid
    <3>4. change \in Int /\ UnpaidOf(r, a) = UnpaidOf(t, a) + change
      BY <1>7, <3>3
    <3>5. r.gstate.unpaid = t.gstate.unpaid + change
      BY <1>2, <1>7, <1>8, <1>12
    <3> HIDE DEF change
    <3>6. QED
      BY <1>3, <3>1, <3>2, <3>4, <3>5, UnpaidChange
  <2>2. r.voters = voters' /\ r.gstate = gstate'
    BY <1>1, <1>5, <1>10, <1>12
  <2>3. QED
    BY <2>1, <2>2, UnpaidTaken
<1>16. TallyInv(r)
  <2>1. ASSUME NEW x \in Accounts
        PROVE  /\ t.voters[x] = NoRow <=> r.voters[x] = NoRow
               /\ t.voters[x] # NoRow =>
                     /\ r.voters[x].last = t.voters[x].last
                     /\ r.voters[x].proxied = t.voters[x].proxied
                     /\ r.voters[x].producers = t.voters[x].producers
                     /\ r.voters[x].proxy = t.voters[x].proxy
    <3>1. CASE x # a
      BY <1>9, <1>12, <3>1 DEF OneRow
    <3>2. CASE x = a
      <4>1. r.voters[a] = new /\ new # NoRow /\ t.voters[a] = row
        BY <1>2, <1>6, <1>9, <1>12, RowType DEF OneRow
      <4>2. QED
        BY <1>1, <1>6, <3>2, <4>1
    <3>3. QED
      BY <3>1, <3>2
  <2>2. r.gstate.weight = t.gstate.weight
    BY <1>2, <1>8, <1>12
  <2>3. \A p \in Candidates : r.producers[p] = t.producers[p]
    BY <1>12, <1>13
  <2>4. r.withheld = t.withheld /\ r.below = t.below /\ r.failed = t.failed
    BY <1>12, <1>13
  <2>5. QED
    BY <1>2, <1>3, <2>1, <2>2, <2>3, <2>4, TallySame
<1>17. VotepayInv(r)
  <2>1. SameVotepay(t, r)
    BY <1>2, <1>8, <1>12, <1>13 DEF SameVotepay
  <2>2. QED
    BY <1>2, <2>1, SameVotepayKeeps
<1>18. TallyInv(VotingTables)' /\ VotepayInv(VotingTables)'
  <2>1. /\ VotingInv /\ r \in Tables /\ ~r.failed
        /\ voters' = r.voters /\ producers' = r.producers /\ gstate' = r.gstate
        /\ withheld' = r.withheld /\ below' = r.below
    BY <1>1, <1>2, <1>5, <1>10, <1>12, <1>13 DEF VotesInv, TablesInv
  <2>2. QED
    BY <1>1, <1>16, <1>17, <2>1, VotesTaken
<1>19. QED
  BY <1>14, <1>15, <1>18 DEF VotesInv
-----------------------------------------------------------------------------
(* What onblock and the claims do to pay                                   *)

Timers   == [vote : Nat, dapp : Nat]
Schedule == [at : Nat, size : Nat, proposed : SUBSET Candidates]

PayInv ==
    /\ Covers(buckets, vaults, overdrawn)
    /\ fills \in Timers
    /\ unpaid \in [Candidates -> Nat]
    /\ blocks = SumOver(unpaid, Candidates)
    /\ voteperiod \in Nat
    /\ schedule \in Schedule
    /\ issued \in Nat

LEMMA PayInvMeans ==
  ASSUME PayInv
  PROVE  PayTypeOK /\ BucketsCovered
<1>1. /\ buckets \in [BucketNames -> Int] /\ vaults \in [VaultNames -> Nat]
      /\ overdrawn \in BOOLEAN /\ buckets.oracle < Word
      /\ vaults.bpay = buckets.block /\ vaults.vpay = buckets.vote
      /\ vaults.wpay = buckets.witness /\ vaults.oracle = buckets.oracle
  BY DEF PayInv, Covers
<1>2. \A b \in BucketNames \ {"transfers", "users"} : buckets[b] >= 0
  <2>1. /\ vaults.bpay \in Nat /\ vaults.vpay \in Nat /\ vaults.wpay \in Nat
        /\ vaults.oracle \in Nat
    BY <1>1 DEF VaultNames
  <2>2. /\ buckets["block"] >= 0 /\ buckets["vote"] >= 0 /\ buckets["witness"] >= 0
        /\ buckets["oracle"] >= 0
    BY <1>1, <2>1
  <2>3. QED
    BY <2>2 DEF BucketNames
<1>3. blocks \in Nat
  BY CandidatesFinite, SumOverNat DEF PayInv
<1>4. PayTypeOK
  BY <1>1, <1>2, <1>3 DEF PayTypeOK, PayInv, Timers, Schedule
<1>5. BucketsCovered
  BY DEF BucketsCovered, PayInv, Covers
<1>6. QED
  BY <1>4, <1>5

LEMMA PayInitOK ==
  ASSUME PayInit
  PROVE  PayInv
<1>1. /\ buckets = [b \in BucketNames |-> 0] /\ vaults = [v \in VaultNames |-> 0]
      /\ fills = [vote |-> 0, dapp |-> 0] /\ unpaid = [p \in Candidates |-> 0]
      /\ blocks = 0 /\ voteperiod = VotePeriod
      /\ schedule = [at |-> 0, size |-> 0, proposed |-> {}] /\ issued = 0 /\ overdrawn = FALSE
  BY DEF PayInit
<1>2. Covers(buckets, vaults, overdrawn)
  <2>1. /\ buckets \in [BucketNames -> Int] /\ vaults \in [VaultNames -> Nat]
        /\ overdrawn \in BOOLEAN
    <3>1. /\ [b \in BucketNames |-> 0] \in [BucketNames -> Int]
          /\ [v \in VaultNames |-> 0] \in [VaultNames -> Nat]
      OBVIOUS
    <3>2. QED
      BY <1>1, <3>1
  <2>2. /\ buckets.block = 0 /\ buckets.vote = 0 /\ buckets.witness = 0 /\ buckets.oracle = 0
        /\ buckets.transfers = 0 /\ buckets.users = 0
        /\ vaults.bpay = 0 /\ vaults.vpay = 0 /\ vaults.wpay = 0 /\ vaults.oracle = 0
        /\ vaults.dpay = 0
    BY <1>1 DEF BucketNames, VaultNames
  <2>3. 0 < Word
    BY OracleAssumption
  <2>4. QED
    BY <2>1, <2>2, <2>3 DEF Covers
<1>3. \A p \in Candidates : unpaid[p] = 0 /\ unpaid[p] \in Nat
  BY <1>1
<1>4. unpaid \in [Candidates -> Nat] /\ SumOver(unpaid, Candidates) = 0
  BY <1>1, <1>3, CandidatesFinite, SumOverNat
<1>5. fills \in Timers /\ schedule \in Schedule /\ voteperiod \in Nat
  BY <1>1, PayAssumption DEF Timers, Schedule
<1>6. QED
  BY <1>1, <1>2, <1>4, <1>5 DEF PayInv

LEMMA OnBlockPays ==
  ASSUME PayInv, now \in Nat, NEW p \in Candidates \cup {None}, NEW accepted \in BOOLEAN,
         OnBlock(p, accepted)
  PROVE  PayInv'
<1>1. /\ Covers(buckets, vaults, overdrawn) /\ fills \in Timers /\ unpaid \in [Candidates -> Nat]
      /\ blocks = SumOver(unpaid, Candidates) /\ voteperiod \in Nat /\ schedule \in Schedule
      /\ issued \in Nat
  BY DEF PayInv
<1>2. /\ fills' = [timer \in DOMAIN fills |-> IF fills[timer] = 0 THEN now ELSE fills[timer]]
      /\ IF p \in Registered(VotingTables)
         THEN unpaid' = [unpaid EXCEPT ![p] = unpaid[p] + 1] /\ blocks' = blocks + 1
         ELSE UNCHANGED <<unpaid, blocks>>
      /\ IF now - schedule.at > ScheduleTime THEN UpdateSchedule(accepted)
         ELSE UNCHANGED schedule
      /\ UNCHANGED <<buckets, vaults, voteperiod, issued, overdrawn>>
  BY DEF OnBlock
<1>3. fills' \in Timers
  <2>1. DOMAIN fills = {"vote", "dapp"} /\ fills.vote \in Nat /\ fills.dapp \in Nat
    BY <1>1 DEF Timers
  <2>2. /\ fills' = [timer \in {"vote", "dapp"} |-> fills'[timer]]
        /\ fills'["vote"] \in Nat /\ fills'["dapp"] \in Nat
    BY <1>2, <2>1
  <2>3. fills' = [vote |-> fills'["vote"], dapp |-> fills'["dapp"]]
    BY <2>2
  <2>4. QED
    BY <2>2, <2>3 DEF Timers
<1>4. unpaid' \in [Candidates -> Nat] /\ blocks' = SumOver(unpaid', Candidates)
  <2>1. CASE p \notin Registered(VotingTables)
    BY <1>1, <1>2, <2>1
  <2>2. CASE p \in Registered(VotingTables)
    <3>1. p \in Candidates /\ unpaid' = [unpaid EXCEPT ![p] = unpaid[p] + 1] /\ blocks' = blocks + 1
      BY <1>2, <2>2 DEF Registered
    <3>2. unpaid' \in [Candidates -> Nat]
      BY <1>1, <3>1
    <3>3. /\ \A q \in Candidates : unpaid[q] \in Int /\ unpaid'[q] \in Int
          /\ \A q \in Candidates \ {p} : unpaid[q] = unpaid'[q]
          /\ unpaid'[p] = unpaid[p] + 1
      BY <1>1, <3>1, <3>2
    <3>4. SumOver(unpaid', Candidates) = SumOver(unpaid, Candidates) + unpaid'[p] - unpaid[p]
      <4>1. p \in Candidates
        BY <3>1
      <4>2. QED
        BY <3>3, <4>1, CandidatesFinite, SumOverChange
    <3>5. SumOver(unpaid, Candidates) \in Int
      BY <3>3, CandidatesFinite, SumOverType
    <3>6. QED
      BY <1>1, <3>1, <3>2, <3>3, <3>4, <3>5
  <2>3. QED
    BY <2>1, <2>2
<1>5. schedule' \in Schedule
  <2>1. Elected \subseteq Candidates /\ Cardinality(Elected) \in Nat
    <3>1. Elected \subseteq Candidates
      BY DEF Elected, Registered
    <3>2. QED
      BY <3>1, CandidatesFinite, FS_Subset, FS_CardinalityType
  <2>2. [at |-> now, size |-> Cardinality(Elected), proposed |-> Elected] \in Schedule
    BY <2>1 DEF Schedule
  <2>3. [schedule EXCEPT !.at = now] \in Schedule
    BY <1>1 DEF Schedule
  <2>4. QED
    BY <1>1, <1>2, <2>2, <2>3 DEF UpdateSchedule
<1>6. QED
  BY <1>1, <1>2, <1>3, <1>4, <1>5 DEF PayInv

\* The new tokens are shared out before anybody is paid.
LEMMA SharedFirst ==
  ASSUME PayInv, now \in Nat, NEW timer \in {"vote", "dapp"}, CanShare(timer)
  PROVE  /\ Covers(SharedBuckets(NewTokens(timer)), SharedVaults(NewTokens(timer)), overdrawn)
         /\ SetTimer(timer) \in Timers
         /\ issued + NewTokens(timer) \in Nat
<1>1. fills \in [vote : Nat, dapp : Nat] /\ issued \in Nat /\ Covers(buckets, vaults, overdrawn)
  BY DEF PayInv, Timers
<1>2. NewTokens(timer) \in Nat /\ SetTimer(timer) \in [vote : Nat, dapp : Nat]
  BY <1>1, NewTokensType
<1>3. Covers(SharedBuckets(NewTokens(timer)), SharedVaults(NewTokens(timer)), overdrawn)
  BY <1>1, SharedCovers
<1>4. QED
  BY <1>1, <1>2, <1>3 DEF Timers

LEMMA ClaimVoterPays ==
  ASSUME PayInv, VotingInv, NEW a \in Accounts, ClaimVoterReward(a)
  PROVE  PayInv'
<1> DEFINE filled  == SharedBuckets(NewTokens("vote"))
           held_   == SharedVaults(NewTokens("vote"))
           product == Wrapped(voters[a].unpaid * filled.vote)
           reward  == product \div gstate.unpaid
<1>1. /\ CanShare("vote") /\ voters[a] # NoRow /\ gstate.unpaid # 0 /\ reward <= held_.vpay
      /\ buckets' = [filled EXCEPT !.vote = filled.vote - reward]
      /\ vaults' = [held_ EXCEPT !.vpay = held_.vpay - reward]
      /\ fills' = SetTimer("vote") /\ issued' = issued + NewTokens("vote")
      /\ UNCHANGED <<unpaid, blocks, voteperiod, schedule, overdrawn>>
  BY DEF ClaimVoterReward
<1>2. voters[a] \in VoterRow /\ gstate \in GState /\ now \in Nat
  <2>1. TablesInv(VotingTables) /\ now \in Nat /\ VotingTables.voters = voters
        /\ VotingTables.gstate = gstate
    BY InvOfTables
  <2>2. QED
    BY <1>1, <2>1, TablesHave DEF TablesInv
<1>3. Covers(filled, held_, overdrawn) /\ fills' \in Timers /\ issued' \in Nat
  BY <1>1, <1>2, SharedFirst
<1>4. reward \in Int
  <2>1. filled.vote \in Int /\ voters[a].unpaid \in Int /\ gstate.unpaid \in Nat \ {0}
    BY <1>1, <1>2, <1>3, RowType DEF Covers, BucketNames, GState
  <2> DEFINE x == voters[a].unpaid * filled.vote
  <2>2. x \in Int
    BY <2>1
  <2> HIDE DEF x
  <2>3. Wrapped(x) \in Int
    BY <2>2, PayAssumption DEF Wrapped
  <2>4. product \in Int
    BY <2>3 DEF x
  <2> HIDE DEF product
  <2>5. QED
    BY <2>1, <2>4
<1> HIDE DEF filled, held_, reward
<1>5. Covers(buckets', vaults', overdrawn)
  BY <1>1, <1>3, <1>4, VoterPaidCovers
<1>6. QED
  BY <1>1, <1>3, <1>5 DEF PayInv

\* Paying a reward out of a bucket of dapps takes it from bucket and account alike.
LEMMA PayDappPays ==
  ASSUME PayInv, now \in Nat, NEW b \in {"transfers", "users"}, NEW reward \in Int,
         PayDapp(b, reward)
  PROVE  PayInv'
<1> DEFINE filled == SharedBuckets(NewTokens("dapp"))
           held_  == SharedVaults(NewTokens("dapp"))
<1>1. /\ CanShare("dapp") /\ reward <= held_.dpay
      /\ buckets' = [filled EXCEPT ![b] = filled[b] - reward]
      /\ vaults' = [held_ EXCEPT !.dpay = held_.dpay - reward]
      /\ fills' = SetTimer("dapp") /\ issued' = issued + NewTokens("dapp")
      /\ overdrawn' = (overdrawn \/ filled[b] < reward)
      /\ UNCHANGED <<unpaid, blocks, voteperiod, schedule>>
  BY DEF PayDapp
<1>2. Covers(filled, held_, overdrawn) /\ fills' \in Timers /\ issued' \in Nat
  BY <1>1, SharedFirst
<1> HIDE DEF filled, held_
<1>3. Covers(buckets', vaults', overdrawn')
  <2> DEFINE o == overdrawn'
  <2>1. /\ reward <= held_.dpay
        /\ Covers(filled, held_, overdrawn) /\ Overpays(filled, b, reward, overdrawn, o)
    BY <1>1, <1>2 DEF Overpays
  <2>2. /\ buckets' = [filled EXCEPT ![b] = filled[b] - reward]
        /\ vaults' = [held_ EXCEPT !.dpay = held_.dpay - reward]
    BY <1>1
  <2> HIDE DEF o
  <2>3. Covers([filled EXCEPT ![b] = filled[b] - reward],
               [held_ EXCEPT !.dpay = held_.dpay - reward], o)
    BY <2>1, DappPaidCovers
  <2>4. QED
    BY <2>2, <2>3 DEF o
<1>4. QED
  BY <1>1, <1>2, <1>3 DEF PayInv

LEMMA ClaimDappPays ==
  ASSUME PayInv, DappInv, now \in Nat, NEW owner, NEW d \in Dapps, ClaimDappReward(owner, d)
  PROVE  PayInv'
<1> DEFINE filled == SharedBuckets(NewTokens("dapp"))
           bucket == filled[BucketOf(d)]
           reward == DappReward(d, bucket)
           users  == Cardinality(dapps[d].users)
<1>1. /\ dapps[d] # NoDapp /\ HasReward(d)
      /\ PayDapp(BucketOf(d), reward)
  BY DEF ClaimDappReward
<1>2. BucketOf(d) \in {"transfers", "users"}
  BY DEF BucketOf
<1>3. bucket \in Int
  <2>1. CanShare("dapp")
    BY <1>1 DEF PayDapp
  <2>2. Covers(filled, SharedVaults(NewTokens("dapp")), overdrawn)
    BY <2>1, SharedFirst
  <2> HIDE DEF filled
  <2>3. QED
    BY <1>2, <2>2 DEF Covers, BucketNames
<1> HIDE DEF filled, bucket, users
<1>4. /\ dapps[d].volume \in Nat /\ users \in Nat /\ config.rate \in Nat
      /\ config.transactions \in Nat \ {0} /\ config.users \in Nat
      /\ dapps[d].preference # "TokenCirculation" => config.users \in Nat \ {0}
  <2>1. dapps[d] \in DappRow /\ config \in [transactions : Nat, users : Nat, rate : Nat, period : Nat]
    BY <1>1 DEF DappInv, DappTypeOK
  <2>2. dapps[d].users \subseteq Senders /\ dapps[d].preference \in Preferences
    BY <2>1 DEF DappRow
  <2>3. users \in Nat
    BY <2>2, DappAssumption, FS_Subset, FS_CardinalityType DEF users
  <2>4. QED
    BY <1>1, <2>1, <2>2, <2>3 DEF DappRow, HasReward, Preferences
<1>5. /\ config.rate * dapps[d].volume * bucket \in Int
      /\ config.rate * users * bucket \in Int
      /\ RateUnit * config.transactions \in Nat \ {0}
      /\ dapps[d].preference # "TokenCirculation" => RateUnit * config.users \in Nat \ {0}
  <2>1. /\ config.rate * dapps[d].volume * bucket \in Int
        /\ config.rate * users * bucket \in Int
    BY <1>3, <1>4
  <2>2. RateUnit \in Nat \ {0}
    BY DappAssumption
  <2>3. \A x \in Nat \ {0} : RateUnit * x \in Nat \ {0}
    BY <2>2
  <2>4. QED
    BY <1>4, <2>1, <2>3
<1>6. reward \in Int
  BY <1>5 DEF DappReward, users
<1> HIDE DEF reward
<1>7. QED
  BY <1>1, <1>2, <1>6, PayDappPays
-----------------------------------------------------------------------------
(* What a producer is paid                                                 *)

LEMMA LeastType ==
  ASSUME NEW i \in Int, NEW j \in Int
  PROVE  /\ Least(i, j) \in Int /\ Least(i, j) <= i /\ Least(i, j) <= j
         /\ i \in Nat /\ j \in Nat => Least(i, j) \in Nat
BY DEF Least

\* The pay of an oracle is not below zero once the punishment is taken from it, and neither is
\* what is left of the punishment.
LEMMA PunishmentType ==
  ASSUME NEW row \in OracleRow, NEW earned \in Nat
  PROVE  /\ Punishment(row) \in Nat
         /\ earned - Least(earned, Punishment(row)) \in Nat
         /\ LeftAfter(row, earned) \in Nat
<1>1. Punishment(row) \in Nat
  <2>1. row.failed \in Nat /\ row.punishment \in Nat /\ PunishmentRate \in Nat
    BY CountersAre, PayAssumption DEF OracleRow
  <2>2. row.failed * PunishmentRate \in Nat
    BY <2>1, TimesNat
  <2>3. QED
    BY <2>1, <2>2 DEF Punishment
<1> DEFINE due == Punishment(row)
<1> HIDE DEF due
<1>2. due \in Nat
  BY <1>1 DEF due
<1>3. Least(earned, due) \in Nat /\ Least(earned, due) <= earned /\ Least(earned, due) <= due
  BY <1>2, LeastType
<1>4. earned - Least(earned, due) \in Nat /\ due - Least(earned, due) \in Nat
  BY <1>2, <1>3
<1>5. QED
  BY <1>1, <1>4 DEF LeftAfter, due

LEMMA LeftType ==
  ASSUME NEW row \in OracleRow, NEW earned \in Nat, NEW produced \in Int
  PROVE  /\ produced - Least(produced, LeftAfter(row, earned)) \in Int
         /\ LeftAfterBoth(row, earned, produced) \in Nat
<1> DEFINE left == LeftAfter(row, earned)
<1>1. left \in Nat
  BY PunishmentType
<1>2. LeftAfterBoth(row, earned, produced) = left - Least(produced, left)
  BY DEF LeftAfterBoth
<1> HIDE DEF left
<1>3. Least(produced, left) \in Int /\ Least(produced, left) <= left
  BY <1>1, LeastType
<1>4. left - Least(produced, left) \in Nat /\ produced - Least(produced, left) \in Int
  BY <1>1, <1>3
<1>5. QED
  BY <1>2, <1>4 DEF left

LEMMA OraclePayType ==
  ASSUME NEW row \in OracleRow, NEW bucket \in Int, successes \in Counters
  PROVE  OraclePay(row, bucket) \in Nat
<1>1. successes \in Nat /\ row.successful \in Nat /\ Word \in Nat \ {0}
  BY CountersAre, OracleAssumption DEF OracleRow
<1> DEFINE x == bucket * row.successful
<1>2. x \in Int
  BY <1>1
<1>3. OraclePay(row, bucket) = IF successes > 0 THEN (x % Word) \div successes ELSE 0
  BY DEF OraclePay
<1> HIDE DEF x
<1>4. x % Word \in Nat
  BY <1>1, <1>2
<1> DEFINE y == x % Word
<1>5. y \in Nat
  BY <1>4
<1> HIDE DEF y
<1>6. successes > 0 => y \div successes \in Nat
  BY <1>1, <1>5
<1>7. QED
  BY <1>3, <1>6 DEF y

LEMMA WitnessPayType ==
  ASSUME NEW share \in Nat, NEW total \in Int, NEW bucket \in Int
  PROVE  WitnessPay(share, total, bucket) \in Int
<1> DEFINE x == share * bucket
<1>1. x \in Int
  OBVIOUS
<1>2. WitnessPay(share, total, bucket) = IF total > 0 THEN Least(x \div total, bucket) ELSE 0
  BY DEF WitnessPay
<1> HIDE DEF x
<1>3. ASSUME total > 0 PROVE Least(x \div total, bucket) \in Int
  <2>1. x \div total \in Int
    BY <1>1, <1>3
  <2> DEFINE y == x \div total
  <2> HIDE DEF y
  <2>2. y \in Int
    BY <2>1 DEF y
  <2>3. Least(y, bucket) \in Int
    BY <2>2, LeastType
  <2>4. QED
    BY <2>3 DEF y
<1>4. QED
  BY <1>2, <1>3

\* A row of an oracle, with its successes, its failures and its punishment set.
Cleared(row, a, b, c) == [row EXCEPT !.successful = a, !.failed = b, !.punishment = c]

LEMMA ClearedType ==
  ASSUME NEW row \in OracleRow, NEW a \in Counters, NEW b \in Counters, NEW c \in Nat
  PROVE  /\ Cleared(row, a, b, c) \in OracleRow
         /\ Cleared(row, a, b, c).account = row.account
         /\ Cleared(row, a, b, c).pending = row.pending
         /\ Cleared(row, a, b, c).successful = a
BY DEF OracleRow, Cleared

LEMMA PunishedType ==
  ASSUME NEW row \in OracleRow, NEW left \in Nat
  PROVE  /\ Punished(row, left) \in OracleRow
         /\ Punished(row, left).account = row.account
         /\ Punished(row, left).pending = row.pending
         /\ Punished(row, left).successful = 0
<1> DEFINE c == row.punishment + left
<1>1. Punished(row, left) = Cleared(row, 0, 0, c)
  BY DEF Punished, Cleared
<1>2. 0 \in Counters /\ c \in Nat
  <2>1. 0 \in Counters
    BY OracleAssumption DEF Counters
  <2>2. row.punishment \in Nat
    BY DEF OracleRow
  <2>3. QED
    BY <2>1, <2>2
<1> HIDE DEF c
<1>3. QED
  BY <1>1, <1>2, ClearedType

\* What claimrewards pays a producer.
LEMMA ClaimRewardsPays ==
  ASSUME PayInv, VotingInv, OracleInv, NEW p \in Candidates, ClaimRewards(p)
  PROVE  PayInv'
<1> DEFINE row      == producers[p]
           shares   == IF ClaimsAsWitness(p) THEN 1 ELSE 0
           changed  == UpdateWitnesspay(row, shares)
           witness  == changed.wshare
           grown    == UpdateTotalWitnesspay(gstate, 0, 0)
           filled   == SharedBuckets(NewTokens("vote"))
           held_    == SharedVaults(NewTokens("vote"))
           oracle   == oracles[p]
           earned   == IF oracle = NoRow THEN 0 ELSE OraclePay(oracle, filled.oracle)
           produced == IF blocks > 0 THEN (filled.block * unpaid[p]) \div blocks ELSE 0
           blockpay == IF oracle = NoRow THEN produced
                       ELSE produced - Least(produced, LeftAfter(oracle, earned))
           reward   == IF oracle = NoRow THEN 0 ELSE earned - Least(earned, Punishment(oracle))
           wpay     == WitnessPay(witness, grown.wtotal, filled.witness)
<1>1. /\ p \in Registered(VotingTables) /\ CanShare("vote")
      /\ blockpay <= held_.bpay /\ wpay <= held_.wpay /\ reward <= held_.oracle
      /\ buckets' = [filled EXCEPT !.block = filled.block - blockpay,
                                   !.witness = filled.witness - wpay,
                                   !.oracle = filled.oracle - reward]
      /\ vaults' = [held_ EXCEPT !.bpay = held_.bpay - blockpay,
                                 !.wpay = held_.wpay - wpay,
                                 !.oracle = held_.oracle - reward]
      /\ fills' = SetTimer("vote") /\ issued' = issued + NewTokens("vote")
      /\ blocks' = blocks - unpaid[p] /\ unpaid' = [unpaid EXCEPT ![p] = 0]
      /\ UNCHANGED <<voteperiod, schedule, overdrawn>>
  BY DEF ClaimRewards
<1>2. /\ now \in Nat /\ gstate \in GState /\ gstate.wat <= now /\ row \in ProducerRow
      /\ row # NoRow /\ Dated(row)
  <2> DEFINE t == VotingTables
  <2>1. TablesInv(t) /\ now \in Nat /\ t.producers = producers /\ t.gstate = gstate
    BY InvOfTables
  <2>2. t \in Tables /\ TimesOK(t) /\ row # NoRow
    BY <1>1, <2>1 DEF TablesInv, Registered
  <2> HIDE DEF t
  <2>3. QED
    BY <2>1, <2>2, TablesHave DEF TimesOK
<1>3. /\ unpaid \in [Candidates -> Nat] /\ blocks = SumOver(unpaid, Candidates)
      /\ voteperiod \in Nat /\ schedule \in Schedule
  BY DEF PayInv
<1>4. Covers(filled, held_, overdrawn) /\ fills' \in Timers /\ issued' \in Nat
  BY <1>1, <1>2, SharedFirst
<1>5. filled.block \in Int /\ filled.witness \in Int /\ filled.oracle \in Int
  BY <1>4 DEF Covers, BucketNames
<1>6. witness \in Nat /\ grown.wtotal \in Int
  <2>1. changed \in ProducerRow
    <3> HIDE DEF row
    <3>1. shares \in {0, 1}
      OBVIOUS
    <3> HIDE DEF shares
    <3>2. QED
      BY <1>2, <3>1, WitnesspayType
  <2> HIDE DEF changed
  <2>2. grown \in GState
    BY <1>2, TotalWitnesspayType
  <2> HIDE DEF grown
  <2>3. QED
    BY <2>1, <2>2 DEF ProducerRow, GState
<1> HIDE DEF filled, held_, changed, grown
<1>7. wpay \in Int
  <2> DEFINE total  == grown.wtotal
             bucket == filled.witness
  <2>1. witness \in Nat /\ total \in Int /\ bucket \in Int
    BY <1>5, <1>6
  <2> HIDE DEF witness, total, bucket
  <2>2. WitnessPay(witness, total, bucket) \in Int
    BY <2>1, WitnessPayType
  <2>3. QED
    BY <2>2 DEF total, bucket
<1>8. produced \in Int
  <2>1. blocks \in Nat /\ unpaid[p] \in Nat
    BY <1>3, CandidatesFinite, SumOverNat
  <2> DEFINE x == filled.block * unpaid[p]
  <2>2. x \in Int
    BY <1>5, <2>1
  <2> HIDE DEF x
  <2>3. blocks > 0 => x \div blocks \in Int
    BY <2>1, <2>2
  <2>4. QED
    BY <2>3 DEF x
<1> HIDE DEF produced
<1>9. oracle # NoRow => /\ earned \in Nat
                        /\ earned - Least(earned, Punishment(oracle)) \in Nat
                        /\ produced - Least(produced, LeftAfter(oracle, earned)) \in Int
  <2> SUFFICES ASSUME oracle # NoRow
               PROVE  /\ earned \in Nat
                      /\ earned - Least(earned, Punishment(oracle)) \in Nat
                      /\ produced - Least(produced, LeftAfter(oracle, earned)) \in Int
    OBVIOUS
  <2>1. oracle \in OracleRow /\ successes \in Counters
    BY DEF OracleInv, OracleOK, OracleTable
  <2> HIDE DEF oracle
  <2> DEFINE bucket == filled.oracle
  <2>2. earned = OraclePay(oracle, bucket) /\ bucket \in Int
    BY <1>5
  <2> HIDE DEF bucket
  <2>3. OraclePay(oracle, bucket) \in Nat
    BY <2>1, <2>2, OraclePayType
  <2>4. earned \in Nat
    BY <2>2, <2>3
  <2> HIDE DEF earned
  <2>5. QED
    BY <1>8, <2>1, <2>4, PunishmentType, LeftType
<1> HIDE DEF oracle, earned
<1>10. blockpay \in Int /\ reward \in Nat
  BY <1>8, <1>9
<1> HIDE DEF blockpay, reward, wpay
<1>11. Covers(buckets', vaults', overdrawn)
  <2>1. /\ Covers(filled, held_, overdrawn) /\ blockpay \in Int /\ wpay \in Int /\ reward \in Nat
        /\ blockpay <= held_.bpay /\ wpay <= held_.wpay /\ reward <= held_.oracle
    BY <1>1, <1>4, <1>7, <1>10
  <2> DEFINE b == [filled EXCEPT !.block = filled.block - blockpay,
                                !.witness = filled.witness - wpay,
                                !.oracle = filled.oracle - reward]
             v == [held_ EXCEPT !.bpay = held_.bpay - blockpay, !.wpay = held_.wpay - wpay,
                                !.oracle = held_.oracle - reward]
  <2>2. buckets' = b /\ vaults' = v
    BY <1>1
  <2>3. Covers(b, v, overdrawn)
    BY <2>1, ProducerPaidCovers
  <2> HIDE DEF b, v
  <2>4. QED
    BY <2>2, <2>3
<1>12. unpaid' \in [Candidates -> Nat] /\ blocks' = SumOver(unpaid', Candidates)
  <2>1. /\ \A q \in Candidates : unpaid[q] \in Int /\ unpaid'[q] \in Int
        /\ \A q \in Candidates \ {p} : unpaid[q] = unpaid'[q]
        /\ unpaid'[p] = 0 /\ unpaid' \in [Candidates -> Nat]
    BY <1>1, <1>3
  <2>2. SumOver(unpaid', Candidates) = SumOver(unpaid, Candidates) + unpaid'[p] - unpaid[p]
    BY <2>1, CandidatesFinite, SumOverChange
  <2>3. SumOver(unpaid, Candidates) \in Int
    BY <2>1, CandidatesFinite, SumOverType
  <2>4. QED
    BY <1>1, <1>3, <2>1, <2>2, <2>3
<1>13. QED
  BY <1>1, <1>3, <1>4, <1>11, <1>12 DEF PayInv

\* What it does to the counters of the producer's oracle.
LEMMA ClaimRewardsCounts ==
  ASSUME PayInv, VotingInv, OracleInv, NEW p \in Candidates, ClaimRewards(p)
  PROVE  OracleInv'
<1> DEFINE oracle   == oracles[p]
           filled   == SharedBuckets(NewTokens("vote"))
           earned   == IF oracle = NoRow THEN 0 ELSE OraclePay(oracle, filled.oracle)
           produced == IF blocks > 0 THEN (filled.block * unpaid[p]) \div blocks ELSE 0
           left     == LeftAfterBoth(oracle, earned, produced)
           new      == Punished(oracle, left)
<1>1. /\ CanShare("vote") /\ UNCHANGED <<requests, lost, tangled>>
      /\ oracle = NoRow => UNCHANGED <<oracles, successes>>
      /\ oracle # NoRow => /\ oracles' = [oracles EXCEPT ![p] = new]
                           /\ successes' = successes - oracle.successful
  BY DEF ClaimRewards
<1>2. CASE oracle = NoRow
  BY <1>1, <1>2 DEF OracleInv
<1>3. CASE oracle # NoRow
  <2>1. oracle \in OracleRow /\ successes \in Counters
    BY <1>3 DEF OracleInv, OracleOK, OracleTable
  <2>2. filled.block \in Int /\ filled.oracle \in Int
    <3>1. now \in Nat
      BY InvOfTables
    <3>2. Covers(filled, SharedVaults(NewTokens("vote")), overdrawn)
      BY <1>1, <3>1, SharedFirst
    <3> HIDE DEF filled
    <3>3. QED
      BY <3>2 DEF Covers, BucketNames
  <2> HIDE DEF filled
  <2>3. produced \in Int
    <3>1. blocks \in Nat /\ unpaid[p] \in Nat
      BY CandidatesFinite, SumOverNat DEF PayInv
    <3> DEFINE x == filled.block * unpaid[p]
    <3>2. x \in Int
      BY <2>2, <3>1
    <3> HIDE DEF x
    <3>3. blocks > 0 => x \div blocks \in Int
      BY <3>1, <3>2
    <3>4. QED
      BY <3>3 DEF x
  <2> HIDE DEF produced
  <2>4. earned \in Nat
    <3> DEFINE bucket == filled.oracle
    <3>1. earned = OraclePay(oracle, bucket) /\ bucket \in Int
      BY <1>3, <2>2
    <3> HIDE DEF bucket, oracle
    <3>2. OraclePay(oracle, bucket) \in Nat
      BY <2>1, <3>1, OraclePayType
    <3>3. QED
      BY <3>1, <3>2
  <2> HIDE DEF oracle, earned
  <2>5. left \in Nat
    BY <2>1, <2>3, <2>4, LeftType
  <2> HIDE DEF left
  <2>6. /\ new \in OracleRow /\ new.account = oracle.account /\ new.pending = oracle.pending
        /\ new.successful = 0
    BY <2>1, <2>5, PunishedType
  <2> HIDE DEF new
  <2>7. OracleOK([oracles EXCEPT ![p] = new], requests, successes - oracles[p].successful, lost,
                 tangled)
    <3>1. /\ OracleOK(oracles, requests, successes, lost, tangled) /\ oracles[p] # NoRow
          /\ new.account = oracles[p].account /\ new.pending = oracles[p].pending
      BY <1>3, <2>6 DEF OracleInv, oracle
    <3>2. QED
      BY <2>6, <3>1, ClaimKeeps
  <2>8. QED
    BY <1>1, <1>3, <2>7 DEF OracleInv, oracle
<1>4. QED
  BY <1>2, <1>3
-----------------------------------------------------------------------------
(* The whole                                                               *)

\* Everything that the steps of the parts leave as it should be.
SysInv ==
    /\ VotesInv
    /\ OracleInv
    /\ DappInv
    /\ AuctionInv
    /\ PayInv
    /\ RamInv

LEMMA SysInit ==
  ASSUME SystemInit
  PROVE  SysInv
<1>1. VotingInit /\ OracleInit /\ DappInit /\ AuctionInit /\ PayInit /\ RamInit
  BY DEF SystemInit
<1>2. VotesInv
  <2>1. VotingInv /\ UnpaidAgrees(VotingTables) /\ TallyInv(VotingTables)
    BY <1>1, InitKeeps, InitUnpaid, InitTally
  <2>2. SharesInv(VotingTables, gone + 0)
    BY <1>1, InitShares
  <2>3. QED
    BY <2>1, <2>2 DEF VotesInv, SharesInv
<1>3. OracleInv /\ PayInv
  BY <1>1, OracleInitOK, PayInitOK
<1>4. DappInv /\ AuctionInv /\ RamInv
  BY <1>1, DappInvariantInit, AuctionInvariantInit, RamInvariantInit
<1>5. QED
  BY <1>2, <1>3, <1>4 DEF SysInv

\* Votes.
LEMMA VotesKept ==
  ASSUME VotesInv, [VotingNext]_votingVars
  PROVE  VotesInv'
<1>1. /\ VotingInv /\ UnpaidAgrees(VotingTables) /\ TallyInv(VotingTables)
      /\ VotepayInv(VotingTables)
  BY DEF VotesInv
<1>2. VotingInv' /\ UnpaidAgrees(VotingTables)' /\ TallyInv(VotingTables)'
  BY <1>1, StepKeeps, UnpaidStep, TallyStep
<1>3. SharesInv(VotingTables, gone + 1)
  <2>1. gone + 1 # 0
    BY <1>1, InvOfTables, VotingBoundsAssumption
  <2>2. QED
    BY <1>1, <2>1 DEF SharesInv
<1>4. SharesInv(VotingTables, gone + 1)'
  BY <1>1, <1>3, SharesStep
<1>5. QED
  BY <1>2, <1>4 DEF VotesInv, SharesInv

\* Each part stays as it is where a step leaves its variables alone.
LEMMA VotesSame ==
  ASSUME VotesInv, UNCHANGED votingVars
  PROVE  VotesInv'
BY VotesKept

LEMMA PaySame ==
  ASSUME PayInv, UNCHANGED payVars
  PROVE  PayInv'
BY DEF PayInv, payVars, Covers, Timers, Schedule

LEMMA AuctionSame ==
  ASSUME AuctionInv, UNCHANGED auctionVars
  PROVE  AuctionInv'
BY AuctionInvariantStep

LEMMA DappSame ==
  ASSUME DappInv, UNCHANGED dappVars
  PROVE  DappInv'
BY DappInvariantStep

LEMMA RamSame ==
  ASSUME RamInv, UNCHANGED ramVars
  PROVE  RamInv'
BY RamInvariantStep

LEMMA OracleSame ==
  ASSUME OracleInv, now \in Nat, UNCHANGED oracleVars
  PROVE  OracleInv'
BY OracleStepKeeps

LEMMA Clock ==
  ASSUME VotesInv
  PROVE  now \in Nat /\ gstate.thresh \in Nat
<1>1. TablesInv(VotingTables) /\ now \in Nat /\ VotingTables.gstate = gstate
  BY InvOfTables DEF VotesInv
<1>2. gstate \in GState
  BY <1>1, TablesHave DEF TablesInv
<1>3. QED
  BY <1>1, <1>2 DEF GState

LEMMA OnBlockKeeps ==
  ASSUME SysInv, NEW p \in Candidates \cup {None}, NEW accepted \in BOOLEAN,
         OnBlock(p, accepted), UNCHANGED ramVars
  PROVE  SysInv'
<1>1. /\ VotesInv /\ OracleInv /\ DappInv /\ AuctionInv
      /\ PayInv /\ RamInv
  BY DEF SysInv
<1>2. now \in Nat /\ gstate.thresh \in Nat
  BY <1>1, Clock
<1>3. /\ UNCHANGED <<votingVars, oracleVars, dappVars>>
      /\ CloseHighest(now, gstate.thresh) \/ UNCHANGED auctionVars
  BY DEF OnBlock, votingVars, oracleVars, dappVars
<1>4. VotesInv' /\ OracleInv' /\ DappInv' /\ RamInv'
  <2>1. UNCHANGED votingVars /\ UNCHANGED oracleVars /\ UNCHANGED dappVars
    BY <1>3
  <2>2. VotesInv'
    BY <1>1, <2>1, VotesSame
  <2>3. OracleInv' /\ DappInv' /\ RamInv'
    BY <1>1, <1>2, <2>1, OracleSame, DappSame, RamSame
  <2>4. QED
    BY <2>2, <2>3
<1>5. AuctionInv'
  <2>1. CASE UNCHANGED auctionVars
    BY <1>1, <2>1, AuctionSame
  <2>2. CASE CloseHighest(now, gstate.thresh)
    <3>1. \E time, activated \in Nat : AuctionNext(time) \/ CloseHighest(time, activated)
      BY <1>2, <2>2
    <3>2. QED
      BY <1>1, <3>1, AuctionInvariantStep
  <2>3. QED
    BY <1>3, <2>1, <2>2
<1>6. PayInv'
  BY <1>1, <1>2, OnBlockPays DEF VotesInv
<1>7. QED
  BY <1>1, <1>4, <1>5, <1>6 DEF SysInv

LEMMA ClaimRewardsAll ==
  ASSUME SysInv, NEW p \in Candidates, ClaimRewards(p), UNCHANGED ramVars
  PROVE  SysInv'
<1>1. /\ VotesInv /\ OracleInv /\ DappInv /\ AuctionInv
      /\ PayInv /\ RamInv
  BY DEF SysInv
<1>2. UNCHANGED dappVars /\ UNCHANGED auctionVars
  BY DEF ClaimRewards, dappVars, auctionVars
<1>3. VotesInv'
  BY <1>1, ClaimRewardsKeeps
<1>4. OracleInv' /\ PayInv'
  BY <1>1, ClaimRewardsPays, ClaimRewardsCounts DEF VotesInv
<1>5. DappInv' /\ AuctionInv' /\ RamInv'
  BY <1>1, <1>2, DappSame, AuctionSame, RamSame
<1>6. QED
  BY <1>3, <1>4, <1>5 DEF SysInv

LEMMA ClaimVoterAll ==
  ASSUME SysInv, NEW a \in Accounts, ClaimVoterReward(a), UNCHANGED ramVars
  PROVE  SysInv'
<1>1. /\ VotesInv /\ OracleInv /\ DappInv /\ AuctionInv
      /\ PayInv /\ RamInv /\ now \in Nat
  BY Clock DEF SysInv
<1>2. UNCHANGED oracleVars /\ UNCHANGED dappVars /\ UNCHANGED auctionVars
  BY DEF ClaimVoterReward, oracleVars, dappVars, auctionVars
<1>3. VotesInv'
  BY <1>1, ClaimVoterKeeps
<1>4. PayInv'
  BY <1>1, ClaimVoterPays DEF VotesInv
<1>5. OracleInv' /\ DappInv' /\ AuctionInv' /\ RamInv'
  BY <1>1, <1>2, OracleSame, DappSame, AuctionSame, RamSame
<1>6. QED
  BY <1>3, <1>4, <1>5 DEF SysInv

LEMMA ClaimDappAll ==
  ASSUME SysInv, NEW owner \in DappAccounts, NEW d \in Dapps, ClaimDappReward(owner, d),
         UNCHANGED ramVars
  PROVE  SysInv'
<1>1. /\ VotesInv /\ OracleInv /\ DappInv /\ AuctionInv
      /\ PayInv /\ RamInv /\ now \in Nat
  BY Clock DEF SysInv
<1>2. /\ ClaimDapp(owner, d, now)
      /\ UNCHANGED votingVars /\ UNCHANGED oracleVars /\ UNCHANGED auctionVars
  BY DEF ClaimDappReward, PayDapp, votingVars, oracleVars, auctionVars
<1>3. VotesInv'
  BY <1>1, <1>2, VotesSame
<1>4. DappInv'
  <2>1. \E time \in Nat : DappNext(time)
    BY <1>1, <1>2 DEF DappNext
  <2>2. QED
    BY <1>1, <2>1, DappInvariantStep
<1>5. PayInv'
  BY <1>1, ClaimDappPays
<1>6. OracleInv' /\ AuctionInv' /\ RamInv'
  BY <1>1, <1>2, OracleSame, AuctionSame, RamSame
<1>7. QED
  BY <1>3, <1>4, <1>5, <1>6 DEF SysInv

LEMMA ClaimDappElsewhereAll ==
  ASSUME SysInv, NEW b \in {"transfers", "users"}, NEW reward \in OtherRewards,
         ClaimDappRewardElsewhere(b, reward), UNCHANGED ramVars
  PROVE  SysInv'
<1>1. /\ VotesInv /\ OracleInv /\ DappInv /\ AuctionInv
      /\ PayInv /\ RamInv /\ now \in Nat
  BY Clock DEF SysInv
<1>2. /\ PayDapp(b, reward) /\ UNCHANGED dappVars
      /\ UNCHANGED votingVars /\ UNCHANGED oracleVars /\ UNCHANGED auctionVars
  BY DEF ClaimDappRewardElsewhere, PayDapp, votingVars, oracleVars, auctionVars
<1>3. VotesInv'
  BY <1>1, <1>2, VotesSame
<1>4. PayInv'
  <2>1. reward \in Int
    BY PayAssumption
  <2>2. QED
    BY <1>1, <1>2, <2>1, PayDappPays
<1>5. OracleInv' /\ DappInv' /\ AuctionInv' /\ RamInv'
  BY <1>1, <1>2, OracleSame, DappSame, AuctionSame, RamSame
<1>6. QED
  BY <1>3, <1>4, <1>5 DEF SysInv

LEMMA SetPeriodAll ==
  ASSUME SysInv, NEW period \in VotePeriods, SetVoteClaimPeriod(period), UNCHANGED ramVars
  PROVE  SysInv'
<1>1. /\ VotesInv /\ OracleInv /\ DappInv /\ AuctionInv
      /\ PayInv /\ RamInv /\ now \in Nat
  BY Clock DEF SysInv
<1>2. UNCHANGED votingVars /\ UNCHANGED oracleVars /\ UNCHANGED dappVars /\ UNCHANGED auctionVars
  BY DEF SetVoteClaimPeriod, votingVars, oracleVars, dappVars, auctionVars
<1>3. VotesInv'
  BY <1>1, <1>2, VotesSame
<1>4. PayInv'
  <2>1. period \in Nat
    BY PayAssumption
  <2>2. QED
    BY <1>1, <2>1 DEF PayInv, SetVoteClaimPeriod, Covers, Timers, Schedule
<1>5. OracleInv' /\ DappInv' /\ AuctionInv' /\ RamInv'
  BY <1>1, <1>2, OracleSame, DappSame, AuctionSame, RamSame
<1>6. QED
  BY <1>3, <1>4, <1>5 DEF SysInv

\* A step of one part leaves the others alone.
LEMMA SysKeeps ==
  ASSUME SysInv, [SystemNext]_systemVars
  PROVE  SysInv'
<1>1. /\ VotesInv /\ OracleInv /\ DappInv /\ AuctionInv
      /\ PayInv /\ RamInv /\ now \in Nat
  BY Clock DEF SysInv
<1>2. ASSUME UNCHANGED oracleVars \/ OracleNext, UNCHANGED dappVars \/ DappNext(now),
             UNCHANGED auctionVars \/ AuctionNext(now), UNCHANGED ramVars \/ RamNext(now),
             UNCHANGED payVars, [VotingNext]_votingVars
      PROVE  SysInv'
  <2>1. VotesInv'
    BY <1>1, <1>2, VotesKept
  <2>2. OracleInv'
    BY <1>1, <1>2, OracleStepKeeps
  <2>3. DappInv'
    <3>1. CASE UNCHANGED dappVars
      BY <1>1, <3>1, DappSame
    <3>2. CASE DappNext(now)
      <4>1. \E time \in Nat : DappNext(time)
        BY <1>1, <3>2
      <4>2. QED
        BY <1>1, <4>1, DappInvariantStep
    <3>3. QED
      BY <1>2, <3>1, <3>2
  <2>4. AuctionInv'
    <3>1. CASE UNCHANGED auctionVars
      BY <1>1, <3>1, AuctionSame
    <3>2. CASE AuctionNext(now)
      <4>1. \E time, activated \in Nat : AuctionNext(time) \/ CloseHighest(time, activated)
        BY <1>1, <3>2
      <4>2. QED
        BY <1>1, <4>1, AuctionInvariantStep
    <3>3. QED
      BY <1>2, <3>1, <3>2
  <2>5. RamInv'
    <3>1. CASE UNCHANGED ramVars
      BY <1>1, <3>1, RamSame
    <3>2. CASE RamNext(now)
      <4>1. \E time \in Nat : RamNext(time)
        BY <1>1, <3>2
      <4>2. QED
        BY <1>1, <4>1, RamInvariantStep
    <3>3. QED
      BY <1>2, <3>1, <3>2
  <2>6. PayInv'
    BY <1>1, <1>2, PaySame
  <2>7. QED
    BY <2>1, <2>2, <2>3, <2>4, <2>5, <2>6 DEF SysInv
<1>3. CASE UNCHANGED systemVars
  <2>1. /\ UNCHANGED votingVars /\ UNCHANGED oracleVars /\ UNCHANGED dappVars
        /\ UNCHANGED auctionVars /\ UNCHANGED payVars /\ UNCHANGED ramVars
    BY <1>3 DEF systemVars
  <2>2. QED
    BY <1>2, <2>1
<1>4. CASE VotingStep
  <2>1. /\ VotingNext /\ UNCHANGED oracleVars /\ UNCHANGED dappVars
        /\ UNCHANGED auctionVars /\ UNCHANGED payVars /\ UNCHANGED ramVars
    BY <1>4 DEF VotingStep
  <2>2. QED
    BY <1>2, <2>1
<1>5. CASE OracleStep
  <2>1. /\ OracleNext /\ UNCHANGED votingVars /\ UNCHANGED dappVars
        /\ UNCHANGED auctionVars /\ UNCHANGED payVars /\ UNCHANGED ramVars
    BY <1>5 DEF OracleStep
  <2>2. QED
    BY <1>2, <2>1
<1>6. CASE DappStep
  <2>1. /\ DappNext(now) /\ UNCHANGED votingVars /\ UNCHANGED oracleVars
        /\ UNCHANGED auctionVars /\ UNCHANGED payVars /\ UNCHANGED ramVars
    BY <1>6 DEF DappStep
  <2>2. QED
    BY <1>2, <2>1
<1>7. CASE AuctionStep
  <2>1. /\ AuctionNext(now) /\ UNCHANGED votingVars /\ UNCHANGED oracleVars
        /\ UNCHANGED dappVars /\ UNCHANGED payVars /\ UNCHANGED ramVars
    BY <1>7 DEF AuctionStep
  <2>2. QED
    BY <1>2, <2>1
<1>8. CASE RamStep
  <2>1. /\ RamNext(now) /\ UNCHANGED votingVars /\ UNCHANGED oracleVars
        /\ UNCHANGED dappVars /\ UNCHANGED auctionVars /\ UNCHANGED payVars
    BY <1>8 DEF RamStep
  <2>2. QED
    BY <1>2, <2>1
<1>9. CASE PayStep
  <2>1. PayNext /\ UNCHANGED ramVars
    BY <1>9 DEF PayStep
  <2>2. ASSUME NEW p \in Candidates \cup {None}, NEW accepted \in BOOLEAN, OnBlock(p, accepted)
        PROVE  SysInv'
    BY <2>1, <2>2, OnBlockKeeps
  <2>3. ASSUME NEW p \in Candidates, ClaimRewards(p) PROVE SysInv'
    BY <2>1, <2>3, ClaimRewardsAll
  <2>4. ASSUME NEW a \in Accounts, ClaimVoterReward(a) PROVE SysInv'
    BY <2>1, <2>4, ClaimVoterAll
  <2>5. ASSUME NEW owner \in DappAccounts, NEW d \in Dapps, ClaimDappReward(owner, d)
        PROVE  SysInv'
    BY <2>1, <2>5, ClaimDappAll
  <2>6. ASSUME NEW b \in {"transfers", "users"}, NEW reward \in OtherRewards,
               ClaimDappRewardElsewhere(b, reward)
        PROVE  SysInv'
    BY <2>1, <2>6, ClaimDappElsewhereAll
  <2>7. ASSUME NEW period \in VotePeriods, SetVoteClaimPeriod(period) PROVE SysInv'
    BY <2>1, <2>7, SetPeriodAll
  <2>8. QED
    BY <2>1, <2>2, <2>3, <2>4, <2>5, <2>6, <2>7 DEF PayNext
<1>10. QED
  BY <1>3, <1>4, <1>5, <1>6, <1>7, <1>8, <1>9 DEF SystemNext

LEMMA SysInvHolds == SystemSpec => []SysInv
<1>1. SystemInit => SysInv
  BY SysInit
<1>2. SysInv /\ [SystemNext]_systemVars => SysInv'
  BY SysKeeps
<1>3. QED
  BY <1>1, <1>2, PTL DEF SystemSpec

\* Every part of the system contract has its type however their operations interleave: no
\* account behind a bucket is overdrawn, and no bucket that whole parts are taken of goes
\* below zero.
THEOREM SystemTypeCorrect == SystemSpec => []SystemTypeOK
<1>1. SysInv => SystemTypeOK
  <2> SUFFICES ASSUME SysInv PROVE SystemTypeOK
    OBVIOUS
  <2>1. VotingTypeOK /\ DappTypeOK /\ AuctionTypeOK /\ RamTypeOK
    BY DEF SysInv, VotesInv, VotingInv, DappInv, AuctionInv, RamInv
  <2>2. OracleTypeOK /\ PayTypeOK
    BY OracleInvMeans, PayInvMeans DEF SysInv
  <2>3. QED
    BY <2>1, <2>2 DEF SystemTypeOK
<1>2. QED
  BY <1>1, SysInvHolds, PTL

\* Each bucket of share_inflation is what its account holds, whoever claims first; for the two
\* buckets of dapps, as long as no dapp was paid more than its bucket held.
THEOREM BucketsCoveredCorrect == SystemSpec => []BucketsCovered
<1>1. SysInv => BucketsCovered
  BY PayInvMeans DEF SysInv
<1>2. QED
  BY <1>1, SysInvHolds, PTL

\* The totals that claimrewards, claimvoterwd and claimdapprwd divide by are the sums of what
\* the claimants have.
THEOREM CountersAddUpCorrect == SystemSpec => []CountersAddUp
<1>1. SysInv => CountersAddUp
  <2> SUFFICES ASSUME SysInv PROVE CountersAddUp
    OBVIOUS
  <2>1. blocks = SumOver(unpaid, Candidates)
    BY DEF SysInv, PayInv
  <2>2. gstate.unpaid = SumOver([a \in Accounts |->
                                    IF voters[a] = NoRow THEN 0 ELSE voters[a].unpaid], Accounts)
    BY DEF SysInv, VotesInv, UnpaidAgrees, UnpaidIn, UnpaidOf, VotingTables
  <2>3. SuccessesAddUp
    BY OracleInvMeans DEF SysInv
  <2>4. DappTotals
    BY DEF SysInv, DappInv
  <2>5. QED
    BY <2>1, <2>2, <2>3, <2>4 DEF CountersAddUp
<1>2. QED
  BY <1>1, SysInvHolds, PTL

\* The pending requests of all oracles are the open requests and the replies that found no row
\* of the assigned oracle, however producers rename their oracles, answer and miss.
THEOREM RequestsAccountedCorrect == SystemSpec => []RequestsAccounted
<1>1. SysInv => RequestsAccounted
  BY OracleInvMeans DEF SysInv
<1>2. QED
  BY <1>1, SysInvHolds, PTL

\* What regproxy and voteproducer say of voters, of proxies and of witnesses holds where rewards
\* are claimed too: no cycle of proxies, last_vote_weight is what the voter weighs, and a
\* witness's time fits between its claim and its last update.
THEOREM VotersCorrect == SystemSpec => [](ProxiesEnd /\ VotesFollowStake /\ WitnessTimeOnce)
<1>1. SysInv => ProxiesEnd /\ VotesFollowStake /\ WitnessTimeOnce
  BY DEF SysInv, VotesInv, VotingInv, TimesOK, Dated, WitnessTimeOnce, Registered, VotingTables
<1>2. QED
  BY <1>1, SysInvHolds, PTL

\* Claims of rewards move no weight: what producers, proxies and the chain tally stays what is
\* cast and handed over, however votes and claims interleave.
THEOREM TalliesInWholeCorrect == SystemSpec => []TalliesMatch
<1>1. SysInv => TalliesMatch
  BY TalliesMean DEF SysInv, VotesInv
<1>2. QED
  BY <1>1, SysInvHolds, PTL

\* claimrewards takes from total_producer_votepay_share what the producer had, lapsed or not,
\* and counts its votes again where it comes back: the total is that of the rows after any
\* sequence of votes and claims, so that no share is paid of twice.
THEOREM VotepayInWholeCorrect == SystemSpec => []VotepaySharesAddUp
<1>1. SysInv => VotepaySharesAddUp
  BY VotepayMeans DEF SysInv, VotesInv
<1>2. QED
  BY <1>1, SysInvHolds, PTL

\* What is shown of the name auction and of the RAM market on their own holds of them in the
\* whole, where onblock closes names: eosio.names holds the bids, refunds and proceeds, nobody
\* loses a bid, no RAM is made or lost, and trading never pays for itself.
THEOREM PartsCorrect ==
  SystemSpec => [](NamesCustody /\ BiddersWhole /\ RamConserved /\ RamNoProfit)
<1>1. SysInv => NamesCustody /\ BiddersWhole /\ RamConserved /\ RamNoProfit
  BY NoProfit DEF SysInv, AuctionInv, RamInv
<1>2. QED
  BY <1>1, SysInvHolds, PTL
=============================================================================
