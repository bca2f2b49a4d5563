--------------------------- MODULE Voting_proofs ---------------------------
(***************************************************************************)
(* Proofs about Voting for any number of voters, producers and proxies.    *)
(*                                                                         *)
(* A handler is a chain of operators on the record of the tables.  For     *)
(* each operator a lemma says what it leaves as it was, whose weight it    *)
(* records, and that the tables keep their types; the lemma about          *)
(* UpdateVotes composes them in the order of the code.  For the tallies,   *)
(* Shift says by how much an operator moves one from what is cast or       *)
(* handed over, and the shifts of a handler add up to nothing.  For the    *)
(* shares, each operator that counts votes again adds to the total what it *)
(* adds to the rows, as long as no floor and no negative vote breaks it.   *)
(***************************************************************************)
EXTENDS Voting, FiniteSetTheorems, Sums_proofs

VoterTable    == [Accounts -> VoterRow \cup {NoRow}]
ProducerTable == [Candidates -> ProducerRow \cup {NoRow}]
GState == [weight : Int, activated : Nat, thresh : Nat, unpaid : Nat,
           vrate : Int, vtotal : Int, vat : Nat, wrate : Nat, wtotal : Nat, wat : Nat]
Withheld == [votes : [Candidates -> Int], proxied : [Accounts -> Int]]
Tables == [voters : VoterTable, producers : ProducerTable, gstate : GState,
           withheld : Withheld, below : BOOLEAN, failed : BOOLEAN]

\* The times of the witness shares are past, and no moment counts twice.
Dated(row) == row.claimed + row.wshare <= row.wat /\ row.wat <= now
TimesOK(t) == /\ t.gstate.wat <= now
              /\ \A p \in Candidates : t.producers[p] # NoRow => Dated(t.producers[p])
-----------------------------------------------------------------------------
(* The shares                                                              *)

LEMMA FlooredType ==
  ASSUME NEW total \in Int, NEW change \in Int
  PROVE  Floored(total, change) \in Int
  BY DEF Floored

LEMMA FlooredNat ==
  ASSUME NEW total \in Nat, NEW change \in Int
  PROVE  Floored(total, change) \in Nat
  BY DEF Floored

LEMMA TotalVotepayType ==
  ASSUME NEW g \in GState, NEW shares \in Int, NEW rate \in Int, now \in Nat
  PROVE  LET h == UpdateTotalVotepay(g, shares, rate)
         IN  /\ h \in GState
             /\ h.weight = g.weight /\ h.activated = g.activated /\ h.unpaid = g.unpaid
             /\ h.thresh = g.thresh /\ h.wrate = g.wrate /\ h.wtotal = g.wtotal /\ h.wat = g.wat
<1> DEFINE change == g.vrate * (now - g.vat) + shares
           vtotal == Floored(g.vtotal, change)
           vrate == Floored(g.vrate, rate)
<1>1. g.vtotal \in Int /\ g.vrate \in Int /\ now - g.vat \in Int
  BY DEF GState
<1>2. change \in Int
  BY <1>1
<1> HIDE DEF change
<1>3. vtotal \in Int /\ vrate \in Int
  BY <1>1, <1>2, FlooredType
<1>4. UpdateTotalVotepay(g, shares, rate) = [g EXCEPT !.vtotal = vtotal, !.vrate = vrate, !.vat = now]
  BY DEF change, UpdateTotalVotepay
<1> HIDE DEF vtotal, vrate
<1>5. QED
  BY <1>3, <1>4 DEF GState

LEMMA TotalWitnesspayType ==
  ASSUME NEW g \in GState, NEW shares \in Int, NEW rate \in Int, now \in Nat, g.wat <= now
  PROVE  LET h == UpdateTotalWitnesspay(g, shares, rate)
         IN  /\ h \in GState
             /\ h.weight = g.weight /\ h.activated = g.activated /\ h.unpaid = g.unpaid
             /\ h.thresh = g.thresh /\ h.vrate = g.vrate /\ h.vtotal = g.vtotal /\ h.vat = g.vat
             /\ h.wat = now
<1> DEFINE change == g.wrate * (now - g.wat) + shares
           wtotal == Floored(g.wtotal, change)
           wrate == Floored(g.wrate, rate)
<1>1. g.wtotal \in Nat /\ g.wrate \in Nat /\ now - g.wat \in Nat
  BY DEF GState
<1>2. change \in Int
  BY <1>1
<1> HIDE DEF change
<1>3. wtotal \in Nat /\ wrate \in Nat
  BY <1>1, <1>2, FlooredNat
<1>4. UpdateTotalWitnesspay(g, shares, rate) = [g EXCEPT !.wtotal = wtotal, !.wrate = wrate, !.wat = now]
  BY DEF change, UpdateTotalWitnesspay
<1> HIDE DEF wtotal, wrate
<1>5. QED
  BY <1>3, <1>4 DEF GState

LEMMA WitnesspayType ==
  ASSUME NEW row \in ProducerRow, NEW rate \in {0, 1}, now \in Nat, Dated(row)
  PROVE  LET new == UpdateWitnesspay(row, rate)
         IN  /\ new \in ProducerRow /\ Dated(new)
             /\ new.votes = row.votes /\ new.active = row.active /\ new.claimed = row.claimed
             /\ new.vshare = row.vshare /\ new.vat = row.vat
<1>1. row.wshare \in Nat /\ row.wat \in Nat /\ row.claimed \in Nat /\ row.wat <= now
  BY DEF ProducerRow, Dated
<1> DEFINE share == row.wshare + rate * (now - row.wat)
<1>2. share \in Nat /\ share <= row.wshare + (now - row.wat)
  <2>1. CASE rate = 0
    BY <1>1, <2>1
  <2>2. CASE rate = 1
    BY <1>1, <2>2
  <2>3. QED
    BY <2>1, <2>2
<1>3. UpdateWitnesspay(row, rate) = [row EXCEPT !.wshare = share, !.wat = now]
  BY DEF UpdateWitnesspay
<1> HIDE DEF share
<1> DEFINE new == [row EXCEPT !.wshare = share, !.wat = now]
<1>4. /\ new \in ProducerRow /\ new.wshare = share /\ new.wat = now
      /\ new.votes = row.votes /\ new.active = row.active /\ new.claimed = row.claimed
      /\ new.vshare = row.vshare /\ new.vat = row.vat
  BY <1>2 DEF ProducerRow
<1> HIDE DEF new
<1>5. Dated(new)
  BY <1>1, <1>2, <1>4 DEF Dated
<1>6. QED
  BY <1>3, <1>4, <1>5 DEF new
-----------------------------------------------------------------------------
(* Counting votes again                                                    *)

\* The row of a producer whose votes change by d.
Recounted(row, d, floor, new) ==
    /\ new \in ProducerRow
    /\ new.votes = IF floor /\ row.votes + d < 0 THEN 0 ELSE row.votes + d
    /\ new.active = row.active /\ new.claimed = row.claimed
    /\ new.wshare = row.wshare /\ new.wat = row.wat

LEMMA GrownType ==
  ASSUME NEW row \in ProducerRow, NEW v \in Int, now \in Nat
  PROVE  GrownVotepay(row, v) \in Int
<1>1. row.vshare \in Int /\ now - row.vat \in Int
  BY DEF ProducerRow
<1>2. v * (now - row.vat) \in Int
  BY <1>1
<1>3. QED
  BY <1>1, <1>2 DEF GrownVotepay

\* What Recount makes of t: rows and totals change, for the producers that have a row.
RecountOf(t, P, delta, floor, r) ==
    LET ps == {p \in P : t.producers[p] # NoRow}
    IN  /\ r \in Tables /\ TimesOK(r)
        /\ r.voters = t.voters /\ r.withheld = t.withheld
        /\ r.gstate.weight = t.gstate.weight + SumOver(delta, ps)
        /\ r.gstate.unpaid = t.gstate.unpaid
        /\ \A p \in Candidates \ ps : r.producers[p] = t.producers[p]
        /\ \A p \in ps : Recounted(t.producers[p], delta[p], floor, r.producers[p])
        /\ ~r.below => ~t.below /\ \A p \in ps : t.producers[p].votes + delta[p] >= 0
        /\ ~r.failed => ~t.failed /\ (floor \/ ps = P)

LEMMA RecountFacts ==
  ASSUME NEW t \in Tables, NEW P \in SUBSET Candidates, NEW delta \in [P -> Int],
         NEW floor \in BOOLEAN, now \in Nat, TimesOK(t)
  PROVE  RecountOf(t, P, delta, floor, Recount(t, delta, floor))
<1> DEFINE Of(p)      == t.producers[p]
           Dropped(p) == Crossed(Of(p)) /\ ~UpdatedAfter(Of(p))
           Grown(p)   == GrownVotepay(Of(p), IF UpdatedAfter(Of(p)) THEN 0 ELSE Of(p).votes)
           Rate(p)    == CASE ~Crossed(Of(p)) -> delta[p]
                           [] Dropped(p) -> -Of(p).votes
                           [] OTHER -> 0
           Now(p)     == LET votes == Of(p).votes + delta[p]
                         IN  [Of(p) EXCEPT !.votes = IF floor /\ votes < 0 THEN 0 ELSE votes,
                                           !.vshare = IF Dropped(p) THEN 0 ELSE Grown(p),
                                           !.vat = now]
           ps         == {p \in DOMAIN delta : Of(p) # NoRow}
           lapsed     == [p \in ps |-> IF Dropped(p) THEN Grown(p) ELSE 0]
           rates      == [p \in ps |-> Rate(p)]
           rows       == [p \in Candidates |-> IF p \in ps THEN Now(p) ELSE Of(p)]
           weighed    == [t.gstate EXCEPT !.weight = t.gstate.weight + SumOver(delta, ps)]
           g          == UpdateTotalVotepay(weighed, -SumOver(lapsed, ps), SumOver(rates, ps))
           low        == t.below \/ \E p \in ps : Of(p).votes + delta[p] < 0
           refused    == t.failed \/ (~floor /\ ps # DOMAIN delta)
<1>1. Recount(t, delta, floor) = [t EXCEPT !.producers = rows, !.gstate = g, !.below = low, !.failed = refused]
  BY DEF Recount
<1>2. /\ t.voters \in VoterTable /\ t.producers \in ProducerTable /\ t.gstate \in GState
      /\ t.withheld \in Withheld /\ t.below \in BOOLEAN /\ t.failed \in BOOLEAN
      /\ DOMAIN delta = P
  BY DEF Tables
<1>3. /\ ps \subseteq Candidates /\ IsFiniteSet(ps) /\ ps = {p \in P : t.producers[p] # NoRow}
      /\ \A p \in ps : Of(p) \in ProducerRow /\ delta[p] \in Int /\ Of(p).votes \in Int
  <2>1. ps \subseteq Candidates /\ ps = {p \in P : t.producers[p] # NoRow}
    BY <1>2
  <2>2. \A p \in ps : Of(p) \in ProducerRow /\ delta[p] \in Int
    BY <1>2, <2>1 DEF ProducerTable
  <2>3. IsFiniteSet(ps)
    BY <2>1, AccountsAssumption, FS_Subset
  <2>4. QED
    BY <2>1, <2>2, <2>3 DEF ProducerRow
<1>4. ASSUME NEW p \in ps
      PROVE  /\ Grown(p) \in Int /\ Rate(p) \in Int
             /\ Recounted(Of(p), delta[p], floor, Now(p))
  <2>1. Of(p) \in ProducerRow /\ Of(p).votes \in Int /\ delta[p] \in Int
    BY <1>3
  <2>2. Grown(p) \in Int
    BY <2>1, GrownType
  <2>3. Rate(p) \in Int
    BY <2>1
  <2>4. Recounted(Of(p), delta[p], floor, Now(p))
    <3> DEFINE row == Of(p)
               v == IF floor /\ row.votes + delta[p] < 0 THEN 0 ELSE row.votes + delta[p]
               s == IF Dropped(p) THEN 0 ELSE Grown(p)
    <3>1. Now(p) = [row EXCEPT !.votes = v, !.vshare = s, !.vat = now]
      OBVIOUS
    <3>2. row \in ProducerRow /\ v \in Int /\ s \in Int
      BY <2>1, <2>2
    <3>3. v = IF floor /\ row.votes + delta[p] < 0 THEN 0 ELSE row.votes + delta[p]
      OBVIOUS
    <3> HIDE DEF row, s, v
    <3> DEFINE new == [row EXCEPT !.votes = v, !.vshare = s, !.vat = now]
    <3>4. /\ new \in ProducerRow /\ new.votes = v /\ new.active = row.active
          /\ new.claimed = row.claimed /\ new.wshare = row.wshare /\ new.wat = row.wat
      BY <3>2 DEF ProducerRow
    <3> HIDE DEF new
    <3>5. Recounted(row, delta[p], floor, new)
      BY <3>3, <3>4 DEF Recounted
    <3>6. QED
      BY <3>1, <3>5 DEF new, row
  <2>5. QED
    BY <2>2, <2>3, <2>4
<1>5. /\ SumOver(delta, ps) \in Int /\ SumOver(lapsed, ps) \in Int /\ SumOver(rates, ps) \in Int
  <2>1. /\ \A p \in ps : delta[p] \in Int
        /\ \A p \in ps : lapsed[p] \in Int
        /\ \A p \in ps : rates[p] \in Int
    <3>1. \A p \in ps : lapsed[p] = IF Dropped(p) THEN Grown(p) ELSE 0
      OBVIOUS
    <3>2. \A p \in ps : rates[p] = Rate(p)
      OBVIOUS
    <3>3. \A p \in ps : Grown(p) \in Int /\ Rate(p) \in Int
      BY <1>4
    <3> HIDE DEF lapsed, rates, Grown, Rate, Dropped, ps
    <3>4. QED
      BY <1>3, <3>1, <3>2, <3>3
  <2> HIDE DEF lapsed, rates, ps
  <2>2. QED
    BY <1>3, <2>1, SumOverType
<1>6. /\ weighed \in GState /\ weighed.weight = t.gstate.weight + SumOver(delta, ps)
      /\ weighed.wat = t.gstate.wat /\ weighed.unpaid = t.gstate.unpaid
  <2> DEFINE n == t.gstate.weight + SumOver(delta, ps)
  <2>1. n \in Int
    BY <1>2, <1>5 DEF GState
  <2>2. weighed = [t.gstate EXCEPT !.weight = n]
    OBVIOUS
  <2> HIDE DEF n
  <2>3. [t.gstate EXCEPT !.weight = n] \in GState /\ [t.gstate EXCEPT !.weight = n].weight = n
        /\ [t.gstate EXCEPT !.weight = n].wat = t.gstate.wat
        /\ [t.gstate EXCEPT !.weight = n].unpaid = t.gstate.unpaid
    BY <1>2, <2>1 DEF GState
  <2>4. QED
    BY <2>2, <2>3 DEF n
<1>7. g \in GState /\ g.weight = weighed.weight /\ g.wat = weighed.wat /\ g.unpaid = weighed.unpaid
  <2> DEFINE a == -SumOver(lapsed, ps)
             b == SumOver(rates, ps)
  <2>1. a \in Int /\ b \in Int
    BY <1>5
  <2> HIDE DEF a, b, weighed
  <2>2. LET h == UpdateTotalVotepay(weighed, a, b)
        IN  /\ h \in GState /\ h.weight = weighed.weight
            /\ h.wat = weighed.wat /\ h.unpaid = weighed.unpaid
    BY <1>6, <2>1, TotalVotepayType
  <2>3. QED
    BY <2>2 DEF a, b
<1>8. /\ rows \in ProducerTable
      /\ \A p \in Candidates \ ps : rows[p] = Of(p)
      /\ \A p \in ps : Recounted(Of(p), delta[p], floor, rows[p])
  <2>1. /\ \A p \in Candidates : rows[p] = IF p \in ps THEN Now(p) ELSE Of(p)
        /\ rows = [p \in Candidates |-> rows[p]]
    OBVIOUS
  <2>2. \A p \in ps : Recounted(Of(p), delta[p], floor, Now(p))
    BY <1>4
  <2> HIDE DEF rows, Now, ps
  <2>3. /\ \A p \in Candidates \ ps : rows[p] = Of(p)
        /\ \A p \in ps : Recounted(Of(p), delta[p], floor, rows[p])
    BY <1>3, <2>1, <2>2
  <2>4. \A p \in Candidates : rows[p] \in ProducerRow \cup {NoRow}
    BY <1>2, <2>3 DEF ProducerTable, Recounted
  <2>5. QED
    BY <2>1, <2>3, <2>4 DEF ProducerTable
<1>9. low \in BOOLEAN /\ refused \in BOOLEAN
  BY <1>2
<1> HIDE DEF rows, g, low, refused, weighed
<1> DEFINE r == [t EXCEPT !.producers = rows, !.gstate = g, !.below = low, !.failed = refused]
<1>10. /\ r \in Tables /\ r.producers = rows /\ r.gstate = g /\ r.below = low /\ r.failed = refused
       /\ r.voters = t.voters /\ r.withheld = t.withheld
  BY <1>7, <1>8, <1>9 DEF Tables
<1> HIDE DEF r, ps
<1>11. TimesOK(r)
  <2>1. r.gstate.wat <= now
    BY <1>6, <1>7, <1>10 DEF TimesOK
  <2>2. ASSUME NEW p \in Candidates, r.producers[p] # NoRow PROVE Dated(r.producers[p])
    <3>1. CASE p \in ps
      <4>1. Dated(t.producers[p])
        BY <1>3, <3>1 DEF TimesOK
      <4>2. Recounted(Of(p), delta[p], floor, rows[p])
        BY <1>8, <3>1
      <4>3. QED
        BY <1>10, <4>1, <4>2 DEF Dated, Recounted
    <3>2. CASE p \notin ps
      BY <1>8, <1>10, <2>2, <3>2 DEF TimesOK
    <3>3. QED
      BY <3>1, <3>2
  <2>3. QED
    BY <2>1, <2>2 DEF TimesOK
<1>12. /\ ~low => ~t.below /\ \A p \in ps : Of(p).votes + delta[p] >= 0
       /\ ~refused => ~t.failed /\ (floor \/ ps = P)
  BY <1>2, <1>3 DEF low, refused
<1>13. Recount(t, delta, floor) = r
  BY <1>1 DEF r
<1>14. RecountOf(t, P, delta, floor, r)
  BY <1>3, <1>6, <1>7, <1>8, <1>10, <1>11, <1>12 DEF RecountOf
<1>15. QED
  BY <1>13, <1>14
-----------------------------------------------------------------------------
(* One voter's row                                                         *)

\* A row after a change of what is recorded of weights alone.
Kin(row, new) ==
    /\ new \in VoterRow
    /\ new.staked = row.staked /\ new.producers = row.producers /\ new.proxy = row.proxy
    /\ new.is_proxy = row.is_proxy /\ new.unpaid = row.unpaid /\ new.claimed = row.claimed

\* The tables with another row of a, as an operator sees and leaves them.
OneRow(t, r, a, new) ==
    /\ r \in Tables
    /\ r.voters[a] = new
    /\ \A x \in Accounts \ {a} : r.voters[x] = t.voters[x]
    /\ r.producers = t.producers /\ r.gstate = t.gstate /\ r.withheld = t.withheld
    /\ r.failed = t.failed

LEMMA TablesHave ==
  ASSUME NEW t \in Tables
  PROVE  /\ t.voters \in VoterTable /\ t.producers \in ProducerTable /\ t.gstate \in GState
         /\ t.withheld \in Withheld /\ t.below \in BOOLEAN /\ t.failed \in BOOLEAN
         /\ \A x \in Accounts : t.voters[x] # NoRow => t.voters[x] \in VoterRow
         /\ \A p \in Candidates : t.producers[p] # NoRow => t.producers[p] \in ProducerRow
  BY DEF Tables, VoterTable, ProducerTable

LEMMA RowType ==
  ASSUME NEW row \in VoterRow
  PROVE  /\ row.staked \in Nat /\ row.last \in Int /\ row.proxied \in Int /\ row.unpaid \in Nat
         /\ row.is_proxy \in BOOLEAN /\ row.producers \in SUBSET Candidates
         /\ row.proxy \in Accounts \cup {None} /\ row.claimed \in Nat
         /\ row # NoRow
  BY VotingRowsAssumption DEF VoterRow

LEMMA PowerType ==
  ASSUME NEW row \in VoterRow
  PROVE  VotePower(row) \in Nat /\ VoteWeight(row) \in Int
<1>1. row.staked \in Nat /\ row.proxied \in Int /\ MaxVotePower \in Nat
  BY RowType, VotingBoundsAssumption
<1>2. VotePower(row) \in Nat
  BY <1>1 DEF VotePower
<1>3. QED
  BY <1>1, <1>2 DEF VoteWeight

\* The weight of a row does not depend on what is recorded of its last vote.
LEMMA WeightOf ==
  ASSUME NEW row \in VoterRow, NEW new \in VoterRow,
         new.staked = row.staked, new.is_proxy = row.is_proxy,
         row.is_proxy => new.proxied = row.proxied
  PROVE  VoteWeight(new) = VoteWeight(row) /\ VotePower(new) = VotePower(row)
<1>1. VotePower(new) = VotePower(row)
  BY DEF VotePower
<1>2. QED
  BY <1>1, RowType DEF VoteWeight

LEMMA PutRow ==
  ASSUME NEW t \in Tables, NEW a \in Accounts, NEW new \in VoterRow
  PROVE  LET r == [t EXCEPT !.voters = [t.voters EXCEPT ![a] = new]]
         IN  OneRow(t, r, a, new) /\ r.below = t.below
<1> DEFINE v == [t.voters EXCEPT ![a] = new]
<1>1. t.voters \in VoterTable
  BY TablesHave
<1>2. v \in VoterTable /\ v[a] = new /\ \A x \in Accounts \ {a} : v[x] = t.voters[x]
  BY <1>1 DEF VoterTable
<1> HIDE DEF v
<1>3. /\ [t EXCEPT !.voters = v] \in Tables
      /\ [t EXCEPT !.voters = v].voters = v
      /\ [t EXCEPT !.voters = v].producers = t.producers
      /\ [t EXCEPT !.voters = v].gstate = t.gstate
      /\ [t EXCEPT !.voters = v].withheld = t.withheld
      /\ [t EXCEPT !.voters = v].failed = t.failed
      /\ [t EXCEPT !.voters = v].below = t.below
  BY <1>2 DEF Tables
<1>4. QED
  BY <1>2, <1>3 DEF OneRow, v

LEMMA SetLastFacts ==
  ASSUME NEW t \in Tables, NEW a \in Accounts, t.voters[a] # NoRow, NEW weight \in Int
  PROVE  LET r == SetLast(t, a, weight)
             new == [t.voters[a] EXCEPT !.last = weight]
         IN  /\ OneRow(t, r, a, new)
             /\ r.below = (t.below \/ weight < 0)
             /\ Kin(t.voters[a], new) /\ new.last = weight /\ new.proxied = t.voters[a].proxied
             /\ VoteWeight(new) = VoteWeight(t.voters[a])
<1> DEFINE row == t.voters[a]
           new == [row EXCEPT !.last = weight]
           v == [t.voters EXCEPT ![a] = new]
           below1 == t.below \/ weight < 0
           u == [t EXCEPT !.voters = v]
<1>1. row \in VoterRow /\ t.below \in BOOLEAN /\ t.voters \in VoterTable
  BY TablesHave
<1>2. Kin(row, new) /\ new.last = weight /\ new.proxied = row.proxied /\ new \in VoterRow
  <2> HIDE DEF row
  <2>1. QED
    BY <1>1 DEF Kin, VoterRow
<1>3. VoteWeight(new) = VoteWeight(row)
  <2> HIDE DEF new, row
  <2>1. QED
    BY <1>1, <1>2, WeightOf DEF Kin
<1>4. OneRow(t, u, a, new) /\ u.below = t.below
  <2> HIDE DEF new
  <2>1. QED
    BY <1>2, PutRow
<1>5. SetLast(t, a, weight) = [u EXCEPT !.below = below1]
  BY <1>1 DEF SetLast, VoterTable, Tables
<1>6. below1 \in BOOLEAN
  BY <1>1
<1> HIDE DEF u, below1, new, row
<1> DEFINE r == [u EXCEPT !.below = below1]
<1>7. /\ r \in Tables /\ r.voters = u.voters /\ r.producers = u.producers /\ r.gstate = u.gstate
      /\ r.withheld = u.withheld /\ r.failed = u.failed /\ r.below = below1
  BY <1>4, <1>6 DEF OneRow, Tables
<1> HIDE DEF r
<1>8. OneRow(t, r, a, new)
  BY <1>4, <1>7 DEF OneRow
<1>9. QED
  BY <1>2, <1>3, <1>5, <1>7, <1>8 DEF r, below1, new, row

\* The same of the row as it is then.
LEMMA SetLastRow ==
  ASSUME NEW t \in Tables, NEW a \in Accounts, t.voters[a] # NoRow, NEW weight \in Int
  PROVE  LET r == SetLast(t, a, weight)
         IN  /\ OneRow(t, r, a, r.voters[a])
             /\ r.below = (t.below \/ weight < 0)
             /\ Kin(t.voters[a], r.voters[a]) /\ r.voters[a].last = weight
             /\ r.voters[a].proxied = t.voters[a].proxied
<1> DEFINE r   == SetLast(t, a, weight)
           new == [t.voters[a] EXCEPT !.last = weight]
<1>1. /\ OneRow(t, r, a, new) /\ r.below = (t.below \/ weight < 0)
      /\ Kin(t.voters[a], new) /\ new.last = weight /\ new.proxied = t.voters[a].proxied
  BY SetLastFacts
<1> HIDE DEF r, new
<1>2. r.voters[a] = new
  BY <1>1 DEF OneRow
<1>3. QED
  BY <1>1, <1>2 DEF r

LEMMA AddProxiedFacts ==
  ASSUME NEW t \in Tables, NEW a \in Accounts, t.voters[a] # NoRow, NEW weight \in Int
  PROVE  LET r == AddProxied(t, a, weight)
             new == [t.voters[a] EXCEPT !.proxied = t.voters[a].proxied + weight]
         IN  /\ OneRow(t, r, a, new)
             /\ r.below = t.below
             /\ Kin(t.voters[a], new) /\ new.last = t.voters[a].last
             /\ new.proxied = t.voters[a].proxied + weight
<1> DEFINE row == t.voters[a]
           n == row.proxied + weight
           new == [row EXCEPT !.proxied = n]
<1>1. row \in VoterRow /\ t.voters \in VoterTable
  BY TablesHave
<1>2. n \in Int
  BY <1>1, RowType
<1>3. AddProxied(t, a, weight) = [t EXCEPT !.voters = [t.voters EXCEPT ![a] = new]]
  BY <1>1 DEF AddProxied, VoterTable
<1> HIDE DEF n, row
<1>4. Kin(row, new) /\ new.last = row.last /\ new.proxied = n /\ new \in VoterRow
  BY <1>1, <1>2 DEF Kin, VoterRow
<1> HIDE DEF new
<1> DEFINE r == [t EXCEPT !.voters = [t.voters EXCEPT ![a] = new]]
<1>5. OneRow(t, r, a, new) /\ r.below = t.below
  BY <1>4, PutRow
<1> HIDE DEF r
<1>6. QED
  BY <1>3, <1>4, <1>5 DEF r, new, row, n

LEMMA WithholdVotesFacts ==
  ASSUME NEW t \in Tables, NEW ps \in SUBSET Candidates, NEW change \in Int
  PROVE  LET r == WithholdVotes(t, ps, change)
         IN  /\ r \in Tables /\ r.voters = t.voters /\ r.producers = t.producers
             /\ r.gstate = t.gstate /\ r.below = t.below /\ r.failed = t.failed
             /\ r.withheld.proxied = t.withheld.proxied
             /\ \A p \in Candidates :
                   r.withheld.votes[p] = t.withheld.votes[p] + (IF p \in ps THEN change ELSE 0)
<1> DEFINE w == [p \in Candidates |-> t.withheld.votes[p] + (IF p \in ps THEN change ELSE 0)]
           h == [t.withheld EXCEPT !.votes = w]
<1>1. t.withheld \in Withheld
  BY TablesHave
<1>2. w \in [Candidates -> Int]
  BY <1>1 DEF Withheld
<1>3. /\ WithholdVotes(t, ps, change) = [t EXCEPT !.withheld = h]
      /\ \A p \in Candidates : w[p] = t.withheld.votes[p] + (IF p \in ps THEN change ELSE 0)
  BY DEF WithholdVotes, Tables
<1> HIDE DEF w
<1>4. h \in Withheld /\ h.votes = w /\ h.proxied = t.withheld.proxied
  BY <1>1, <1>2 DEF Withheld
<1> HIDE DEF h
<1> DEFINE r == [t EXCEPT !.withheld = h]
<1>5. /\ r \in Tables /\ r.voters = t.voters /\ r.producers = t.producers /\ r.withheld = h
      /\ r.gstate = t.gstate /\ r.below = t.below /\ r.failed = t.failed
  BY <1>4 DEF Tables
<1> HIDE DEF r
<1>6. QED
  BY <1>3, <1>4, <1>5 DEF r

LEMMA WithholdProxiedFacts ==
  ASSUME NEW t \in Tables, NEW b \in Accounts, NEW change \in Int
  PROVE  LET r == WithholdProxied(t, b, change)
         IN  /\ r \in Tables /\ r.voters = t.voters /\ r.producers = t.producers
             /\ r.gstate = t.gstate /\ r.below = t.below /\ r.failed = t.failed
             /\ r.withheld.votes = t.withheld.votes
             /\ r.withheld.proxied[b] = t.withheld.proxied[b] + change
             /\ \A x \in Accounts \ {b} : r.withheld.proxied[x] = t.withheld.proxied[x]
<1> DEFINE n == t.withheld.proxied[b] + change
           w == [t.withheld.proxied EXCEPT ![b] = n]
           h == [t.withheld EXCEPT !.proxied = w]
<1>1. t.withheld \in Withheld
  BY TablesHave
<1>2. t.withheld.proxied \in [Accounts -> Int] /\ n \in Int
  BY <1>1 DEF Withheld
<1>3. WithholdProxied(t, b, change) = [t EXCEPT !.withheld = h]
  BY DEF WithholdProxied, Tables
<1> HIDE DEF n
<1>4. /\ w \in [Accounts -> Int] /\ w[b] = n
      /\ \A x \in Accounts \ {b} : w[x] = t.withheld.proxied[x]
  BY <1>2
<1> HIDE DEF w
<1>5. h \in Withheld /\ h.proxied = w /\ h.votes = t.withheld.votes
  BY <1>1, <1>4 DEF Withheld
<1> HIDE DEF h
<1> DEFINE r == [t EXCEPT !.withheld = h]
<1>6. /\ r \in Tables /\ r.voters = t.voters /\ r.producers = t.producers /\ r.withheld = h
      /\ r.gstate = t.gstate /\ r.below = t.below /\ r.failed = t.failed
  BY <1>5 DEF Tables
<1> HIDE DEF r
<1>7. QED
  BY <1>3, <1>4, <1>5, <1>6 DEF r, n
-----------------------------------------------------------------------------
(* Weights that are passed on                                              *)

\* Nobody's row, vote or proxy appeared or went: what the operators on weights leave.
Alike(t, r) ==
    /\ r \in Tables
    /\ TimesOK(r)
    /\ \A x \in Accounts : t.voters[x] = NoRow => r.voters[x] = NoRow
    /\ \A x \in Accounts : t.voters[x] # NoRow => Kin(t.voters[x], r.voters[x])
    /\ \A p \in Candidates : t.producers[p] = NoRow <=> r.producers[p] = NoRow
    /\ r.gstate.unpaid = t.gstate.unpaid

\* What VotesFollowStake says of x.
Follows(t, x) ==
    t.voters[x] # NoRow /\ (t.voters[x].producers # {} \/ t.voters[x].proxy # None)
        => t.voters[x].last = VoteWeight(t.voters[x])

LEMMA KinFollows ==
  ASSUME NEW row \in VoterRow, NEW new, Kin(row, new)
  PROVE  new \in VoterRow /\ new # NoRow /\ new.producers = row.producers /\ new.proxy = row.proxy
  BY RowType DEF Kin

LEMMA AlikeTrans ==
  ASSUME NEW t \in Tables, NEW r, NEW s, Alike(t, r), Alike(r, s)
  PROVE  Alike(t, s)
<1>1. ASSUME NEW x \in Accounts, t.voters[x] # NoRow
      PROVE  Kin(t.voters[x], s.voters[x])
  <2>1. Kin(t.voters[x], r.voters[x])
    BY <1>1 DEF Alike
  <2>2. r.voters[x] # NoRow
    BY <1>1, <2>1, TablesHave, KinFollows
  <2>3. Kin(r.voters[x], s.voters[x])
    BY <2>2 DEF Alike
  <2>4. QED
    BY <2>1, <2>3 DEF Kin
<1>2. \A x \in Accounts : t.voters[x] = NoRow => s.voters[x] = NoRow
  BY DEF Alike
<1>3. \A p \in Candidates : t.producers[p] = NoRow <=> s.producers[p] = NoRow
  BY DEF Alike
<1>4. s \in Tables /\ TimesOK(s)
  BY DEF Alike
<1>5. s.gstate.unpaid = t.gstate.unpaid
  BY DEF Alike
<1>6. QED
  BY <1>1, <1>2, <1>3, <1>4, <1>5 DEF Alike

LEMMA AlikeSame ==
  ASSUME NEW t \in Tables, NEW r \in Tables, TimesOK(t),
         r.voters = t.voters, r.producers = t.producers, r.gstate = t.gstate
  PROVE  Alike(t, r)
<1>1. TimesOK(r)
  BY DEF TimesOK
<1>2. \A x \in Accounts : t.voters[x] # NoRow => Kin(t.voters[x], r.voters[x])
  BY TablesHave DEF Kin
<1>3. QED
  BY <1>1, <1>2 DEF Alike

\* One voter's row changes in its weights.
LEMMA AlikeOneRow ==
  ASSUME NEW t \in Tables, NEW r, NEW a \in Accounts, NEW new, TimesOK(t),
         t.voters[a] # NoRow, OneRow(t, r, a, new), Kin(t.voters[a], new)
  PROVE  Alike(t, r)
<1>1. TimesOK(r)
  BY DEF TimesOK, OneRow
<1>2. \A x \in Accounts : t.voters[x] # NoRow => Kin(t.voters[x], r.voters[x])
  BY TablesHave DEF Kin, OneRow
<1>3. \A x \in Accounts : t.voters[x] = NoRow => r.voters[x] = NoRow
  BY DEF OneRow
<1>4. r \in Tables /\ r.producers = t.producers /\ r.gstate = t.gstate
  BY DEF OneRow
<1>5. QED
  BY <1>1, <1>2, <1>3, <1>4 DEF Alike

LEMMA AlikeRecount ==
  ASSUME NEW t \in Tables, NEW P \in SUBSET Candidates, NEW delta \in [P -> Int],
         NEW floor \in BOOLEAN, now \in Nat, TimesOK(t)
  PROVE  Alike(t, Recount(t, delta, floor)) /\ Recount(t, delta, floor).voters = t.voters
<1> DEFINE r == Recount(t, delta, floor)
           ps == {p \in P : t.producers[p] # NoRow}
<1>1. /\ r \in Tables /\ TimesOK(r) /\ r.voters = t.voters
      /\ r.gstate.unpaid = t.gstate.unpaid
      /\ \A p \in Candidates \ ps : r.producers[p] = t.producers[p]
      /\ \A p \in ps : Recounted(t.producers[p], delta[p], floor, r.producers[p])
  <2>1. RecountOf(t, P, delta, floor, r)
    BY RecountFacts
  <2> HIDE DEF r
  <2>2. QED
    BY <2>1 DEF RecountOf
<1> HIDE DEF r
<1>2. \A x \in Accounts : t.voters[x] # NoRow => Kin(t.voters[x], r.voters[x])
  BY <1>1, TablesHave DEF Kin
<1>3. ASSUME NEW p \in Candidates
      PROVE  t.producers[p] = NoRow <=> r.producers[p] = NoRow
  <2>1. CASE p \in ps
    <3>1. t.producers[p] # NoRow /\ r.producers[p] \in ProducerRow
      BY <1>1, <2>1 DEF Recounted
    <3>2. QED
      BY <3>1, VotingRowsAssumption
  <2>2. CASE p \notin ps
    BY <1>1, <2>2
  <2>3. QED
    BY <2>1, <2>2
<1>4. Alike(t, r)
  BY <1>1, <1>2, <1>3 DEF Alike
<1>5. QED
  BY <1>1, <1>4 DEF r

\* The weight of a is cast anew; nobody else's row is touched.
LEMMA PropagateCastFacts ==
  ASSUME NEW t \in Tables, NEW a \in Accounts, t.voters[a] # NoRow, now \in Nat, TimesOK(t)
  PROVE  LET r == PropagateCast(t, a)
             new == [t.voters[a] EXCEPT !.last = VoteWeight(t.voters[a])]
         IN  /\ Alike(t, r)
             /\ r.voters[a] = new /\ new.last = VoteWeight(new) /\ new.proxied = t.voters[a].proxied
             /\ \A x \in Accounts \ {a} : r.voters[x] = t.voters[x]
<1> DEFINE row == t.voters[a]
           change == VoteWeight(row) - row.last
           delta == [p \in row.producers |-> change]
           passed == IF Abs(change) > 1 THEN Recount(t, delta, FALSE)
                                        ELSE WithholdVotes(t, row.producers, change)
           weight == VoteWeight(row)
           new == [row EXCEPT !.last = weight]
<1>1. row \in VoterRow /\ row.producers \in SUBSET Candidates /\ change \in Int /\ weight \in Int
  BY TablesHave, RowType, PowerType
<1>2. Alike(t, passed) /\ passed.voters = t.voters
  <2>1. CASE Abs(change) > 1
    <3>1. delta \in [row.producers -> Int]
      BY <1>1
    <3> DEFINE P == row.producers
    <3> HIDE DEF row, change, delta
    <3>2. Alike(t, Recount(t, delta, FALSE)) /\ Recount(t, delta, FALSE).voters = t.voters
      BY <1>1, <3>1, AlikeRecount
    <3>3. QED
      BY <2>1, <3>2
  <2>2. CASE ~(Abs(change) > 1)
    <3> HIDE DEF row, change, delta
    <3> DEFINE ps == row.producers
               w  == WithholdVotes(t, ps, change)
    <3>1. w \in Tables /\ w.voters = t.voters /\ w.producers = t.producers /\ w.gstate = t.gstate
      <4>1. ps \in SUBSET Candidates /\ change \in Int
        BY <1>1
      <4> HIDE DEF ps
      <4>2. LET q == WithholdVotes(t, ps, change)
            IN  /\ q \in Tables /\ q.voters = t.voters /\ q.producers = t.producers
                /\ q.gstate = t.gstate /\ q.below = t.below /\ q.failed = t.failed
                /\ q.withheld.proxied = t.withheld.proxied
                /\ \A p \in Candidates :
                      q.withheld.votes[p] = t.withheld.votes[p] + (IF p \in ps THEN change ELSE 0)
        BY <4>1, WithholdVotesFacts
      <4>3. QED
        BY <4>2
    <3> HIDE DEF w
    <3>2. Alike(t, w)
      BY <3>1, AlikeSame
    <3>3. QED
      BY <2>2, <3>1, <3>2 DEF w
  <2>3. QED
    BY <2>1, <2>2
<1>3. PropagateCast(t, a) = SetLast(passed, a, weight)
  BY DEF PropagateCast
<1>4. passed \in Tables /\ TimesOK(passed)
  BY <1>2 DEF Alike
<1> HIDE DEF passed, weight, change
<1>5. /\ OneRow(passed, SetLast(passed, a, weight), a, new)
      /\ Kin(row, new) /\ new.last = weight /\ new.proxied = row.proxied /\ VoteWeight(new) = VoteWeight(row)
  <2>1. passed.voters[a] = row /\ passed.voters[a] # NoRow
    BY <1>2
  <2>2. LET s == SetLast(passed, a, weight)
            new1 == [passed.voters[a] EXCEPT !.last = weight]
        IN  /\ OneRow(passed, s, a, new1) /\ Kin(passed.voters[a], new1) /\ new1.last = weight
            /\ new1.proxied = passed.voters[a].proxied
            /\ VoteWeight(new1) = VoteWeight(passed.voters[a])
    BY <1>1, <1>4, <2>1, SetLastFacts
  <2>3. QED
    BY <2>1, <2>2
<1> DEFINE r == SetLast(passed, a, weight)
<1> HIDE DEF r, row, new
<1>6. Alike(passed, r)
  <2>1. passed.voters[a] = row /\ row # NoRow
    BY <1>2 DEF row
  <2>2. QED
    BY <1>4, <1>5, <2>1, AlikeOneRow DEF r
<1>7. Alike(t, r)
  BY <1>2, <1>6, AlikeTrans
<1>8. r.voters[a] = new /\ \A x \in Accounts \ {a} : r.voters[x] = t.voters[x]
  BY <1>2, <1>5 DEF OneRow, r
<1>9. weight = VoteWeight(row)
  BY DEF weight
<1>10. QED
  BY <1>3, <1>5, <1>7, <1>8, <1>9 DEF r, row, new, weight

\* The weight of a is cast anew or handed on: a is recorded with what it
\* weighs, and so is everybody else that was.
LEMMA PropagateFacts ==
  ASSUME NEW t \in Tables, NEW a \in Accounts, t.voters[a] # NoRow, now \in Nat, TimesOK(t),
         LET b == t.voters[a].proxy IN b # None => b # a /\ t.voters[b] # NoRow
  PROVE  LET r == Propagate(t, a)
         IN  /\ Alike(t, r)
             /\ r.voters[a].last = VoteWeight(r.voters[a])
             /\ \A x \in Accounts \ {a} : Follows(t, x) => Follows(r, x)
<1> DEFINE row == t.voters[a]
           b == row.proxy
           weight == VoteWeight(row)
           change == weight - row.last
<1>1. row \in VoterRow /\ b \in Accounts \cup {None} /\ change \in Int /\ weight \in Int
  BY TablesHave, RowType, PowerType
<1>2. CASE b = None
  <2> DEFINE r == PropagateCast(t, a)
  <2>1. Propagate(t, a) = r
    BY <1>2 DEF Propagate
  <2>2. Alike(t, r) /\ \A x \in Accounts \ {a} : r.voters[x] = t.voters[x]
    BY PropagateCastFacts
  <2>3. r.voters[a].last = VoteWeight(r.voters[a])
    BY PropagateCastFacts
  <2> HIDE DEF r
  <2>4. QED
    BY <2>1, <2>2, <2>3 DEF Follows
<1>3. CASE b # None
  <2>1. b \in Accounts /\ b # a /\ t.voters[b] # NoRow
    BY <1>1, <1>3
  <2> DEFINE added == AddProxied(t, b, change)
             passed == IF Abs(change) > 1 THEN PropagateCast(added, b)
                                          ELSE WithholdProxied(t, b, change)
             r == SetLast(passed, a, weight)
  <2>2. Propagate(t, a) = r
    BY <1>3 DEF Propagate
  <2> HIDE DEF row, b, weight, change
  <2>3. /\ Alike(t, passed)
        /\ \A x \in Accounts \ {b} : passed.voters[x] = t.voters[x]
        /\ Follows(t, b) => Follows(passed, b)
    <3>1. CASE Abs(change) > 1
      <4>1. /\ Alike(t, added) /\ \A x \in Accounts \ {b} : added.voters[x] = t.voters[x]
            /\ added.voters[b] # NoRow
        <5> DEFINE n == [t.voters[b] EXCEPT !.proxied = t.voters[b].proxied + change]
        <5>1. OneRow(t, added, b, n) /\ Kin(t.voters[b], n)
          BY <1>1, <2>1, AddProxiedFacts
        <5> HIDE DEF n, added
        <5>2. Alike(t, added)
          BY <2>1, <5>1, AlikeOneRow
        <5>3. added.voters[b] = n /\ n # NoRow
          BY <2>1, <5>1, TablesHave, KinFollows DEF OneRow
        <5>4. QED
          BY <5>1, <5>2, <5>3 DEF OneRow
      <4> HIDE DEF added
      <4> DEFINE p == PropagateCast(added, b)
      <4>2. added \in Tables /\ TimesOK(added)
        BY <4>1 DEF Alike
      <4>3. /\ Alike(added, p) /\ p.voters[b].last = VoteWeight(p.voters[b])
            /\ \A x \in Accounts \ {b} : p.voters[x] = added.voters[x]
        <5>1. LET q   == PropagateCast(added, b)
                  new == [added.voters[b] EXCEPT !.last = VoteWeight(added.voters[b])]
              IN  /\ Alike(added, q) /\ q.voters[b] = new /\ new.last = VoteWeight(new)
                  /\ \A x \in Accounts \ {b} : q.voters[x] = added.voters[x]
          BY <2>1, <4>1, <4>2, PropagateCastFacts
        <5>2. QED
          BY <5>1
      <4> HIDE DEF p
      <4>4. Alike(t, p)
        BY <4>1, <4>3, AlikeTrans
      <4>5. QED
        BY <3>1, <4>1, <4>3, <4>4 DEF p, Follows
    <3>2. CASE ~(Abs(change) > 1)
      <4> DEFINE p == WithholdProxied(t, b, change)
      <4>1. p \in Tables /\ p.voters = t.voters /\ p.producers = t.producers /\ p.gstate = t.gstate
        BY <1>1, <2>1, WithholdProxiedFacts
      <4> HIDE DEF p
      <4>2. Alike(t, p)
        BY <4>1, AlikeSame
      <4>3. QED
        BY <3>2, <4>1, <4>2 DEF p, Follows
    <3>3. QED
      BY <3>1, <3>2
  <2>4. passed \in Tables /\ TimesOK(passed) /\ passed.voters[a] = row /\ row # NoRow
    BY <2>1, <2>3 DEF Alike, row
  <2> DEFINE new == [row EXCEPT !.last = weight]
  <2> HIDE DEF passed
  <2>5. /\ OneRow(passed, r, a, new) /\ Kin(row, new) /\ new.last = weight
        /\ VoteWeight(new) = VoteWeight(row)
    <3>1. LET s == SetLast(passed, a, weight)
              new1 == [passed.voters[a] EXCEPT !.last = weight]
          IN  /\ OneRow(passed, s, a, new1) /\ Kin(passed.voters[a], new1) /\ new1.last = weight
              /\ VoteWeight(new1) = VoteWeight(passed.voters[a])
      BY <1>1, <2>4, SetLastFacts
    <3>2. QED
      BY <2>4, <3>1
  <2> HIDE DEF r, new
  <2>6. Alike(t, r)
    <3>1. Alike(passed, r)
      BY <2>4, <2>5, AlikeOneRow
    <3>2. QED
      BY <2>3, <3>1, AlikeTrans
  <2>7. r.voters[a].last = VoteWeight(r.voters[a])
    BY <2>5 DEF OneRow, weight
  <2>8. ASSUME NEW x \in Accounts \ {a}, Follows(t, x) PROVE Follows(r, x)
    <3>1. r.voters[x] = passed.voters[x]
      BY <2>5 DEF OneRow
    <3>2. CASE x = b
      BY <2>3, <2>8, <3>1, <3>2 DEF Follows
    <3>3. CASE x # b
      BY <2>3, <2>8, <3>1, <3>3 DEF Follows
    <3>4. QED
      BY <3>2, <3>3
  <2>9. QED
    BY <2>2, <2>6, <2>7, <2>8
<1>4. QED
  BY <1>2, <1>3
-----------------------------------------------------------------------------
(* Votes cast anew                                                         *)

\* Whoever uses a proxy uses another account's, and one that has a row.
ProxiesThere(t) ==
    \A x \in Accounts : t.voters[x] # NoRow =>
        LET b == t.voters[x].proxy IN b # None => b # x /\ t.voters[b] # NoRow

LEMMA AlikeProxies ==
  ASSUME NEW t \in Tables, NEW r, Alike(t, r), ProxiesThere(t)
  PROVE  ProxiesThere(r)
<1>1. ASSUME NEW x \in Accounts, r.voters[x] # NoRow, r.voters[x].proxy # None
      PROVE  r.voters[x].proxy # x /\ r.voters[r.voters[x].proxy] # NoRow
  <2>1. t.voters[x] # NoRow
    BY <1>1 DEF Alike
  <2>2. t.voters[x].proxy = r.voters[x].proxy /\ t.voters[x] \in VoterRow
    BY <2>1, TablesHave DEF Alike, Kin
  <2>3. r.voters[x].proxy # x /\ t.voters[r.voters[x].proxy] # NoRow
    BY <1>1, <2>1, <2>2 DEF ProxiesThere
  <2>4. r.voters[x].proxy \in Accounts
    BY <1>1, <2>2, RowType
  <2>5. Kin(t.voters[r.voters[x].proxy], r.voters[r.voters[x].proxy])
    BY <2>3, <2>4 DEF Alike
  <2>6. QED
    BY <2>3, <2>4, <2>5, TablesHave, KinFollows
<1>2. QED
  BY <1>1 DEF ProxiesThere

\* A proxy gains or loses weight, and passes it on.
LEMMA HandOver ==
  ASSUME NEW t \in Tables, NEW b \in Accounts, t.voters[b] # NoRow, NEW weight \in Int,
         now \in Nat, TimesOK(t), ProxiesThere(t)
  PROVE  LET r == Propagate(AddProxied(t, b, weight), b)
         IN  /\ Alike(t, r)
             /\ \A x \in Accounts : Follows(t, x) => Follows(r, x)
<1> DEFINE added == AddProxied(t, b, weight)
           new == [t.voters[b] EXCEPT !.proxied = t.voters[b].proxied + weight]
           r == Propagate(added, b)
<1>1. OneRow(t, added, b, new) /\ Kin(t.voters[b], new)
  BY AddProxiedFacts
<1> HIDE DEF new, added
<1>2. Alike(t, added)
  BY <1>1, AlikeOneRow
<1>3. /\ added \in Tables /\ TimesOK(added) /\ added.voters[b] # NoRow
      /\ \A x \in Accounts \ {b} : added.voters[x] = t.voters[x]
  BY <1>1, <1>2, TablesHave, KinFollows DEF Alike, OneRow
<1>4. ProxiesThere(added)
  BY <1>2, AlikeProxies
<1>5. LET c == added.voters[b].proxy IN c # None => c # b /\ added.voters[c] # NoRow
  BY <1>3, <1>4 DEF ProxiesThere
<1>6. LET s == Propagate(added, b)
      IN  /\ Alike(added, s)
          /\ s.voters[b].last = VoteWeight(s.voters[b])
          /\ \A x \in Accounts \ {b} : Follows(added, x) => Follows(s, x)
  BY <1>3, <1>5, PropagateFacts
<1>7. /\ Alike(added, r)
      /\ r.voters[b].last = VoteWeight(r.voters[b])
      /\ \A x \in Accounts \ {b} : Follows(added, x) => Follows(r, x)
  BY <1>6
<1> HIDE DEF r
<1>8. Alike(t, r)
  BY <1>2, <1>7, AlikeTrans
<1>9. ASSUME NEW x \in Accounts, Follows(t, x) PROVE Follows(r, x)
  <2>1. CASE x = b
    BY <1>7, <2>1 DEF Follows
  <2>2. CASE x # b
    BY <1>3, <1>7, <1>9, <2>2 DEF Follows
  <2>3. QED
    BY <2>1, <2>2
<1>10. QED
  BY <1>8, <1>9 DEF r, added

LEMMA LeaveProxyFacts ==
  ASSUME NEW t \in Tables, NEW a \in Accounts, t.voters[a] # NoRow,
         now \in Nat, TimesOK(t), ProxiesThere(t)
  PROVE  LET r == LeaveProxy(t, a)
         IN  /\ Alike(t, r)
             /\ \A x \in Accounts : Follows(t, x) => Follows(r, x)
<1> DEFINE row == t.voters[a]
           weight == -row.last
<1>1. row \in VoterRow /\ weight \in Int /\ row.proxy \in Accounts \cup {None}
  BY TablesHave, RowType
<1>2. CASE row.last > 0 /\ row.proxy # None
  <2> DEFINE b == row.proxy
             r == Propagate(AddProxied(t, b, weight), b)
  <2>1. LeaveProxy(t, a) = r
    BY <1>2 DEF LeaveProxy
  <2>2. b \in Accounts /\ t.voters[b] # NoRow
    BY <1>1, <1>2 DEF ProxiesThere
  <2> HIDE DEF b, weight, row
  <2>3. Alike(t, r) /\ \A x \in Accounts : Follows(t, x) => Follows(r, x)
    BY <1>1, <2>2, HandOver
  <2>4. QED
    BY <2>1, <2>3
<1>3. CASE ~(row.last > 0 /\ row.proxy # None)
  <2>1. LeaveProxy(t, a) = t
    BY <1>3 DEF LeaveProxy
  <2>2. QED
    BY <2>1, AlikeSame
<1>4. QED
  BY <1>2, <1>3

LEMMA JoinProxyFacts ==
  ASSUME NEW t \in Tables, NEW a \in Accounts, t.voters[a] # NoRow,
         NEW proxy \in Accounts \cup {None}, proxy # None => t.voters[proxy] # NoRow,
         now \in Nat, TimesOK(t), ProxiesThere(t)
  PROVE  LET r == JoinProxy(t, a, proxy)
         IN  /\ Alike(t, r)
             /\ \A x \in Accounts : Follows(t, x) => Follows(r, x)
<1> DEFINE weight == VoteWeight(t.voters[a])
<1>1. weight \in Int
  BY TablesHave, PowerType
<1>2. CASE proxy # None /\ weight >= 0
  <2> DEFINE r == Propagate(AddProxied(t, proxy, weight), proxy)
  <2>1. JoinProxy(t, a, proxy) = r
    BY <1>2 DEF JoinProxy
  <2> HIDE DEF weight
  <2>2. Alike(t, r) /\ \A x \in Accounts : Follows(t, x) => Follows(r, x)
    BY <1>1, <1>2, HandOver
  <2>3. QED
    BY <2>1, <2>2
<1>3. CASE ~(proxy # None /\ weight >= 0)
  <2>1. JoinProxy(t, a, proxy) = t
    BY <1>3 DEF JoinProxy
  <2>2. QED
    BY <2>1, AlikeSame
<1>4. QED
  BY <1>2, <1>3

\* The totals of the shares are the same.
SameTotals(g, h) ==
    /\ h.vrate = g.vrate /\ h.vtotal = g.vtotal /\ h.vat = g.vat
    /\ h.wrate = g.wrate /\ h.wtotal = g.wtotal /\ h.wat = g.wat

\* Counting a first vote changes neither rows nor the weight of all votes nor the
\* totals of the shares.
LEMMA ActivateFacts ==
  ASSUME NEW t \in Tables, NEW a \in Accounts, t.voters[a] # NoRow, now \in Nat, TimesOK(t)
  PROVE  LET r == Activate(t, a)
         IN  /\ Alike(t, r) /\ r.voters = t.voters /\ r.producers = t.producers
             /\ r.withheld = t.withheld /\ r.below = t.below /\ r.failed = t.failed
             /\ r.gstate.weight = t.gstate.weight /\ SameTotals(t.gstate, r.gstate)
<1> DEFINE row == t.voters[a]
           sum == t.gstate.activated + row.staked
           thresh == IF sum >= MinActivated /\ t.gstate.thresh = 0 THEN now ELSE t.gstate.thresh
           g == [t.gstate EXCEPT !.activated = sum, !.thresh = thresh]
<1>1. t.gstate \in GState /\ row.staked \in Nat
  BY TablesHave, RowType
<1>2. sum \in Nat /\ thresh \in Nat
  BY <1>1 DEF GState
<1>3. CASE row.last > 0
  <2>1. Activate(t, a) = t
    BY <1>3 DEF Activate
  <2>2. QED
    BY <2>1, AlikeSame DEF SameTotals
<1>4. CASE ~(row.last > 0)
  <2>1. Activate(t, a) = [t EXCEPT !.gstate = g]
    BY <1>4 DEF Activate
  <2> HIDE DEF sum, thresh
  <2>2. /\ g \in GState /\ g.weight = t.gstate.weight
        /\ g.wat = t.gstate.wat /\ g.unpaid = t.gstate.unpaid
        /\ SameTotals(t.gstate, g)
    BY <1>1, <1>2 DEF GState, SameTotals
  <2> HIDE DEF g
  <2> DEFINE r == [t EXCEPT !.gstate = g]
  <2>3. /\ r \in Tables /\ r.voters = t.voters /\ r.producers = t.producers /\ r.gstate = g
        /\ r.withheld = t.withheld /\ r.below = t.below /\ r.failed = t.failed
    BY <2>2 DEF Tables
  <2> HIDE DEF r
  <2>4. TimesOK(r)
    BY <2>2, <2>3 DEF TimesOK
  <2>5. \A x \in Accounts : t.voters[x] # NoRow => Kin(t.voters[x], r.voters[x])
    BY <2>3, TablesHave DEF Kin
  <2>6. Alike(t, r)
    BY <2>2, <2>3, <2>4, <2>5 DEF Alike
  <2>7. QED
    BY <2>1, <2>2, <2>3, <2>6 DEF r
<1>5. QED
  BY <1>3, <1>4

\* The list of witnesses changes: times and shares do, and nothing else.
LEMMA UpdateWitnessesFacts ==
  ASSUME NEW before, NEW t \in Tables, now \in Nat, TimesOK(t),
         \A p \in Candidates : before.producers[p] = NoRow <=> t.producers[p] = NoRow
  PROVE  LET r == UpdateWitnesses(before, t)
         IN  /\ Alike(t, r) /\ r.voters = t.voters
             /\ r.withheld = t.withheld /\ r.below = t.below /\ r.failed = t.failed
             /\ r.gstate.weight = t.gstate.weight
             /\ \A p \in Candidates : t.producers[p] # NoRow =>
                   r.producers[p].votes = t.producers[p].votes
<1> DEFINE out == Witnesses(before) \ Witnesses(t)
           in == Witnesses(t) \ Witnesses(before)
           rows == [p \in Candidates |->
                        IF p \in out THEN UpdateWitnesspay(t.producers[p], 1)
                        ELSE IF p \in in THEN UpdateWitnesspay(t.producers[p], 0)
                        ELSE t.producers[p]]
           rate == Cardinality(in) - Cardinality(out)
           g == UpdateTotalWitnesspay(t.gstate, 0, rate)
           r == [t EXCEPT !.producers = rows, !.gstate = g]
<1>1. UpdateWitnesses(before, t) = r
  BY DEF UpdateWitnesses
<1>2. /\ out \subseteq Candidates /\ in \subseteq Candidates
      /\ \A p \in out \cup in : t.producers[p] # NoRow
  <2>1. /\ \A p \in Witnesses(before) : p \in Candidates /\ before.producers[p] # NoRow
        /\ \A p \in Witnesses(t) : p \in Candidates /\ t.producers[p] # NoRow
    BY DEF Witnesses, Registered
  <2>2. QED
    BY <2>1
<1>3. rate \in Int
  <2>1. IsFiniteSet(Candidates)
    BY AccountsAssumption, FS_Subset
  <2>2. IsFiniteSet(in) /\ IsFiniteSet(out)
    BY <1>2, <2>1, FS_Subset
  <2>3. Cardinality(in) \in Nat /\ Cardinality(out) \in Nat
    BY <2>2, FS_CardinalityType
  <2>4. QED
    BY <2>3
<1> HIDE DEF in, out, rate
<1>4. /\ g \in GState /\ g.weight = t.gstate.weight /\ g.wat = now
      /\ g.unpaid = t.gstate.unpaid
  <2>1. LET h == UpdateTotalWitnesspay(t.gstate, 0, rate)
        IN  /\ h \in GState /\ h.weight = t.gstate.weight /\ h.wat = now
            /\ h.unpaid = t.gstate.unpaid
    BY <1>3, TablesHave, TotalWitnesspayType DEF TimesOK
  <2>2. QED
    BY <2>1
<1> HIDE DEF g
<1>5. ASSUME NEW p \in Candidates
      PROVE  /\ rows[p] \in ProducerRow \cup {NoRow}
             /\ t.producers[p] = NoRow => rows[p] = NoRow
             /\ t.producers[p] # NoRow => /\ rows[p] # NoRow /\ Dated(rows[p])
                                          /\ rows[p].votes = t.producers[p].votes
  <2>1. CASE p \in out \cup in
    <3>1. PICK part \in {0, 1} : rows[p] = UpdateWitnesspay(t.producers[p], part)
      BY <2>1
    <3>2. t.producers[p] # NoRow
      BY <1>2, <2>1
    <3>3. t.producers[p] \in ProducerRow /\ Dated(t.producers[p])
      BY <3>2, TablesHave DEF TimesOK
    <3>4. LET n == UpdateWitnesspay(t.producers[p], part)
          IN  n \in ProducerRow /\ Dated(n) /\ n.votes = t.producers[p].votes
      BY <3>3, WitnesspayType
    <3>5. QED
      BY <3>1, <3>2, <3>4, VotingRowsAssumption
  <2>2. CASE p \notin out \cup in
    <3>1. rows[p] = t.producers[p]
      BY <2>2
    <3> HIDE DEF rows
    <3>2. QED
      BY <3>1, TablesHave DEF ProducerTable, TimesOK
  <2>3. QED
    BY <2>1, <2>2
<1>6. rows \in ProducerTable
  BY <1>5 DEF ProducerTable
<1> HIDE DEF rows
<1>7. /\ r \in Tables /\ r.voters = t.voters /\ r.producers = rows /\ r.gstate = g
      /\ r.withheld = t.withheld /\ r.below = t.below /\ r.failed = t.failed
  BY <1>4, <1>6 DEF Tables
<1> HIDE DEF r
<1>8. TimesOK(r)
  BY <1>4, <1>5, <1>7 DEF TimesOK
<1>9. \A x \in Accounts : t.voters[x] # NoRow => Kin(t.voters[x], r.voters[x])
  BY <1>7, TablesHave DEF Kin
<1>10. \A p \in Candidates : t.producers[p] = NoRow <=> r.producers[p] = NoRow
  BY <1>5, <1>7
<1>11. Alike(t, r)
  BY <1>4, <1>7, <1>8, <1>9, <1>10 DEF Alike
<1>12. QED
  BY <1>1, <1>4, <1>5, <1>7, <1>11

\* What becomes of the rows when a votes for ps or hands its weight to proxy.
Recast(t, r, a, proxy, ps) ==
    /\ r \in Tables
    /\ TimesOK(r)
    /\ r.voters[a] \in VoterRow
    /\ r.voters[a].staked = t.voters[a].staked
    /\ r.voters[a].producers = ps
    /\ r.voters[a].proxy = proxy
    /\ r.voters[a].is_proxy = t.voters[a].is_proxy
    /\ r.voters[a].unpaid = t.voters[a].unpaid /\ r.gstate.unpaid = t.gstate.unpaid
    /\ \A x \in Accounts : t.voters[x] = NoRow => r.voters[x] = NoRow
    /\ \A x \in Accounts \ {a} : t.voters[x] # NoRow => Kin(t.voters[x], r.voters[x])
    /\ \A x \in Accounts \ {a} : Follows(t, x) => Follows(r, x)
    /\ Follows(r, a)

\* The tables on the way: a has left one proxy and joined another, and the votes are counted anew.
MovedTo(t, a, proxy) == JoinProxy(LeaveProxy(Activate(t, a), a), a, proxy)
Delta(row, ps) == [p \in Undone(row) \cup NewlyCast(row, ps) |->
                       (IF p \in NewlyCast(row, ps) THEN VoteWeight(row) ELSE 0)
                     - (IF p \in Undone(row) THEN row.last ELSE 0)]

LEMMA MovedFacts ==
  ASSUME NEW t \in Tables, NEW a \in Accounts, t.voters[a] # NoRow,
         NEW proxy \in Accounts \cup {None}, proxy # None => t.voters[proxy] # NoRow,
         now \in Nat, TimesOK(t), ProxiesThere(t)
  PROVE  LET r == MovedTo(t, a, proxy)
         IN  Alike(t, r) /\ \A x \in Accounts : Follows(t, x) => Follows(r, x)
<1> DEFINE active == Activate(t, a)
           left   == LeaveProxy(active, a)
           moved  == JoinProxy(left, a, proxy)
<1>1. Alike(t, active) /\ active.voters = t.voters
  BY ActivateFacts
<1>2. /\ Alike(t, left)
      /\ \A x \in Accounts : Follows(t, x) => Follows(left, x)
  <2> HIDE DEF active
  <2>1. active \in Tables /\ TimesOK(active) /\ active.voters[a] # NoRow
    BY <1>1 DEF Alike
  <2>2. ProxiesThere(active)
    BY <1>1, AlikeProxies
  <2>3. LET r == LeaveProxy(active, a)
        IN  Alike(active, r) /\ \A x \in Accounts : Follows(active, x) => Follows(r, x)
    BY <2>1, <2>2, LeaveProxyFacts
  <2> HIDE DEF left
  <2>4. Alike(active, left) /\ \A x \in Accounts : Follows(active, x) => Follows(left, x)
    BY <2>3 DEF left
  <2>5. QED
    BY <1>1, <2>4, AlikeTrans DEF Follows
<1>3. MovedTo(t, a, proxy) = moved
  BY DEF MovedTo
<1> HIDE DEF active, left
<1>4. /\ Alike(t, moved)
      /\ \A x \in Accounts : Follows(t, x) => Follows(moved, x)
  <2>1. left \in Tables /\ TimesOK(left) /\ left.voters[a] # NoRow
    BY <1>2, TablesHave, KinFollows DEF Alike
  <2>2. ProxiesThere(left)
    BY <1>2, AlikeProxies
  <2>3. proxy # None => left.voters[proxy] # NoRow
    BY <1>2, TablesHave, KinFollows DEF Alike
  <2>4. LET r == JoinProxy(left, a, proxy)
        IN  Alike(left, r) /\ \A x \in Accounts : Follows(left, x) => Follows(r, x)
    BY <2>1, <2>2, <2>3, JoinProxyFacts
  <2> HIDE DEF moved
  <2>5. Alike(left, moved) /\ \A x \in Accounts : Follows(left, x) => Follows(moved, x)
    BY <2>4 DEF moved
  <2>6. QED
    BY <1>2, <2>5, AlikeTrans
<1>5. QED
  BY <1>3, <1>4

\* What the last part of update_votes makes of the tables counted anew: another list of
\* witnesses, and the row of a.
Chain(t, moved, recast, r, a, proxy, ps) ==
    LET row    == t.voters[a]
        weight == VoteWeight(row)
    IN  /\ Alike(t, moved)
        /\ RecountOf(moved, Undone(row) \cup NewlyCast(row, ps), Delta(row, ps), TRUE, recast)
        /\ r \in Tables /\ TimesOK(r)
        /\ r.voters[a] \in VoterRow
        /\ r.voters[a].staked = row.staked /\ r.voters[a].is_proxy = row.is_proxy
        /\ r.voters[a].producers = ps /\ r.voters[a].proxy = proxy
        /\ r.voters[a].last = weight /\ r.voters[a].proxied = row.proxied
        /\ r.voters[a].unpaid = row.unpaid /\ r.gstate.unpaid = t.gstate.unpaid
        /\ VoteWeight(r.voters[a]) = weight
        /\ \A x \in Accounts \ {a} : r.voters[x] = moved.voters[x]
        /\ r.withheld = recast.withheld /\ r.gstate.weight = recast.gstate.weight
        /\ r.below = (recast.below \/ weight < 0) /\ r.failed = recast.failed
        /\ \A p \in Candidates : t.producers[p] = NoRow <=> r.producers[p] = NoRow
        /\ \A p \in Candidates : recast.producers[p] # NoRow =>
                                     r.producers[p].votes = recast.producers[p].votes
        /\ r.producers = UpdateWitnesses(t, recast).producers
        /\ r.gstate = UpdateWitnesses(t, recast).gstate

LEMMA UpdateVotesChain ==
  ASSUME NEW t \in Tables, NEW a \in Accounts, t.voters[a] # NoRow,
         NEW proxy \in Accounts \cup {None}, NEW ps \in SUBSET Candidates,
         proxy # None => t.voters[proxy] # NoRow,
         now \in Nat, TimesOK(t), ProxiesThere(t)
  PROVE  LET moved  == MovedTo(t, a, proxy)
             recast == Recount(moved, Delta(t.voters[a], ps), TRUE)
         IN  Chain(t, moved, recast, UpdateVotes(t, a, proxy, ps), a, proxy, ps)
<1> DEFINE row    == t.voters[a]
           weight == VoteWeight(row)
           P      == Undone(row) \cup NewlyCast(row, ps)
           moved  == MovedTo(t, a, proxy)
           delta  == Delta(row, ps)
           recast == Recount(moved, delta, TRUE)
           new    == [row EXCEPT !.producers = ps, !.proxy = proxy]
           listed == UpdateWitnesses(t, recast)
           put    == [listed EXCEPT !.voters = [recast.voters EXCEPT ![a] = new]]
<1>1. UpdateVotes(t, a, proxy, ps) = SetLast(put, a, weight)
  BY DEF UpdateVotes, MovedTo, Delta
<1>2. row \in VoterRow /\ weight \in Int /\ row.last \in Int /\ row.producers \in SUBSET Candidates
  BY TablesHave, RowType, PowerType
<1>3. P \in SUBSET Candidates
  BY <1>2 DEF Undone, NewlyCast
<1>4. /\ new \in VoterRow /\ new.staked = row.staked /\ new.producers = ps /\ new.proxy = proxy
      /\ new.is_proxy = row.is_proxy /\ new.proxied = row.proxied /\ new.unpaid = row.unpaid
  <2> HIDE DEF row
  <2>1. QED
    BY <1>2 DEF VoterRow
<1>5. delta \in [P -> Int]
  <2> HIDE DEF row
  <2>1. QED
    BY <1>2 DEF Delta
<1>6. Alike(t, moved)
  BY MovedFacts
<1> HIDE DEF row, weight, P, delta, new, moved
<1>7. RecountOf(moved, P, delta, TRUE, recast)
  <2>1. moved \in Tables /\ TimesOK(moved)
    BY <1>6 DEF Alike
  <2>2. QED
    BY <1>3, <1>5, <2>1, RecountFacts
<1>8. Alike(t, recast) /\ recast.voters = moved.voters
  <2>1. moved \in Tables /\ TimesOK(moved)
    BY <1>6 DEF Alike
  <2>2. Alike(moved, Recount(moved, delta, TRUE)) /\ Recount(moved, delta, TRUE).voters = moved.voters
    BY <1>3, <1>5, <2>1, AlikeRecount
  <2>3. QED
    BY <1>6, <2>2, AlikeTrans
<1> HIDE DEF recast
<1>9. /\ Alike(t, listed) /\ listed.voters = moved.voters
      /\ listed.withheld = recast.withheld /\ listed.below = recast.below
      /\ listed.failed = recast.failed /\ listed.gstate.weight = recast.gstate.weight
      /\ \A p \in Candidates : recast.producers[p] # NoRow =>
                                   listed.producers[p].votes = recast.producers[p].votes
  <2>1. recast \in Tables /\ TimesOK(recast)
        /\ \A p \in Candidates : t.producers[p] = NoRow <=> recast.producers[p] = NoRow
    BY <1>8 DEF Alike
  <2>2. LET r == UpdateWitnesses(t, recast)
        IN  /\ Alike(recast, r) /\ r.voters = recast.voters
            /\ r.withheld = recast.withheld /\ r.below = recast.below /\ r.failed = recast.failed
            /\ r.gstate.weight = recast.gstate.weight
            /\ \A p \in Candidates : recast.producers[p] # NoRow =>
                  r.producers[p].votes = recast.producers[p].votes
    BY <2>1, UpdateWitnessesFacts
  <2>3. Alike(recast, listed) /\ listed.voters = recast.voters
    BY <2>2
  <2> HIDE DEF listed
  <2>4. Alike(t, listed) /\ listed.voters = moved.voters
    BY <1>8, <2>3, AlikeTrans
  <2>5. QED
    BY <2>2, <2>4 DEF listed
<1>10. put = [listed EXCEPT !.voters = [listed.voters EXCEPT ![a] = new]]
  BY <1>8, <1>9
<1> HIDE DEF listed, put
<1>11. OneRow(listed, put, a, new) /\ put.below = listed.below
  <2>1. listed \in Tables
    BY <1>9 DEF Alike
  <2>2. QED
    BY <1>4, <1>10, <2>1, PutRow
<1> DEFINE r == SetLast(put, a, weight)
           last == [new EXCEPT !.last = weight]
<1>12. /\ OneRow(put, r, a, last) /\ Kin(new, last) /\ last.last = weight
       /\ r.below = (put.below \/ weight < 0) /\ last.proxied = new.proxied
       /\ VoteWeight(last) = VoteWeight(new)
  <2>1. put \in Tables /\ put.voters[a] = new /\ new # NoRow
    BY <1>4, <1>11, RowType DEF OneRow
  <2>2. LET s == SetLast(put, a, weight)
            n == [put.voters[a] EXCEPT !.last = weight]
        IN  /\ OneRow(put, s, a, n) /\ Kin(put.voters[a], n) /\ n.last = weight
            /\ s.below = (put.below \/ weight < 0) /\ n.proxied = put.voters[a].proxied
            /\ VoteWeight(n) = VoteWeight(put.voters[a])
    BY <1>2, <2>1, SetLastFacts
  <2>3. QED
    BY <2>1, <2>2
<1>13. VoteWeight(new) = weight
  <2>1. VoteWeight(new) = VoteWeight(row)
    BY <1>2, <1>4, WeightOf
  <2>2. QED
    BY <2>1 DEF weight
<1> HIDE DEF r, last
<1>14. /\ r \in Tables /\ r.voters[a] = last
       /\ \A x \in Accounts \ {a} : r.voters[x] = moved.voters[x]
       /\ r.producers = listed.producers /\ r.gstate = listed.gstate
       /\ r.withheld = listed.withheld /\ r.failed = listed.failed
       /\ r.below = (listed.below \/ weight < 0)
  BY <1>9, <1>11, <1>12 DEF OneRow
<1>15. /\ TimesOK(r) /\ \A p \in Candidates : t.producers[p] = NoRow <=> r.producers[p] = NoRow
       /\ r.gstate.unpaid = t.gstate.unpaid
  BY <1>9, <1>14 DEF Alike, TimesOK
<1>16. /\ r.voters[a] \in VoterRow
       /\ r.voters[a].staked = row.staked /\ r.voters[a].is_proxy = row.is_proxy
       /\ r.voters[a].producers = ps /\ r.voters[a].proxy = proxy
       /\ r.voters[a].last = weight /\ r.voters[a].proxied = row.proxied
       /\ r.voters[a].unpaid = row.unpaid
       /\ VoteWeight(r.voters[a]) = weight
  BY <1>4, <1>12, <1>13, <1>14 DEF Kin
<1>17. /\ r.producers = UpdateWitnesses(t, recast).producers
       /\ r.gstate = UpdateWitnesses(t, recast).gstate
  BY <1>14 DEF listed
<1>18. Chain(t, moved, recast, r, a, proxy, ps)
  BY <1>6, <1>7, <1>9, <1>14, <1>15, <1>16, <1>17 DEF Chain, row, weight, P, delta
<1>19. QED
  BY <1>1, <1>18 DEF r, moved, recast, delta, row

LEMMA UpdateVotesFacts ==
  ASSUME NEW t \in Tables, NEW a \in Accounts, t.voters[a] # NoRow,
         NEW proxy \in Accounts \cup {None}, NEW ps \in SUBSET Candidates,
         proxy # None => t.voters[proxy] # NoRow,
         now \in Nat, TimesOK(t), ProxiesThere(t)
  PROVE  Recast(t, UpdateVotes(t, a, proxy, ps), a, proxy, ps)
<1> DEFINE moved  == MovedTo(t, a, proxy)
           recast == Recount(moved, Delta(t.voters[a], ps), TRUE)
           r      == UpdateVotes(t, a, proxy, ps)
<1>1. Alike(t, moved) /\ \A x \in Accounts : Follows(t, x) => Follows(moved, x)
  BY MovedFacts
<1>2. Chain(t, moved, recast, r, a, proxy, ps)
  BY UpdateVotesChain
<1> HIDE DEF moved, recast, r
<1>3. /\ r \in Tables /\ TimesOK(r)
      /\ r.voters[a] \in VoterRow
      /\ r.voters[a].staked = t.voters[a].staked /\ r.voters[a].is_proxy = t.voters[a].is_proxy
      /\ r.voters[a].producers = ps /\ r.voters[a].proxy = proxy
      /\ r.voters[a].last = VoteWeight(r.voters[a])
      /\ r.voters[a].unpaid = t.voters[a].unpaid /\ r.gstate.unpaid = t.gstate.unpaid
      /\ \A x \in Accounts \ {a} : r.voters[x] = moved.voters[x]
  BY <1>2 DEF Chain
<1>4. ASSUME NEW x \in Accounts \ {a}
      PROVE  /\ t.voters[x] = NoRow => r.voters[x] = NoRow
             /\ t.voters[x] # NoRow => Kin(t.voters[x], r.voters[x])
             /\ Follows(t, x) => Follows(r, x)
  BY <1>1, <1>3 DEF Alike, Follows
<1>5. Recast(t, r, a, proxy, ps)
  BY <1>3, <1>4 DEF Recast, Follows
<1>6. QED
  BY <1>5 DEF r
-----------------------------------------------------------------------------
(* Chains of proxies                                                       *)

\* What ProxiesEnd says of the tables t.
Users(t) == {a \in Accounts : t.voters[a] # NoRow /\ t.voters[a].proxy # None}
ProxiesEndOf(t) ==
    /\ \A a \in Users(t) : ~t.voters[a].is_proxy /\ t.voters[t.voters[a].proxy] # NoRow
    /\ \A s \in SUBSET Users(t) : s # {} => \E a \in s : t.voters[a].proxy \notin s

LEMMA EndIsThere ==
  ASSUME NEW t \in Tables, ProxiesEndOf(t)
  PROVE  ProxiesThere(t)
<1>1. ASSUME NEW x \in Accounts, t.voters[x] # NoRow, t.voters[x].proxy # None
      PROVE  t.voters[x].proxy # x /\ t.voters[t.voters[x].proxy] # NoRow
  <2>1. x \in Users(t)
    BY <1>1 DEF Users
  <2>2. {x} \in SUBSET Users(t) /\ {x} # {}
    BY <2>1
  <2>3. \E a \in {x} : t.voters[a].proxy \notin {x}
    BY <2>2 DEF ProxiesEndOf
  <2>4. QED
    BY <2>1, <2>3 DEF ProxiesEndOf
<1>2. QED
  BY <1>1 DEF ProxiesThere

\* Tables with the same users of the same proxies.
LEMMA SameEnds ==
  ASSUME NEW t \in Tables, NEW r \in Tables, ProxiesEndOf(t),
         \A x \in Accounts : t.voters[x] # NoRow => /\ r.voters[x] # NoRow
                                                    /\ r.voters[x].proxy = t.voters[x].proxy,
         \A x \in Users(t) : r.voters[x].is_proxy = t.voters[x].is_proxy,
         \A x \in Accounts : t.voters[x] = NoRow =>
                r.voters[x] = NoRow \/ r.voters[x].proxy = None
  PROVE  ProxiesEndOf(r)
<1>1. Users(r) = Users(t)
  BY DEF Users
<1>2. \A a \in Users(t) : r.voters[a].proxy = t.voters[a].proxy
  BY DEF Users
<1>3. \A a \in Users(t) : t.voters[a].proxy \in Accounts
  <2>1. \A a \in Users(t) : t.voters[a].proxy \in Accounts \cup {None} /\ t.voters[a].proxy # None
    BY TablesHave, RowType DEF Users
  <2>2. QED
    BY <2>1
<1>4. \A a \in Users(r) : ~r.voters[a].is_proxy /\ r.voters[r.voters[a].proxy] # NoRow
  BY <1>1, <1>2, <1>3 DEF ProxiesEndOf
<1>5. ASSUME NEW s \in SUBSET Users(r), s # {}
      PROVE  \E a \in s : r.voters[a].proxy \notin s
  <2>1. s \in SUBSET Users(t)
    BY <1>1
  <2>2. PICK a \in s : t.voters[a].proxy \notin s
    BY <1>5, <2>1 DEF ProxiesEndOf
  <2>3. QED
    BY <1>2, <2>1, <2>2
<1>6. QED
  BY <1>4, <1>5 DEF ProxiesEndOf

LEMMA AlikeEnds ==
  ASSUME NEW t \in Tables, NEW r, Alike(t, r), ProxiesEndOf(t)
  PROVE  ProxiesEndOf(r)
<1>1. ASSUME NEW x \in Accounts, t.voters[x] # NoRow
      PROVE  /\ r.voters[x] # NoRow /\ r.voters[x].proxy = t.voters[x].proxy
             /\ r.voters[x].is_proxy = t.voters[x].is_proxy
  <2>1. t.voters[x] \in VoterRow /\ Kin(t.voters[x], r.voters[x])
    BY <1>1, TablesHave DEF Alike
  <2>2. QED
    BY <2>1, KinFollows DEF Kin
<1>2. \A x \in Users(t) : r.voters[x].is_proxy = t.voters[x].is_proxy
  BY <1>1 DEF Users
<1>3. r \in Tables /\ \A x \in Accounts : t.voters[x] = NoRow => r.voters[x] = NoRow
  BY DEF Alike
<1>4. QED
  BY <1>1, <1>2, <1>3, SameEnds

\* Voting keeps the chains finite: the proxy that a takes is none's user, the one it keeps
\* was there, and who takes none leaves a chain shorter.
LEMMA RecastEnds ==
  ASSUME NEW t \in Tables, NEW r, NEW a \in Accounts, t.voters[a] # NoRow,
         NEW proxy \in Accounts \cup {None}, NEW ps \in SUBSET Candidates,
         Recast(t, r, a, proxy, ps), ProxiesEndOf(t),
         \/ proxy = None
         \/ proxy = t.voters[a].proxy
         \/ /\ proxy # a /\ t.voters[proxy] # NoRow
            /\ t.voters[proxy].is_proxy /\ ~t.voters[a].is_proxy
  PROVE  ProxiesEndOf(r)
<1>1. /\ r \in Tables /\ r.voters[a] # NoRow
      /\ r.voters[a].proxy = proxy /\ r.voters[a].is_proxy = t.voters[a].is_proxy
      /\ \A x \in Accounts : t.voters[x] = NoRow => r.voters[x] = NoRow
  BY RowType DEF Recast
<1>2. ASSUME NEW x \in Accounts \ {a}, t.voters[x] # NoRow
      PROVE  /\ r.voters[x] # NoRow /\ r.voters[x].proxy = t.voters[x].proxy
             /\ r.voters[x].is_proxy = t.voters[x].is_proxy
  <2>1. t.voters[x] \in VoterRow /\ Kin(t.voters[x], r.voters[x])
    BY <1>2, TablesHave DEF Recast
  <2>2. QED
    BY <2>1, KinFollows DEF Kin
<1>3. CASE proxy = t.voters[a].proxy
  <2>1. \A x \in Users(t) : r.voters[x].is_proxy = t.voters[x].is_proxy
    BY <1>1, <1>2 DEF Users
  <2>2. \A x \in Accounts : t.voters[x] # NoRow => /\ r.voters[x] # NoRow
                                                   /\ r.voters[x].proxy = t.voters[x].proxy
    BY <1>1, <1>2, <1>3
  <2>3. QED
    BY <1>1, <2>1, <2>2, SameEnds
<1>4. CASE \/ proxy = None
           \/ /\ proxy # a /\ t.voters[proxy] # NoRow
              /\ t.voters[proxy].is_proxy /\ ~t.voters[a].is_proxy
  <2>1. \A x \in Users(r) \ {a} : /\ x \in Users(t)
                                  /\ r.voters[x].proxy = t.voters[x].proxy
                                  /\ r.voters[x].is_proxy = t.voters[x].is_proxy
    BY <1>1, <1>2 DEF Users
  <2>2. \A x \in Users(t) : t.voters[x].proxy \in Accounts
    <3>1. \A x \in Users(t) : t.voters[x].proxy \in Accounts \cup {None} /\ t.voters[x].proxy # None
      BY TablesHave, RowType DEF Users
    <3>2. QED
      BY <3>1
  <2>3. a \in Users(r) => /\ proxy \in Accounts /\ proxy # a /\ t.voters[proxy] # NoRow
                          /\ t.voters[proxy].is_proxy /\ ~t.voters[a].is_proxy
    BY <1>1, <1>4 DEF Users
  <2>4. \A x \in Accounts : t.voters[x] # NoRow => r.voters[x] # NoRow
    BY <1>1, <1>2
  <2>5. ASSUME NEW x \in Users(r)
        PROVE  ~r.voters[x].is_proxy /\ r.voters[r.voters[x].proxy] # NoRow
    <3>1. CASE x = a
      BY <1>1, <2>3, <2>4, <2>5, <3>1
    <3>2. CASE x # a
      BY <2>1, <2>2, <2>4, <2>5, <3>2 DEF ProxiesEndOf
    <3>3. QED
      BY <3>1, <3>2
  <2>6. ASSUME NEW s \in SUBSET Users(r), s # {}
        PROVE  \E x \in s : r.voters[x].proxy \notin s
    <3>1. CASE a \in s
      <4>1. proxy \in Accounts \ {a} /\ t.voters[proxy] # NoRow /\ t.voters[proxy].is_proxy
        BY <2>3, <3>1
      <4>2. r.voters[proxy].is_proxy
        BY <1>2, <4>1
      <4>3. proxy \notin s
        BY <2>5, <4>2
      <4>4. QED
        BY <1>1, <3>1, <4>3
    <3>2. CASE a \notin s
      <4>1. s \in SUBSET Users(t)
        BY <2>1, <3>2
      <4>2. PICK x \in s : t.voters[x].proxy \notin s
        BY <2>6, <4>1 DEF ProxiesEndOf
      <4>3. r.voters[x].proxy = t.voters[x].proxy
        BY <2>1, <3>2, <4>2
      <4>4. QED
        BY <4>2, <4>3
    <3>3. QED
      BY <3>1, <3>2
  <2>7. QED
    BY <2>5, <2>6 DEF ProxiesEndOf
<1>5. QED
  BY <1>3, <1>4
-----------------------------------------------------------------------------
(* The actions                                                             *)

\* The inductive invariant: types, times, chains of proxies, and recorded weights.
VotingInv ==
    /\ VotingTypeOK
    /\ TimesOK(VotingTables)
    /\ ProxiesEnd
    /\ VotesFollowStake

\* The same of tables on the way.
TablesInv(t) ==
    /\ t \in Tables
    /\ TimesOK(t)
    /\ ProxiesEndOf(t)
    /\ \A x \in Accounts : Follows(t, x)

LEMMA InvOfTables ==
  ASSUME VotingInv
  PROVE  /\ TablesInv(VotingTables) /\ now \in Nat /\ now \in 1 .. MaxNow /\ gone \in 0 .. MaxGone
         /\ VotingTables.voters = voters /\ VotingTables.producers = producers
         /\ VotingTables.gstate = gstate /\ VotingTables.withheld = withheld
         /\ VotingTables.below = below
<1> DEFINE t == VotingTables
<1>1. /\ t.voters = voters /\ t.producers = producers /\ t.gstate = gstate
      /\ t.withheld = withheld /\ t.below = below /\ t.failed = FALSE
  BY DEF VotingTables
<1>2. t \in Tables
  BY DEF VotingInv, VotingTypeOK, VotingTables, Tables, VoterTable, ProducerTable, GState, Withheld
<1>3. now \in Nat /\ now \in 1 .. MaxNow /\ gone \in 0 .. MaxGone
  BY VotingBoundsAssumption DEF VotingInv, VotingTypeOK
<1> HIDE DEF t
<1>4. ProxiesEndOf(t)
  BY <1>1 DEF VotingInv, ProxiesEnd, ProxiesEndOf, Users
<1>5. \A x \in Accounts : Follows(t, x)
  BY <1>1 DEF VotingInv, VotesFollowStake, Follows
<1>6. TimesOK(t)
  BY DEF VotingInv, t
<1>7. QED
  BY <1>1, <1>2, <1>3, <1>4, <1>5, <1>6 DEF TablesInv, t

LEMMA TablesTaken ==
  ASSUME NEW r, TablesInv(r), now \in 1 .. MaxNow, gone' \in 0 .. MaxGone, now' = now,
         voters' = r.voters, producers' = r.producers, gstate' = r.gstate,
         withheld' = r.withheld, below' = r.below
  PROVE  VotingInv'
<1>1. r \in Tables
  BY DEF TablesInv
<1>2. VotingTypeOK'
  BY <1>1 DEF VotingTypeOK, Tables, VoterTable, ProducerTable, GState, Withheld
<1>3. TimesOK(VotingTables)'
  BY DEF TablesInv, TimesOK, Dated, VotingTables
<1>4. ProxiesEnd'
  BY DEF TablesInv, ProxiesEndOf, Users, ProxiesEnd
<1>5. VotesFollowStake'
  BY DEF TablesInv, Follows, VotesFollowStake, VoteWeight, VotePower
<1>6. QED
  BY <1>2, <1>3, <1>4, <1>5 DEF VotingInv

\* Votes and proxies are as they were, the rows of producers are others.
LEMMA OtherProducers ==
  ASSUME NEW t, NEW rows \in ProducerTable, TablesInv(t),
         \A p \in Candidates : rows[p] # NoRow => Dated(rows[p])
  PROVE  LET r == [t EXCEPT !.producers = rows]
         IN  /\ TablesInv(r) /\ r.producers = rows
             /\ r.voters = t.voters /\ r.gstate = t.gstate /\ r.withheld = t.withheld
             /\ r.below = t.below /\ r.failed = t.failed
<1> DEFINE r == [t EXCEPT !.producers = rows]
<1>1. /\ r \in Tables /\ r.producers = rows
      /\ r.voters = t.voters /\ r.gstate = t.gstate /\ r.withheld = t.withheld
      /\ r.below = t.below /\ r.failed = t.failed
  BY DEF TablesInv, Tables
<1> HIDE DEF r
<1>2. TablesInv(r)
  BY <1>1 DEF TablesInv, TimesOK, ProxiesEndOf, Users, Follows
<1>3. QED
  BY <1>1, <1>2 DEF r

LEMMA EndedRow ==
  ASSUME NEW row \in ProducerRow, NEW active \in BOOLEAN, Dated(row)
  PROVE  LET new == [row EXCEPT !.active = active]
         IN  new \in ProducerRow /\ Dated(new) /\ new # NoRow /\ new.votes = row.votes
<1> DEFINE new == [row EXCEPT !.active = active]
<1>1. new \in ProducerRow /\ new.claimed = row.claimed /\ new.wshare = row.wshare
      /\ new.wat = row.wat /\ new.votes = row.votes
  BY DEF ProducerRow
<1> HIDE DEF new
<1>2. QED
  BY <1>1, VotingRowsAssumption DEF Dated, new

LEMMA EndedTable ==
  ASSUME NEW table \in ProducerTable, NEW p \in Candidates, NEW active \in BOOLEAN,
         table[p] # NoRow, \A q \in Candidates : table[q] # NoRow => Dated(table[q])
  PROVE  LET rows == [table EXCEPT ![p].active = active]
         IN  /\ rows \in ProducerTable
             /\ \A q \in Candidates : rows[q] # NoRow => Dated(rows[q])
<1> DEFINE new == [table[p] EXCEPT !.active = active]
           rows == [table EXCEPT ![p] = new]
<1>1. [table EXCEPT ![p].active = active] = rows
  BY DEF ProducerTable
<1>2. new \in ProducerRow /\ Dated(new)
  BY EndedRow DEF ProducerTable
<1> HIDE DEF new
<1>3. /\ rows \in ProducerTable
      /\ \A q \in Candidates : rows[q] # NoRow => Dated(rows[q])
  BY <1>2 DEF ProducerTable
<1>4. QED
  BY <1>1, <1>3

LEMMA RegProducerKeeps ==
  ASSUME VotingInv, NEW p \in Candidates, RegProducer(p)
  PROVE  VotingInv'
<1> DEFINE t == VotingTables
           new == [votes |-> 0, active |-> TRUE, claimed |-> now,
                   vshare |-> 0, vat |-> now, wshare |-> 0, wat |-> now]
           rows == producers'
<1>1. /\ TablesInv(t) /\ now \in Nat /\ now \in 1 .. MaxNow /\ gone \in 0 .. MaxGone
      /\ t.voters = voters /\ t.producers = producers
      /\ t.gstate = gstate /\ t.withheld = withheld /\ t.below = below
  BY InvOfTables
<1>2. /\ producers \in ProducerTable
      /\ \A q \in Candidates : producers[q] # NoRow => Dated(producers[q])
  BY <1>1, TablesHave DEF TablesInv, TimesOK
<1>3. /\ rows \in ProducerTable
      /\ \A q \in Candidates : rows[q] # NoRow => Dated(rows[q])
  <2>1. CASE producers[p] = NoRow
    <3>1. rows = [producers EXCEPT ![p] = new]
      BY <2>1 DEF RegProducer
    <3>2. new \in ProducerRow /\ new.claimed = now /\ new.wshare = 0 /\ new.wat = now
      BY <1>1 DEF ProducerRow
    <3> HIDE DEF new, rows
    <3>3. Dated(new)
      BY <1>1, <3>2 DEF Dated
    <3>4. QED
      BY <1>2, <3>1, <3>2, <3>3 DEF ProducerTable
  <2>2. CASE producers[p] # NoRow
    <3>1. rows = [producers EXCEPT ![p].active = TRUE]
      BY <1>2, <2>2 DEF RegProducer, ProducerTable
    <3>2. QED
      BY <1>2, <2>2, <3>1, EndedTable
  <2>3. QED
    BY <2>1, <2>2
<1> DEFINE r == [t EXCEPT !.producers = rows]
<1>4. /\ TablesInv(r) /\ r.producers = rows
      /\ r.voters = t.voters /\ r.gstate = t.gstate /\ r.withheld = t.withheld
      /\ r.below = t.below
  <2> HIDE DEF t, rows
  <2>1. QED
    BY <1>1, <1>3, OtherProducers
<1>5. UNCHANGED <<voters, gstate, now, withheld, below, gone>>
  BY DEF RegProducer
<1> HIDE DEF r, t
<1>6. QED
  BY <1>1, <1>4, <1>5, TablesTaken

LEMMA DeactivateKeeps ==
  ASSUME VotingInv, NEW p \in Candidates, Deactivate(p)
  PROVE  VotingInv'
<1> DEFINE t == VotingTables
           rows == [producers EXCEPT ![p].active = FALSE]
<1>1. /\ TablesInv(t) /\ now \in Nat /\ now \in 1 .. MaxNow /\ gone \in 0 .. MaxGone
      /\ t.voters = voters /\ t.producers = producers
      /\ t.gstate = gstate /\ t.withheld = withheld /\ t.below = below
  BY InvOfTables
<1>2. /\ rows \in ProducerTable
      /\ \A q \in Candidates : rows[q] # NoRow => Dated(rows[q])
  <2>1. /\ producers \in ProducerTable /\ producers[p] # NoRow
        /\ \A q \in Candidates : producers[q] # NoRow => Dated(producers[q])
    BY <1>1, TablesHave DEF TablesInv, TimesOK, Deactivate
  <2>2. QED
    BY <2>1, EndedTable
<1>3. producers' = rows /\ UNCHANGED <<voters, gstate, now, withheld, below>>
  BY DEF Deactivate
<1>4. gone' \in 0 .. MaxGone
  BY <1>1, VotingBoundsAssumption DEF Deactivate
<1> DEFINE r == [t EXCEPT !.producers = rows]
<1>5. /\ TablesInv(r) /\ r.producers = rows
      /\ r.voters = t.voters /\ r.gstate = t.gstate /\ r.withheld = t.withheld
      /\ r.below = t.below
  <2> HIDE DEF t, rows
  <2>1. QED
    BY <1>1, <1>2, OtherProducers
<1> HIDE DEF r, t, rows
<1>6. QED
  BY <1>1, <1>3, <1>4, <1>5, TablesTaken

LEMMA TickKeeps ==
  ASSUME VotingInv, VotingTick
  PROVE  VotingInv'
<1>1. /\ TablesInv(VotingTables) /\ now \in Nat /\ now \in 1 .. MaxNow /\ gone \in 0 .. MaxGone
      /\ VotingTables.voters = voters /\ VotingTables.producers = producers
      /\ VotingTables.gstate = gstate
  BY InvOfTables
<1>2. now' = now + 1 /\ now' \in 1 .. MaxNow /\ UNCHANGED <<voters, producers, gstate, withheld, below, gone>>
  BY <1>1, VotingBoundsAssumption DEF VotingTick
<1>3. VotingTypeOK'
  BY <1>2 DEF VotingInv, VotingTypeOK
<1>4. TimesOK(VotingTables)'
  <2>1. gstate.wat <= now /\ gstate.wat \in Nat
    BY <1>1, TablesHave DEF TablesInv, TimesOK, GState
  <2>2. ASSUME NEW p \in Candidates, producers[p] # NoRow
        PROVE  /\ producers[p].claimed + producers[p].wshare <= producers[p].wat
               /\ producers[p].wat <= now /\ producers[p].wat \in Nat
    <3>1. producers[p] \in ProducerRow /\ Dated(producers[p])
      BY <1>1, <2>2, TablesHave DEF TablesInv, TimesOK
    <3>2. QED
      BY <3>1 DEF Dated, ProducerRow
  <2>3. gstate.wat <= now + 1
    BY <1>1, <2>1
  <2>4. \A p \in Candidates : producers[p] # NoRow =>
           /\ producers[p].claimed + producers[p].wshare <= producers[p].wat
           /\ producers[p].wat <= now + 1
    BY <1>1, <2>2
  <2>5. VotingTables'.producers = producers /\ VotingTables'.gstate = gstate
    BY <1>2 DEF VotingTables
  <2>6. QED
    BY <1>2, <2>3, <2>4, <2>5 DEF TimesOK, Dated
<1>5. ProxiesEnd'
  BY <1>2 DEF VotingInv, ProxiesEnd
<1>6. VotesFollowStake'
  BY <1>2 DEF VotingInv, VotesFollowStake, VoteWeight, VotePower
<1>7. QED
  BY <1>3, <1>4, <1>5, <1>6 DEF VotingInv

\* Another row of a, with the proxy it had: where a uses one it stays none itself.
LEMMA OtherRow ==
  ASSUME NEW t, TablesInv(t), NEW a \in Accounts, NEW new \in VoterRow,
         t.voters[a] # NoRow => new.proxy = t.voters[a].proxy,
         t.voters[a] # NoRow /\ new.proxy # None => new.is_proxy = t.voters[a].is_proxy,
         t.voters[a] = NoRow => new.proxy = None
  PROVE  LET r == [t EXCEPT !.voters = [t.voters EXCEPT ![a] = new]]
         IN  /\ OneRow(t, r, a, new) /\ r.below = t.below
             /\ TimesOK(r) /\ ProxiesEndOf(r)
             /\ \A x \in Accounts \ {a} : Follows(r, x)
<1> DEFINE r == [t EXCEPT !.voters = [t.voters EXCEPT ![a] = new]]
<1>1. t \in Tables /\ TimesOK(t) /\ ProxiesEndOf(t) /\ \A x \in Accounts : Follows(t, x)
  BY DEF TablesInv
<1>2. OneRow(t, r, a, new) /\ r.below = t.below
  BY <1>1, PutRow
<1> HIDE DEF r
<1>3. TimesOK(r)
  BY <1>1, <1>2 DEF OneRow, TimesOK
<1>4. \A x \in Accounts \ {a} : Follows(r, x)
  BY <1>1, <1>2 DEF OneRow, Follows
<1>5. ProxiesEndOf(r)
  <2>1. new # NoRow
    BY RowType
  <2>2. \A x \in Accounts : t.voters[x] # NoRow => /\ r.voters[x] # NoRow
                                                   /\ r.voters[x].proxy = t.voters[x].proxy
    BY <1>2, <2>1 DEF OneRow
  <2>3. \A x \in Users(t) : r.voters[x].is_proxy = t.voters[x].is_proxy
    BY <1>2 DEF OneRow, Users
  <2>4. \A x \in Accounts : t.voters[x] = NoRow => r.voters[x] = NoRow \/ r.voters[x].proxy = None
    BY <1>2 DEF OneRow
  <2>5. r \in Tables
    BY <1>2 DEF OneRow
  <2>6. QED
    BY <1>1, <2>2, <2>3, <2>4, <2>5, SameEnds
<1>6. QED
  BY <1>2, <1>3, <1>4, <1>5 DEF r

LEMMA NewVoterType ==
  ASSUME NEW stake \in Nat
  PROVE  LET row == NewVoter(stake)
         IN  /\ row \in VoterRow /\ row # NoRow /\ row.proxy = None /\ row.producers = {}
             /\ row.staked = stake /\ row.last = 0 /\ row.proxied = 0
<1> DEFINE row == NewVoter(stake)
<1>1. /\ row.proxy = None /\ row.producers = {} /\ row.staked = stake /\ row.last = 0 /\ row.proxied = 0
  BY DEF NewVoter
<1>2. row \in VoterRow
  <2>1. {} \in SUBSET Candidates /\ None \in Accounts \cup {None} /\ 0 \in Int /\ 0 \in Nat
    OBVIOUS
  <2>2. QED
    BY <2>1 DEF NewVoter, VoterRow
<1> HIDE DEF row
<1>3. QED
  BY <1>1, <1>2, RowType DEF row

LEMMA RegProxyKeeps ==
  ASSUME VotingInv, NEW a \in Accounts, NEW isproxy \in BOOLEAN, RegProxy(a, isproxy)
  PROVE  VotingInv'
<1> DEFINE t      == VotingTables
           row    == voters[a]
           new    == [row EXCEPT !.is_proxy = isproxy]
           marked == [t EXCEPT !.voters = [t.voters EXCEPT ![a] = new]]
           passed == Propagate(marked, a)
           r      == UpdateWitnesses(t, passed)
<1>1. /\ TablesInv(t) /\ now \in Nat /\ now \in 1 .. MaxNow /\ gone \in 0 .. MaxGone
      /\ t.voters = voters /\ t.producers = producers
      /\ t.gstate = gstate /\ t.withheld = withheld /\ t.below = below
  BY InvOfTables
<1>2. row # NoRow /\ row \in VoterRow
  BY <1>1, TablesHave DEF RegProxy, TablesInv
<1>3. row.proxy = None
  <2>1. CASE isproxy
    BY <2>1 DEF RegProxy
  <2>2. CASE ~isproxy
    <3>1. row.is_proxy
      BY <1>2, <2>2, RowType DEF RegProxy
    <3>2. a \notin Users(t)
      BY <1>1, <3>1 DEF TablesInv, ProxiesEndOf
    <3>3. QED
      BY <1>1, <1>2, <3>2 DEF Users
  <2>3. QED
    BY <2>1, <2>2
<1>4. CommitVotes(r) /\ gone' = gone
  <2>1. marked = [t EXCEPT !.voters = [t.voters EXCEPT ![a].is_proxy = isproxy]]
    BY <1>1 DEF TablesInv, Tables, VoterTable
  <2> HIDE DEF marked
  <2>2. QED
    BY <2>1 DEF RegProxy
<1>5. new \in VoterRow /\ new.proxy = None /\ new # NoRow
  <2>1. new \in VoterRow /\ new.proxy = None
    BY <1>2, <1>3 DEF VoterRow
  <2>2. QED
    BY <2>1, RowType
<1> HIDE DEF new
<1>6. /\ OneRow(t, marked, a, new)
      /\ TimesOK(marked) /\ ProxiesEndOf(marked)
      /\ \A x \in Accounts \ {a} : Follows(marked, x)
  <2> HIDE DEF t
  <2>1. QED
    BY <1>1, <1>2, <1>3, <1>5, OtherRow
<1> HIDE DEF marked
<1>7. marked \in Tables /\ marked.voters[a] = new /\ marked.producers = t.producers
  BY <1>6 DEF OneRow
<1>8. /\ Alike(marked, passed)
      /\ passed.voters[a].last = VoteWeight(passed.voters[a])
      /\ \A x \in Accounts \ {a} : Follows(marked, x) => Follows(passed, x)
  <2>1. LET b == marked.voters[a].proxy IN b # None => b # a /\ marked.voters[b] # NoRow
    BY <1>5, <1>7
  <2>2. LET s == Propagate(marked, a)
        IN  /\ Alike(marked, s)
            /\ s.voters[a].last = VoteWeight(s.voters[a])
            /\ \A x \in Accounts \ {a} : Follows(marked, x) => Follows(s, x)
    BY <1>1, <1>5, <1>6, <1>7, <2>1, PropagateFacts
  <2>3. QED
    BY <2>2
<1> HIDE DEF passed
<1>9. Alike(passed, r) /\ r.voters = passed.voters
  <2>1. /\ passed \in Tables /\ TimesOK(passed)
        /\ \A p \in Candidates : t.producers[p] = NoRow <=> passed.producers[p] = NoRow
    BY <1>7, <1>8 DEF Alike
  <2>2. LET s == UpdateWitnesses(t, passed)
        IN  Alike(passed, s) /\ s.voters = passed.voters
    BY <1>1, <2>1, UpdateWitnessesFacts
  <2>3. QED
    BY <2>2
<1> HIDE DEF r, t
<1>10. TablesInv(r)
  <2>1. Alike(marked, r)
    BY <1>7, <1>8, <1>9, AlikeTrans
  <2>2. ProxiesEndOf(r)
    BY <1>6, <1>7, <2>1, AlikeEnds
  <2>3. \A x \in Accounts : Follows(passed, x)
    BY <1>6, <1>8 DEF Follows
  <2>4. \A x \in Accounts : Follows(r, x)
    BY <1>9, <2>3 DEF Follows
  <2>5. r \in Tables /\ TimesOK(r)
    BY <2>1 DEF Alike
  <2>6. QED
    BY <2>2, <2>4, <2>5 DEF TablesInv
<1>11. QED
  BY <1>1, <1>4, <1>10, TablesTaken DEF CommitVotes

LEMMA RegNewProxyKeeps ==
  ASSUME VotingInv, NEW a \in Accounts, NEW isproxy \in BOOLEAN, RegNewProxy(a, isproxy)
  PROVE  VotingInv'
<1> DEFINE t   == VotingTables
           new == [NewVoter(0) EXCEPT !.is_proxy = isproxy]
           r   == [t EXCEPT !.voters = [t.voters EXCEPT ![a] = new]]
<1>1. /\ TablesInv(t) /\ now \in Nat /\ now \in 1 .. MaxNow /\ gone \in 0 .. MaxGone
      /\ t.voters = voters /\ t.producers = producers
      /\ t.gstate = gstate /\ t.withheld = withheld /\ t.below = below
  BY InvOfTables
<1>2. new \in VoterRow /\ new.proxy = None /\ new.producers = {}
  <2> DEFINE row == NewVoter(0)
  <2>1. row \in VoterRow /\ row.proxy = None /\ row.producers = {}
    BY NewVoterType
  <2> HIDE DEF row
  <2>2. [row EXCEPT !.is_proxy = isproxy] \in VoterRow
        /\ [row EXCEPT !.is_proxy = isproxy].proxy = None
        /\ [row EXCEPT !.is_proxy = isproxy].producers = {}
    BY <2>1 DEF VoterRow
  <2>3. QED
    BY <2>2 DEF row
<1>3. t.voters[a] = NoRow /\ voters' = [voters EXCEPT ![a] = new]
      /\ UNCHANGED <<producers, gstate, now, withheld, below, gone>>
  BY <1>1 DEF RegNewProxy
<1> HIDE DEF new, t
<1>4. /\ OneRow(t, r, a, new) /\ r.below = t.below
      /\ TimesOK(r) /\ ProxiesEndOf(r)
      /\ \A x \in Accounts \ {a} : Follows(r, x)
  BY <1>1, <1>2, <1>3, OtherRow
<1>5. r.voters = voters'
  BY <1>1, <1>3 DEF TablesInv, Tables
<1> HIDE DEF r
<1>6. TablesInv(r)
  <2>1. Follows(r, a)
    BY <1>2, <1>4 DEF OneRow, Follows
  <2>2. QED
    BY <1>4, <2>1 DEF TablesInv, OneRow
<1>7. QED
  BY <1>1, <1>3, <1>4, <1>5, <1>6, TablesTaken DEF OneRow

\* Counting the votes that are unpaid.
LEMMA CountUnpaidFacts ==
  ASSUME NEW t, TablesInv(t), NEW a \in Accounts, t.voters[a] # NoRow
  PROVE  TablesInv(CountUnpaid(t, a))
<1> DEFINE row   == t.voters[a]
           power == VotePower(row)
           n     == row.unpaid + power
           m     == t.gstate.unpaid + power
           new   == [row EXCEPT !.unpaid = n]
           g     == [t.gstate EXCEPT !.unpaid = m]
           put   == [t EXCEPT !.voters = [t.voters EXCEPT ![a] = new]]
           r     == [put EXCEPT !.gstate = g]
<1>1. /\ t \in Tables /\ row \in VoterRow /\ t.gstate \in GState /\ t.voters \in VoterTable
      /\ row.unpaid \in Nat /\ t.gstate.unpaid \in Nat /\ power \in Nat
  BY TablesHave, RowType, PowerType DEF TablesInv, GState
<1>2. CountUnpaid(t, a) = r
  BY <1>1 DEF CountUnpaid, VoterTable, Tables
<1>3. n \in Nat /\ m \in Nat
  BY <1>1
<1> HIDE DEF n, m, power, row
<1>4. /\ new \in VoterRow /\ new.proxy = row.proxy /\ new.is_proxy = row.is_proxy
      /\ new.staked = row.staked /\ new.proxied = row.proxied
      /\ new.last = row.last /\ new.producers = row.producers
  BY <1>1, <1>3 DEF VoterRow
<1>5. g \in GState /\ g.wat = t.gstate.wat
  BY <1>1, <1>3 DEF GState
<1> HIDE DEF new, g
<1>6. /\ OneRow(t, put, a, new) /\ TimesOK(put) /\ ProxiesEndOf(put)
      /\ \A x \in Accounts \ {a} : Follows(put, x)
  BY <1>1, <1>4, OtherRow, RowType DEF row
<1>7. Follows(put, a)
  <2>1. Follows(t, a) /\ put.voters[a] = new
    BY <1>6 DEF TablesInv, OneRow
  <2>2. VoteWeight(new) = VoteWeight(row)
    BY <1>1, <1>4, WeightOf
  <2>3. QED
    BY <1>4, <2>1, <2>2 DEF Follows, row
<1> HIDE DEF put
<1>8. r \in Tables /\ r.voters = put.voters /\ r.producers = put.producers /\ r.gstate = g
  BY <1>5, <1>6 DEF OneRow, Tables
<1> HIDE DEF r
<1>9. TimesOK(r)
  BY <1>5, <1>6, <1>8 DEF TimesOK, OneRow
<1>10. ProxiesEndOf(r) /\ \A x \in Accounts : Follows(r, x)
  BY <1>6, <1>7, <1>8 DEF ProxiesEndOf, Users, Follows
<1>11. TablesInv(r)
  BY <1>8, <1>9, <1>10 DEF TablesInv
<1>12. QED
  BY <1>2, <1>11

LEMMA VoteProducerKeeps ==
  ASSUME VotingInv, NEW a \in Accounts, NEW proxy \in Accounts \cup {None},
         NEW ps \in SUBSET Candidates, VoteProducer(a, proxy, ps)
  PROVE  VotingInv'
<1> DEFINE t == VotingTables
           u == UpdateVotes(t, a, proxy, ps)
           r == CountUnpaid(u, a)
<1>1. /\ TablesInv(t) /\ now \in Nat /\ now \in 1 .. MaxNow /\ gone \in 0 .. MaxGone
  BY InvOfTables
<1>2. CanUpdateVotes(t, a, proxy, ps, TRUE) /\ CommitVotes(r) /\ gone' = gone
  BY DEF VoteProducer
<1> HIDE DEF t
<1>3. /\ t.voters[a] # NoRow
      /\ proxy # None => /\ proxy # a /\ t.voters[proxy] # NoRow
                         /\ t.voters[proxy].is_proxy /\ ~t.voters[a].is_proxy
  BY <1>2 DEF CanUpdateVotes
<1>4. ProxiesThere(t)
  BY <1>1, EndIsThere DEF TablesInv
<1>5. Recast(t, u, a, proxy, ps)
  BY <1>1, <1>3, <1>4, UpdateVotesFacts DEF TablesInv
<1> HIDE DEF u
<1>6. TablesInv(u) /\ u.voters[a] # NoRow
  <2>1. ProxiesEndOf(u)
    BY <1>1, <1>3, <1>5, RecastEnds DEF TablesInv
  <2>2. \A x \in Accounts : Follows(u, x)
    BY <1>1, <1>5 DEF TablesInv, Recast, Follows
  <2>3. QED
    BY <1>5, <2>1, <2>2, RowType DEF TablesInv, Recast
<1>7. TablesInv(r)
  BY <1>6, CountUnpaidFacts
<1> HIDE DEF r
<1>8. QED
  BY <1>1, <1>2, <1>7, TablesTaken DEF CommitVotes

\* Another stake: the votes are cast anew with it, and where there are none the row is all.
LEMMA UpdateVotingPowerFacts ==
  ASSUME NEW t, TablesInv(t), now \in Nat, now \in 1 .. MaxNow, gone' \in 0 .. MaxGone,
         NEW a \in Accounts, NEW stake \in Nat, UpdateVotingPower(t, a, stake)
  PROVE  VotingInv'
<1> DEFINE old   == IF t.voters[a] = NoRow THEN NewVoter(0) ELSE t.voters[a]
           row   == [old EXCEPT !.staked = stake]
           grown == [t EXCEPT !.voters = [t.voters EXCEPT ![a] = row]]
           votes == row.producers # {} \/ row.proxy # None
           r     == IF votes THEN UpdateVotes(grown, a, row.proxy, row.producers) ELSE grown
<1>1. /\ votes => CanUpdateVotes(grown, a, row.proxy, row.producers, FALSE)
      /\ CommitVotes(r)
  BY DEF UpdateVotingPower
<1>2. old \in VoterRow /\ (t.voters[a] = NoRow => old.proxy = None)
  BY TablesHave, NewVoterType DEF TablesInv
<1>3. t.voters[a] # NoRow => old = t.voters[a]
  OBVIOUS
<1> HIDE DEF old
<1>4. row \in VoterRow /\ row.proxy = old.proxy /\ row.is_proxy = old.is_proxy
  BY <1>2 DEF VoterRow
<1>5. row.proxy \in Accounts \cup {None} /\ row.producers \in SUBSET Candidates /\ row # NoRow
  BY <1>4, RowType
<1> HIDE DEF row
<1>6. /\ OneRow(t, grown, a, row) /\ TimesOK(grown) /\ ProxiesEndOf(grown)
      /\ \A x \in Accounts \ {a} : Follows(grown, x)
  BY <1>2, <1>3, <1>4, OtherRow
<1> HIDE DEF grown
<1>7. grown \in Tables /\ grown.voters[a] = row
  BY <1>6 DEF OneRow
<1>8. TablesInv(r)
  <2>1. CASE votes
    <3> DEFINE u == UpdateVotes(grown, a, row.proxy, row.producers)
    <3>1. row.proxy # None => grown.voters[row.proxy] # NoRow
      BY <1>1, <2>1 DEF CanUpdateVotes
    <3>2. ProxiesThere(grown)
      BY <1>6, <1>7, EndIsThere
    <3>3. Recast(grown, u, a, row.proxy, row.producers)
      BY <1>5, <1>6, <1>7, <3>1, <3>2, UpdateVotesFacts
    <3> HIDE DEF u
    <3>4. ProxiesEndOf(u)
      BY <1>5, <1>6, <1>7, <3>3, RecastEnds
    <3>5. \A x \in Accounts : Follows(u, x)
      BY <1>6, <3>3 DEF Recast, Follows
    <3>6. TablesInv(u)
      BY <3>3, <3>4, <3>5 DEF TablesInv, Recast
    <3>7. QED
      BY <2>1, <3>6 DEF u
  <2>2. CASE ~votes
    <3>1. Follows(grown, a)
      BY <1>7, <2>2 DEF Follows
    <3>2. TablesInv(grown)
      BY <1>6, <1>7, <3>1 DEF TablesInv
    <3>3. QED
      BY <2>2, <3>2
  <2>3. QED
    BY <2>1, <2>2
<1> HIDE DEF r
<1>9. QED
  BY <1>1, <1>8, TablesTaken DEF CommitVotes

LEMMA DelegateKeeps ==
  ASSUME VotingInv, NEW a \in Accounts, NEW stake \in Stakes[a], Delegate(a, stake)
  PROVE  VotingInv'
<1>1. TablesInv(VotingTables) /\ now \in Nat /\ now \in 1 .. MaxNow /\ gone \in 0 .. MaxGone
  BY InvOfTables
<1>2. UpdateVotingPower(VotingTables, a, stake) /\ gone' = gone
  BY DEF Delegate
<1>3. stake \in Nat
  BY VotingBoundsAssumption
<1>4. QED
  BY <1>1, <1>2, <1>3, UpdateVotingPowerFacts

LEMMA UndelegateKeeps ==
  ASSUME VotingInv, NEW a \in Accounts, NEW stake \in Stakes[a], Undelegate(a, stake)
  PROVE  VotingInv'
<1> DEFINE t     == VotingTables
           big   == voters[a].staked > FreeStake
           rows  == [t.producers EXCEPT ![a].active = FALSE]
           ended == [t EXCEPT !.producers = rows]
           from  == IF big THEN ended ELSE t
<1>1. TablesInv(t) /\ now \in Nat /\ now \in 1 .. MaxNow /\ gone \in 0 .. MaxGone
      /\ t.producers = producers
  BY InvOfTables
<1>2. /\ UpdateVotingPower(from, a, stake)
      /\ big => a \in Candidates /\ producers[a] # NoRow /\ gone < MaxGone
      /\ gone' = IF big THEN gone + 1 ELSE gone
  BY DEF Undelegate
<1>3. stake \in Nat
  BY VotingBoundsAssumption
<1>4. gone' \in 0 .. MaxGone
  BY <1>1, <1>2, VotingBoundsAssumption
<1>5. TablesInv(from)
  <2>1. CASE big
    <3>1. /\ t.producers \in ProducerTable /\ a \in Candidates /\ t.producers[a] # NoRow
          /\ \A q \in Candidates : t.producers[q] # NoRow => Dated(t.producers[q])
      BY <1>1, <1>2, <2>1, TablesHave DEF TablesInv, TimesOK
    <3> HIDE DEF t, big
    <3>2. /\ rows \in ProducerTable
          /\ \A q \in Candidates : rows[q] # NoRow => Dated(rows[q])
      BY <3>1, EndedTable
    <3> HIDE DEF rows
    <3>3. TablesInv(ended)
      BY <1>1, <3>2, OtherProducers
    <3>4. QED
      BY <2>1, <3>3
  <2>2. CASE ~big
    BY <1>1, <2>2
  <2>3. QED
    BY <2>1, <2>2
<1> HIDE DEF from, t
<1>6. QED
  BY <1>1, <1>2, <1>3, <1>4, <1>5, UpdateVotingPowerFacts

LEMMA InitKeeps ==
  ASSUME VotingInit
  PROVE  VotingInv
<1>1. ASSUME NEW a \in Accounts
      PROVE  /\ voters[a] \in VoterRow \cup {NoRow}
             /\ voters[a] # NoRow => voters[a].proxy = None /\ voters[a].producers = {}
  <2>1. CASE InitStake[a] = NoRow
    BY <2>1 DEF VotingInit
  <2>2. CASE InitStake[a] # NoRow
    <3>1. InitStake[a] \in Nat
      BY <2>2, VotingRowsAssumption
    <3>2. voters[a] = NewVoter(InitStake[a])
      BY <2>2 DEF VotingInit
    <3>3. QED
      BY <3>1, <3>2, NewVoterType
  <2>3. QED
    BY <2>1, <2>2
<1>2. VotingTypeOK
  <2>1. voters \in [Accounts -> VoterRow \cup {NoRow}]
    BY <1>1 DEF VotingInit
  <2>2. now \in 1 .. MaxNow /\ gone \in 0 .. MaxGone
    BY VotingBoundsAssumption DEF VotingInit
  <2>3. producers \in [Candidates -> ProducerRow \cup {NoRow}]
    BY DEF VotingInit
  <2>4. gstate \in [weight : Int, activated : Nat, thresh : Nat, unpaid : Nat,
                    vrate : Int, vtotal : Int, vat : Nat, wrate : Nat, wtotal : Nat, wat : Nat]
    BY DEF VotingInit
  <2>5. withheld \in [votes : [Candidates -> Int], proxied : [Accounts -> Int]]
    BY DEF VotingInit
  <2>6. below \in BOOLEAN
    BY DEF VotingInit
  <2>7. QED
    BY <2>1, <2>2, <2>3, <2>4, <2>5, <2>6 DEF VotingTypeOK
<1>3. TimesOK(VotingTables)
  BY DEF VotingInit, VotingTables, TimesOK
<1>4. ProxiesEnd
  <2>1. {a \in Accounts : voters[a] # NoRow /\ voters[a].proxy # None} = {}
    BY <1>1
  <2>2. QED
    BY <2>1 DEF ProxiesEnd
<1>5. VotesFollowStake
  BY <1>1 DEF VotesFollowStake
<1>6. QED
  BY <1>2, <1>3, <1>4, <1>5 DEF VotingInv

\* VotingInv is inductive.
LEMMA StepKeeps ==
  ASSUME VotingInv, [VotingNext]_votingVars
  PROVE  VotingInv'
<1>1. ASSUME NEW p \in Candidates, RegProducer(p) PROVE VotingInv'
  BY <1>1, RegProducerKeeps
<1>2. ASSUME NEW p \in Candidates, Deactivate(p) PROVE VotingInv'
  BY <1>2, DeactivateKeeps
<1>3. ASSUME NEW a \in Proxies, NEW isproxy \in BOOLEAN, RegProxy(a, isproxy) PROVE VotingInv'
  BY <1>3, RegProxyKeeps, AccountsAssumption
<1>4. ASSUME NEW a \in Proxies, NEW isproxy \in BOOLEAN, RegNewProxy(a, isproxy) PROVE VotingInv'
  BY <1>4, RegNewProxyKeeps, AccountsAssumption
<1>5. ASSUME NEW a \in Accounts, NEW proxy \in Accounts \cup {None}, NEW ps \in SUBSET Candidates,
             VoteProducer(a, proxy, ps)
      PROVE  VotingInv'
  BY <1>5, VoteProducerKeeps
<1>6. ASSUME NEW a \in Accounts, NEW stake \in Stakes[a], Delegate(a, stake) PROVE VotingInv'
  BY <1>6, DelegateKeeps
<1>7. ASSUME NEW a \in Accounts, NEW stake \in Stakes[a], Undelegate(a, stake) PROVE VotingInv'
  BY <1>7, UndelegateKeeps
<1>8. CASE VotingTick
  BY <1>8, TickKeeps
<1>9. CASE UNCHANGED votingVars
  BY <1>9 DEF votingVars, VotingInv, VotingTypeOK, VotingTables, TimesOK, Dated, ProxiesEnd,
              VotesFollowStake, VoteWeight, VotePower
<1>10. QED
  BY <1>1, <1>2, <1>3, <1>4, <1>5, <1>6, <1>7, <1>8, <1>9 DEF VotingNext
-----------------------------------------------------------------------------
(* Tallies                                                                 *)

\* What a has cast on p, and handed to b, and the sums of both.
CastBy(t, p)   == [a \in Accounts |->
                      IF t.voters[a] # NoRow /\ p \in t.voters[a].producers THEN t.voters[a].last ELSE 0]
HandedBy(t, b) == [a \in Accounts |->
                      IF t.voters[a] # NoRow /\ t.voters[a].proxy = b THEN t.voters[a].last ELSE 0]
Cast(t, p)     == SumOver(CastBy(t, p), Accounts)
Handed(t, b)   == SumOver(HandedBy(t, b), Accounts)

\* By how much the tallies of t are off.
Weighed(t)    == [p \in Candidates |-> Cast(t, p) - t.withheld.votes[p]]
VoteOff(t, p) == t.producers[p].votes + t.withheld.votes[p] - Cast(t, p)
HandOff(t, b) == t.voters[b].proxied + t.withheld.proxied[b] - Handed(t, b)
WeightOff(t)  == t.gstate.weight - SumOver(Weighed(t), Candidates)

LEMMA TallyTypes ==
  ASSUME NEW t \in Tables
  PROVE  /\ IsFiniteSet(Accounts) /\ IsFiniteSet(Candidates)
         /\ t.gstate.weight \in Int /\ SumOver(Weighed(t), Candidates) \in Int
         /\ \A p \in Candidates : /\ \A a \in Accounts : CastBy(t, p)[a] \in Int
                                  /\ Cast(t, p) \in Int /\ t.withheld.votes[p] \in Int
                                  /\ Weighed(t)[p] \in Int
         /\ \A b \in Accounts : /\ \A a \in Accounts : HandedBy(t, b)[a] \in Int
                                /\ Handed(t, b) \in Int /\ t.withheld.proxied[b] \in Int
         /\ \A p \in Candidates : t.producers[p] # NoRow => t.producers[p].votes \in Int
         /\ \A b \in Accounts : t.voters[b] # NoRow => t.voters[b].proxied \in Int
<1>1. IsFiniteSet(Accounts) /\ IsFiniteSet(Candidates)
  BY AccountsAssumption, FS_Subset
<1>2. \A a \in Accounts : t.voters[a] # NoRow => t.voters[a].last \in Int /\ t.voters[a].proxied \in Int
  BY TablesHave, RowType
<1>3. ASSUME NEW p \in Candidates
      PROVE  (\A a \in Accounts : CastBy(t, p)[a] \in Int) /\ Cast(t, p) \in Int
  <2>1. \A a \in Accounts : CastBy(t, p)[a] \in Int
    BY <1>2 DEF CastBy
  <2>2. QED
    BY <1>1, <2>1, SumOverType DEF Cast
<1>4. ASSUME NEW b \in Accounts
      PROVE  (\A a \in Accounts : HandedBy(t, b)[a] \in Int) /\ Handed(t, b) \in Int
  <2>1. \A a \in Accounts : HandedBy(t, b)[a] \in Int
    BY <1>2 DEF HandedBy
  <2>2. QED
    BY <1>1, <2>1, SumOverType DEF Handed
<1>5. /\ \A p \in Candidates : t.withheld.votes[p] \in Int
      /\ \A b \in Accounts : t.withheld.proxied[b] \in Int
  BY TablesHave DEF Withheld
<1>6. \A p \in Candidates : Weighed(t)[p] \in Int
  BY <1>3, <1>5 DEF Weighed
<1>7. SumOver(Weighed(t), Candidates) \in Int
  BY <1>1, <1>6, SumOverType
<1>8. /\ t.gstate.weight \in Int
      /\ \A p \in Candidates : t.producers[p] # NoRow => t.producers[p].votes \in Int
  BY TablesHave DEF GState, ProducerRow
<1>9. QED
  BY <1>1, <1>2, <1>3, <1>4, <1>5, <1>6, <1>7, <1>8

LEMMA OffTypes ==
  ASSUME NEW t \in Tables
  PROVE  /\ \A p \in Candidates : t.producers[p] # NoRow => VoteOff(t, p) \in Int
         /\ \A b \in Accounts : t.voters[b] # NoRow => HandOff(t, b) \in Int
         /\ WeightOff(t) \in Int
<1>1. ASSUME NEW p \in Candidates, t.producers[p] # NoRow PROVE VoteOff(t, p) \in Int
  <2>1. t.producers[p].votes \in Int /\ t.withheld.votes[p] \in Int /\ Cast(t, p) \in Int
    BY <1>1, TallyTypes
  <2>2. QED
    BY <2>1 DEF VoteOff
<1>2. ASSUME NEW b \in Accounts, t.voters[b] # NoRow PROVE HandOff(t, b) \in Int
  <2>1. t.voters[b].proxied \in Int /\ t.withheld.proxied[b] \in Int /\ Handed(t, b) \in Int
    BY <1>2, TallyTypes
  <2>2. QED
    BY <2>1 DEF HandOff
<1>3. WeightOff(t) \in Int
  <2>1. t.gstate.weight \in Int /\ SumOver(Weighed(t), Candidates) \in Int
    BY TallyTypes
  <2>2. QED
    BY <2>1 DEF WeightOff
<1>4. QED
  BY <1>1, <1>2, <1>3

\* One voter's row differs: the sums differ by what it contributes.
LEMMA OneVoter ==
  ASSUME NEW t \in Tables, NEW r \in Tables, NEW a \in Accounts,
         \A x \in Accounts \ {a} : r.voters[x] = t.voters[x]
  PROVE  /\ \A p \in Candidates : Cast(r, p) = Cast(t, p) + CastBy(r, p)[a] - CastBy(t, p)[a]
         /\ \A b \in Accounts : Handed(r, b) = Handed(t, b) + HandedBy(r, b)[a] - HandedBy(t, b)[a]
<1>1. ASSUME NEW p \in Candidates
      PROVE  Cast(r, p) = Cast(t, p) + CastBy(r, p)[a] - CastBy(t, p)[a]
  <2>1. \A x \in Accounts \ {a} : CastBy(t, p)[x] = CastBy(r, p)[x]
    BY DEF CastBy
  <2>2. /\ IsFiniteSet(Accounts)
        /\ \A x \in Accounts : CastBy(t, p)[x] \in Int
        /\ \A x \in Accounts : CastBy(r, p)[x] \in Int
    BY TallyTypes
  <2>3. QED
    BY <2>1, <2>2, SumOverChange DEF Cast
<1>2. ASSUME NEW b \in Accounts
      PROVE  Handed(r, b) = Handed(t, b) + HandedBy(r, b)[a] - HandedBy(t, b)[a]
  <2>1. \A x \in Accounts \ {a} : HandedBy(t, b)[x] = HandedBy(r, b)[x]
    BY DEF HandedBy
  <2>2. /\ IsFiniteSet(Accounts)
        /\ \A x \in Accounts : HandedBy(t, b)[x] \in Int
        /\ \A x \in Accounts : HandedBy(r, b)[x] \in Int
    BY TallyTypes
  <2>3. QED
    BY <2>1, <2>2, SumOverChange DEF Handed
<1>3. QED
  BY <1>1, <1>2

\* A voter is recorded with a weight that differs by change.
LEMMA LastMoves ==
  ASSUME NEW t \in Tables, NEW r \in Tables, NEW a \in Accounts, NEW change \in Int,
         \A x \in Accounts \ {a} : r.voters[x] = t.voters[x],
         t.voters[a] # NoRow, r.voters[a] # NoRow,
         r.voters[a].producers = t.voters[a].producers, r.voters[a].proxy = t.voters[a].proxy,
         r.voters[a].last = t.voters[a].last + change
  PROVE  /\ \A p \in Candidates :
               Cast(r, p) = Cast(t, p) + (IF p \in t.voters[a].producers THEN change ELSE 0)
         /\ \A b \in Accounts :
               Handed(r, b) = Handed(t, b) + (IF t.voters[a].proxy = b THEN change ELSE 0)
<1>1. t.voters[a].last \in Int
  BY TablesHave, RowType
<1>2. ASSUME NEW p \in Candidates
      PROVE  Cast(r, p) = Cast(t, p) + (IF p \in t.voters[a].producers THEN change ELSE 0)
  <2>1. Cast(r, p) = Cast(t, p) + CastBy(r, p)[a] - CastBy(t, p)[a]
    BY OneVoter
  <2>2. /\ CastBy(t, p)[a] = IF p \in t.voters[a].producers THEN t.voters[a].last ELSE 0
        /\ CastBy(r, p)[a] = IF p \in t.voters[a].producers THEN t.voters[a].last + change ELSE 0
    BY DEF CastBy
  <2>3. Cast(t, p) \in Int
    BY TallyTypes
  <2>4. QED
    BY <1>1, <2>1, <2>2, <2>3
<1>3. ASSUME NEW b \in Accounts
      PROVE  Handed(r, b) = Handed(t, b) + (IF t.voters[a].proxy = b THEN change ELSE 0)
  <2>1. Handed(r, b) = Handed(t, b) + HandedBy(r, b)[a] - HandedBy(t, b)[a]
    BY OneVoter
  <2>2. /\ HandedBy(t, b)[a] = IF t.voters[a].proxy = b THEN t.voters[a].last ELSE 0
        /\ HandedBy(r, b)[a] = IF t.voters[a].proxy = b THEN t.voters[a].last + change ELSE 0
    BY DEF HandedBy
  <2>3. Handed(t, b) \in Int
    BY TallyTypes
  <2>4. QED
    BY <1>1, <2>1, <2>2, <2>3
<1>4. QED
  BY <1>2, <1>3

\* The sum of what all votes should be, where those of P differ by delta.
LEMMA WeighedMoves ==
  ASSUME NEW t \in Tables, NEW r \in Tables, NEW P \in SUBSET Candidates, NEW delta \in [P -> Int],
         \A p \in P : Weighed(r)[p] = Weighed(t)[p] + delta[p],
         \A p \in Candidates \ P : Weighed(r)[p] = Weighed(t)[p]
  PROVE  SumOver(Weighed(r), Candidates) = SumOver(Weighed(t), Candidates) + SumOver(delta, P)
<1> DEFINE e == [p \in P |-> p]
<1>1. /\ IsFiniteSet(Candidates) /\ IsFiniteSet(P)
      /\ \A p \in Candidates : Weighed(t)[p] \in Int
  BY TallyTypes, FS_Subset
<1>2. e \in [P -> Candidates] /\ \A p \in P : e[p] = p
  OBVIOUS
<1> HIDE DEF e
<1>3. \A x, y \in P : e[x] = e[y] => x = y
  BY <1>2
<1>4. \A p \in P : delta[p] \in Int
  OBVIOUS
<1>5. \A p \in P : Weighed(r)[e[p]] = Weighed(t)[e[p]] + delta[p]
  BY <1>2
<1>6. \A s \in Candidates : (\A p \in P : e[p] # s) => Weighed(r)[s] = Weighed(t)[s]
  BY <1>2
<1> DEFINE f == Weighed(t)
           h == Weighed(r)
<1>7. /\ \A s \in Candidates : f[s] \in Int
      /\ \A p \in P : h[e[p]] = f[e[p]] + delta[p]
      /\ \A s \in Candidates : (\A p \in P : e[p] # s) => h[s] = f[s]
  BY <1>1, <1>5, <1>6
<1> HIDE DEF f, h
<1>8. SumOver(h, Candidates) = SumOver(f, Candidates) + SumOver(delta, P)
  BY <1>1, <1>2, <1>3, <1>4, <1>7, SumOverSlice
<1>9. QED
  BY <1>8 DEF f, h

\* r has the tallies of t, but for what b of Accounts is to hand over: its proxied weight is
\* off by h[b] more.  Nothing is said of tables below zero, or refused.
Shift(t, r, h) ==
    ~r.below /\ ~r.failed =>
        /\ ~t.below /\ ~t.failed
        /\ \A p \in Candidates : t.producers[p] # NoRow => VoteOff(r, p) = VoteOff(t, p)
        /\ \A p \in Candidates : t.producers[p] = NoRow => r.withheld.votes[p] = t.withheld.votes[p]
        /\ \A b \in Accounts : t.voters[b] # NoRow => HandOff(r, b) = HandOff(t, b) + h[b]
        /\ \A b \in Accounts : t.voters[b] = NoRow => r.withheld.proxied[b] = t.withheld.proxied[b]
        /\ WeightOff(r) = WeightOff(t)
        /\ \A x \in Accounts : t.voters[x] # NoRow /\ t.voters[x].last >= 0 => r.voters[x].last >= 0
Nothing == [x \in Accounts |-> 0]
AtOne(b, weight) == [x \in Accounts |-> IF x = b THEN weight ELSE 0]

LEMMA ShiftTrans ==
  ASSUME NEW t \in Tables, NEW r \in Tables, NEW s \in Tables, Alike(t, r),
         NEW h \in [Accounts -> Int], NEW k \in [Accounts -> Int], NEW m \in [Accounts -> Int],
         Shift(t, r, h), Shift(r, s, k), \A x \in Accounts : m[x] = h[x] + k[x]
  PROVE  Shift(t, s, m)
<1> SUFFICES ASSUME ~s.below, ~s.failed
             PROVE  /\ ~t.below /\ ~t.failed
                    /\ \A p \in Candidates : t.producers[p] # NoRow => VoteOff(s, p) = VoteOff(t, p)
                    /\ \A p \in Candidates : t.producers[p] = NoRow => s.withheld.votes[p] = t.withheld.votes[p]
                    /\ \A b \in Accounts : t.voters[b] # NoRow => HandOff(s, b) = HandOff(t, b) + m[b]
                    /\ \A b \in Accounts : t.voters[b] = NoRow => s.withheld.proxied[b] = t.withheld.proxied[b]
                    /\ WeightOff(s) = WeightOff(t)
                    /\ \A x \in Accounts : t.voters[x] # NoRow /\ t.voters[x].last >= 0 => s.voters[x].last >= 0
  BY DEF Shift
<1>1. /\ \A p \in Candidates : t.producers[p] = NoRow <=> r.producers[p] = NoRow
      /\ \A b \in Accounts : t.voters[b] = NoRow <=> r.voters[b] = NoRow
  BY TablesHave, KinFollows DEF Alike
<1>2. ~r.below /\ ~r.failed
  BY DEF Shift
<1>3. ~t.below /\ ~t.failed
  BY <1>2 DEF Shift
<1>4. \A p \in Candidates : t.producers[p] # NoRow => VoteOff(s, p) = VoteOff(t, p)
  BY <1>1, <1>2 DEF Shift
<1>5. \A p \in Candidates : t.producers[p] = NoRow => s.withheld.votes[p] = t.withheld.votes[p]
  BY <1>1, <1>2 DEF Shift
<1>6. ASSUME NEW b \in Accounts, t.voters[b] # NoRow PROVE HandOff(s, b) = HandOff(t, b) + m[b]
  <2>1. HandOff(r, b) = HandOff(t, b) + h[b] /\ HandOff(s, b) = HandOff(r, b) + k[b]
    BY <1>1, <1>2, <1>6 DEF Shift
  <2>2. HandOff(t, b) \in Int /\ h[b] \in Int /\ k[b] \in Int /\ m[b] = h[b] + k[b]
    BY <1>6, OffTypes
  <2>3. QED
    BY <2>1, <2>2
<1>7. \A b \in Accounts : t.voters[b] = NoRow => s.withheld.proxied[b] = t.withheld.proxied[b]
  BY <1>1, <1>2 DEF Shift
<1>8. WeightOff(s) = WeightOff(t)
  BY <1>2 DEF Shift
<1>9. \A x \in Accounts : t.voters[x] # NoRow /\ t.voters[x].last >= 0 => s.voters[x].last >= 0
  BY <1>1, <1>2 DEF Shift
<1>10. QED
  BY <1>3, <1>4, <1>5, <1>6, <1>7, <1>8, <1>9

LEMMA NothingType == Nothing \in [Accounts -> Int] /\ \A x \in Accounts : Nothing[x] = 0
  BY DEF Nothing

LEMMA AtOneType ==
  ASSUME NEW b, NEW weight \in Int
  PROVE  /\ AtOne(b, weight) \in [Accounts -> Int]
         /\ \A x \in Accounts : AtOne(b, weight)[x] = IF x = b THEN weight ELSE 0
  BY DEF AtOne

\* Tables that differ in nothing that is counted.
LEMMA ShiftSame ==
  ASSUME NEW t \in Tables, NEW r \in Tables,
         r.voters = t.voters, r.withheld = t.withheld, r.gstate.weight = t.gstate.weight,
         \A p \in Candidates : t.producers[p] # NoRow => r.producers[p].votes = t.producers[p].votes,
         ~r.below => ~t.below, ~r.failed => ~t.failed
  PROVE  Shift(t, r, Nothing)
<1>1. /\ \A p \in Candidates : Cast(r, p) = Cast(t, p)
      /\ \A b \in Accounts : Handed(r, b) = Handed(t, b)
  BY DEF Cast, CastBy, Handed, HandedBy
<1>2. Weighed(r) = Weighed(t)
  BY <1>1 DEF Weighed
<1>3. /\ WeightOff(r) = WeightOff(t)
      /\ \A p \in Candidates : t.producers[p] # NoRow => VoteOff(r, p) = VoteOff(t, p)
      /\ \A b \in Accounts : HandOff(r, b) = HandOff(t, b)
  BY <1>1, <1>2 DEF WeightOff, VoteOff, HandOff
<1>4. \A b \in Accounts : t.voters[b] # NoRow => HandOff(r, b) = HandOff(t, b) + Nothing[b]
  BY <1>3, NothingType, OffTypes
<1>5. QED
  BY <1>3, <1>4 DEF Shift

LEMMA ShiftAddProxied ==
  ASSUME NEW t \in Tables, NEW b \in Accounts, t.voters[b] # NoRow, NEW weight \in Int
  PROVE  Shift(t, AddProxied(t, b, weight), AtOne(b, weight))
<1> DEFINE r == AddProxied(t, b, weight)
           new == [t.voters[b] EXCEPT !.proxied = t.voters[b].proxied + weight]
<1>1. /\ OneRow(t, r, b, new) /\ r.below = t.below /\ Kin(t.voters[b], new)
      /\ new.last = t.voters[b].last /\ new.proxied = t.voters[b].proxied + weight
  BY AddProxiedFacts
<1> HIDE DEF r, new
<1>2. /\ r \in Tables /\ r.voters[b] = new /\ new # NoRow
      /\ \A x \in Accounts \ {b} : r.voters[x] = t.voters[x]
      /\ r.producers = t.producers /\ r.gstate = t.gstate /\ r.withheld = t.withheld
      /\ r.failed = t.failed
  BY <1>1, TablesHave, KinFollows DEF OneRow
<1>3. t.voters[b].last \in Int /\ t.voters[b].proxied \in Int
  BY TablesHave, RowType
<1>4. /\ \A p \in Candidates : CastBy(r, p) = CastBy(t, p)
      /\ \A x \in Accounts : HandedBy(r, x) = HandedBy(t, x)
  <2>1. \A x \in Accounts : /\ t.voters[x] = NoRow <=> r.voters[x] = NoRow
                            /\ t.voters[x] # NoRow => /\ r.voters[x].producers = t.voters[x].producers
                                                      /\ r.voters[x].proxy = t.voters[x].proxy
                                                      /\ r.voters[x].last = t.voters[x].last
    BY <1>1, <1>2 DEF Kin
  <2>2. QED
    BY <2>1 DEF CastBy, HandedBy
<1>5. /\ \A p \in Candidates : Cast(r, p) = Cast(t, p)
      /\ \A x \in Accounts : Handed(r, x) = Handed(t, x)
  BY <1>4 DEF Cast, Handed
<1>6. Weighed(r) = Weighed(t)
  BY <1>2, <1>5 DEF Weighed
<1>7. /\ WeightOff(r) = WeightOff(t)
      /\ \A p \in Candidates : VoteOff(r, p) = VoteOff(t, p)
  BY <1>2, <1>5, <1>6 DEF WeightOff, VoteOff
<1>8. ASSUME NEW x \in Accounts, t.voters[x] # NoRow
      PROVE  HandOff(r, x) = HandOff(t, x) + AtOne(b, weight)[x]
  <2>1. AtOne(b, weight)[x] = IF x = b THEN weight ELSE 0
    BY AtOneType
  <2>2. /\ t.voters[x].proxied \in Int /\ t.withheld.proxied[x] \in Int /\ Handed(t, x) \in Int
    BY <1>8, TallyTypes
  <2>3. CASE x = b
    BY <1>1, <1>2, <1>5, <2>1, <2>2, <2>3 DEF HandOff
  <2>4. CASE x # b
    BY <1>2, <1>5, <2>1, <2>2, <2>4 DEF HandOff
  <2>5. QED
    BY <2>3, <2>4
<1>9. \A x \in Accounts : t.voters[x] # NoRow /\ t.voters[x].last >= 0 => r.voters[x].last >= 0
  BY <1>1, <1>2
<1>10. Shift(t, r, AtOne(b, weight))
  BY <1>1, <1>2, <1>7, <1>8, <1>9 DEF Shift
<1>11. QED
  BY <1>10 DEF r

\* Where nothing is cut off and nobody is missing, votes and their total change by delta.
LEMMA RecountTallies ==
  ASSUME NEW t \in Tables, NEW r, NEW P \in SUBSET Candidates, NEW delta \in [P -> Int],
         NEW floor \in BOOLEAN, RecountOf(t, P, delta, floor, r), ~r.below, ~r.failed,
         floor => \A p \in P : t.producers[p] # NoRow
  PROVE  /\ r \in Tables /\ ~t.below /\ ~t.failed
         /\ r.voters = t.voters /\ r.withheld = t.withheld
         /\ r.gstate.weight = t.gstate.weight + SumOver(delta, P)
         /\ \A p \in P : t.producers[p] # NoRow /\ r.producers[p].votes = t.producers[p].votes + delta[p]
         /\ \A p \in Candidates \ P : r.producers[p] = t.producers[p]
         /\ SumOver(delta, P) \in Int
<1> DEFINE ps == {p \in P : t.producers[p] # NoRow}
<1>1. ps = P
  BY DEF RecountOf
<1>2. /\ r \in Tables /\ ~t.below /\ ~t.failed
      /\ r.voters = t.voters /\ r.withheld = t.withheld
      /\ r.gstate.weight = t.gstate.weight + SumOver(delta, ps)
      /\ \A p \in Candidates \ ps : r.producers[p] = t.producers[p]
      /\ \A p \in ps : Recounted(t.producers[p], delta[p], floor, r.producers[p])
      /\ \A p \in ps : t.producers[p].votes + delta[p] >= 0
  BY DEF RecountOf
<1>3. \A p \in ps : t.producers[p] # NoRow
  OBVIOUS
<1> HIDE DEF ps
<1>4. \A p \in ps : r.producers[p].votes = t.producers[p].votes + delta[p]
  <2>1. ASSUME NEW p \in ps PROVE r.producers[p].votes = t.producers[p].votes + delta[p]
    <3>1. t.producers[p].votes \in Int /\ delta[p] \in Int
      BY <1>1, <1>3, TallyTypes
    <3>2. QED
      BY <1>2, <3>1 DEF Recounted
  <2>2. QED
    BY <2>1
<1>5. SumOver(delta, P) \in Int
  <2>1. IsFiniteSet(P) /\ \A p \in P : delta[p] \in Int
    BY TallyTypes, FS_Subset
  <2>2. QED
    BY <2>1, SumOverType
<1>6. QED
  BY <1>1, <1>2, <1>3, <1>4, <1>5

\* Casting a weight anew keeps the tallies, unless it is refused or something goes below zero.
LEMMA PropagateCastShift ==
  ASSUME NEW t \in Tables, NEW a \in Accounts, t.voters[a] # NoRow, now \in Nat, TimesOK(t),
         t.voters[a].proxy = None \/ VoteWeight(t.voters[a]) = t.voters[a].last,
         ~t.below /\ ~t.failed => \A p \in t.voters[a].producers : t.producers[p] # NoRow
  PROVE  Shift(t, PropagateCast(t, a), Nothing)
<1> DEFINE row == t.voters[a]
           weight == VoteWeight(row)
           change == weight - row.last
           P == row.producers
           delta == [p \in P |-> change]
           passed == IF Abs(change) > 1 THEN Recount(t, delta, FALSE)
                                        ELSE WithholdVotes(t, P, change)
           r == SetLast(passed, a, weight)
           new == [row EXCEPT !.last = weight]
<1>1. PropagateCast(t, a) = r
  BY DEF PropagateCast
<1>2. /\ row \in VoterRow /\ weight \in Int /\ row.last \in Int /\ P \in SUBSET Candidates
      /\ change \in Int /\ weight = row.last + change
      /\ row.proxy = None \/ change = 0
  BY TablesHave, RowType, PowerType
<1>3. delta \in [P -> Int] /\ \A p \in P : delta[p] = change
  BY <1>2
<1> HIDE DEF delta
<1>4. /\ Abs(change) > 1 => RecountOf(t, P, delta, FALSE, passed)
      /\ ~(Abs(change) > 1) => passed = WithholdVotes(t, P, change)
  <2>1. CASE Abs(change) > 1
    <3>1. passed = Recount(t, delta, FALSE)
      BY <2>1
    <3> HIDE DEF passed, row, change, P
    <3>2. RecountOf(t, P, delta, FALSE, Recount(t, delta, FALSE))
      BY <1>2, <1>3, RecountFacts
    <3>3. QED
      BY <2>1, <3>1, <3>2
  <2>2. CASE ~(Abs(change) > 1)
    BY <2>2
  <2>3. QED
    BY <2>1, <2>2
<1> HIDE DEF passed, change, weight
<1>5. /\ passed \in Tables /\ passed.voters = t.voters
      /\ ~(Abs(change) > 1) =>
            /\ passed.producers = t.producers /\ passed.gstate = t.gstate
            /\ passed.below = t.below /\ passed.failed = t.failed
            /\ passed.withheld.proxied = t.withheld.proxied
            /\ \A p \in Candidates :
                  passed.withheld.votes[p] = t.withheld.votes[p] + (IF p \in P THEN change ELSE 0)
  <2>1. CASE Abs(change) > 1
    BY <1>4, <2>1 DEF RecountOf
  <2>2. CASE ~(Abs(change) > 1)
    <3> DEFINE w == WithholdVotes(t, P, change)
    <3> HIDE DEF P
    <3>1. /\ w \in Tables /\ w.voters = t.voters /\ w.producers = t.producers
          /\ w.gstate = t.gstate /\ w.below = t.below /\ w.failed = t.failed
          /\ w.withheld.proxied = t.withheld.proxied
          /\ \A p \in Candidates :
                w.withheld.votes[p] = t.withheld.votes[p] + (IF p \in P THEN change ELSE 0)
      BY <1>2, WithholdVotesFacts
    <3> HIDE DEF w
    <3>2. passed = w
      BY <1>4, <2>2 DEF w
    <3>3. QED
      BY <2>2, <3>1, <3>2
  <2>3. QED
    BY <2>1, <2>2
<1>6. /\ OneRow(passed, r, a, new) /\ r.below = (passed.below \/ weight < 0)
      /\ Kin(row, new) /\ new.last = weight /\ new.proxied = row.proxied
  <2>1. passed.voters[a] = row /\ passed.voters[a] # NoRow
    BY <1>5
  <2>2. LET s == SetLast(passed, a, weight)
            n == [passed.voters[a] EXCEPT !.last = weight]
        IN  /\ OneRow(passed, s, a, n) /\ s.below = (passed.below \/ weight < 0)
            /\ Kin(passed.voters[a], n) /\ n.last = weight /\ n.proxied = passed.voters[a].proxied
    <3>1. passed \in Tables /\ weight \in Int
      BY <1>2, <1>5
    <3> HIDE DEF row, P, r, new
    <3>2. QED
      BY <2>1, <3>1, SetLastFacts
  <2>3. QED
    BY <2>1, <2>2
<1> HIDE DEF r, new
<1>7. /\ r \in Tables /\ r.voters[a] = new /\ new # NoRow
      /\ \A x \in Accounts \ {a} : r.voters[x] = t.voters[x]
      /\ r.producers = passed.producers /\ r.gstate = passed.gstate
      /\ r.withheld = passed.withheld /\ r.failed = passed.failed
      /\ new.producers = P /\ new.proxy = row.proxy
  BY <1>2, <1>5, <1>6, KinFollows DEF OneRow
<1>8. /\ \A p \in Candidates : Cast(r, p) = Cast(t, p) + (IF p \in P THEN change ELSE 0)
      /\ \A b \in Accounts : Handed(r, b) = Handed(t, b)
  <2>1. /\ \A p \in Candidates : Cast(r, p) = Cast(t, p) + (IF p \in P THEN change ELSE 0)
        /\ \A b \in Accounts : Handed(r, b) = Handed(t, b) + (IF row.proxy = b THEN change ELSE 0)
    BY <1>2, <1>6, <1>7, LastMoves
  <2>2. \A b \in Accounts : row.proxy = b => change = 0
    BY <1>2, AccountsAssumption
  <2>3. \A b \in Accounts : Handed(t, b) \in Int
    BY TallyTypes
  <2>4. \A b \in Accounts : Handed(r, b) = Handed(t, b)
    BY <2>1, <2>2, <2>3
  <2>5. QED
    BY <2>1, <2>4
<1> SUFFICES ASSUME ~r.below, ~r.failed
             PROVE  /\ ~t.below /\ ~t.failed
                    /\ \A p \in Candidates : t.producers[p] # NoRow => VoteOff(r, p) = VoteOff(t, p)
                    /\ \A p \in Candidates : t.producers[p] = NoRow => r.withheld.votes[p] = t.withheld.votes[p]
                    /\ WeightOff(r) = WeightOff(t)
                    /\ r.withheld.proxied = t.withheld.proxied
  <2>1. ASSUME NEW b \in Accounts, t.voters[b] # NoRow, r.withheld.proxied = t.withheld.proxied
        PROVE  HandOff(r, b) = HandOff(t, b) + Nothing[b]
    <3>1. r.voters[b].proxied = t.voters[b].proxied
      BY <1>6, <1>7
    <3>2. HandOff(r, b) = HandOff(t, b)
      BY <1>8, <2>1, <3>1 DEF HandOff
    <3>3. QED
      BY <2>1, <3>2, NothingType, OffTypes
  <2>2. ~r.below => weight >= 0
    <3>1. ~r.below => ~(weight < 0)
      BY <1>6
    <3>2. QED
      BY <1>2, <3>1
  <2>3. ~r.below => \A x \in Accounts : t.voters[x] # NoRow /\ t.voters[x].last >= 0 => r.voters[x].last >= 0
    BY <1>6, <1>7, <2>2
  <2>4. QED
    BY <1>1, <2>1, <2>3 DEF Shift
<1>9. ~passed.below /\ ~passed.failed
  <2>1. passed.below \in BOOLEAN
    BY <1>5, TablesHave
  <2>2. QED
    BY <1>6, <1>7, <2>1
<1>10. /\ t.gstate.weight \in Int /\ SumOver(Weighed(t), Candidates) \in Int
       /\ \A p \in Candidates : Cast(t, p) \in Int /\ t.withheld.votes[p] \in Int
       /\ \A p \in Candidates : t.producers[p] # NoRow => t.producers[p].votes \in Int
  BY TallyTypes
<1>11. CASE Abs(change) > 1
  <2>1. /\ ~t.below /\ ~t.failed /\ passed.withheld = t.withheld
        /\ passed.gstate.weight = t.gstate.weight + SumOver(delta, P)
        /\ \A p \in P : t.producers[p] # NoRow /\ passed.producers[p].votes = t.producers[p].votes + delta[p]
        /\ \A p \in Candidates \ P : passed.producers[p] = t.producers[p]
        /\ SumOver(delta, P) \in Int
    <3> HIDE DEF P, row
    <3> DEFINE floor == FALSE
    <3>1. RecountOf(t, P, delta, floor, passed) /\ floor \in BOOLEAN /\ ~floor
      BY <1>4, <1>11
    <3> HIDE DEF floor
    <3>2. QED
      BY <1>2, <1>3, <1>9, <3>1, RecountTallies
  <2>2. ASSUME NEW p \in Candidates, t.producers[p] # NoRow
        PROVE  VoteOff(r, p) = VoteOff(t, p)
    <3>1. CASE p \in P
      BY <1>2, <1>3, <1>7, <1>8, <1>10, <2>1, <2>2, <3>1 DEF VoteOff
    <3>2. CASE p \notin P
      BY <1>2, <1>7, <1>8, <1>10, <2>1, <2>2, <3>2 DEF VoteOff
    <3>3. QED
      BY <3>1, <3>2
  <2>3. SumOver(Weighed(r), Candidates) = SumOver(Weighed(t), Candidates) + SumOver(delta, P)
    <3>1. \A p \in P : Weighed(r)[p] = Weighed(t)[p] + delta[p]
      BY <1>2, <1>3, <1>7, <1>8, <1>10, <2>1 DEF Weighed
    <3>2. \A p \in Candidates \ P : Weighed(r)[p] = Weighed(t)[p]
      BY <1>7, <1>8, <1>10, <2>1 DEF Weighed
    <3> HIDE DEF P
    <3>3. QED
      BY <1>2, <1>3, <1>7, <3>1, <3>2, WeighedMoves
  <2>4. WeightOff(r) = WeightOff(t)
    BY <1>7, <1>10, <2>1, <2>3 DEF WeightOff
  <2>5. QED
    BY <1>7, <2>1, <2>2, <2>4
<1>12. CASE ~(Abs(change) > 1)
  <2>1. ~t.below /\ ~t.failed
    BY <1>5, <1>9, <1>12
  <2>2. \A p \in Candidates : t.producers[p] = NoRow => p \notin P
    BY <2>1
  <2>3. \A p \in Candidates : r.withheld.votes[p] = t.withheld.votes[p] + (IF p \in P THEN change ELSE 0)
    BY <1>5, <1>7, <1>12
  <2>4. ASSUME NEW p \in Candidates, t.producers[p] # NoRow
        PROVE  VoteOff(r, p) = VoteOff(t, p)
    BY <1>2, <1>5, <1>7, <1>8, <1>10, <1>12, <2>3, <2>4 DEF VoteOff
  <2>5. \A p \in Candidates : t.producers[p] = NoRow => r.withheld.votes[p] = t.withheld.votes[p]
    BY <1>10, <2>2, <2>3
  <2>6. \A p \in Candidates : Weighed(r)[p] = Weighed(t)[p]
    BY <1>2, <1>8, <1>10, <2>3 DEF Weighed
  <2>7. Weighed(r) = Weighed(t)
    BY <2>6 DEF Weighed
  <2>8. WeightOff(r) = WeightOff(t)
    BY <1>5, <1>7, <1>12, <2>7 DEF WeightOff
  <2>9. QED
    BY <1>5, <1>7, <1>12, <2>1, <2>4, <2>5, <2>8
<1>13. QED
  BY <1>11, <1>12

LEMMA ShiftWithholdProxied ==
  ASSUME NEW t \in Tables, NEW b \in Accounts, t.voters[b] # NoRow, NEW change \in Int
  PROVE  Shift(t, WithholdProxied(t, b, change), AtOne(b, change))
<1> DEFINE r == WithholdProxied(t, b, change)
<1>1. /\ r \in Tables /\ r.voters = t.voters /\ r.producers = t.producers
      /\ r.gstate = t.gstate /\ r.below = t.below /\ r.failed = t.failed
      /\ r.withheld.votes = t.withheld.votes
      /\ r.withheld.proxied[b] = t.withheld.proxied[b] + change
      /\ \A x \in Accounts \ {b} : r.withheld.proxied[x] = t.withheld.proxied[x]
  BY WithholdProxiedFacts
<1> HIDE DEF r
<1>2. /\ \A p \in Candidates : Cast(r, p) = Cast(t, p)
      /\ \A x \in Accounts : Handed(r, x) = Handed(t, x)
  BY <1>1 DEF Cast, CastBy, Handed, HandedBy
<1>3. Weighed(r) = Weighed(t)
  BY <1>1, <1>2 DEF Weighed
<1>4. /\ WeightOff(r) = WeightOff(t)
      /\ \A p \in Candidates : VoteOff(r, p) = VoteOff(t, p)
  BY <1>1, <1>2, <1>3 DEF WeightOff, VoteOff
<1>5. ASSUME NEW x \in Accounts, t.voters[x] # NoRow
      PROVE  HandOff(r, x) = HandOff(t, x) + AtOne(b, change)[x]
  <2>1. AtOne(b, change)[x] = IF x = b THEN change ELSE 0
    BY AtOneType
  <2>2. t.voters[x].proxied \in Int /\ t.withheld.proxied[x] \in Int /\ Handed(t, x) \in Int
    BY <1>5, TallyTypes
  <2>3. CASE x = b
    BY <1>1, <1>2, <2>1, <2>2, <2>3 DEF HandOff
  <2>4. CASE x # b
    BY <1>1, <1>2, <2>1, <2>2, <2>4 DEF HandOff
  <2>5. QED
    BY <2>3, <2>4
<1>6. \A x \in Accounts : t.voters[x] = NoRow => r.withheld.proxied[x] = t.withheld.proxied[x]
  BY <1>1
<1>7. Shift(t, r, AtOne(b, change))
  BY <1>1, <1>4, <1>5, <1>6 DEF Shift
<1>8. QED
  BY <1>7 DEF r

LEMMA SetLastMoves ==
  ASSUME NEW t \in Tables, NEW a \in Accounts, t.voters[a] # NoRow, NEW weight \in Int,
         NEW change \in Int, weight = t.voters[a].last + change
  PROVE  LET r == SetLast(t, a, weight)
         IN  /\ \A p \in Candidates :
                   Cast(r, p) = Cast(t, p) + (IF p \in t.voters[a].producers THEN change ELSE 0)
             /\ \A x \in Accounts :
                   Handed(r, x) = Handed(t, x) + (IF t.voters[a].proxy = x THEN change ELSE 0)
<1> DEFINE row == t.voters[a]
           r == SetLast(t, a, weight)
           new == [row EXCEPT !.last = weight]
<1>1. OneRow(t, r, a, new) /\ Kin(row, new) /\ new.last = weight
  BY SetLastFacts
<1>2. row \in VoterRow
  BY TablesHave
<1> HIDE DEF r, new
<1>3. /\ r \in Tables /\ r.voters[a] = new /\ new # NoRow
      /\ \A x \in Accounts \ {a} : r.voters[x] = t.voters[x]
      /\ new.producers = row.producers /\ new.proxy = row.proxy
  BY <1>1, <1>2, KinFollows DEF OneRow
<1>4. /\ \A p \in Candidates : Cast(r, p) = Cast(t, p) + (IF p \in row.producers THEN change ELSE 0)
      /\ \A x \in Accounts : Handed(r, x) = Handed(t, x) + (IF row.proxy = x THEN change ELSE 0)
  BY <1>1, <1>3, LastMoves
<1>5. QED
  BY <1>4 DEF r

\* Who uses proxy b is recorded with another weight: b's is off by the difference.
LEMMA ShiftSetLast ==
  ASSUME NEW t \in Tables, NEW a \in Accounts, t.voters[a] # NoRow, NEW weight \in Int,
         NEW b \in Accounts, t.voters[a].proxy = b, t.voters[a].producers = {},
         NEW change \in Int, weight = t.voters[a].last + change
  PROVE  Shift(t, SetLast(t, a, weight), AtOne(b, -change))
<1> DEFINE row == t.voters[a]
           r == SetLast(t, a, weight)
           new == r.voters[a]
<1>1. /\ OneRow(t, r, a, new) /\ r.below = (t.below \/ weight < 0)
      /\ Kin(row, new) /\ new.last = weight /\ new.proxied = row.proxied
  BY SetLastRow
<1>2. row \in VoterRow
  BY TablesHave
<1> HIDE DEF r, new
<1>3. /\ r \in Tables /\ r.voters[a] = new /\ new # NoRow
      /\ \A x \in Accounts \ {a} : r.voters[x] = t.voters[x]
      /\ r.producers = t.producers /\ r.gstate = t.gstate
      /\ r.withheld = t.withheld /\ r.failed = t.failed
      /\ new.producers = row.producers /\ new.proxy = row.proxy
  BY <1>1, <1>2, KinFollows DEF OneRow
<1>4. /\ \A p \in Candidates : Cast(r, p) = Cast(t, p) + (IF p \in row.producers THEN change ELSE 0)
      /\ \A x \in Accounts : Handed(r, x) = Handed(t, x) + (IF row.proxy = x THEN change ELSE 0)
  BY SetLastMoves DEF r
<1>5. \A p \in Candidates : Cast(r, p) = Cast(t, p)
  <2>1. \A p \in Candidates : Cast(t, p) \in Int
    BY TallyTypes
  <2>2. QED
    BY <1>4, <2>1
<1>6. Weighed(r) = Weighed(t)
  BY <1>3, <1>5 DEF Weighed
<1>7. /\ WeightOff(r) = WeightOff(t)
      /\ \A p \in Candidates : VoteOff(r, p) = VoteOff(t, p)
  BY <1>3, <1>5, <1>6 DEF WeightOff, VoteOff
<1>8. ASSUME NEW x \in Accounts, t.voters[x] # NoRow
      PROVE  HandOff(r, x) = HandOff(t, x) + AtOne(b, -change)[x]
  <2>1. AtOne(b, -change)[x] = IF x = b THEN -change ELSE 0
    BY AtOneType
  <2>2. t.voters[x].proxied \in Int /\ t.withheld.proxied[x] \in Int /\ Handed(t, x) \in Int
    BY <1>8, TallyTypes
  <2>3. r.voters[x].proxied = t.voters[x].proxied
    BY <1>1, <1>3
  <2>4. CASE x = b
    BY <1>3, <1>4, <2>1, <2>2, <2>3, <2>4 DEF HandOff
  <2>5. CASE x # b
    BY <1>3, <1>4, <2>1, <2>2, <2>3, <2>5 DEF HandOff
  <2>6. QED
    BY <2>4, <2>5
<1>9. ~r.below => ~t.below /\ weight >= 0
  <2>1. t.below \in BOOLEAN
    BY TablesHave
  <2>2. ~r.below => ~t.below /\ ~(weight < 0)
    BY <1>1, <2>1
  <2>3. QED
    BY <2>2
<1>10. ~r.below => \A x \in Accounts : t.voters[x] # NoRow /\ t.voters[x].last >= 0 => r.voters[x].last >= 0
  BY <1>1, <1>3, <1>9
<1>11. Shift(t, r, AtOne(b, -change))
  BY <1>3, <1>7, <1>8, <1>9, <1>10 DEF Shift
<1>12. QED
  BY <1>11 DEF r

\* Votes are for producers that have a row, as long as no weight was below zero.
VotedFor(t) ==
    ~t.below /\ ~t.failed =>
        \A x \in Accounts : t.voters[x] # NoRow =>
            \A p \in t.voters[x].producers : t.producers[p] # NoRow
\* Nobody votes both through a proxy and by itself.
OneWay(t) ==
    \A x \in Accounts : t.voters[x] # NoRow /\ t.voters[x].proxy # None => t.voters[x].producers = {}

LEMMA AlikeOneWay ==
  ASSUME NEW t \in Tables, NEW r, Alike(t, r), OneWay(t)
  PROVE  OneWay(r)
<1>1. ASSUME NEW x \in Accounts, r.voters[x] # NoRow, r.voters[x].proxy # None
      PROVE  r.voters[x].producers = {}
  <2>1. t.voters[x] # NoRow
    BY <1>1 DEF Alike
  <2>2. Kin(t.voters[x], r.voters[x])
    BY <2>1 DEF Alike
  <2>3. QED
    BY <1>1, <2>1, <2>2 DEF OneWay, Kin
<1>2. QED
  BY <1>1 DEF OneWay

LEMMA AlikeVotedFor ==
  ASSUME NEW t \in Tables, NEW r, Alike(t, r), VotedFor(t),
         ~r.below /\ ~r.failed => ~t.below /\ ~t.failed
  PROVE  VotedFor(r)
<1>1. ASSUME ~r.below, ~r.failed, NEW x \in Accounts, r.voters[x] # NoRow, NEW p \in r.voters[x].producers
      PROVE  r.producers[p] # NoRow
  <2>1. t.voters[x] # NoRow
    BY <1>1 DEF Alike
  <2>2. Kin(t.voters[x], r.voters[x]) /\ t.voters[x] \in VoterRow
    BY <2>1, TablesHave DEF Alike
  <2>3. p \in t.voters[x].producers /\ p \in Candidates
    BY <1>1, <2>2, RowType DEF Kin
  <2>4. t.producers[p] # NoRow
    BY <1>1, <2>1, <2>3 DEF VotedFor
  <2>5. QED
    BY <2>3, <2>4 DEF Alike
<1>2. QED
  BY <1>1 DEF VotedFor

\* Passing a change on keeps the tallies.  The proxy it reaches casts the change or, where it
\* resigned and uses a proxy itself, does not weigh more for it.
LEMMA PropagateShift ==
  ASSUME NEW t \in Tables, NEW a \in Accounts, t.voters[a] # NoRow, now \in Nat, TimesOK(t),
         LET b == t.voters[a].proxy
         IN  b # None => /\ b # a /\ t.voters[b] # NoRow
                         /\ t.voters[b].proxy # None => ~t.voters[b].is_proxy /\ Follows(t, b),
         VotedFor(t), OneWay(t)
  PROVE  LET r == Propagate(t, a)
         IN  /\ Shift(t, r, Nothing)
             /\ \A x \in Accounts \ {a, t.voters[a].proxy} : r.voters[x] = t.voters[x]
<1> DEFINE row == t.voters[a]
           b == row.proxy
           weight == VoteWeight(row)
           change == weight - row.last
<1>1. /\ row \in VoterRow /\ b \in Accounts \cup {None} /\ change \in Int /\ weight \in Int
      /\ row.last \in Int /\ row.producers \in SUBSET Candidates
  BY TablesHave, RowType, PowerType
<1>2. CASE b = None
  <2> DEFINE r == PropagateCast(t, a)
  <2>1. Propagate(t, a) = r
    BY <1>2 DEF Propagate
  <2>2. ~t.below /\ ~t.failed => \A p \in row.producers : t.producers[p] # NoRow
    BY <1>1 DEF VotedFor
  <2>3. Shift(t, r, Nothing)
    BY <1>2, <2>2, PropagateCastShift
  <2>4. \A x \in Accounts \ {a} : r.voters[x] = t.voters[x]
    BY PropagateCastFacts
  <2> HIDE DEF r
  <2>5. QED
    BY <2>1, <2>3, <2>4
<1>3. CASE b # None
  <2>1. /\ b \in Accounts /\ b # a /\ t.voters[b] # NoRow /\ t.voters[b] \in VoterRow
        /\ t.voters[b].proxy # None => ~t.voters[b].is_proxy /\ Follows(t, b)
    BY <1>1, <1>3, TablesHave
  <2> DEFINE added == AddProxied(t, b, change)
             passed == IF Abs(change) > 1 THEN PropagateCast(added, b)
                                          ELSE WithholdProxied(t, b, change)
             r == SetLast(passed, a, weight)
             one == AtOne(b, change)
  <2>2. Propagate(t, a) = r
    BY <1>3 DEF Propagate
  <2>3. row.producers = {} /\ weight = row.last + change
    BY <1>1, <1>3 DEF OneWay
  <2>4. one \in [Accounts -> Int] /\ \A x \in Accounts : one[x] = IF x = b THEN change ELSE 0
    BY <1>1, AtOneType
  <2> HIDE DEF row, b, weight, change, one
  <2>5. /\ Alike(t, passed) /\ Shift(t, passed, one)
        /\ \A x \in Accounts \ {b} : passed.voters[x] = t.voters[x]
    <3>1. CASE Abs(change) > 1
      <4> DEFINE n == [t.voters[b] EXCEPT !.proxied = t.voters[b].proxied + change]
      <4>1. OneRow(t, added, b, n) /\ Kin(t.voters[b], n) /\ n.last = t.voters[b].last
            /\ added.below = t.below /\ added.failed = t.failed
        BY <1>1, <2>1, AddProxiedFacts DEF OneRow
      <4>2. Shift(t, added, one)
        BY <1>1, <2>1, ShiftAddProxied DEF one
      <4> HIDE DEF n, added
      <4>3. Alike(t, added)
        BY <2>1, <4>1, AlikeOneRow
      <4>4. /\ added.voters[b] = n /\ n # NoRow /\ n \in VoterRow
            /\ added \in Tables /\ TimesOK(added)
            /\ \A x \in Accounts \ {b} : added.voters[x] = t.voters[x]
            /\ added.producers = t.producers
        BY <2>1, <4>1, <4>3, KinFollows DEF OneRow, Alike
      <4>5. n.proxy = None \/ VoteWeight(n) = n.last
        <5>1. CASE t.voters[b].proxy = None
          BY <4>1, <5>1 DEF Kin
        <5>2. CASE t.voters[b].proxy # None
          <6>1. ~t.voters[b].is_proxy /\ t.voters[b].last = VoteWeight(t.voters[b])
            BY <2>1, <5>2 DEF Follows
          <6>2. VoteWeight(n) = VoteWeight(t.voters[b])
            BY <2>1, <4>1, <4>4, <6>1, WeightOf DEF Kin
          <6>3. QED
            BY <4>1, <6>1, <6>2
        <5>3. QED
          BY <5>1, <5>2
      <4>6. ~added.below /\ ~added.failed => \A p \in n.producers : added.producers[p] # NoRow
        <5>1. n.producers = t.voters[b].producers
          BY <4>1 DEF Kin
        <5>2. QED
          BY <2>1, <4>1, <4>4, <5>1 DEF VotedFor
      <4> DEFINE p == PropagateCast(added, b)
      <4>7. Shift(added, p, Nothing)
        BY <2>1, <4>4, <4>5, <4>6, PropagateCastShift
      <4>8. Alike(added, p) /\ \A x \in Accounts \ {b} : p.voters[x] = added.voters[x]
        <5>1. LET q == PropagateCast(added, b)
                  m == [added.voters[b] EXCEPT !.last = VoteWeight(added.voters[b])]
              IN  /\ Alike(added, q) /\ q.voters[b] = m /\ m.last = VoteWeight(m)
                  /\ \A x \in Accounts \ {b} : q.voters[x] = added.voters[x]
          BY <2>1, <4>4, PropagateCastFacts
        <5>2. QED
          BY <5>1
      <4> HIDE DEF p
      <4>9. Alike(t, p)
        BY <4>3, <4>8, AlikeTrans
      <4>10. Shift(t, p, one)
        <5>1. \A x \in Accounts : one[x] = one[x] + Nothing[x]
          BY <2>4, NothingType
        <5>2. p \in Tables
          BY <4>8 DEF Alike
        <5>3. QED
          BY <2>4, <4>2, <4>3, <4>4, <4>7, <5>1, <5>2, NothingType, ShiftTrans
      <4>11. passed = p
        BY <3>1 DEF p
      <4>12. QED
        BY <4>4, <4>8, <4>9, <4>10, <4>11
    <3>2. CASE ~(Abs(change) > 1)
      <4> DEFINE w == WithholdProxied(t, b, change)
      <4>1. w \in Tables /\ w.voters = t.voters /\ w.producers = t.producers /\ w.gstate = t.gstate
        BY <1>1, <2>1, WithholdProxiedFacts
      <4>2. Shift(t, w, one)
        BY <1>1, <2>1, ShiftWithholdProxied DEF one
      <4> HIDE DEF w
      <4>3. Alike(t, w)
        BY <4>1, AlikeSame
      <4>4. QED
        BY <3>2, <4>1, <4>2, <4>3 DEF w
    <3>3. QED
      BY <3>1, <3>2
  <2>6. /\ passed \in Tables /\ TimesOK(passed) /\ passed.voters[a] = row /\ row # NoRow
    BY <2>1, <2>5 DEF Alike, row
  <2> HIDE DEF passed
  <2> DEFINE back == AtOne(b, -change)
  <2>7. Shift(passed, r, back)
    <3>1. passed.voters[a] # NoRow /\ passed.voters[a].proxy = b /\ passed.voters[a].producers = {}
          /\ weight = passed.voters[a].last + change
      BY <2>3, <2>6 DEF b
    <3>2. QED
      BY <1>1, <2>1, <2>6, <3>1, ShiftSetLast
  <2>8. back \in [Accounts -> Int] /\ \A x \in Accounts : back[x] = IF x = b THEN -change ELSE 0
    BY <1>1, AtOneType
  <2> HIDE DEF back
  <2>9. r \in Tables /\ \A x \in Accounts \ {a} : r.voters[x] = passed.voters[x]
    <3>1. LET s == SetLast(passed, a, weight)
              new1 == [passed.voters[a] EXCEPT !.last = weight]
          IN  OneRow(passed, s, a, new1)
      BY <1>1, <2>6, SetLastFacts
    <3>2. QED
      BY <3>1 DEF OneRow
  <2> HIDE DEF r
  <2>10. Shift(t, r, Nothing)
    <3>1. \A x \in Accounts : Nothing[x] = one[x] + back[x]
      BY <1>1, <2>4, <2>8, NothingType
    <3>2. one \in [Accounts -> Int] /\ back \in [Accounts -> Int] /\ Nothing \in [Accounts -> Int]
      BY <2>4, <2>8, NothingType
    <3>3. Alike(t, passed) /\ Shift(t, passed, one) /\ Shift(passed, r, back)
      BY <2>5, <2>7
    <3>4. passed \in Tables /\ r \in Tables
      BY <2>6, <2>9
    <3>5. QED
      BY <3>1, <3>2, <3>3, <3>4, ShiftTrans
  <2>11. \A x \in Accounts \ {a, b} : r.voters[x] = t.voters[x]
    BY <2>5, <2>9
  <2>12. QED
    BY <2>2, <2>10, <2>11 DEF b, row
<1>4. QED
  BY <1>2, <1>3

\* A proxy that gains or loses weight passes it on: its own tally is off until whoever gave
\* or took the weight is recorded.
LEMMA HandOverShift ==
  ASSUME NEW t \in Tables, NEW b \in Accounts, t.voters[b] # NoRow, NEW weight \in Int,
         now \in Nat, TimesOK(t), ProxiesEndOf(t), VotedFor(t), OneWay(t),
         t.voters[b].proxy # None => Follows(t, t.voters[b].proxy)
  PROVE  LET r == Propagate(AddProxied(t, b, weight), b)
         IN  /\ Shift(t, r, AtOne(b, weight))
             /\ \A x \in Accounts \ {b, t.voters[b].proxy} : r.voters[x] = t.voters[x]
<1> DEFINE added == AddProxied(t, b, weight)
           new == [t.voters[b] EXCEPT !.proxied = t.voters[b].proxied + weight]
           c == t.voters[b].proxy
           r == Propagate(added, b)
           h == AtOne(b, weight)
<1>1. OneRow(t, added, b, new) /\ Kin(t.voters[b], new)
  BY AddProxiedFacts
<1>2. Shift(t, added, h)
  BY ShiftAddProxied
<1> HIDE DEF new, added
<1>3. Alike(t, added)
  BY <1>1, AlikeOneRow
<1>4. /\ added \in Tables /\ TimesOK(added) /\ added.voters[b] # NoRow
      /\ added.voters[b].proxy = c /\ c \in Accounts \cup {None}
      /\ \A x \in Accounts \ {b} : added.voters[x] = t.voters[x]
  BY <1>1, <1>3, TablesHave, KinFollows, RowType DEF Alike, OneRow
<1>5. ProxiesEndOf(added) /\ ProxiesThere(added)
  BY <1>3, <1>4, AlikeEnds, EndIsThere
<1>6. VotedFor(added) /\ OneWay(added)
  BY <1>2, <1>3, AlikeVotedFor, AlikeOneWay DEF Shift
<1>7. c # None => /\ c # b /\ added.voters[c] # NoRow
                  /\ added.voters[c].proxy # None => ~added.voters[c].is_proxy /\ Follows(added, c)
  <2>1. SUFFICES ASSUME c # None
                 PROVE  /\ c # b /\ added.voters[c] # NoRow
                        /\ added.voters[c].proxy # None => ~added.voters[c].is_proxy /\ Follows(added, c)
    OBVIOUS
  <2>2. c \in Accounts /\ c # b /\ added.voters[c] # NoRow
    BY <1>4, <1>5, <2>1 DEF ProxiesThere
  <2>3. added.voters[c].proxy # None => ~added.voters[c].is_proxy
    BY <1>5, <2>2 DEF ProxiesEndOf, Users
  <2>4. Follows(added, c)
    BY <1>4, <2>1, <2>2 DEF Follows
  <2>5. QED
    BY <2>2, <2>3, <2>4
<1> HIDE DEF c, h
<1>8. /\ Shift(added, r, Nothing)
      /\ \A x \in Accounts \ {b, c} : r.voters[x] = added.voters[x]
  <2>1. LET d == added.voters[b].proxy
        IN  d # None => /\ d # b /\ added.voters[d] # NoRow
                        /\ added.voters[d].proxy # None => ~added.voters[d].is_proxy /\ Follows(added, d)
    BY <1>4, <1>7
  <2>2. LET s == Propagate(added, b)
        IN  /\ Shift(added, s, Nothing)
            /\ \A x \in Accounts \ {b, added.voters[b].proxy} : s.voters[x] = added.voters[x]
    BY <1>4, <1>6, <2>1, PropagateShift
  <2>3. QED
    BY <1>4, <2>2
<1>9. r \in Tables
  <2>1. LET d == added.voters[b].proxy IN d # None => d # b /\ added.voters[d] # NoRow
    BY <1>4, <1>7
  <2>2. LET s == Propagate(added, b)
        IN  /\ Alike(added, s)
            /\ s.voters[b].last = VoteWeight(s.voters[b])
            /\ \A x \in Accounts \ {b} : Follows(added, x) => Follows(s, x)
    BY <1>4, <2>1, PropagateFacts
  <2>3. QED
    BY <2>2 DEF Alike
<1> HIDE DEF r
<1>10. Shift(t, r, h)
  <2>1. h \in [Accounts -> Int] /\ Nothing \in [Accounts -> Int]
        /\ \A x \in Accounts : h[x] = h[x] + Nothing[x]
    <3>1. h \in [Accounts -> Int]
      BY AtOneType DEF h
    <3>2. QED
      BY <3>1, NothingType
  <2>2. /\ t \in Tables /\ added \in Tables /\ r \in Tables /\ Alike(t, added)
        /\ Shift(t, added, h) /\ Shift(added, r, Nothing)
    BY <1>2, <1>3, <1>4, <1>8, <1>9
  <2>3. QED
    BY <2>1, <2>2, ShiftTrans
<1>11. \A x \in Accounts \ {b, c} : r.voters[x] = t.voters[x]
  BY <1>4, <1>8
<1>12. QED
  BY <1>10, <1>11 DEF r, added, h, c

LEMMA ShiftNone ==
  ASSUME NEW t \in Tables, NEW h \in [Accounts -> Int],
         ~t.below /\ ~t.failed => \A x \in Accounts : t.voters[x] # NoRow => h[x] = 0
  PROVE  Shift(t, t, h)
<1>1. ASSUME ~t.below, ~t.failed, NEW b \in Accounts, t.voters[b] # NoRow
      PROVE  HandOff(t, b) = HandOff(t, b) + h[b]
  <2>1. HandOff(t, b) \in Int /\ h[b] = 0
    BY <1>1, OffTypes
  <2>2. QED
    BY <2>1
<1>2. QED
  BY <1>1 DEF Shift

LEMMA LeaveProxyShift ==
  ASSUME NEW t \in Tables, NEW a \in Accounts, t.voters[a] # NoRow,
         now \in Nat, TimesOK(t), ProxiesEndOf(t), VotedFor(t), OneWay(t),
         ~t.below /\ ~t.failed => t.voters[a].last >= 0,
         \A x \in Accounts \ {a} : Follows(t, x),
         LET b == t.voters[a].proxy IN b # None => b # a /\ t.voters[b].proxy # a
  PROVE  LET r == LeaveProxy(t, a)
         IN  /\ Shift(t, r, AtOne(t.voters[a].proxy, -t.voters[a].last))
             /\ r.voters[a] = t.voters[a]
<1> DEFINE row == t.voters[a]
           weight == -row.last
           b == row.proxy
           h == AtOne(b, weight)
<1>1. row \in VoterRow /\ weight \in Int /\ b \in Accounts \cup {None} /\ row.last \in Int
  BY TablesHave, RowType
<1>2. h \in [Accounts -> Int] /\ \A x \in Accounts : h[x] = IF x = b THEN weight ELSE 0
  BY <1>1, AtOneType
<1>3. CASE row.last > 0 /\ b # None
  <2> DEFINE r == Propagate(AddProxied(t, b, weight), b)
  <2>1. LeaveProxy(t, a) = r
    BY <1>3 DEF LeaveProxy
  <2>2. b \in Accounts /\ t.voters[b] # NoRow /\ b # a /\ t.voters[b].proxy # a
    BY <1>1, <1>3, EndIsThere DEF ProxiesThere
  <2>3. t.voters[b].proxy # None => Follows(t, t.voters[b].proxy)
    <3>1. t.voters[b].proxy \in Accounts \cup {None}
      BY <2>2, TablesHave, RowType
    <3>2. QED
      BY <2>2, <3>1
  <2> HIDE DEF b, weight, row
  <2>4. LET s == Propagate(AddProxied(t, b, weight), b)
        IN  /\ Shift(t, s, AtOne(b, weight))
            /\ \A x \in Accounts \ {b, t.voters[b].proxy} : s.voters[x] = t.voters[x]
    BY <1>1, <2>2, <2>3, HandOverShift
  <2> HIDE DEF r
  <2>5. Shift(t, r, h) /\ r.voters[a] = t.voters[a]
    BY <2>2, <2>4 DEF r
  <2>6. QED
    BY <2>1, <2>5 DEF b, weight, row
<1>4. CASE ~(row.last > 0 /\ b # None)
  <2>1. LeaveProxy(t, a) = t
    BY <1>4 DEF LeaveProxy
  <2>2. ~t.below /\ ~t.failed => \A x \in Accounts : t.voters[x] # NoRow => h[x] = 0
    BY <1>1, <1>2, <1>4, AccountsAssumption
  <2> HIDE DEF b, weight, row, h
  <2>3. Shift(t, t, h)
    BY <1>2, <2>2, ShiftNone
  <2>4. QED
    BY <2>1, <2>3 DEF b, weight, row, h
<1>5. QED
  BY <1>3, <1>4

LEMMA JoinProxyShift ==
  ASSUME NEW t \in Tables, NEW a \in Accounts, t.voters[a] # NoRow,
         NEW proxy \in Accounts \cup {None},
         now \in Nat, TimesOK(t), ProxiesEndOf(t), VotedFor(t), OneWay(t),
         \A x \in Accounts \ {a} : Follows(t, x),
         proxy # None => proxy # a /\ t.voters[proxy] # NoRow /\ t.voters[proxy].proxy # a,
         VoteWeight(t.voters[a]) >= 0
  PROVE  LET r == JoinProxy(t, a, proxy)
         IN  /\ Shift(t, r, AtOne(proxy, VoteWeight(t.voters[a])))
             /\ r.voters[a] = t.voters[a]
<1> DEFINE weight == VoteWeight(t.voters[a])
           h == AtOne(proxy, weight)
<1>1. weight \in Int /\ weight >= 0
  BY TablesHave, PowerType
<1>2. h \in [Accounts -> Int] /\ \A x \in Accounts : h[x] = IF x = proxy THEN weight ELSE 0
  BY <1>1, AtOneType
<1>3. CASE proxy # None
  <2> DEFINE r == Propagate(AddProxied(t, proxy, weight), proxy)
  <2>1. JoinProxy(t, a, proxy) = r
    BY <1>1, <1>3 DEF JoinProxy
  <2>2. proxy \in Accounts /\ t.voters[proxy] # NoRow /\ proxy # a /\ t.voters[proxy].proxy # a
    BY <1>3
  <2>3. t.voters[proxy].proxy # None => Follows(t, t.voters[proxy].proxy)
    <3>1. t.voters[proxy].proxy \in Accounts \cup {None}
      BY <2>2, TablesHave, RowType
    <3>2. QED
      BY <2>2, <3>1
  <2> HIDE DEF weight
  <2>4. LET s == Propagate(AddProxied(t, proxy, weight), proxy)
        IN  /\ Shift(t, s, AtOne(proxy, weight))
            /\ \A x \in Accounts \ {proxy, t.voters[proxy].proxy} : s.voters[x] = t.voters[x]
    BY <1>1, <2>2, <2>3, HandOverShift
  <2> HIDE DEF r
  <2>5. Shift(t, r, h) /\ r.voters[a] = t.voters[a]
    BY <2>2, <2>4 DEF r
  <2>6. QED
    BY <2>1, <2>5 DEF weight
<1>4. CASE proxy = None
  <2>1. JoinProxy(t, a, proxy) = t
    BY <1>4 DEF JoinProxy
  <2>2. \A x \in Accounts : h[x] = 0
    BY <1>2, <1>4, AccountsAssumption
  <2> HIDE DEF weight, h
  <2>3. Shift(t, t, h)
    BY <1>2, <2>2, ShiftNone
  <2>4. QED
    BY <2>1, <2>3 DEF weight, h
<1>5. QED
  BY <1>3, <1>4

\* What the tallies of t should be: nothing is off, and nobody without a row has anything withheld.
Tallied(t) ==
    ~t.below =>
        /\ \A p \in Candidates : t.producers[p] # NoRow => VoteOff(t, p) = 0
        /\ \A p \in Candidates : t.producers[p] = NoRow => t.withheld.votes[p] = 0
        /\ \A b \in Accounts : t.voters[b] # NoRow => HandOff(t, b) = 0
        /\ \A b \in Accounts : t.voters[b] = NoRow => t.withheld.proxied[b] = 0
        /\ WeightOff(t) = 0
        /\ \A x \in Accounts : t.voters[x] # NoRow => t.voters[x].last >= 0
TallyInv(t) == Tallied(t) /\ VotedFor(t) /\ OneWay(t)

\* Nobody uses a proxy that uses it.
LEMMA NoTwoCycle ==
  ASSUME NEW t \in Tables, ProxiesEndOf(t), NEW a \in Accounts, t.voters[a] # NoRow
  PROVE  LET b == t.voters[a].proxy IN b # None => b # a /\ t.voters[b] # NoRow /\ t.voters[b].proxy # a
<1> DEFINE b == t.voters[a].proxy
<1> SUFFICES ASSUME b # None
             PROVE  b # a /\ t.voters[b] # NoRow /\ t.voters[b].proxy # a
  OBVIOUS
<1>1. b \in Accounts
  <2>1. b \in Accounts \cup {None}
    BY TablesHave, RowType
  <2>2. QED
    BY <2>1
<1>2. b # a /\ t.voters[b] # NoRow
  BY EndIsThere DEF ProxiesThere
<1>3. ASSUME t.voters[b].proxy = a PROVE FALSE
  <2>1. t.voters[b].proxy # None
    BY <1>3, AccountsAssumption
  <2>2. {a, b} \in SUBSET Users(t) /\ {a, b} # {}
    BY <1>1, <1>2, <2>1 DEF Users
  <2>3. PICK x \in {a, b} : t.voters[x].proxy \notin {a, b}
    BY <2>2 DEF ProxiesEndOf
  <2>4. QED
    BY <1>3, <2>3
<1>4. QED
  BY <1>2, <1>3

\* Leaving one proxy and joining another moves weight between these two alone.
LEMMA MovedShift ==
  ASSUME NEW t \in Tables, NEW a \in Accounts, t.voters[a] # NoRow,
         NEW proxy \in Accounts \cup {None},
         now \in Nat, TimesOK(t), ProxiesEndOf(t), VotedFor(t), OneWay(t),
         ~t.below /\ ~t.failed => t.voters[a].last >= 0,
         \A x \in Accounts \ {a} : Follows(t, x),
         proxy # None => proxy # a /\ t.voters[proxy] # NoRow /\ t.voters[proxy].proxy # a,
         VoteWeight(t.voters[a]) >= 0,
         NEW m \in [Accounts -> Int],
         \A x \in Accounts : m[x] = AtOne(t.voters[a].proxy, -t.voters[a].last)[x]
                                  + AtOne(proxy, VoteWeight(t.voters[a]))[x]
  PROVE  LET r == MovedTo(t, a, proxy)
         IN  Alike(t, r) /\ Shift(t, r, m) /\ r.voters[a] = t.voters[a]
<1> DEFINE row    == t.voters[a]
           active == Activate(t, a)
           left   == LeaveProxy(active, a)
           moved  == JoinProxy(left, a, proxy)
           h      == AtOne(row.proxy, -row.last)
           k      == AtOne(proxy, VoteWeight(row))
<1>1. /\ Alike(t, active) /\ active.voters = t.voters /\ active.producers = t.producers
      /\ active.withheld = t.withheld /\ active.below = t.below /\ active.failed = t.failed
      /\ active.gstate.weight = t.gstate.weight
  BY ActivateFacts
<1>2. row \in VoterRow /\ row.last \in Int /\ VoteWeight(row) \in Int
  BY TablesHave, RowType, PowerType
<1>3. h \in [Accounts -> Int] /\ k \in [Accounts -> Int]
  BY <1>2, AtOneType
<1> HIDE DEF active, h, k
<1>4. active \in Tables /\ TimesOK(active)
  BY <1>1 DEF Alike
<1>5. Shift(t, active, Nothing)
  BY <1>1, <1>4, ShiftSame
<1>6. ProxiesEndOf(active) /\ OneWay(active) /\ VotedFor(active)
  BY <1>1, AlikeEnds, AlikeOneWay, AlikeVotedFor
<1>7. \A x \in Accounts \ {a} : Follows(active, x)
  BY <1>1 DEF Follows
<1>8. /\ Shift(active, left, h) /\ left.voters[a] = row
      /\ Alike(active, left) /\ \A x \in Accounts : Follows(active, x) => Follows(left, x)
  <2>1. LET b == active.voters[a].proxy IN b # None => b # a /\ active.voters[b].proxy # a
    BY <1>1, <1>4, <1>6, NoTwoCycle
  <2>2. LET r == LeaveProxy(active, a)
        IN  /\ Shift(active, r, AtOne(active.voters[a].proxy, -active.voters[a].last))
            /\ r.voters[a] = active.voters[a]
    BY <1>1, <1>4, <1>6, <1>7, <2>1, LeaveProxyShift
  <2>3. ProxiesThere(active)
    BY <1>4, <1>6, EndIsThere
  <2>4. LET r == LeaveProxy(active, a)
        IN  /\ Alike(active, r)
            /\ \A x \in Accounts : Follows(active, x) => Follows(r, x)
    BY <1>1, <1>4, <2>3, LeaveProxyFacts
  <2>5. QED
    BY <1>1, <2>2, <2>4 DEF h
<1> HIDE DEF left
<1>9. left \in Tables /\ TimesOK(left) /\ Alike(t, left)
  BY <1>1, <1>8, AlikeTrans DEF Alike
<1>10. Shift(t, left, h)
  <2>1. \A x \in Accounts : h[x] = Nothing[x] + h[x]
    BY <1>3, NothingType
  <2>2. QED
    BY <1>1, <1>3, <1>4, <1>5, <1>8, <1>9, <2>1, NothingType, ShiftTrans
<1>11. ProxiesEndOf(left) /\ OneWay(left) /\ VotedFor(left)
  BY <1>9, <1>10, AlikeEnds, AlikeOneWay, AlikeVotedFor DEF Shift
<1>12. Shift(left, moved, k) /\ moved.voters[a] = row /\ Alike(left, moved)
  <2>1. \A x \in Accounts \ {a} : Follows(left, x)
    BY <1>7, <1>8
  <2>2. proxy # None => proxy # a /\ left.voters[proxy] # NoRow /\ left.voters[proxy].proxy # a
    <3>1. SUFFICES ASSUME proxy # None
                   PROVE  left.voters[proxy] # NoRow /\ left.voters[proxy].proxy # a
      OBVIOUS
    <3>2. proxy \in Accounts
      BY <3>1
    <3>3. Kin(t.voters[proxy], left.voters[proxy]) /\ t.voters[proxy] \in VoterRow
      BY <1>9, <3>1, <3>2, TablesHave DEF Alike
    <3>4. QED
      BY <3>1, <3>3, KinFollows
  <2>3. left.voters[a] # NoRow /\ VoteWeight(left.voters[a]) >= 0
    BY <1>8
  <2>4. LET r == JoinProxy(left, a, proxy)
        IN  /\ Shift(left, r, AtOne(proxy, VoteWeight(left.voters[a])))
            /\ r.voters[a] = left.voters[a]
    BY <1>9, <1>11, <2>1, <2>2, <2>3, JoinProxyShift
  <2>5. ProxiesThere(left)
    BY <1>9, <1>11, EndIsThere
  <2>6. LET r == JoinProxy(left, a, proxy)
        IN  /\ Alike(left, r)
            /\ \A x \in Accounts : Follows(left, x) => Follows(r, x)
    BY <1>9, <2>2, <2>3, <2>5, JoinProxyFacts
  <2>7. QED
    BY <1>8, <2>4, <2>6 DEF k
<1>13. MovedTo(t, a, proxy) = moved
  BY DEF MovedTo, left, active
<1> HIDE DEF moved
<1>14. moved \in Tables /\ Alike(t, moved)
  BY <1>9, <1>12, AlikeTrans DEF Alike
<1>15. Shift(t, moved, m)
  <2>1. \A x \in Accounts : m[x] = h[x] + k[x]
    BY DEF h, k
  <2>2. QED
    BY <1>3, <1>9, <1>10, <1>12, <1>14, <2>1, ShiftTrans
<1>16. QED
  BY <1>12, <1>13, <1>14, <1>15

\* The row of a after its vote, and the votes of its producers: all that differs from moved.
VotedOn(moved, r, a, proxy, ps) ==
    LET row == moved.voters[a]
        P   == Undone(row) \cup NewlyCast(row, ps)
    IN  /\ r \in Tables /\ ~moved.below /\ ~moved.failed
        /\ r.voters[a].producers = ps /\ r.voters[a].proxy = proxy
        /\ r.voters[a].last = VoteWeight(row) /\ r.voters[a].proxied = row.proxied
        /\ r.voters[a] # NoRow
        /\ \A x \in Accounts \ {a} : r.voters[x] = moved.voters[x]
        /\ r.withheld = moved.withheld
        /\ r.gstate.weight = moved.gstate.weight + SumOver(Delta(row, ps), P)
        /\ \A p \in P : r.producers[p].votes = moved.producers[p].votes + Delta(row, ps)[p]
        /\ \A p \in Candidates \ P :
              moved.producers[p] # NoRow => r.producers[p].votes = moved.producers[p].votes
        /\ \A p \in Candidates : moved.producers[p] = NoRow <=> r.producers[p] = NoRow
        /\ \A p \in P : moved.producers[p] # NoRow

\* That the tallies of r are those of t, but for the proxies that a left and joined.
OffAlike(t, r, a, proxy) ==
    /\ \A p \in Candidates : t.producers[p] # NoRow => VoteOff(r, p) = VoteOff(t, p)
    /\ WeightOff(r) = WeightOff(t)
    /\ \A b \in Accounts : t.voters[b] # NoRow =>
          HandOff(r, b) = HandOff(t, b) - AtOne(t.voters[a].proxy, -t.voters[a].last)[b]
                                        - AtOne(proxy, VoteWeight(t.voters[a]))[b]

\* By what is cast and what is undone, producers get what the sums get.
LEMMA VotedOnTallies ==
  ASSUME NEW t \in Tables, NEW r, NEW a \in Accounts, t.voters[a] # NoRow,
         NEW proxy \in Accounts \cup {None}, NEW ps \in SUBSET Candidates,
         VotedOn(t, r, a, proxy, ps), t.voters[a].last >= 0, VoteWeight(t.voters[a]) >= 0,
         t.voters[a].proxy # None => t.voters[a].producers = {}
  PROVE  OffAlike(t, r, a, proxy)
<1> DEFINE row    == t.voters[a]
           weight == VoteWeight(row)
           undone == Undone(row)
           cast   == NewlyCast(row, ps)
           P      == undone \cup cast
           delta  == Delta(row, ps)
<1>1. /\ row \in VoterRow /\ weight \in Int /\ row.last \in Int /\ row.producers \in SUBSET Candidates
      /\ row.proxy \in Accounts \cup {None} /\ weight >= 0 /\ row.last >= 0
  BY TablesHave, RowType, PowerType
<1>2. /\ cast = ps /\ undone \subseteq row.producers
      /\ undone # row.producers => row.last = 0 \/ row.producers = {}
  BY <1>1 DEF Undone, NewlyCast
<1>3. P \in SUBSET Candidates
  BY <1>1, <1>2
<1>4. delta = [p \in P |-> (IF p \in cast THEN weight ELSE 0) - (IF p \in undone THEN row.last ELSE 0)]
  BY DEF Delta
<1> HIDE DEF delta, undone, cast, weight
<1>5. /\ delta \in [P -> Int]
      /\ \A p \in P : delta[p] = (IF p \in cast THEN weight ELSE 0) - (IF p \in undone THEN row.last ELSE 0)
  BY <1>1, <1>4
<1>6. /\ r \in Tables /\ r.voters[a] # NoRow
      /\ r.voters[a].producers = ps /\ r.voters[a].proxy = proxy
      /\ r.voters[a].last = weight /\ r.voters[a].proxied = row.proxied
      /\ \A x \in Accounts \ {a} : r.voters[x] = t.voters[x]
      /\ r.withheld = t.withheld
      /\ r.gstate.weight = t.gstate.weight + SumOver(delta, P)
      /\ \A p \in P : r.producers[p].votes = t.producers[p].votes + delta[p]
      /\ \A p \in Candidates \ P : t.producers[p] # NoRow => r.producers[p].votes = t.producers[p].votes
  BY DEF VotedOn, delta, undone, cast, weight
<1>7. ASSUME NEW p \in Candidates
      PROVE  Cast(r, p) = Cast(t, p) + (IF p \in P THEN delta[p] ELSE 0)
  <2>1. Cast(r, p) = Cast(t, p) + CastBy(r, p)[a] - CastBy(t, p)[a]
    BY <1>6, OneVoter
  <2>2. /\ CastBy(r, p)[a] = IF p \in ps THEN weight ELSE 0
        /\ CastBy(t, p)[a] = IF p \in row.producers THEN row.last ELSE 0
    BY <1>6 DEF CastBy
  <2>3. CastBy(t, p)[a] = IF p \in undone THEN row.last ELSE 0
    BY <1>1, <1>2, <2>2
  <2>4. Cast(t, p) \in Int
    BY TallyTypes
  <2>5. CASE p \in P
    BY <1>1, <1>2, <1>5, <2>1, <2>2, <2>3, <2>4, <2>5
  <2>6. CASE p \notin P
    BY <1>1, <1>2, <2>1, <2>2, <2>3, <2>4, <2>6
  <2>7. QED
    BY <2>5, <2>6
<1>8. /\ t.gstate.weight \in Int /\ SumOver(Weighed(t), Candidates) \in Int
      /\ \A p \in Candidates : Cast(t, p) \in Int /\ t.withheld.votes[p] \in Int
      /\ \A p \in Candidates : t.producers[p] # NoRow => t.producers[p].votes \in Int
  BY TallyTypes
<1>9. SumOver(delta, P) \in Int
  <2>1. IsFiniteSet(P) /\ \A p \in P : delta[p] \in Int
    BY <1>3, <1>5, TallyTypes, FS_Subset
  <2>2. QED
    BY <2>1, SumOverType
<1> HIDE DEF P
<1>10. ASSUME NEW p \in Candidates, t.producers[p] # NoRow PROVE VoteOff(r, p) = VoteOff(t, p)
  <2>1. CASE p \in P
    BY <1>5, <1>6, <1>7, <1>8, <1>10, <2>1 DEF VoteOff
  <2>2. CASE p \notin P
    BY <1>6, <1>7, <1>8, <1>10, <2>2 DEF VoteOff
  <2>3. QED
    BY <2>1, <2>2
<1>11. WeightOff(r) = WeightOff(t)
  <2>1. \A p \in P : Weighed(r)[p] = Weighed(t)[p] + delta[p]
    BY <1>3, <1>5, <1>6, <1>7, <1>8 DEF Weighed
  <2>2. \A p \in Candidates \ P : Weighed(r)[p] = Weighed(t)[p]
    BY <1>6, <1>7, <1>8 DEF Weighed
  <2>3. SumOver(Weighed(r), Candidates) = SumOver(Weighed(t), Candidates) + SumOver(delta, P)
    BY <1>3, <1>5, <1>6, <2>1, <2>2, WeighedMoves
  <2>4. QED
    BY <1>6, <1>8, <1>9, <2>3 DEF WeightOff
<1>12. ASSUME NEW b \in Accounts, t.voters[b] # NoRow
       PROVE  HandOff(r, b) = HandOff(t, b) - AtOne(row.proxy, -row.last)[b] - AtOne(proxy, weight)[b]
  <2>1. /\ AtOne(row.proxy, -row.last)[b] = IF b = row.proxy THEN -row.last ELSE 0
        /\ AtOne(proxy, weight)[b] = IF b = proxy THEN weight ELSE 0
    BY <1>1, AtOneType
  <2>2. Handed(r, b) = Handed(t, b) + HandedBy(r, b)[a] - HandedBy(t, b)[a]
    BY <1>6, OneVoter
  <2>3. /\ HandedBy(r, b)[a] = IF b = proxy THEN weight ELSE 0
        /\ HandedBy(t, b)[a] = IF b = row.proxy THEN row.last ELSE 0
    BY <1>6 DEF HandedBy
  <2>4. t.voters[b].proxied \in Int /\ t.withheld.proxied[b] \in Int /\ Handed(t, b) \in Int
    BY <1>12, TallyTypes
  <2>5. r.voters[b].proxied = t.voters[b].proxied
    BY <1>6
  <2> DEFINE in == IF b = proxy THEN weight ELSE 0
             out == IF b = row.proxy THEN row.last ELSE 0
  <2>6. in \in Int /\ out \in Int /\ AtOne(row.proxy, -row.last)[b] = -out /\ AtOne(proxy, weight)[b] = in
    BY <1>1, <2>1
  <2>7. Handed(r, b) = Handed(t, b) + in - out
    BY <2>2, <2>3
  <2> HIDE DEF in, out
  <2>8. QED
    BY <1>6, <2>4, <2>5, <2>6, <2>7 DEF HandOff
<1>13. QED
  BY <1>10, <1>11, <1>12 DEF OffAlike, weight

LEMMA ChainVotedOn ==
  ASSUME NEW t \in Tables, NEW a \in Accounts, t.voters[a] # NoRow,
         NEW proxy \in Accounts \cup {None}, NEW ps \in SUBSET Candidates,
         NEW moved, NEW recast, NEW r, Chain(t, moved, recast, r, a, proxy, ps),
         moved.voters[a] = t.voters[a],
         ~r.below, ~r.failed, ~t.below /\ ~t.failed => TallyInv(t),
         ~moved.below /\ ~moved.failed => ~t.below /\ ~t.failed,
         \A p \in NewlyCast(t.voters[a], ps) : t.producers[p] # NoRow
  PROVE  VotedOn(moved, r, a, proxy, ps)
<1> DEFINE row    == t.voters[a]
           undone == Undone(row)
           cast   == NewlyCast(row, ps)
           P      == undone \cup cast
           delta  == Delta(row, ps)
<1>1. /\ row \in VoterRow /\ VoteWeight(row) \in Int /\ row.last \in Int
      /\ row.producers \in SUBSET Candidates
  BY TablesHave, RowType, PowerType
<1>2. /\ undone \in SUBSET Candidates /\ undone \subseteq row.producers
      /\ cast \in SUBSET Candidates /\ P \in SUBSET Candidates
  BY <1>1 DEF Undone, NewlyCast
<1>3. delta \in [P -> Int]
  <2> HIDE DEF row
  <2>1. QED
    BY <1>1 DEF Delta
<1>4. /\ Alike(t, moved) /\ RecountOf(moved, P, delta, TRUE, recast)
      /\ r \in Tables /\ r.voters[a] \in VoterRow
      /\ r.voters[a].producers = ps /\ r.voters[a].proxy = proxy
      /\ r.voters[a].last = VoteWeight(row) /\ r.voters[a].proxied = row.proxied
      /\ \A x \in Accounts \ {a} : r.voters[x] = moved.voters[x]
      /\ r.withheld = recast.withheld /\ r.gstate.weight = recast.gstate.weight
      /\ r.below = (recast.below \/ VoteWeight(row) < 0) /\ r.failed = recast.failed
      /\ \A p \in Candidates : t.producers[p] = NoRow <=> r.producers[p] = NoRow
      /\ \A p \in Candidates : recast.producers[p] # NoRow =>
                                   r.producers[p].votes = recast.producers[p].votes
  BY DEF Chain
<1>5. r.voters[a] # NoRow
  BY <1>4, RowType
<1>6. ~recast.below /\ ~recast.failed
  <2>1. recast.below \in BOOLEAN
    BY <1>4, TablesHave DEF RecountOf
  <2>2. QED
    BY <1>4, <2>1
<1>7. /\ moved \in Tables
      /\ \A p \in Candidates : t.producers[p] = NoRow <=> moved.producers[p] = NoRow
  BY <1>4 DEF Alike
<1> HIDE DEF undone, cast, delta
<1>8. \A p \in P : moved.producers[p] # NoRow
  <2>1. ~moved.below /\ ~moved.failed
    BY <1>4, <1>6 DEF RecountOf
  <2>2. ~t.below /\ ~t.failed
    BY <2>1
  <2>3. VotedFor(t)
    BY <2>2 DEF TallyInv
  <2>4. \A p \in undone : t.producers[p] # NoRow
    BY <1>2, <2>2, <2>3 DEF VotedFor
  <2>5. \A p \in cast : t.producers[p] # NoRow
    BY DEF cast
  <2>6. QED
    BY <1>2, <1>7, <2>4, <2>5
<1> HIDE DEF P
<1>9. /\ recast \in Tables /\ ~moved.below /\ ~moved.failed
      /\ recast.voters = moved.voters /\ recast.withheld = moved.withheld
      /\ recast.gstate.weight = moved.gstate.weight + SumOver(delta, P)
      /\ \A p \in P : recast.producers[p].votes = moved.producers[p].votes + delta[p]
      /\ \A p \in Candidates \ P : recast.producers[p] = moved.producers[p]
  <2> DEFINE floor == TRUE
  <2>1. floor \in BOOLEAN /\ RecountOf(moved, P, delta, floor, recast)
    BY <1>4
  <2> HIDE DEF floor
  <2>2. floor => \A p \in P : moved.producers[p] # NoRow
    BY <1>8
  <2>3. QED
    BY <1>2, <1>3, <1>6, <1>7, <2>1, <2>2, RecountTallies
<1>10. \A p \in P : recast.producers[p] # NoRow
  <2>1. \A p \in {q \in P : moved.producers[q] # NoRow} :
           Recounted(moved.producers[p], delta[p], TRUE, recast.producers[p])
    BY <1>4 DEF RecountOf
  <2>2. \A p \in P : recast.producers[p] \in ProducerRow
    BY <1>8, <2>1 DEF Recounted
  <2>3. QED
    BY <2>2, VotingRowsAssumption
<1>11. \A p \in P : r.producers[p].votes = moved.producers[p].votes + delta[p]
  BY <1>2, <1>4, <1>9, <1>10
<1>12. \A p \in Candidates \ P : moved.producers[p] # NoRow => r.producers[p].votes = moved.producers[p].votes
  BY <1>4, <1>9
<1>13. /\ r.withheld = moved.withheld
       /\ r.gstate.weight = moved.gstate.weight + SumOver(delta, P)
       /\ \A p \in Candidates : moved.producers[p] = NoRow <=> r.producers[p] = NoRow
  BY <1>4, <1>7, <1>9
<1>14. QED
  BY <1>4, <1>5, <1>8, <1>9, <1>11, <1>12, <1>13 DEF VotedOn, P, undone, cast, delta

\* update_votes keeps every tally, unless it is refused or something goes below zero.
LEMMA UpdateVotesTally ==
  ASSUME NEW t \in Tables, NEW a \in Accounts, t.voters[a] # NoRow,
         NEW proxy \in Accounts \cup {None}, NEW ps \in SUBSET Candidates,
         now \in Nat, TimesOK(t), ProxiesEndOf(t), TallyInv(t),
         \A x \in Accounts \ {a} : Follows(t, x),
         proxy # None => /\ ps = {} /\ proxy # a
                         /\ t.voters[proxy] # NoRow /\ t.voters[proxy].proxy # a,
         \A p \in NewlyCast(t.voters[a], ps) : t.producers[p] # NoRow
  PROVE  LET r == UpdateVotes(t, a, proxy, ps) IN ~r.failed => TallyInv(r)
<1> DEFINE row    == t.voters[a]
           weight == VoteWeight(row)
           moved  == MovedTo(t, a, proxy)
           recast == Recount(moved, Delta(row, ps), TRUE)
           r      == UpdateVotes(t, a, proxy, ps)
<1>1. ProxiesThere(t)
  BY EndIsThere
<1>2. Chain(t, moved, recast, r, a, proxy, ps)
  BY <1>1, UpdateVotesChain
<1>3. Recast(t, r, a, proxy, ps)
  BY <1>1, UpdateVotesFacts
<1>4. /\ row \in VoterRow /\ weight \in Int /\ row.last \in Int
      /\ row.proxy \in Accounts \cup {None}
  BY TablesHave, RowType, PowerType
<1>5. Tallied(t) /\ VotedFor(t) /\ OneWay(t)
  BY DEF TallyInv
<1> HIDE DEF r, recast
<1>6. OneWay(r)
  <2>1. ASSUME NEW x \in Accounts, r.voters[x] # NoRow, r.voters[x].proxy # None
        PROVE  r.voters[x].producers = {}
    <3>1. CASE x = a
      BY <1>3, <2>1, <3>1 DEF Recast
    <3>2. CASE x # a
      <4>1. t.voters[x] # NoRow /\ Kin(t.voters[x], r.voters[x])
        BY <1>3, <2>1, <3>2 DEF Recast
      <4>2. QED
        BY <1>5, <2>1, <4>1 DEF OneWay, Kin
    <3>3. QED
      BY <3>1, <3>2
  <2>2. QED
    BY <2>1 DEF OneWay
<1>7. r.below = (recast.below \/ weight < 0)
  BY <1>2 DEF Chain
<1> SUFFICES ASSUME ~r.failed, ~r.below
             PROVE  Tallied(r) /\ VotedFor(r)
  BY <1>6 DEF r, TallyInv, Tallied, VotedFor
<1>8. weight >= 0
  <2>1. ~(weight < 0)
    BY <1>7
  <2>2. QED
    BY <1>4, <2>1
<1> DEFINE h == AtOne(row.proxy, -row.last)
           k == AtOne(proxy, weight)
           m == [x \in Accounts |-> h[x] + k[x]]
<1>9. h \in [Accounts -> Int] /\ k \in [Accounts -> Int]
  BY <1>4, AtOneType
<1> HIDE DEF h, k
<1>10. m \in [Accounts -> Int] /\ \A x \in Accounts : m[x] = h[x] + k[x]
  BY <1>9
<1> HIDE DEF m
<1>11. Alike(t, moved) /\ Shift(t, moved, m) /\ moved.voters[a] = row
  <2>1. ~t.below /\ ~t.failed => row.last >= 0
    BY <1>5 DEF Tallied
  <2>2. \A x \in Accounts : m[x] = AtOne(t.voters[a].proxy, -t.voters[a].last)[x]
                                 + AtOne(proxy, VoteWeight(t.voters[a]))[x]
    BY <1>10 DEF h, k
  <2>3. VoteWeight(t.voters[a]) >= 0
    BY <1>8
  <2>4. LET s == MovedTo(t, a, proxy)
        IN  Alike(t, s) /\ Shift(t, s, m) /\ s.voters[a] = t.voters[a]
    <3> HIDE DEF weight, moved
    <3>1. QED
      BY <1>5, <1>10, <2>1, <2>2, <2>3, MovedShift
  <2>5. QED
    BY <2>4
<1> HIDE DEF moved
<1>12. VotedOn(moved, r, a, proxy, ps)
  BY <1>2, <1>11, ChainVotedOn DEF Shift
<1>13. /\ r \in Tables /\ r.voters[a] # NoRow
       /\ r.voters[a].producers = ps /\ r.voters[a].last = weight
       /\ \A x \in Accounts \ {a} : r.voters[x] = moved.voters[x]
       /\ r.withheld = moved.withheld /\ ~moved.below /\ ~moved.failed
       /\ \A p \in Candidates : moved.producers[p] = NoRow <=> r.producers[p] = NoRow
  BY <1>11, <1>12 DEF VotedOn
<1>14. /\ moved \in Tables
       /\ \A p \in Candidates : t.producers[p] = NoRow <=> moved.producers[p] = NoRow
       /\ \A x \in Accounts : t.voters[x] = NoRow <=> moved.voters[x] = NoRow
  BY <1>11, TablesHave, KinFollows DEF Alike
<1>15. /\ ~t.below /\ ~t.failed
       /\ \A p \in Candidates : t.producers[p] # NoRow => VoteOff(moved, p) = VoteOff(t, p)
       /\ \A p \in Candidates : t.producers[p] = NoRow => moved.withheld.votes[p] = t.withheld.votes[p]
       /\ \A b \in Accounts : t.voters[b] # NoRow => HandOff(moved, b) = HandOff(t, b) + m[b]
       /\ \A b \in Accounts : t.voters[b] = NoRow => moved.withheld.proxied[b] = t.withheld.proxied[b]
       /\ WeightOff(moved) = WeightOff(t)
       /\ \A x \in Accounts : t.voters[x] # NoRow /\ t.voters[x].last >= 0 => moved.voters[x].last >= 0
  BY <1>11, <1>13 DEF Shift
<1>16. /\ \A p \in Candidates : t.producers[p] # NoRow => VoteOff(t, p) = 0
       /\ \A p \in Candidates : t.producers[p] = NoRow => t.withheld.votes[p] = 0
       /\ \A b \in Accounts : t.voters[b] # NoRow => HandOff(t, b) = 0
       /\ \A b \in Accounts : t.voters[b] = NoRow => t.withheld.proxied[b] = 0
       /\ WeightOff(t) = 0
       /\ \A x \in Accounts : t.voters[x] # NoRow => t.voters[x].last >= 0
  BY <1>5, <1>15 DEF Tallied
<1>17. /\ \A p \in Candidates : moved.producers[p] # NoRow => VoteOff(r, p) = VoteOff(moved, p)
       /\ WeightOff(r) = WeightOff(moved)
       /\ \A b \in Accounts : moved.voters[b] # NoRow => HandOff(r, b) = HandOff(moved, b) - h[b] - k[b]
  <2>1. moved.voters[a].last >= 0 /\ VoteWeight(moved.voters[a]) >= 0 /\ moved.voters[a] # NoRow
    BY <1>8, <1>11, <1>16
  <2>2. moved.voters[a].proxy # None => moved.voters[a].producers = {}
    BY <1>5, <1>11 DEF OneWay
  <2>3. OffAlike(moved, r, a, proxy)
    BY <1>12, <1>14, <2>1, <2>2, VotedOnTallies
  <2>4. QED
    BY <1>11, <2>3 DEF OffAlike, h, k
<1>18. \A p \in Candidates : r.producers[p] # NoRow => VoteOff(r, p) = 0
  BY <1>13, <1>14, <1>15, <1>16, <1>17
<1>19. \A p \in Candidates : r.producers[p] = NoRow => r.withheld.votes[p] = 0
  BY <1>13, <1>14, <1>15, <1>16
<1>20. ASSUME NEW b \in Accounts, r.voters[b] # NoRow PROVE HandOff(r, b) = 0
  <2>1. t.voters[b] # NoRow
    <3>1. CASE b = a
      BY <3>1
    <3>2. CASE b # a
      BY <1>13, <1>14, <1>20, <3>2
    <3>3. QED
      BY <3>1, <3>2
  <2>2. HandOff(moved, b) = 0 + m[b] /\ HandOff(r, b) = HandOff(moved, b) - h[b] - k[b]
    BY <1>14, <1>15, <1>16, <1>17, <2>1
  <2>3. m[b] = h[b] + k[b] /\ h[b] \in Int /\ k[b] \in Int
    BY <1>9, <1>10
  <2>4. QED
    BY <2>2, <2>3
<1>21. \A b \in Accounts : r.voters[b] = NoRow => r.withheld.proxied[b] = 0
  BY <1>13, <1>14, <1>15, <1>16
<1>22. WeightOff(r) = 0
  BY <1>15, <1>16, <1>17
<1>23. \A x \in Accounts : r.voters[x] # NoRow => r.voters[x].last >= 0
  BY <1>8, <1>13, <1>14, <1>15, <1>16
<1>24. VotedFor(r)
  <2>1. ASSUME NEW x \in Accounts, r.voters[x] # NoRow, NEW p \in r.voters[x].producers
        PROVE  r.producers[p] # NoRow
    <3>1. CASE x = a
      <4>1. p \in NewlyCast(row, ps) /\ p \in Candidates
        BY <1>8, <1>13, <2>1, <3>1 DEF NewlyCast
      <4>2. t.producers[p] # NoRow
        BY <4>1
      <4>3. QED
        BY <1>13, <1>14, <4>1, <4>2
    <3>2. CASE x # a
      <4>1. t.voters[x] # NoRow /\ Kin(t.voters[x], r.voters[x])
        BY <1>3, <2>1, <3>2 DEF Recast
      <4>2. p \in t.voters[x].producers
        BY <2>1, <4>1 DEF Kin
      <4>3. p \in Candidates
        BY <4>1, <4>2, TablesHave, RowType
      <4>4. t.producers[p] # NoRow
        BY <1>5, <1>15, <4>1, <4>2 DEF VotedFor
      <4>5. QED
        BY <1>13, <1>14, <4>3, <4>4
    <3>3. QED
      BY <3>1, <3>2
  <2>2. QED
    BY <2>1 DEF VotedFor
<1>25. Tallied(r)
  BY <1>18, <1>19, <1>20, <1>21, <1>22, <1>23 DEF Tallied
<1>26. QED
  BY <1>24, <1>25
-----------------------------------------------------------------------------
(* The tallies under the actions                                           *)

\* The tallies of the state are kept when the tables on the way are committed.
LEMMA TallyTaken ==
  ASSUME NEW r \in Tables, TallyInv(r), ~r.failed,
         voters' = r.voters, producers' = r.producers, gstate' = r.gstate,
         withheld' = r.withheld, below' = r.below
  PROVE  TallyInv(VotingTables)'
<1>1. r = [voters |-> r.voters, producers |-> r.producers, gstate |-> r.gstate,
           withheld |-> r.withheld, below |-> r.below, failed |-> FALSE]
  BY DEF Tables
<1>2. VotingTables' = r
  BY <1>1 DEF VotingTables
<1>3. QED
  BY <1>2

\* Weight that only moved where nothing counts.
LEMMA ShiftTally ==
  ASSUME NEW t \in Tables, NEW r, Alike(t, r), Shift(t, r, Nothing), TallyInv(t)
  PROVE  ~r.failed => TallyInv(r)
<1> SUFFICES ASSUME ~r.failed PROVE TallyInv(r)
  OBVIOUS
<1>1. OneWay(r) /\ VotedFor(r) /\ Tallied(t)
  BY AlikeOneWay, AlikeVotedFor DEF Shift, TallyInv
<1>2. /\ \A p \in Candidates : t.producers[p] = NoRow <=> r.producers[p] = NoRow
      /\ \A x \in Accounts : t.voters[x] = NoRow <=> r.voters[x] = NoRow
  BY TablesHave, KinFollows DEF Alike
<1>3. ASSUME ~r.below, NEW b \in Accounts, r.voters[b] # NoRow PROVE HandOff(r, b) = 0
  <2>1. HandOff(t, b) = 0 /\ HandOff(r, b) = HandOff(t, b) + Nothing[b]
    BY <1>1, <1>2, <1>3 DEF Shift, Tallied
  <2>2. QED
    BY <2>1, NothingType
<1>4. Tallied(r)
  BY <1>1, <1>2, <1>3 DEF Shift, Tallied
<1>5. QED
  BY <1>1, <1>4 DEF TallyInv

\* Producers with other rows and the same votes, and new ones without any.
LEMMA ProducersTally ==
  ASSUME NEW t \in Tables, TallyInv(t), NEW r \in Tables, ~t.failed,
         r.voters = t.voters, r.gstate = t.gstate, r.withheld = t.withheld, r.below = t.below,
         \A p \in Candidates : t.producers[p] # NoRow => /\ r.producers[p] # NoRow
                                                         /\ r.producers[p].votes = t.producers[p].votes,
         \A p \in Candidates : t.producers[p] = NoRow /\ r.producers[p] # NoRow => r.producers[p].votes = 0
  PROVE  TallyInv(r)
<1>1. /\ \A p \in Candidates : Cast(r, p) = Cast(t, p)
      /\ \A b \in Accounts : HandOff(r, b) = HandOff(t, b)
      /\ WeightOff(r) = WeightOff(t)
  BY DEF Cast, CastBy, HandOff, Handed, HandedBy, WeightOff, Weighed
<1>2. Tallied(t) /\ VotedFor(t) /\ OneWay(t)
  BY DEF TallyInv
<1>3. VotedFor(r)
  <2>1. ASSUME ~r.below, NEW x \in Accounts, t.voters[x] # NoRow, NEW p \in t.voters[x].producers
        PROVE  r.producers[p] # NoRow
    <3>1. t.producers[p] # NoRow /\ p \in Candidates
      BY <1>2, <2>1, TablesHave, RowType DEF VotedFor
    <3>2. QED
      BY <3>1
  <2>2. QED
    BY <2>1 DEF VotedFor
<1>4. OneWay(r)
  BY <1>2 DEF OneWay
<1>5. ASSUME ~t.below, NEW p \in Candidates, t.producers[p] = NoRow
      PROVE  Cast(t, p) = 0
  <2>1. \A x \in Accounts : CastBy(t, p)[x] = 0
    BY <1>2, <1>5 DEF VotedFor, CastBy
  <2>2. IsFiniteSet(Accounts) /\ \A x \in Accounts : CastBy(t, p)[x] \in Nat
    BY <2>1, AccountsAssumption
  <2>3. QED
    BY <2>1, <2>2, SumOverNat DEF Cast
<1>6. ASSUME ~r.below, NEW p \in Candidates, r.producers[p] # NoRow
      PROVE  VoteOff(r, p) = 0
  <2>1. CASE t.producers[p] # NoRow
    BY <1>1, <1>2, <1>6, <2>1 DEF VoteOff, Tallied
  <2>2. CASE t.producers[p] = NoRow
    <3>1. r.producers[p].votes = 0 /\ t.withheld.votes[p] = 0 /\ Cast(t, p) = 0
      BY <1>2, <1>5, <1>6, <2>2 DEF Tallied
    <3>2. QED
      BY <1>1, <3>1 DEF VoteOff
  <2>3. QED
    BY <2>1, <2>2
<1>7. Tallied(r)
  BY <1>1, <1>2, <1>6 DEF Tallied
<1>8. QED
  BY <1>3, <1>4, <1>7 DEF TallyInv

\* Another row of a, where nothing that counts is another.
LEMMA RowTally ==
  ASSUME NEW t \in Tables, TallyInv(t), ProxiesEndOf(t), ~t.failed,
         NEW a \in Accounts, NEW new \in VoterRow,
         NEW r, OneRow(t, r, a, new), r.below = t.below,
         t.voters[a] # NoRow =>
             /\ new.last = t.voters[a].last /\ new.proxied = t.voters[a].proxied
             /\ new.producers = t.voters[a].producers /\ new.proxy = t.voters[a].proxy,
         t.voters[a] = NoRow =>
             new.last = 0 /\ new.proxied = 0 /\ new.producers = {} /\ new.proxy = None
  PROVE  TallyInv(r)
<1>1. /\ r \in Tables /\ r.voters[a] = new /\ new # NoRow
      /\ \A x \in Accounts \ {a} : r.voters[x] = t.voters[x]
      /\ r.producers = t.producers /\ r.gstate = t.gstate /\ r.withheld = t.withheld
      /\ r.failed = t.failed
  BY RowType DEF OneRow
<1>2. Tallied(t) /\ VotedFor(t) /\ OneWay(t)
  BY DEF TallyInv
<1>3. \A p \in Candidates : CastBy(r, p) = CastBy(t, p)
  <2>1. \A p \in Candidates : \A x \in Accounts : CastBy(r, p)[x] = CastBy(t, p)[x]
    <3>1. ASSUME NEW p \in Candidates PROVE CastBy(r, p)[a] = CastBy(t, p)[a]
      <4>1. CASE t.voters[a] # NoRow
        BY <1>1, <4>1 DEF CastBy
      <4>2. CASE t.voters[a] = NoRow
        BY <1>1, <4>2 DEF CastBy
      <4>3. QED
        BY <4>1, <4>2
    <3>2. \A p \in Candidates : \A x \in Accounts \ {a} : CastBy(r, p)[x] = CastBy(t, p)[x]
      BY <1>1 DEF CastBy
    <3>3. QED
      BY <3>1, <3>2
  <2>2. QED
    BY <2>1 DEF CastBy
<1>4. \A b \in Accounts : HandedBy(r, b) = HandedBy(t, b)
  <2>1. \A b \in Accounts : \A x \in Accounts : HandedBy(r, b)[x] = HandedBy(t, b)[x]
    <3>1. ASSUME NEW b \in Accounts PROVE HandedBy(r, b)[a] = HandedBy(t, b)[a]
      <4>1. CASE t.voters[a] # NoRow
        BY <1>1, <4>1 DEF HandedBy
      <4>2. CASE t.voters[a] = NoRow
        BY <1>1, <4>2, AccountsAssumption DEF HandedBy
      <4>3. QED
        BY <4>1, <4>2
    <3>2. \A b \in Accounts : \A x \in Accounts \ {a} : HandedBy(r, b)[x] = HandedBy(t, b)[x]
      BY <1>1 DEF HandedBy
    <3>3. QED
      BY <3>1, <3>2
  <2>2. QED
    BY <2>1 DEF HandedBy
<1>5. /\ \A p \in Candidates : Cast(r, p) = Cast(t, p)
      /\ \A b \in Accounts : Handed(r, b) = Handed(t, b)
  BY <1>3, <1>4 DEF Cast, Handed
<1>6. Weighed(r) = Weighed(t)
  BY <1>1, <1>5 DEF Weighed
<1>7. /\ WeightOff(r) = WeightOff(t)
      /\ \A p \in Candidates : VoteOff(r, p) = VoteOff(t, p)
  BY <1>1, <1>5, <1>6 DEF WeightOff, VoteOff
<1>8. t.voters[a] = NoRow => Handed(t, a) = 0
  <2>1. SUFFICES ASSUME t.voters[a] = NoRow PROVE Handed(t, a) = 0
    OBVIOUS
  <2>2. \A x \in Accounts : t.voters[x] # NoRow => t.voters[x].proxy # a
    BY <2>1, EndIsThere, AccountsAssumption DEF ProxiesThere
  <2>3. \A x \in Accounts : HandedBy(t, a)[x] = 0
    BY <2>2 DEF HandedBy
  <2>4. IsFiniteSet(Accounts) /\ \A x \in Accounts : HandedBy(t, a)[x] \in Nat
    BY <2>3, AccountsAssumption
  <2>5. QED
    BY <2>3, <2>4, SumOverNat DEF Handed
<1>9. ASSUME ~r.below, NEW b \in Accounts, r.voters[b] # NoRow PROVE HandOff(r, b) = 0
  <2>1. CASE t.voters[b] # NoRow
    <3>1. r.voters[b].proxied = t.voters[b].proxied
      BY <1>1, <2>1
    <3>2. HandOff(t, b) = 0
      BY <1>2, <1>9, <2>1 DEF Tallied
    <3>3. QED
      BY <1>1, <1>5, <3>1, <3>2 DEF HandOff
  <2>2. CASE t.voters[b] = NoRow
    <3>1. b = a
      BY <1>1, <1>9, <2>2
    <3>2. r.voters[b].proxied = 0 /\ t.withheld.proxied[b] = 0 /\ Handed(t, b) = 0
      BY <1>1, <1>2, <1>8, <1>9, <2>2, <3>1 DEF Tallied
    <3>3. QED
      BY <1>1, <1>5, <3>2 DEF HandOff
  <2>3. QED
    BY <2>1, <2>2
<1>10. ~r.below => \A b \in Accounts : r.voters[b] = NoRow => r.withheld.proxied[b] = 0
  BY <1>1, <1>2 DEF Tallied
<1>11. ~r.below => \A x \in Accounts : r.voters[x] # NoRow => r.voters[x].last >= 0
  BY <1>1, <1>2 DEF Tallied
<1>12. Tallied(r)
  BY <1>1, <1>2, <1>7, <1>9, <1>10, <1>11 DEF Tallied
<1>13. VotedFor(r) /\ OneWay(r)
  <2>1. \A x \in Accounts : r.voters[x] # NoRow /\ r.voters[x].producers # {} =>
            t.voters[x] # NoRow /\ r.voters[x].producers = t.voters[x].producers
    BY <1>1
  <2>2. \A x \in Accounts : r.voters[x] # NoRow /\ r.voters[x].proxy # None =>
            /\ t.voters[x] # NoRow /\ r.voters[x].producers = t.voters[x].producers
            /\ r.voters[x].proxy = t.voters[x].proxy
    BY <1>1
  <2>3. OneWay(r)
    BY <1>2, <2>2 DEF OneWay
  <2>4. VotedFor(r)
    BY <1>1, <1>2, <2>1 DEF VotedFor
  <2>5. QED
    BY <2>3, <2>4
<1>14. QED
  BY <1>12, <1>13 DEF TallyInv

LEMMA RegProducerTally ==
  ASSUME VotingInv, TallyInv(VotingTables), NEW p \in Candidates, RegProducer(p)
  PROVE  TallyInv(VotingTables)'
<1> DEFINE t == VotingTables
           rows == producers'
           r == [t EXCEPT !.producers = rows]
<1>1. /\ TablesInv(t) /\ t.voters = voters /\ t.producers = producers
      /\ t.gstate = gstate /\ t.withheld = withheld /\ t.below = below /\ ~t.failed
  BY InvOfTables DEF VotingTables
<1>2. VotingInv'
  BY RegProducerKeeps
<1>3. rows \in ProducerTable
  BY <1>2 DEF VotingInv, VotingTypeOK, ProducerTable
<1>4. producers \in ProducerTable
  BY <1>1, TablesHave DEF TablesInv
<1>5. /\ \A q \in Candidates : producers[q] # NoRow =>
            rows[q] # NoRow /\ rows[q].votes = producers[q].votes
      /\ \A q \in Candidates : producers[q] = NoRow /\ rows[q] # NoRow => rows[q].votes = 0
  <2> DEFINE new == [votes |-> 0, active |-> TRUE, claimed |-> now,
                     vshare |-> 0, vat |-> now, wshare |-> 0, wat |-> now]
  <2>1. CASE producers[p] = NoRow
    <3>1. rows = [producers EXCEPT ![p] = new] /\ new.votes = 0
      BY <2>1 DEF RegProducer
    <3> HIDE DEF new, rows
    <3>2. QED
      BY <1>4, <2>1, <3>1 DEF ProducerTable
  <2>2. CASE producers[p] # NoRow
    <3> DEFINE m == [producers[p] EXCEPT !.active = TRUE]
    <3>1. rows = [producers EXCEPT ![p] = m]
      BY <2>2 DEF RegProducer
    <3>2. m # NoRow /\ m.votes = producers[p].votes
      <4>1. producers[p] \in ProducerRow /\ Dated(producers[p])
        BY <1>1, <2>2, TablesHave DEF TablesInv, TimesOK
      <4>2. QED
        BY <4>1, EndedRow
    <3> HIDE DEF m, rows
    <3>3. QED
      BY <1>4, <2>2, <3>1, <3>2 DEF ProducerTable
  <2>3. QED
    BY <2>1, <2>2
<1>6. /\ r \in Tables /\ r.producers = rows
      /\ r.voters = t.voters /\ r.gstate = t.gstate /\ r.withheld = t.withheld
      /\ r.below = t.below /\ r.failed = t.failed
  BY <1>1, <1>3 DEF TablesInv, Tables
<1>7. UNCHANGED <<voters, gstate, now, withheld, below, gone>>
  BY DEF RegProducer
<1> HIDE DEF r, rows
<1>8. TallyInv(r)
  <2> HIDE DEF t
  <2>1. t \in Tables /\ TallyInv(t) /\ ~t.failed
    BY <1>1 DEF TablesInv, t
  <2>2. QED
    BY <1>1, <1>5, <1>6, <2>1, ProducersTally
<1> HIDE DEF t
<1>9. QED
  BY <1>1, <1>6, <1>7, <1>8, TallyTaken DEF rows

\* The term of a producer ends, and what it was voted stays.
LEMMA EndedTally ==
  ASSUME NEW t, TablesInv(t), ~t.failed, TallyInv(t), NEW p \in Candidates, t.producers[p] # NoRow
  PROVE  LET r == [t EXCEPT !.producers = [t.producers EXCEPT ![p].active = FALSE]]
         IN  /\ r \in Tables /\ TallyInv(r) /\ ~r.failed
             /\ r.producers = [t.producers EXCEPT ![p].active = FALSE]
             /\ r.voters = t.voters /\ r.gstate = t.gstate /\ r.withheld = t.withheld
             /\ r.below = t.below
<1> DEFINE m == [t.producers[p] EXCEPT !.active = FALSE]
           rows == [t.producers EXCEPT ![p] = m]
           r == [t EXCEPT !.producers = rows]
<1>1. t \in Tables /\ t.producers \in ProducerTable /\ t.producers[p] \in ProducerRow
  BY TablesHave DEF TablesInv
<1>2. m \in ProducerRow /\ m # NoRow /\ m.votes = t.producers[p].votes
  <2>1. Dated(t.producers[p])
    BY DEF TablesInv, TimesOK
  <2>2. QED
    BY <1>1, <2>1, EndedRow
<1>3. [t.producers EXCEPT ![p].active = FALSE] = rows
  BY <1>1 DEF ProducerTable
<1> HIDE DEF m
<1>4. /\ rows \in ProducerTable
      /\ \A q \in Candidates : t.producers[q] # NoRow =>
            rows[q] # NoRow /\ rows[q].votes = t.producers[q].votes
      /\ \A q \in Candidates : t.producers[q] = NoRow => rows[q] = NoRow
  BY <1>1, <1>2 DEF ProducerTable
<1> HIDE DEF rows
<1>5. /\ r \in Tables /\ r.producers = rows
      /\ r.voters = t.voters /\ r.gstate = t.gstate /\ r.withheld = t.withheld
      /\ r.below = t.below /\ r.failed = t.failed
  BY <1>1, <1>4 DEF Tables
<1> HIDE DEF r
<1>6. TallyInv(r)
  BY <1>1, <1>4, <1>5, ProducersTally
<1>7. QED
  BY <1>3, <1>5, <1>6 DEF r

LEMMA DeactivateTally ==
  ASSUME VotingInv, TallyInv(VotingTables), NEW p \in Candidates, Deactivate(p)
  PROVE  TallyInv(VotingTables)'
<1> DEFINE t == VotingTables
           r == [t EXCEPT !.producers = [t.producers EXCEPT ![p].active = FALSE]]
<1>1. /\ TablesInv(t) /\ t.voters = voters /\ t.producers = producers
      /\ t.gstate = gstate /\ t.withheld = withheld /\ t.below = below /\ ~t.failed
  BY InvOfTables DEF VotingTables
<1>2. /\ producers[p] # NoRow /\ producers' = [producers EXCEPT ![p].active = FALSE]
      /\ UNCHANGED <<voters, gstate, now, withheld, below>>
  BY DEF Deactivate
<1>3. TallyInv(t)
  OBVIOUS
<1> HIDE DEF t
<1>4. /\ r \in Tables /\ TallyInv(r) /\ ~r.failed
      /\ r.producers = [t.producers EXCEPT ![p].active = FALSE]
      /\ r.voters = t.voters /\ r.gstate = t.gstate /\ r.withheld = t.withheld /\ r.below = t.below
  BY <1>1, <1>2, <1>3, EndedTally
<1> HIDE DEF r
<1>5. QED
  BY <1>1, <1>2, <1>4, TallyTaken

LEMMA RegNewProxyTally ==
  ASSUME VotingInv, TallyInv(VotingTables), NEW a \in Accounts, NEW isproxy \in BOOLEAN,
         RegNewProxy(a, isproxy)
  PROVE  TallyInv(VotingTables)'
<1> DEFINE t   == VotingTables
           new == [NewVoter(0) EXCEPT !.is_proxy = isproxy]
           r   == [t EXCEPT !.voters = [t.voters EXCEPT ![a] = new]]
<1>1. /\ t \in Tables /\ ProxiesEndOf(t) /\ t.voters = voters /\ t.producers = producers
      /\ t.gstate = gstate /\ t.withheld = withheld /\ t.below = below /\ ~t.failed
  BY InvOfTables DEF TablesInv, VotingTables
<1>2. new \in VoterRow /\ new.proxy = None /\ new.producers = {} /\ new.last = 0 /\ new.proxied = 0
  <2> DEFINE row == NewVoter(0)
  <2>1. row \in VoterRow /\ row.proxy = None /\ row.producers = {} /\ row.last = 0 /\ row.proxied = 0
    BY NewVoterType
  <2> HIDE DEF row
  <2>2. /\ [row EXCEPT !.is_proxy = isproxy] \in VoterRow
        /\ [row EXCEPT !.is_proxy = isproxy].proxy = None
        /\ [row EXCEPT !.is_proxy = isproxy].producers = {}
        /\ [row EXCEPT !.is_proxy = isproxy].last = 0
        /\ [row EXCEPT !.is_proxy = isproxy].proxied = 0
    BY <2>1 DEF VoterRow
  <2>3. QED
    BY <2>2 DEF row
<1>3. t.voters[a] = NoRow /\ voters' = [voters EXCEPT ![a] = new]
      /\ UNCHANGED <<producers, gstate, now, withheld, below, gone>>
  BY <1>1 DEF RegNewProxy
<1>4. TallyInv(t)
  OBVIOUS
<1> HIDE DEF new, t
<1>5. OneRow(t, r, a, new) /\ r.below = t.below
  BY <1>1, <1>2, PutRow
<1>6. r.voters = voters'
  BY <1>1, <1>3 DEF Tables
<1> HIDE DEF r
<1>7. TallyInv(r)
  BY <1>1, <1>2, <1>3, <1>4, <1>5, RowTally
<1>8. QED
  BY <1>1, <1>3, <1>5, <1>6, <1>7, TallyTaken DEF OneRow

LEMMA RegProxyTally ==
  ASSUME VotingInv, TallyInv(VotingTables), NEW a \in Accounts, NEW isproxy \in BOOLEAN,
         RegProxy(a, isproxy)
  PROVE  TallyInv(VotingTables)'
<1> DEFINE t      == VotingTables
           row    == voters[a]
           new    == [row EXCEPT !.is_proxy = isproxy]
           marked == [t EXCEPT !.voters = [t.voters EXCEPT ![a] = new]]
           passed == Propagate(marked, a)
           r      == UpdateWitnesses(t, passed)
<1>1. /\ TablesInv(t) /\ t \in Tables /\ ProxiesEndOf(t) /\ TallyInv(t) /\ now \in Nat
      /\ t.voters = voters /\ t.producers = producers /\ ~t.failed
  BY InvOfTables DEF TablesInv, VotingTables
<1>2. row # NoRow /\ row \in VoterRow
  BY <1>1, TablesHave DEF RegProxy
<1>3. row.proxy = None
  <2>1. CASE isproxy
    BY <2>1 DEF RegProxy
  <2>2. CASE ~isproxy
    <3>1. row.is_proxy
      BY <1>2, <2>2, RowType DEF RegProxy
    <3>2. a \notin Users(t)
      BY <1>1, <3>1 DEF ProxiesEndOf
    <3>3. QED
      BY <1>1, <1>2, <3>2 DEF Users
  <2>3. QED
    BY <2>1, <2>2
<1>4. CommitVotes(r)
  <2>1. marked = [t EXCEPT !.voters = [t.voters EXCEPT ![a].is_proxy = isproxy]]
    BY <1>1 DEF Tables, VoterTable
  <2> HIDE DEF marked
  <2>2. QED
    BY <2>1 DEF RegProxy
<1>5. /\ new \in VoterRow /\ new.proxy = None /\ new # NoRow
      /\ new.last = row.last /\ new.proxied = row.proxied /\ new.producers = row.producers
  <2>1. /\ new \in VoterRow /\ new.proxy = None
        /\ new.last = row.last /\ new.proxied = row.proxied /\ new.producers = row.producers
    BY <1>2, <1>3 DEF VoterRow
  <2>2. QED
    BY <2>1, RowType
<1> HIDE DEF new
<1>6. OneRow(t, marked, a, new) /\ marked.below = t.below /\ TimesOK(marked)
  <2> HIDE DEF t
  <2>1. QED
    BY <1>1, <1>2, <1>3, <1>5, OtherRow
<1> HIDE DEF marked, t
<1>7. /\ marked \in Tables /\ marked.voters[a] = new /\ marked.producers = t.producers
      /\ ~marked.failed
  BY <1>1, <1>6 DEF OneRow
<1>8. TallyInv(marked)
  BY <1>1, <1>2, <1>3, <1>5, <1>6, RowTally
<1>9. Alike(marked, passed) /\ Shift(marked, passed, Nothing)
  <2>1. LET b == marked.voters[a].proxy IN b # None => b # a /\ marked.voters[b] # NoRow
    BY <1>5, <1>7
  <2>2. LET s == Propagate(marked, a)
        IN  /\ Alike(marked, s)
            /\ s.voters[a].last = VoteWeight(s.voters[a])
            /\ \A x \in Accounts \ {a} : Follows(marked, x) => Follows(s, x)
    BY <1>1, <1>5, <1>6, <1>7, <2>1, PropagateFacts
  <2>3. LET b == marked.voters[a].proxy
        IN  b # None => /\ b # a /\ marked.voters[b] # NoRow
                        /\ marked.voters[b].proxy # None => ~marked.voters[b].is_proxy /\ Follows(marked, b)
    BY <1>5, <1>7
  <2>4. LET s == Propagate(marked, a)
        IN  /\ Shift(marked, s, Nothing)
            /\ \A x \in Accounts \ {a, marked.voters[a].proxy} : s.voters[x] = marked.voters[x]
    BY <1>1, <1>5, <1>6, <1>7, <1>8, <2>3, PropagateShift DEF TallyInv
  <2>5. QED
    BY <2>2, <2>4
<1> HIDE DEF passed
<1>10. passed \in Tables /\ TimesOK(passed)
       /\ \A p \in Candidates : t.producers[p] = NoRow <=> passed.producers[p] = NoRow
  BY <1>7, <1>9 DEF Alike
<1>11. Alike(passed, r) /\ Shift(passed, r, Nothing) /\ r \in Tables /\ r.failed = passed.failed
  <2>1. LET s == UpdateWitnesses(t, passed)
        IN  /\ Alike(passed, s) /\ s.voters = passed.voters
            /\ s.withheld = passed.withheld /\ s.below = passed.below /\ s.failed = passed.failed
            /\ s.gstate.weight = passed.gstate.weight
            /\ \A p \in Candidates : passed.producers[p] # NoRow =>
                  s.producers[p].votes = passed.producers[p].votes
    BY <1>1, <1>10, UpdateWitnessesFacts
  <2>2. /\ Alike(passed, r) /\ r.voters = passed.voters
        /\ r.withheld = passed.withheld /\ r.below = passed.below /\ r.failed = passed.failed
        /\ r.gstate.weight = passed.gstate.weight
        /\ \A p \in Candidates : passed.producers[p] # NoRow =>
              r.producers[p].votes = passed.producers[p].votes
    BY <2>1
  <2> HIDE DEF r
  <2>3. r \in Tables
    BY <2>2 DEF Alike
  <2>4. Shift(passed, r, Nothing)
    BY <1>10, <2>2, <2>3, ShiftSame
  <2>5. QED
    BY <2>2, <2>3, <2>4
<1> HIDE DEF r
<1>12. ~r.failed
  BY <1>4 DEF CommitVotes
<1>13. TallyInv(passed)
  BY <1>7, <1>8, <1>9, <1>11, <1>12, ShiftTally
<1>14. TallyInv(r)
  BY <1>10, <1>11, <1>12, <1>13, ShiftTally
<1>15. QED
  BY <1>4, <1>11, <1>12, <1>14, TallyTaken DEF CommitVotes

\* What is unpaid counts in no tally.
LEMMA CountUnpaidTally ==
  ASSUME NEW t, TablesInv(t), ~t.failed, TallyInv(t), NEW a \in Accounts, t.voters[a] # NoRow
  PROVE  TallyInv(CountUnpaid(t, a))
<1> DEFINE row   == t.voters[a]
           power == VotePower(row)
           n     == row.unpaid + power
           m     == t.gstate.unpaid + power
           new   == [row EXCEPT !.unpaid = n]
           g     == [t.gstate EXCEPT !.unpaid = m]
           put   == [t EXCEPT !.voters = [t.voters EXCEPT ![a] = new]]
           r     == [put EXCEPT !.gstate = g]
<1>1. /\ t \in Tables /\ row \in VoterRow /\ t.gstate \in GState /\ t.voters \in VoterTable
      /\ row.unpaid \in Nat /\ t.gstate.unpaid \in Nat /\ power \in Nat /\ ProxiesEndOf(t)
  BY TablesHave, RowType, PowerType DEF TablesInv, GState
<1>2. CountUnpaid(t, a) = r
  BY <1>1 DEF CountUnpaid, VoterTable, Tables
<1>3. n \in Nat /\ m \in Nat
  BY <1>1
<1> HIDE DEF n, m, power, row
<1>4. /\ new \in VoterRow /\ new.proxy = row.proxy /\ new.proxied = row.proxied
      /\ new.last = row.last /\ new.producers = row.producers
  BY <1>1, <1>3 DEF VoterRow
<1>5. g \in GState /\ g.weight = t.gstate.weight
  BY <1>1, <1>3 DEF GState
<1> HIDE DEF new, g
<1>6. OneRow(t, put, a, new) /\ put.below = t.below
  BY <1>1, <1>4, PutRow
<1> HIDE DEF put
<1>7. TallyInv(put) /\ ~put.failed
  <2>1. TallyInv(put)
    BY <1>1, <1>4, <1>6, RowTally DEF row
  <2>2. QED
    BY <1>6, <2>1 DEF OneRow
<1>8. /\ put \in Tables /\ r \in Tables
      /\ r.voters = put.voters /\ r.producers = put.producers /\ r.gstate = g
      /\ r.withheld = put.withheld /\ r.below = put.below /\ r.failed = put.failed
      /\ put.gstate = t.gstate
  BY <1>5, <1>6 DEF OneRow, Tables
<1> HIDE DEF r
<1>9. TallyInv(r)
  <2>1. /\ \A p \in Candidates : VoteOff(r, p) = VoteOff(put, p)
        /\ \A b \in Accounts : HandOff(r, b) = HandOff(put, b)
        /\ WeightOff(r) = WeightOff(put)
    BY <1>5, <1>8 DEF VoteOff, Cast, CastBy, HandOff, Handed, HandedBy, WeightOff, Weighed
  <2>2. Tallied(put) /\ VotedFor(put) /\ OneWay(put)
    BY <1>7 DEF TallyInv
  <2>3. Tallied(r)
    BY <1>8, <2>1, <2>2 DEF Tallied
  <2>4. VotedFor(r) /\ OneWay(r)
    BY <1>8, <2>2 DEF VotedFor, OneWay
  <2>5. QED
    BY <2>3, <2>4 DEF TallyInv
<1>10. QED
  BY <1>2, <1>9

LEMMA VoteProducerTally ==
  ASSUME VotingInv, TallyInv(VotingTables), NEW a \in Accounts, NEW proxy \in Accounts \cup {None},
         NEW ps \in SUBSET Candidates, VoteProducer(a, proxy, ps)
  PROVE  TallyInv(VotingTables)'
<1> DEFINE t == VotingTables
           u == UpdateVotes(t, a, proxy, ps)
           r == CountUnpaid(u, a)
<1>1. TablesInv(t) /\ now \in Nat /\ ~t.failed /\ TallyInv(t)
  BY InvOfTables DEF VotingTables
<1>2. CanUpdateVotes(t, a, proxy, ps, TRUE) /\ CommitVotes(r)
  BY DEF VoteProducer
<1> HIDE DEF t
<1>3. /\ t.voters[a] # NoRow
      /\ proxy # None => /\ ps = {} /\ proxy # a /\ t.voters[proxy] # NoRow
                         /\ t.voters[proxy].is_proxy /\ ~t.voters[a].is_proxy
      /\ \A p \in NewlyCast(t.voters[a], ps) : t.producers[p] # NoRow
  BY <1>2 DEF CanUpdateVotes
<1>4. ProxiesThere(t) /\ t \in Tables /\ TimesOK(t) /\ ProxiesEndOf(t) /\ \A x \in Accounts : Follows(t, x)
  BY <1>1, EndIsThere DEF TablesInv
<1>5. Recast(t, u, a, proxy, ps)
  BY <1>1, <1>3, <1>4, UpdateVotesFacts
<1>6. proxy # None => t.voters[proxy].proxy # a
  <2>1. proxy # None => proxy \notin Users(t)
    BY <1>3, <1>4 DEF ProxiesEndOf
  <2>2. proxy # None => t.voters[proxy].proxy = None
    BY <1>3, <2>1 DEF Users
  <2>3. QED
    BY <2>2, AccountsAssumption
<1>7. ~u.failed => TallyInv(u)
  <2>1. LET s == UpdateVotes(t, a, proxy, ps) IN ~s.failed => TallyInv(s)
    BY <1>1, <1>3, <1>4, <1>6, UpdateVotesTally
  <2>2. QED
    BY <2>1
<1> HIDE DEF u
<1>8. TablesInv(u) /\ u.voters[a] # NoRow
  <2>1. ProxiesEndOf(u)
    BY <1>3, <1>4, <1>5, RecastEnds
  <2>2. \A x \in Accounts : Follows(u, x)
    BY <1>4, <1>5 DEF Recast, Follows
  <2>3. QED
    BY <1>5, <2>1, <2>2, RowType DEF TablesInv, Recast
<1>9. r \in Tables
  BY <1>8, CountUnpaidFacts DEF TablesInv
<1>10. r.failed = u.failed
  BY <1>8 DEF CountUnpaid, TablesInv, Tables
<1>11. ~r.failed
  BY <1>2 DEF CommitVotes
<1>12. TallyInv(r)
  BY <1>7, <1>8, <1>10, <1>11, CountUnpaidTally
<1> HIDE DEF r
<1>13. QED
  BY <1>2, <1>9, <1>11, <1>12, TallyTaken DEF CommitVotes

LEMMA UpdateVotingPowerTally ==
  ASSUME NEW t, TablesInv(t), ~t.failed, TallyInv(t), now \in Nat,
         NEW a \in Accounts, NEW stake \in Nat, UpdateVotingPower(t, a, stake)
  PROVE  TallyInv(VotingTables)'
<1> DEFINE old   == IF t.voters[a] = NoRow THEN NewVoter(0) ELSE t.voters[a]
           row   == [old EXCEPT !.staked = stake]
           grown == [t EXCEPT !.voters = [t.voters EXCEPT ![a] = row]]
           votes == row.producers # {} \/ row.proxy # None
           r     == IF votes THEN UpdateVotes(grown, a, row.proxy, row.producers) ELSE grown
<1>1. /\ votes => CanUpdateVotes(grown, a, row.proxy, row.producers, FALSE)
      /\ CommitVotes(r)
  BY DEF UpdateVotingPower
<1>2. /\ old \in VoterRow
      /\ t.voters[a] = NoRow =>
            old.proxy = None /\ old.producers = {} /\ old.last = 0 /\ old.proxied = 0
  BY TablesHave, NewVoterType DEF TablesInv
<1>3. t.voters[a] # NoRow => old = t.voters[a]
  OBVIOUS
<1> HIDE DEF old
<1>4. /\ row \in VoterRow /\ row.proxy = old.proxy /\ row.is_proxy = old.is_proxy
      /\ row.producers = old.producers /\ row.last = old.last /\ row.proxied = old.proxied
  BY <1>2 DEF VoterRow
<1>5. row.proxy \in Accounts \cup {None} /\ row.producers \in SUBSET Candidates /\ row # NoRow
  BY <1>4, RowType
<1> HIDE DEF row
<1>6. /\ OneRow(t, grown, a, row) /\ TimesOK(grown) /\ ProxiesEndOf(grown)
      /\ \A x \in Accounts \ {a} : Follows(grown, x)
      /\ grown.below = t.below
  BY <1>2, <1>3, <1>4, OtherRow
<1> HIDE DEF grown
<1>7. grown \in Tables /\ grown.voters[a] = row /\ ~grown.failed
  BY <1>6 DEF OneRow
<1>8. TallyInv(grown)
  <2>1. ProxiesEndOf(t) /\ t \in Tables
    BY DEF TablesInv
  <2>2. QED
    BY <1>2, <1>3, <1>4, <1>6, <2>1, RowTally
<1>9. ~r.failed
  BY <1>1 DEF CommitVotes
<1>10. r \in Tables /\ TallyInv(r)
  <2>1. CASE votes
    <3> DEFINE u == UpdateVotes(grown, a, row.proxy, row.producers)
    <3>1. /\ row.proxy # None => row.producers = {} /\ row.proxy # a /\ grown.voters[row.proxy] # NoRow
          /\ \A p \in NewlyCast(grown.voters[a], row.producers) : grown.producers[p] # NoRow
      BY <1>1, <2>1 DEF CanUpdateVotes
    <3>2. row.proxy # None => grown.voters[row.proxy].proxy # a
      <4>1. LET b == grown.voters[a].proxy
            IN  b # None => b # a /\ grown.voters[b] # NoRow /\ grown.voters[b].proxy # a
        BY <1>5, <1>6, <1>7, NoTwoCycle
      <4>2. QED
        BY <1>7, <4>1
    <3>3. u \in Tables
      <4>1. ProxiesThere(grown)
        BY <1>6, <1>7, EndIsThere
      <4>2. Recast(grown, u, a, row.proxy, row.producers)
        BY <1>5, <1>6, <1>7, <3>1, <4>1, UpdateVotesFacts
      <4>3. QED
        BY <4>2 DEF Recast
    <3>4. LET s == UpdateVotes(grown, a, row.proxy, row.producers)
          IN  ~s.failed => TallyInv(s)
      BY <1>5, <1>6, <1>7, <1>8, <3>1, <3>2, UpdateVotesTally
    <3>5. ~u.failed => TallyInv(u)
      BY <3>4
    <3> HIDE DEF u
    <3>6. r = u
      BY <2>1 DEF u
    <3>7. QED
      BY <1>9, <3>3, <3>5, <3>6
  <2>2. CASE ~votes
    BY <1>7, <1>8, <2>2
  <2>3. QED
    BY <2>1, <2>2
<1> HIDE DEF r
<1>11. QED
  BY <1>1, <1>9, <1>10, TallyTaken DEF CommitVotes

LEMMA DelegateTally ==
  ASSUME VotingInv, TallyInv(VotingTables), NEW a \in Accounts, NEW stake \in Stakes[a],
         Delegate(a, stake)
  PROVE  TallyInv(VotingTables)'
<1>1. TablesInv(VotingTables) /\ now \in Nat /\ ~VotingTables.failed
  BY InvOfTables DEF VotingTables
<1>2. UpdateVotingPower(VotingTables, a, stake)
  BY DEF Delegate
<1>3. stake \in Nat
  BY VotingBoundsAssumption
<1>4. QED
  BY <1>1, <1>2, <1>3, UpdateVotingPowerTally

LEMMA UndelegateTally ==
  ASSUME VotingInv, TallyInv(VotingTables), NEW a \in Accounts, NEW stake \in Stakes[a],
         Undelegate(a, stake)
  PROVE  TallyInv(VotingTables)'
<1> DEFINE t     == VotingTables
           big   == voters[a].staked > FreeStake
           rows  == [t.producers EXCEPT ![a].active = FALSE]
           ended == [t EXCEPT !.producers = rows]
           from  == IF big THEN ended ELSE t
<1>1. TablesInv(t) /\ now \in Nat /\ t.producers = producers /\ ~t.failed /\ TallyInv(t)
  BY InvOfTables DEF VotingTables
<1>2. /\ UpdateVotingPower(from, a, stake)
      /\ big => a \in Candidates /\ producers[a] # NoRow
  BY DEF Undelegate
<1>3. stake \in Nat
  BY VotingBoundsAssumption
<1>4. TablesInv(from) /\ ~from.failed /\ TallyInv(from)
  <2>1. CASE big
    <3>1. /\ t.producers \in ProducerTable /\ a \in Candidates /\ t.producers[a] # NoRow
          /\ \A q \in Candidates : t.producers[q] # NoRow => Dated(t.producers[q])
      BY <1>1, <1>2, <2>1, TablesHave DEF TablesInv, TimesOK
    <3> HIDE DEF t, big
    <3>2. /\ rows \in ProducerTable
          /\ \A q \in Candidates : rows[q] # NoRow => Dated(rows[q])
      BY <3>1, EndedTable
    <3>3. TallyInv(ended) /\ ~ended.failed
      <4>1. LET r == [t EXCEPT !.producers = [t.producers EXCEPT ![a].active = FALSE]]
            IN  /\ r \in Tables /\ TallyInv(r) /\ ~r.failed
                /\ r.producers = [t.producers EXCEPT ![a].active = FALSE]
                /\ r.voters = t.voters /\ r.gstate = t.gstate /\ r.withheld = t.withheld
                /\ r.below = t.below
        BY <1>1, <3>1, EndedTally
      <4>2. QED
        BY <4>1
    <3> HIDE DEF rows
    <3>4. TablesInv(ended)
      BY <1>1, <3>2, OtherProducers
    <3> HIDE DEF ended
    <3>5. QED
      BY <2>1, <3>3, <3>4
  <2>2. CASE ~big
    BY <1>1, <2>2
  <2>3. QED
    BY <2>1, <2>2
<1> HIDE DEF from, t
<1>5. QED
  BY <1>1, <1>2, <1>3, <1>4, UpdateVotingPowerTally

\* Nothing is cast, handed over or withheld at first.
LEMMA InitTally ==
  ASSUME VotingInit
  PROVE  TallyInv(VotingTables)
<1> DEFINE t == VotingTables
<1>1. VotingInv
  BY InitKeeps
<1>2. t \in Tables
  BY <1>1, InvOfTables DEF TablesInv
<1>3. /\ t.producers = [p \in Candidates |-> NoRow] /\ t.gstate.weight = 0
      /\ t.withheld.votes = [p \in Candidates |-> 0]
      /\ t.withheld.proxied = [a \in Accounts |-> 0]
      /\ t.voters = [a \in Accounts |-> IF InitStake[a] = NoRow THEN NoRow ELSE NewVoter(InitStake[a])]
  BY DEF VotingInit, VotingTables
<1> HIDE DEF t
<1>4. ASSUME NEW x \in Accounts, t.voters[x] # NoRow
      PROVE  /\ t.voters[x].last = 0 /\ t.voters[x].proxied = 0
             /\ t.voters[x].producers = {} /\ t.voters[x].proxy = None
  <2>1. InitStake[x] \in Nat /\ t.voters[x] = NewVoter(InitStake[x])
    BY <1>3, <1>4, VotingRowsAssumption
  <2>2. QED
    BY <2>1, NewVoterType
<1>5. IsFiniteSet(Accounts) /\ IsFiniteSet(Candidates)
  BY AccountsAssumption, FS_Subset
<1>6. \A p \in Candidates : Cast(t, p) = 0
  <2>1. ASSUME NEW p \in Candidates PROVE Cast(t, p) = 0
    <3>1. \A x \in Accounts : CastBy(t, p)[x] = 0
      BY <1>4 DEF CastBy
    <3>2. \A x \in Accounts : CastBy(t, p)[x] \in Nat
      BY <3>1
    <3>3. QED
      BY <1>5, <3>1, <3>2, SumOverNat DEF Cast
  <2>2. QED
    BY <2>1
<1>7. \A b \in Accounts : Handed(t, b) = 0
  <2>1. ASSUME NEW b \in Accounts PROVE Handed(t, b) = 0
    <3>1. \A x \in Accounts : HandedBy(t, b)[x] = 0
      BY <1>4 DEF HandedBy
    <3>2. \A x \in Accounts : HandedBy(t, b)[x] \in Nat
      BY <3>1
    <3>3. QED
      BY <1>5, <3>1, <3>2, SumOverNat DEF Handed
  <2>2. QED
    BY <2>1
<1>8. SumOver(Weighed(t), Candidates) = 0
  <2>1. \A p \in Candidates : Weighed(t)[p] = 0
    BY <1>3, <1>6 DEF Weighed
  <2>2. \A p \in Candidates : Weighed(t)[p] \in Nat
    BY <2>1
  <2>3. QED
    BY <1>5, <2>1, <2>2, SumOverNat
<1>9. Tallied(t)
  <2>1. WeightOff(t) = 0
    BY <1>3, <1>8 DEF WeightOff
  <2>2. \A p \in Candidates : t.producers[p] = NoRow /\ t.withheld.votes[p] = 0
    BY <1>3
  <2>3. \A b \in Accounts : t.withheld.proxied[b] = 0
    BY <1>3
  <2>4. \A b \in Accounts : t.voters[b] # NoRow => HandOff(t, b) = 0 /\ t.voters[b].last >= 0
    BY <1>4, <1>7, <2>3 DEF HandOff
  <2>5. QED
    BY <2>1, <2>2, <2>3, <2>4 DEF Tallied
<1>10. VotedFor(t) /\ OneWay(t)
  BY <1>4 DEF VotedFor, OneWay
<1>11. QED
  BY <1>9, <1>10 DEF TallyInv, t

\* With VotingInv, the tallies are inductive.
LEMMA TallyStep ==
  ASSUME VotingInv, TallyInv(VotingTables), [VotingNext]_votingVars
  PROVE  TallyInv(VotingTables)'
<1>1. ASSUME NEW p \in Candidates, RegProducer(p) PROVE TallyInv(VotingTables)'
  BY <1>1, RegProducerTally
<1>2. ASSUME NEW p \in Candidates, Deactivate(p) PROVE TallyInv(VotingTables)'
  BY <1>2, DeactivateTally
<1>3. ASSUME NEW a \in Proxies, NEW isproxy \in BOOLEAN, RegProxy(a, isproxy)
      PROVE  TallyInv(VotingTables)'
  BY <1>3, RegProxyTally, AccountsAssumption
<1>4. ASSUME NEW a \in Proxies, NEW isproxy \in BOOLEAN, RegNewProxy(a, isproxy)
      PROVE  TallyInv(VotingTables)'
  BY <1>4, RegNewProxyTally, AccountsAssumption
<1>5. ASSUME NEW a \in Accounts, NEW proxy \in Accounts \cup {None}, NEW ps \in SUBSET Candidates,
             VoteProducer(a, proxy, ps)
      PROVE  TallyInv(VotingTables)'
  BY <1>5, VoteProducerTally
<1>6. ASSUME NEW a \in Accounts, NEW stake \in Stakes[a], Delegate(a, stake)
      PROVE  TallyInv(VotingTables)'
  BY <1>6, DelegateTally
<1>7. ASSUME NEW a \in Accounts, NEW stake \in Stakes[a], Undelegate(a, stake)
      PROVE  TallyInv(VotingTables)'
  BY <1>7, UndelegateTally
<1>8. ASSUME VotingTables' = VotingTables PROVE TallyInv(VotingTables)'
  BY <1>8
<1>9. CASE VotingTick
  BY <1>8, <1>9 DEF VotingTick, VotingTables
<1>10. CASE UNCHANGED votingVars
  BY <1>8, <1>10 DEF votingVars, VotingTables
<1>11. QED
  BY <1>1, <1>2, <1>3, <1>4, <1>5, <1>6, <1>7, <1>9, <1>10 DEF VotingNext
-----------------------------------------------------------------------------
(* Votepay shares                                                          *)

\* What the row of a producer adds to the rate and to the total of the votepay shares.
VoteOf(row) == IF row # NoRow /\ ~UpdatedAfter(row) THEN row.votes ELSE 0
PastOf(row) == IF row # NoRow /\ ~UpdatedAfter(row) THEN GrownVotepay(row, row.votes) ELSE 0
VotesOf(t) == [p \in Candidates |-> VoteOf(t.producers[p])]
PastsOf(t) == [p \in Candidates |-> PastOf(t.producers[p])]

\* What VotepaySharesAddUp says of the tables t, and what it takes to keep it.
\* A share that lapsed is nothing until the next claim.
Since(row) == /\ row.vat <= now /\ row.vshare >= 0
              /\ UpdatedAfter(row) => row.vshare = 0
VotepayTimes(t) ==
    /\ t.gstate.vat <= now
    /\ \A p \in Candidates : t.producers[p] # NoRow => Since(t.producers[p])
VotepayAdds(t) ==
    /\ \A p \in Candidates : t.producers[p] # NoRow => t.producers[p].votes >= 0
    /\ t.gstate.vrate = SumOver(VotesOf(t), Candidates)
    /\ t.gstate.vtotal + t.gstate.vrate * (now - t.gstate.vat) = SumOver(PastsOf(t), Candidates)
VotepayInv(t) == VotepayTimes(t) /\ (~t.below => VotepayAdds(t))

LEMMA ShareTypes ==
  ASSUME NEW row \in ProducerRow
  PROVE  /\ row.votes \in Int /\ row.claimed \in Nat /\ row.vshare \in Int /\ row.vat \in Nat
         /\ row.wshare \in Nat /\ row.wat \in Nat /\ row.active \in BOOLEAN /\ row # NoRow
  BY VotingRowsAssumption DEF ProducerRow

\* What rows add is nothing less than 0, and whole.
LEMMA PastTypes ==
  ASSUME NEW t \in Tables, now \in Nat, VotepayTimes(t)
  PROVE  /\ IsFiniteSet(Candidates)
         /\ \A p \in Candidates : VotesOf(t)[p] \in Int /\ PastsOf(t)[p] \in Nat
         /\ t.gstate.vrate \in Int /\ t.gstate.vtotal \in Int /\ t.gstate.vat \in Nat
         /\ now - t.gstate.vat \in Nat
<1>1. IsFiniteSet(Candidates)
  BY AccountsAssumption, FS_Subset
<1>2. ASSUME NEW p \in Candidates
      PROVE  VotesOf(t)[p] \in Int /\ PastsOf(t)[p] \in Nat
  <2>1. CASE t.producers[p] = NoRow
    BY <2>1 DEF VotesOf, PastsOf, VoteOf, PastOf
  <2>2. CASE t.producers[p] # NoRow
    <3> DEFINE row == t.producers[p]
    <3>1. row \in ProducerRow /\ Since(row)
      BY <2>2, TablesHave DEF VotepayTimes
    <3>2. VotesOf(t)[p] = VoteOf(row) /\ PastsOf(t)[p] = PastOf(row)
      BY DEF VotesOf, PastsOf
    <3> HIDE DEF row
    <3>3. row.votes \in Int /\ row.vshare \in Nat /\ now - row.vat \in Nat
      BY <3>1, ShareTypes DEF Since
    <3>4. row.votes > 0 => row.votes * (now - row.vat) \in Nat
      BY <3>3, TimesNat
    <3>5. GrownVotepay(row, row.votes) \in Nat
      BY <3>3, <3>4 DEF GrownVotepay
    <3>6. QED
      BY <3>2, <3>3, <3>5 DEF VoteOf, PastOf
  <2>3. QED
    BY <2>1, <2>2
<1>3. t.gstate \in GState /\ t.gstate.vat <= now
  BY TablesHave DEF VotepayTimes
<1>4. QED
  BY <1>1, <1>2, <1>3 DEF GState

\* The row of a producer whose votes change by d, as far as its votepay share goes: what it
\* held until now is added, or dropped where it did not claim in time, and it counts from now.
LEMMA RecountedShare ==
  ASSUME NEW row \in ProducerRow, NEW d \in Int, NEW new \in ProducerRow, now \in Nat,
         Since(row), row.votes + d >= 0,
         new.votes = row.votes + d, new.claimed = row.claimed, new.vat = now,
         new.vshare = IF Crossed(row) /\ ~UpdatedAfter(row) THEN 0
                      ELSE GrownVotepay(row, IF UpdatedAfter(row) THEN 0 ELSE row.votes)
  PROVE  /\ VoteOf(new) = VoteOf(row)
                + (CASE ~Crossed(row) -> d
                     [] Crossed(row) /\ ~UpdatedAfter(row) -> -row.votes
                     [] OTHER -> 0)
         /\ PastOf(row) = PastOf(new)
                + (IF Crossed(row) /\ ~UpdatedAfter(row)
                   THEN GrownVotepay(row, IF UpdatedAfter(row) THEN 0 ELSE row.votes) ELSE 0)
<1>1. /\ row.votes \in Int /\ row.claimed \in Nat /\ row.vshare \in Nat /\ row.vat \in Nat
      /\ row.vat <= now /\ row # NoRow /\ new # NoRow /\ PayWindow \in Nat
  BY ShareTypes, VotingBoundsAssumption DEF Since
<1>2. GrownVotepay(row, row.votes) \in Int
  BY <1>1, GrownType
<1>3. UpdatedAfter(row) => Crossed(row)
  BY <1>1 DEF UpdatedAfter, Crossed
<1>4. UpdatedAfter(new) <=> Crossed(row)
  BY DEF UpdatedAfter, Crossed
<1>5. GrownVotepay(new, new.votes) = new.vshare
  <2>1. new.votes * (now - new.vat) = 0
    BY <1>1
  <2>2. new.vshare \in Int
    BY ShareTypes
  <2>3. QED
    BY <2>1, <2>2 DEF GrownVotepay
<1>6. CASE ~Crossed(row)
  BY <1>1, <1>2, <1>3, <1>4, <1>5, <1>6 DEF VoteOf, PastOf
<1>7. CASE Crossed(row) /\ ~UpdatedAfter(row)
  BY <1>1, <1>2, <1>4, <1>7 DEF VoteOf, PastOf
<1>8. CASE UpdatedAfter(row)
  BY <1>1, <1>3, <1>4, <1>8 DEF VoteOf, PastOf
<1>9. QED
  BY <1>6, <1>7, <1>8

\* A total is not cut off where nothing goes below zero.
LEMMA FlooredAdds ==
  ASSUME NEW total \in Int, NEW change \in Int, total + change >= 0
  PROVE  Floored(total, change) = total + change
  BY DEF Floored

\* What Recount does to the rows and the totals of the shares.
SharesRecounted(t, P, delta, r) ==
    LET ps      == {p \in P : t.producers[p] # NoRow}
        Of(p)   == t.producers[p]
        Late(p) == Crossed(Of(p)) /\ ~UpdatedAfter(Of(p))
        Past(p) == GrownVotepay(Of(p), IF UpdatedAfter(Of(p)) THEN 0 ELSE Of(p).votes)
        Rate(p) == CASE ~Crossed(Of(p)) -> delta[p]
                     [] Late(p) -> -Of(p).votes
                     [] OTHER -> 0
        lapsed  == [p \in ps |-> IF Late(p) THEN Past(p) ELSE 0]
        rates   == [p \in ps |-> Rate(p)]
        change  == t.gstate.vrate * (now - t.gstate.vat) + -SumOver(lapsed, ps)
    IN  /\ \A p \in ps : /\ r.producers[p].vat = now
                         /\ r.producers[p].vshare = IF Late(p) THEN 0 ELSE Past(p)
        /\ r.gstate.vrate = Floored(t.gstate.vrate, SumOver(rates, ps))
        /\ r.gstate.vtotal = Floored(t.gstate.vtotal, change)
        /\ r.gstate.vat = now
        /\ r.gstate.wrate = t.gstate.wrate /\ r.gstate.wtotal = t.gstate.wtotal
        /\ r.gstate.wat = t.gstate.wat

LEMMA RecountShares ==
  ASSUME NEW t \in Tables, NEW P \in SUBSET Candidates, NEW delta \in [P -> Int],
         NEW floor \in BOOLEAN, now \in Nat, TimesOK(t)
  PROVE  SharesRecounted(t, P, delta, Recount(t, delta, floor))
<1> DEFINE Of(p)      == t.producers[p]
           Dropped(p) == Crossed(Of(p)) /\ ~UpdatedAfter(Of(p))
           Grown(p)   == GrownVotepay(Of(p), IF UpdatedAfter(Of(p)) THEN 0 ELSE Of(p).votes)
           Rate(p)    == CASE ~Crossed(Of(p)) -> delta[p]
                           [] Dropped(p) -> -Of(p).votes
                           [] OTHER -> 0
           Now(p)     == LET votes == Of(p).votes + delta[p]
                         IN  [Of(p) EXCEPT !.votes = IF floor /\ votes < 0 THEN 0 ELSE votes,
                                           !.vshare = IF Dropped(p) THEN 0 ELSE Grown(p),
                                           !.vat = now]
           ps         == {p \in DOMAIN delta : Of(p) # NoRow}
           lapsed     == [p \in ps |-> IF Dropped(p) THEN Grown(p) ELSE 0]
           rates      == [p \in ps |-> Rate(p)]
           rows       == [p \in Candidates |-> IF p \in ps THEN Now(p) ELSE Of(p)]
           weighed    == [t.gstate EXCEPT !.weight = t.gstate.weight + SumOver(delta, ps)]
           g          == UpdateTotalVotepay(weighed, -SumOver(lapsed, ps), SumOver(rates, ps))
           low        == t.below \/ \E p \in ps : Of(p).votes + delta[p] < 0
           refused    == t.failed \/ (~floor /\ ps # DOMAIN delta)
           r          == [t EXCEPT !.producers = rows, !.gstate = g, !.below = low, !.failed = refused]
<1>1. Recount(t, delta, floor) = r
  BY DEF Recount
<1>2. DOMAIN delta = P /\ t.gstate \in GState
  BY TablesHave
<1>3. ps = {p \in P : t.producers[p] # NoRow} /\ ps \subseteq Candidates
  BY <1>2
<1>4. r.producers = rows /\ r.gstate = g
  <2> HIDE DEF rows, g, low, refused
  <2>1. QED
    BY DEF Tables
<1>5. ASSUME NEW p \in ps
      PROVE  rows[p].vat = now /\ rows[p].vshare = IF Dropped(p) THEN 0 ELSE Grown(p)
  <2> DEFINE row == Of(p)
             v == IF floor /\ row.votes + delta[p] < 0 THEN 0 ELSE row.votes + delta[p]
             s == IF Dropped(p) THEN 0 ELSE Grown(p)
  <2>1. rows[p] = [row EXCEPT !.votes = v, !.vshare = s, !.vat = now]
    <3>1. Now(p) = [row EXCEPT !.votes = v, !.vshare = s, !.vat = now]
      OBVIOUS
    <3>2. p \in Candidates
      BY <1>3
    <3> HIDE DEF Now, ps, row, v, s
    <3>3. rows[p] = Now(p)
      BY <3>2
    <3>4. QED
      BY <3>1, <3>3
  <2>2. row \in ProducerRow
    BY <1>3, TablesHave
  <2> HIDE DEF row, v, s, rows
  <2>3. rows[p].vat = now /\ rows[p].vshare = s
    BY <2>1, <2>2 DEF ProducerRow
  <2>4. QED
    BY <2>3 DEF s
<1>6. /\ g.vrate = Floored(t.gstate.vrate, SumOver(rates, ps))
      /\ g.vtotal = Floored(t.gstate.vtotal, t.gstate.vrate * (now - t.gstate.vat) + -SumOver(lapsed, ps))
      /\ g.vat = now
      /\ g.wrate = t.gstate.wrate /\ g.wtotal = t.gstate.wtotal /\ g.wat = t.gstate.wat
  <2> DEFINE a == -SumOver(lapsed, ps)
             b == SumOver(rates, ps)
             n == t.gstate.weight + SumOver(delta, ps)
             h == [t.gstate EXCEPT !.weight = n]
             total == Floored(h.vtotal, h.vrate * (now - h.vat) + a)
             rate == Floored(h.vrate, b)
  <2>1. g = [h EXCEPT !.vtotal = total, !.vrate = rate, !.vat = now]
    BY DEF UpdateTotalVotepay
  <2> HIDE DEF a, b, n
  <2>2. /\ h.vrate = t.gstate.vrate /\ h.vtotal = t.gstate.vtotal /\ h.vat = t.gstate.vat
        /\ h.wrate = t.gstate.wrate /\ h.wtotal = t.gstate.wtotal /\ h.wat = t.gstate.wat
        /\ DOMAIN h = DOMAIN t.gstate
    BY <1>2 DEF GState
  <2> HIDE DEF h, total, rate, g
  <2>3. /\ g.vrate = rate /\ g.vtotal = total /\ g.vat = now
        /\ g.wrate = h.wrate /\ g.wtotal = h.wtotal /\ g.wat = h.wat
    BY <1>2, <2>1, <2>2 DEF GState
  <2>4. QED
    BY <2>2, <2>3 DEF total, rate, a, b
<1> HIDE DEF rows, g, r
<1>7. SharesRecounted(t, P, delta, r)
  BY <1>3, <1>4, <1>5, <1>6 DEF SharesRecounted
<1>8. QED
  BY <1>1, <1>7

\* Counting votes again keeps the totals of the votepay shares.
LEMMA RecountVotepay ==
  ASSUME NEW t \in Tables, NEW P \in SUBSET Candidates, NEW delta \in [P -> Int],
         NEW floor \in BOOLEAN, now \in Nat, TimesOK(t), VotepayInv(t)
  PROVE  VotepayInv(Recount(t, delta, floor))
<1> DEFINE r       == Recount(t, delta, floor)
           Of(p)   == t.producers[p]
           Late(p) == Crossed(Of(p)) /\ ~UpdatedAfter(Of(p))
           Past(p) == GrownVotepay(Of(p), IF UpdatedAfter(Of(p)) THEN 0 ELSE Of(p).votes)
           Rate(p) == CASE ~Crossed(Of(p)) -> delta[p]
                        [] Late(p) -> -Of(p).votes
                        [] OTHER -> 0
           ps      == {p \in P : t.producers[p] # NoRow}
           lapsed  == [p \in ps |-> IF Late(p) THEN Past(p) ELSE 0]
           rates   == [p \in ps |-> Rate(p)]
           grown   == t.gstate.vrate * (now - t.gstate.vat)
<1>1. RecountOf(t, P, delta, floor, r)
  BY RecountFacts
<1>2. SharesRecounted(t, P, delta, r)
  BY RecountShares
<1> HIDE DEF r
<1>3. /\ r \in Tables
      /\ \A p \in Candidates \ ps : r.producers[p] = t.producers[p]
      /\ \A p \in ps : Recounted(t.producers[p], delta[p], floor, r.producers[p])
      /\ ~r.below => ~t.below /\ \A p \in ps : t.producers[p].votes + delta[p] >= 0
  BY <1>1 DEF RecountOf
<1>4. /\ \A p \in ps : /\ r.producers[p].vat = now
                       /\ r.producers[p].vshare = IF Late(p) THEN 0 ELSE Past(p)
      /\ r.gstate.vrate = Floored(t.gstate.vrate, SumOver(rates, ps))
      /\ r.gstate.vtotal = Floored(t.gstate.vtotal, grown + -SumOver(lapsed, ps))
      /\ r.gstate.vat = now
  BY <1>2 DEF SharesRecounted
<1>5. ASSUME NEW p \in ps
      PROVE  /\ Of(p) \in ProducerRow /\ Since(Of(p)) /\ delta[p] \in Int
             /\ Past(p) \in Nat /\ Rate(p) \in Int /\ p \in Candidates
  <2>1. Of(p) \in ProducerRow /\ Since(Of(p)) /\ delta[p] \in Int /\ p \in Candidates
    BY TablesHave DEF VotepayInv, VotepayTimes
  <2> DEFINE row == Of(p)
             v == IF UpdatedAfter(row) THEN 0 ELSE row.votes
  <2>2. row.votes \in Int /\ row.vshare \in Nat /\ now - row.vat \in Nat
    BY <2>1, ShareTypes DEF Since
  <2>3. Past(p) \in Nat
    <3>1. Past(p) = GrownVotepay(row, v)
      OBVIOUS
    <3>2. v \in Int
      BY <2>2
    <3> HIDE DEF row, v
    <3>3. v > 0 => v * (now - row.vat) \in Nat
      BY <2>2, <3>2, TimesNat
    <3>4. GrownVotepay(row, v) \in Nat
      BY <2>2, <3>2, <3>3 DEF GrownVotepay
    <3>5. QED
      BY <3>1, <3>4
  <2>4. Rate(p) \in Int
    BY <2>1, <2>2
  <2>5. QED
    BY <2>1, <2>3, <2>4
<1>6. VotepayTimes(r)
  <2>1. ASSUME NEW p \in Candidates, r.producers[p] # NoRow PROVE Since(r.producers[p])
    <3>1. CASE p \in ps
      <4>1. Past(p) \in Nat
        BY <1>5, <3>1
      <4>2. r.producers[p].vat = now /\ r.producers[p].vshare >= 0
        BY <1>4, <3>1, <4>1
      <4>3. ASSUME UpdatedAfter(r.producers[p]) PROVE r.producers[p].vshare = 0
        <5> DEFINE row == Of(p)
                   new == r.producers[p]
        <5>1. /\ new.claimed = row.claimed /\ new.vat = now
              /\ new.vshare = IF Crossed(row) /\ ~UpdatedAfter(row) THEN 0
                              ELSE GrownVotepay(row, IF UpdatedAfter(row) THEN 0 ELSE row.votes)
          BY <1>3, <1>4, <3>1 DEF Recounted
        <5>2. Since(row) /\ row.vshare \in Int
          BY <1>5, <3>1, ShareTypes
        <5> HIDE DEF row
        <5>3. Crossed(row)
          BY <4>3, <5>1 DEF UpdatedAfter, Crossed
        <5>4. UpdatedAfter(row) => GrownVotepay(row, 0) = 0
          BY <5>2 DEF Since, GrownVotepay
        <5>5. QED
          BY <5>1, <5>3, <5>4
      <4>4. QED
        BY <4>2, <4>3 DEF Since
    <3>2. CASE p \notin ps
      BY <1>3, <2>1, <3>2 DEF VotepayInv, VotepayTimes
    <3>3. QED
      BY <3>1, <3>2
  <2>2. QED
    BY <1>4, <2>1 DEF VotepayTimes
<1>7. ASSUME ~r.below PROVE VotepayAdds(r)
  <2>1. VotepayAdds(t) /\ \A p \in ps : t.producers[p].votes + delta[p] >= 0
    BY <1>3, <1>7 DEF VotepayInv
  <2>2. ASSUME NEW p \in ps
        PROVE  /\ r.producers[p].votes = Of(p).votes + delta[p]
               /\ VotesOf(r)[p] = VotesOf(t)[p] + rates[p]
               /\ PastsOf(t)[p] = PastsOf(r)[p] + lapsed[p]
    <3> DEFINE row == Of(p)
               new == r.producers[p]
               d == delta[p]
    <3>1. row \in ProducerRow /\ Since(row) /\ d \in Int /\ p \in Candidates /\ row.votes \in Int
      BY <1>5, ShareTypes
    <3>2. Recounted(row, d, floor, new) /\ row.votes + d >= 0
      BY <1>3, <2>1
    <3>3. /\ new.vat = now
          /\ new.vshare = IF Crossed(row) /\ ~UpdatedAfter(row) THEN 0
                          ELSE GrownVotepay(row, IF UpdatedAfter(row) THEN 0 ELSE row.votes)
      BY <1>4
    <3>4. /\ VotesOf(r)[p] = VoteOf(new) /\ VotesOf(t)[p] = VoteOf(row)
          /\ PastsOf(r)[p] = PastOf(new) /\ PastsOf(t)[p] = PastOf(row)
      BY <3>1 DEF VotesOf, PastsOf
    <3>5. /\ rates[p] = CASE ~Crossed(row) -> d
                          [] Crossed(row) /\ ~UpdatedAfter(row) -> -row.votes
                          [] OTHER -> 0
          /\ lapsed[p] = IF Crossed(row) /\ ~UpdatedAfter(row)
                         THEN GrownVotepay(row, IF UpdatedAfter(row) THEN 0 ELSE row.votes) ELSE 0
      OBVIOUS
    <3> HIDE DEF row, new, d, rates, lapsed
    <3>6. new \in ProducerRow /\ new.votes = row.votes + d /\ new.claimed = row.claimed
      BY <3>1, <3>2 DEF Recounted
    <3>7. /\ VoteOf(new) = VoteOf(row)
                + (CASE ~Crossed(row) -> d
                     [] Crossed(row) /\ ~UpdatedAfter(row) -> -row.votes
                     [] OTHER -> 0)
          /\ PastOf(row) = PastOf(new)
                + (IF Crossed(row) /\ ~UpdatedAfter(row)
                   THEN GrownVotepay(row, IF UpdatedAfter(row) THEN 0 ELSE row.votes) ELSE 0)
      BY <3>1, <3>2, <3>3, <3>6, RecountedShare
    <3>8. QED
      BY <3>4, <3>5, <3>6, <3>7 DEF row, new, d
  <2>3. ASSUME NEW p \in Candidates \ ps
        PROVE  /\ r.producers[p] = Of(p)
               /\ VotesOf(r)[p] = VotesOf(t)[p] /\ PastsOf(r)[p] = PastsOf(t)[p]
    BY <1>3 DEF VotesOf, PastsOf
  <2>4. /\ ps \subseteq Candidates /\ IsFiniteSet(ps)
        /\ \A p \in ps : rates[p] \in Int /\ lapsed[p] \in Int
    <3>1. \A p \in ps : rates[p] = Rate(p) /\ lapsed[p] = IF Late(p) THEN Past(p) ELSE 0
      OBVIOUS
    <3>2. ps \subseteq Candidates /\ IsFiniteSet(ps)
      BY AccountsAssumption, FS_Subset
    <3>3. \A p \in ps : Rate(p) \in Int /\ Past(p) \in Int
      BY <1>5
    <3> HIDE DEF rates, lapsed, Rate, Late, Past, ps
    <3>4. QED
      BY <3>1, <3>2, <3>3
  <2> HIDE DEF rates, lapsed, ps
  <2>5. /\ IsFiniteSet(Candidates)
        /\ \A p \in Candidates : VotesOf(t)[p] \in Int /\ PastsOf(t)[p] \in Int
        /\ \A p \in Candidates : VotesOf(r)[p] \in Int /\ PastsOf(r)[p] \in Nat
        /\ t.gstate.vrate \in Int /\ t.gstate.vtotal \in Int /\ now - t.gstate.vat \in Nat
    BY <1>3, <1>6, PastTypes DEF VotepayInv
  <2>6. grown \in Int
    BY <2>5
  <2> HIDE DEF grown
  <2>7. \A p \in Candidates : r.producers[p] # NoRow => r.producers[p].votes >= 0
    BY <2>1, <2>2, <2>3 DEF VotepayAdds
  <2> DEFINE e == [p \in ps |-> p]
  <2>8. e \in [ps -> Candidates] /\ \A p \in ps : e[p] = p
    BY <2>4
  <2> HIDE DEF e
  <2>9. SumOver(VotesOf(r), Candidates) = SumOver(VotesOf(t), Candidates) + SumOver(rates, ps)
    <3>1. /\ \A p, q \in ps : e[p] = e[q] => p = q
          /\ \A p \in ps : VotesOf(r)[e[p]] = VotesOf(t)[e[p]] + rates[p]
          /\ \A s \in Candidates : (\A p \in ps : e[p] # s) => VotesOf(r)[s] = VotesOf(t)[s]
          /\ \A p \in ps : rates[p] \in Int
          /\ \A p \in Candidates : VotesOf(t)[p] \in Int
      BY <2>2, <2>3, <2>4, <2>5, <2>8
    <3> DEFINE f == VotesOf(t)
               h == VotesOf(r)
    <3>2. /\ IsFiniteSet(Candidates) /\ IsFiniteSet(ps) /\ e \in [ps -> Candidates]
          /\ \A p \in Candidates : f[p] \in Int
          /\ \A p \in ps : h[e[p]] = f[e[p]] + rates[p]
          /\ \A s \in Candidates : (\A p \in ps : e[p] # s) => h[s] = f[s]
      BY <2>4, <2>5, <2>8, <3>1
    <3> HIDE DEF f, h
    <3>3. SumOver(h, Candidates) = SumOver(f, Candidates) + SumOver(rates, ps)
      BY <3>1, <3>2, SumOverSlice
    <3>4. QED
      BY <3>3 DEF f, h
  <2>10. SumOver(PastsOf(t), Candidates) = SumOver(PastsOf(r), Candidates) + SumOver(lapsed, ps)
    <3>1. /\ \A p, q \in ps : e[p] = e[q] => p = q
          /\ \A p \in ps : PastsOf(t)[e[p]] = PastsOf(r)[e[p]] + lapsed[p]
          /\ \A s \in Candidates : (\A p \in ps : e[p] # s) => PastsOf(t)[s] = PastsOf(r)[s]
          /\ \A p \in ps : lapsed[p] \in Int
          /\ \A p \in Candidates : PastsOf(r)[p] \in Int
      BY <2>2, <2>3, <2>4, <2>5, <2>8
    <3> DEFINE f == PastsOf(r)
               h == PastsOf(t)
    <3>2. /\ IsFiniteSet(Candidates) /\ IsFiniteSet(ps) /\ e \in [ps -> Candidates]
          /\ \A p \in Candidates : f[p] \in Int
          /\ \A p \in ps : h[e[p]] = f[e[p]] + lapsed[p]
          /\ \A s \in Candidates : (\A p \in ps : e[p] # s) => h[s] = f[s]
      BY <2>4, <2>5, <2>8, <3>1
    <3> HIDE DEF f, h
    <3>3. SumOver(h, Candidates) = SumOver(f, Candidates) + SumOver(lapsed, ps)
      BY <3>1, <3>2, SumOverSlice
    <3>4. QED
      BY <3>3 DEF f, h
  <2>11. /\ SumOver(rates, ps) \in Int /\ SumOver(lapsed, ps) \in Int
         /\ SumOver(VotesOf(r), Candidates) \in Nat /\ SumOver(PastsOf(r), Candidates) \in Nat
         /\ SumOver(VotesOf(t), Candidates) \in Int /\ SumOver(PastsOf(t), Candidates) \in Int
    <3>1. SumOver(rates, ps) \in Int /\ SumOver(lapsed, ps) \in Int
      BY <2>4, SumOverType
    <3>2. SumOver(VotesOf(t), Candidates) \in Int /\ SumOver(PastsOf(t), Candidates) \in Int
      BY <2>5, SumOverType
    <3>3. \A p \in Candidates : VotesOf(r)[p] \in Nat
      <4>1. ASSUME NEW p \in Candidates PROVE VotesOf(r)[p] >= 0
        BY <2>7 DEF VotesOf, VoteOf
      <4>2. QED
        BY <2>5, <4>1
    <3>4. SumOver(VotesOf(r), Candidates) \in Nat
      BY <2>5, <3>3, SumOverNat
    <3>5. SumOver(PastsOf(r), Candidates) \in Nat
      BY <2>5, SumOverNat
    <3>6. QED
      BY <3>1, <3>2, <3>4, <3>5
  <2>12. r.gstate.vrate = SumOver(VotesOf(r), Candidates)
    <3>1. t.gstate.vrate = SumOver(VotesOf(t), Candidates)
      BY <2>1 DEF VotepayAdds
    <3>2. t.gstate.vrate + SumOver(rates, ps) >= 0
      BY <2>9, <2>11, <3>1
    <3>3. Floored(t.gstate.vrate, SumOver(rates, ps)) = t.gstate.vrate + SumOver(rates, ps)
      BY <2>5, <2>11, <3>2, FlooredAdds
    <3>4. QED
      BY <1>4, <2>9, <3>1, <3>3
  <2>13. r.gstate.vtotal = SumOver(PastsOf(r), Candidates)
    <3> DEFINE change == grown + -SumOver(lapsed, ps)
    <3>1. t.gstate.vtotal + grown = SumOver(PastsOf(t), Candidates)
      BY <2>1 DEF VotepayAdds, grown
    <3>2. t.gstate.vtotal + change = SumOver(PastsOf(r), Candidates) /\ change \in Int
      BY <2>5, <2>6, <2>10, <2>11, <3>1
    <3> HIDE DEF change
    <3>3. change \in Int /\ t.gstate.vtotal \in Int /\ t.gstate.vtotal + change >= 0
      BY <2>5, <2>11, <3>2
    <3>4. Floored(t.gstate.vtotal, change) = t.gstate.vtotal + change
      BY <3>3, FlooredAdds
    <3>5. QED
      BY <1>4, <3>2, <3>4 DEF change
  <2>14. r.gstate.vrate * (now - r.gstate.vat) = 0
    BY <1>4, <2>11, <2>12
  <2>15. QED
    BY <2>7, <2>11, <2>12, <2>13, <2>14 DEF VotepayAdds
<1>8. QED
  BY <1>6, <1>7 DEF VotepayInv, r

-----------------------------------------------------------------------------
(* What the operators do to the shares                                     *)

\* Nothing that a witness's time depends on but votes and the total weight has changed.
Unlisted(t, r) ==
    /\ \A p \in Candidates : t.producers[p] = NoRow <=> r.producers[p] = NoRow
    /\ \A p \in Candidates : t.producers[p] # NoRow =>
          /\ r.producers[p].active = t.producers[p].active
          /\ r.producers[p].wshare = t.producers[p].wshare
          /\ r.producers[p].wat = t.producers[p].wat
    /\ r.gstate.wrate = t.gstate.wrate /\ r.gstate.wtotal = t.gstate.wtotal
    /\ r.gstate.wat = t.gstate.wat
    /\ t.below => r.below

\* The votepay totals are kept, and the witness shares are as they were.
Pays(t, r) == (VotepayInv(t) => VotepayInv(r)) /\ Unlisted(t, r)

LEMMA PaysTrans ==
  ASSUME NEW t, NEW r, NEW s, Pays(t, r), Pays(r, s)
  PROVE  Pays(t, s)
<1>1. Unlisted(t, s)
  BY DEF Pays, Unlisted
<1>2. QED
  BY <1>1 DEF Pays

\* The votepay shares and their totals, votes and claims are the same.
SameVotepay(t, r) ==
    /\ \A p \in Candidates : t.producers[p] = NoRow <=> r.producers[p] = NoRow
    /\ \A p \in Candidates : t.producers[p] # NoRow =>
          /\ r.producers[p].votes = t.producers[p].votes
          /\ r.producers[p].claimed = t.producers[p].claimed
          /\ r.producers[p].vshare = t.producers[p].vshare
          /\ r.producers[p].vat = t.producers[p].vat
    /\ r.gstate.vrate = t.gstate.vrate /\ r.gstate.vtotal = t.gstate.vtotal
    /\ r.gstate.vat = t.gstate.vat
    /\ t.below => r.below

LEMMA SameVotepayKeeps ==
  ASSUME NEW t, NEW r, SameVotepay(t, r), VotepayInv(t)
  PROVE  VotepayInv(r)
<1>1. ASSUME NEW p \in Candidates
      PROVE  /\ VoteOf(r.producers[p]) = VoteOf(t.producers[p])
             /\ PastOf(r.producers[p]) = PastOf(t.producers[p])
  BY DEF SameVotepay, VoteOf, PastOf, UpdatedAfter, GrownVotepay
<1>2. VotesOf(r) = VotesOf(t) /\ PastsOf(r) = PastsOf(t)
  BY <1>1 DEF VotesOf, PastsOf
<1>3. VotepayTimes(r)
  BY DEF SameVotepay, VotepayInv, VotepayTimes, Since, UpdatedAfter
<1>4. ~r.below => VotepayAdds(r)
  BY <1>2 DEF SameVotepay, VotepayInv, VotepayAdds
<1>5. QED
  BY <1>3, <1>4 DEF VotepayInv

\* Rows and totals of the producers are the same.
LEMMA PaysSame ==
  ASSUME NEW t, NEW r, r.producers = t.producers, SameTotals(t.gstate, r.gstate),
         t.below => r.below
  PROVE  Pays(t, r)
<1>1. Unlisted(t, r)
  BY DEF Unlisted, SameTotals
<1>2. SameVotepay(t, r)
  BY DEF SameVotepay, SameTotals
<1>3. QED
  BY <1>1, <1>2, SameVotepayKeeps DEF Pays

LEMMA PaysRecount ==
  ASSUME NEW t \in Tables, NEW P \in SUBSET Candidates, NEW delta \in [P -> Int],
         NEW floor \in BOOLEAN, now \in Nat, TimesOK(t)
  PROVE  Pays(t, Recount(t, delta, floor))
<1> DEFINE r == Recount(t, delta, floor)
           ps == {p \in P : t.producers[p] # NoRow}
<1>1. VotepayInv(t) => VotepayInv(r)
  BY RecountVotepay
<1>2. RecountOf(t, P, delta, floor, r)
  BY RecountFacts
<1>3. SharesRecounted(t, P, delta, r)
  BY RecountShares
<1> HIDE DEF r
<1>4. /\ \A p \in Candidates \ ps : r.producers[p] = t.producers[p]
      /\ \A p \in ps : Recounted(t.producers[p], delta[p], floor, r.producers[p])
      /\ t.below => r.below
  BY <1>2 DEF RecountOf
<1>5. /\ r.gstate.wrate = t.gstate.wrate /\ r.gstate.wtotal = t.gstate.wtotal
      /\ r.gstate.wat = t.gstate.wat
  BY <1>3 DEF SharesRecounted
<1>6. ASSUME NEW p \in Candidates
      PROVE  /\ t.producers[p] = NoRow <=> r.producers[p] = NoRow
             /\ t.producers[p] # NoRow =>
                   /\ r.producers[p].active = t.producers[p].active
                   /\ r.producers[p].wshare = t.producers[p].wshare
                   /\ r.producers[p].wat = t.producers[p].wat
  <2>1. CASE p \in ps
    <3>1. Recounted(t.producers[p], delta[p], floor, r.producers[p])
      BY <1>4, <2>1
    <3>2. QED
      BY <2>1, <3>1, VotingRowsAssumption DEF Recounted
  <2>2. CASE p \notin ps
    BY <1>4, <2>2
  <2>3. QED
    BY <2>1, <2>2
<1>7. Unlisted(t, r)
  BY <1>4, <1>5, <1>6 DEF Unlisted
<1>8. QED
  BY <1>1, <1>7 DEF Pays, r

LEMMA PaysSetLast ==
  ASSUME NEW t \in Tables, NEW a \in Accounts, t.voters[a] # NoRow, NEW weight \in Int
  PROVE  Pays(t, SetLast(t, a, weight))
<1> DEFINE r == SetLast(t, a, weight)
           new == [t.voters[a] EXCEPT !.last = weight]
<1>1. OneRow(t, r, a, new) /\ r.below = (t.below \/ weight < 0)
  BY SetLastFacts
<1> HIDE DEF r, new
<1>2. r.producers = t.producers /\ SameTotals(t.gstate, r.gstate) /\ (t.below => r.below)
  BY <1>1 DEF OneRow, SameTotals
<1>3. Pays(t, r)
  BY <1>2, PaysSame
<1>4. QED
  BY <1>3 DEF r

LEMMA PaysAddProxied ==
  ASSUME NEW t \in Tables, NEW a \in Accounts, t.voters[a] # NoRow, NEW weight \in Int
  PROVE  Pays(t, AddProxied(t, a, weight))
<1> DEFINE r == AddProxied(t, a, weight)
           new == [t.voters[a] EXCEPT !.proxied = t.voters[a].proxied + weight]
<1>1. OneRow(t, r, a, new) /\ r.below = t.below
  BY AddProxiedFacts
<1> HIDE DEF r, new
<1>2. r.producers = t.producers /\ SameTotals(t.gstate, r.gstate) /\ (t.below => r.below)
  BY <1>1 DEF OneRow, SameTotals
<1>3. Pays(t, r)
  BY <1>2, PaysSame
<1>4. QED
  BY <1>3 DEF r

LEMMA PaysPropagateCast ==
  ASSUME NEW t \in Tables, NEW a \in Accounts, t.voters[a] # NoRow, now \in Nat, TimesOK(t)
  PROVE  Pays(t, PropagateCast(t, a))
<1> DEFINE row == t.voters[a]
           change == VoteWeight(row) - row.last
           delta == [p \in row.producers |-> change]
           passed == IF Abs(change) > 1 THEN Recount(t, delta, FALSE)
                                        ELSE WithholdVotes(t, row.producers, change)
           weight == VoteWeight(row)
<1>1. row \in VoterRow /\ row.producers \in SUBSET Candidates /\ change \in Int /\ weight \in Int
  BY TablesHave, RowType, PowerType
<1>2. /\ Pays(t, passed) /\ passed \in Tables /\ passed.voters = t.voters
  <2>1. CASE Abs(change) > 1
    <3>1. delta \in [row.producers -> Int]
      BY <1>1
    <3> DEFINE P == row.producers
               q == Recount(t, delta, FALSE)
    <3> HIDE DEF row, change, delta
    <3>2. Alike(t, q) /\ q.voters = t.voters
      BY <1>1, <3>1, AlikeRecount
    <3>3. Pays(t, q)
      BY <1>1, <3>1, PaysRecount
    <3> HIDE DEF q
    <3>4. q \in Tables
      BY <3>2 DEF Alike
    <3>5. QED
      BY <2>1, <3>2, <3>3, <3>4 DEF q
  <2>2. CASE ~(Abs(change) > 1)
    <3> HIDE DEF row, change, delta
    <3> DEFINE ps == row.producers
               w  == WithholdVotes(t, ps, change)
    <3>1. /\ w \in Tables /\ w.voters = t.voters /\ w.producers = t.producers
          /\ w.gstate = t.gstate /\ w.below = t.below
      <4>1. ps \in SUBSET Candidates /\ change \in Int
        BY <1>1
      <4> HIDE DEF ps
      <4>2. LET q == WithholdVotes(t, ps, change)
            IN  /\ q \in Tables /\ q.voters = t.voters /\ q.producers = t.producers
                /\ q.gstate = t.gstate /\ q.below = t.below /\ q.failed = t.failed
                /\ q.withheld.proxied = t.withheld.proxied
                /\ \A p \in Candidates :
                      q.withheld.votes[p] = t.withheld.votes[p] + (IF p \in ps THEN change ELSE 0)
        BY <4>1, WithholdVotesFacts
      <4>3. QED
        BY <4>2
    <3> HIDE DEF w
    <3>2. Pays(t, w)
      BY <3>1, PaysSame DEF SameTotals
    <3>3. QED
      BY <2>2, <3>1, <3>2 DEF w
  <2>3. QED
    BY <2>1, <2>2
<1>3. PropagateCast(t, a) = SetLast(passed, a, weight)
  BY DEF PropagateCast
<1> HIDE DEF passed, weight, change, row
<1>4. Pays(passed, SetLast(passed, a, weight))
  BY <1>1, <1>2, PaysSetLast
<1>5. QED
  BY <1>2, <1>3, <1>4, PaysTrans

LEMMA PaysPropagate ==
  ASSUME NEW t \in Tables, NEW a \in Accounts, t.voters[a] # NoRow, now \in Nat, TimesOK(t),
         LET b == t.voters[a].proxy IN b # None => b # a /\ t.voters[b] # NoRow
  PROVE  Pays(t, Propagate(t, a))
<1> DEFINE row == t.voters[a]
           b == row.proxy
           weight == VoteWeight(row)
           change == weight - row.last
<1>1. row \in VoterRow /\ b \in Accounts \cup {None} /\ change \in Int /\ weight \in Int
  BY TablesHave, RowType, PowerType
<1>2. CASE b = None
  <2>1. Propagate(t, a) = PropagateCast(t, a)
    BY <1>2 DEF Propagate
  <2>2. QED
    BY <2>1, PaysPropagateCast
<1>3. CASE b # None
  <2>1. b \in Accounts /\ b # a /\ t.voters[b] # NoRow
    BY <1>1, <1>3
  <2> DEFINE added == AddProxied(t, b, change)
             passed == IF Abs(change) > 1 THEN PropagateCast(added, b)
                                          ELSE WithholdProxied(t, b, change)
  <2>2. Propagate(t, a) = SetLast(passed, a, weight)
    BY <1>3 DEF Propagate
  <2> HIDE DEF row, b, weight, change
  <2>3. Pays(t, passed) /\ passed \in Tables /\ passed.voters[a] # NoRow
    <3>1. CASE Abs(change) > 1
      <4> DEFINE n == [t.voters[b] EXCEPT !.proxied = t.voters[b].proxied + change]
                 q == PropagateCast(added, b)
      <4>1. OneRow(t, added, b, n) /\ Kin(t.voters[b], n)
        BY <1>1, <2>1, AddProxiedFacts
      <4>2. Pays(t, added)
        BY <1>1, <2>1, PaysAddProxied
      <4> HIDE DEF n, added
      <4>3. Alike(t, added)
        BY <2>1, <4>1, AlikeOneRow
      <4>4. added \in Tables /\ TimesOK(added) /\ added.voters[b] # NoRow
        BY <2>1, <4>1, <4>3, TablesHave, KinFollows DEF Alike
      <4>5. Alike(added, q) /\ Pays(added, q)
        BY <2>1, <4>4, PropagateCastFacts, PaysPropagateCast
      <4> HIDE DEF q
      <4>6. Alike(t, q) /\ Pays(t, q)
        BY <4>2, <4>3, <4>5, AlikeTrans, PaysTrans
      <4>7. q \in Tables /\ q.voters[a] # NoRow
        BY <4>6, TablesHave, KinFollows DEF Alike
      <4>8. QED
        BY <3>1, <4>6, <4>7 DEF q
    <3>2. CASE ~(Abs(change) > 1)
      <4> DEFINE q == WithholdProxied(t, b, change)
      <4>1. /\ q \in Tables /\ q.voters = t.voters /\ q.producers = t.producers
            /\ q.gstate = t.gstate /\ q.below = t.below
        BY <1>1, <2>1, WithholdProxiedFacts
      <4> HIDE DEF q
      <4>2. Pays(t, q)
        BY <4>1, PaysSame DEF SameTotals
      <4>3. QED
        BY <3>2, <4>1, <4>2 DEF q
    <3>3. QED
      BY <3>1, <3>2
  <2> HIDE DEF passed
  <2>4. Pays(passed, SetLast(passed, a, weight))
    BY <1>1, <2>3, PaysSetLast
  <2>5. QED
    BY <2>2, <2>3, <2>4, PaysTrans
<1>4. QED
  BY <1>2, <1>3

LEMMA PaysHandOver ==
  ASSUME NEW t \in Tables, NEW b \in Accounts, t.voters[b] # NoRow, NEW weight \in Int,
         now \in Nat, TimesOK(t), ProxiesThere(t)
  PROVE  Pays(t, Propagate(AddProxied(t, b, weight), b))
<1> DEFINE added == AddProxied(t, b, weight)
           new == [t.voters[b] EXCEPT !.proxied = t.voters[b].proxied + weight]
<1>1. OneRow(t, added, b, new) /\ Kin(t.voters[b], new)
  BY AddProxiedFacts
<1>2. Pays(t, added)
  BY PaysAddProxied
<1> HIDE DEF new, added
<1>3. Alike(t, added)
  BY <1>1, AlikeOneRow
<1>4. added \in Tables /\ TimesOK(added) /\ added.voters[b] # NoRow
  BY <1>1, <1>3, TablesHave, KinFollows DEF Alike
<1>5. ProxiesThere(added)
  BY <1>3, AlikeProxies
<1>6. LET c == added.voters[b].proxy IN c # None => c # b /\ added.voters[c] # NoRow
  BY <1>4, <1>5 DEF ProxiesThere
<1>7. Pays(added, Propagate(added, b))
  BY <1>4, <1>6, PaysPropagate
<1>8. Pays(t, Propagate(added, b))
  BY <1>2, <1>7, PaysTrans
<1>9. QED
  BY <1>8 DEF added

LEMMA PaysLeaveProxy ==
  ASSUME NEW t \in Tables, NEW a \in Accounts, t.voters[a] # NoRow,
         now \in Nat, TimesOK(t), ProxiesThere(t)
  PROVE  Pays(t, LeaveProxy(t, a))
<1> DEFINE row == t.voters[a]
           weight == -row.last
<1>1. row \in VoterRow /\ weight \in Int /\ row.proxy \in Accounts \cup {None}
  BY TablesHave, RowType
<1>2. CASE row.last > 0 /\ row.proxy # None
  <2> DEFINE b == row.proxy
  <2>1. LeaveProxy(t, a) = Propagate(AddProxied(t, b, weight), b)
    BY <1>2 DEF LeaveProxy
  <2>2. b \in Accounts /\ t.voters[b] # NoRow
    BY <1>1, <1>2 DEF ProxiesThere
  <2> HIDE DEF b, weight, row
  <2>3. QED
    BY <1>1, <2>1, <2>2, PaysHandOver
<1>3. CASE ~(row.last > 0 /\ row.proxy # None)
  <2>1. LeaveProxy(t, a) = t
    BY <1>3 DEF LeaveProxy
  <2>2. QED
    BY <2>1, PaysSame DEF SameTotals
<1>4. QED
  BY <1>2, <1>3

LEMMA PaysJoinProxy ==
  ASSUME NEW t \in Tables, NEW a \in Accounts, t.voters[a] # NoRow,
         NEW proxy \in Accounts \cup {None}, proxy # None => t.voters[proxy] # NoRow,
         now \in Nat, TimesOK(t), ProxiesThere(t)
  PROVE  Pays(t, JoinProxy(t, a, proxy))
<1> DEFINE weight == VoteWeight(t.voters[a])
<1>1. weight \in Int
  BY TablesHave, PowerType
<1>2. CASE proxy # None /\ weight >= 0
  <2>1. JoinProxy(t, a, proxy) = Propagate(AddProxied(t, proxy, weight), proxy)
    BY <1>2 DEF JoinProxy
  <2> HIDE DEF weight
  <2>2. QED
    BY <1>1, <1>2, <2>1, PaysHandOver
<1>3. CASE ~(proxy # None /\ weight >= 0)
  <2>1. JoinProxy(t, a, proxy) = t
    BY <1>3 DEF JoinProxy
  <2>2. QED
    BY <2>1, PaysSame DEF SameTotals
<1>4. QED
  BY <1>2, <1>3

LEMMA PaysMoved ==
  ASSUME NEW t \in Tables, NEW a \in Accounts, t.voters[a] # NoRow,
         NEW proxy \in Accounts \cup {None}, proxy # None => t.voters[proxy] # NoRow,
         now \in Nat, TimesOK(t), ProxiesThere(t)
  PROVE  Pays(t, MovedTo(t, a, proxy))
<1> DEFINE active == Activate(t, a)
           left   == LeaveProxy(active, a)
           moved  == JoinProxy(left, a, proxy)
<1>1. /\ Alike(t, active) /\ active.voters = t.voters /\ active.producers = t.producers
      /\ active.below = t.below /\ SameTotals(t.gstate, active.gstate)
  BY ActivateFacts
<1>2. MovedTo(t, a, proxy) = moved
  BY DEF MovedTo
<1> HIDE DEF active
<1>3. Pays(t, active)
  BY <1>1, PaysSame
<1>4. active \in Tables /\ TimesOK(active) /\ active.voters[a] # NoRow /\ ProxiesThere(active)
  BY <1>1, AlikeProxies DEF Alike
<1>5. Pays(active, left) /\ Alike(active, left)
  <2>1. LET r == LeaveProxy(active, a)
        IN  Alike(active, r) /\ \A x \in Accounts : Follows(active, x) => Follows(r, x)
    BY <1>4, LeaveProxyFacts
  <2>2. QED
    BY <1>4, <2>1, PaysLeaveProxy
<1> HIDE DEF left
<1>6. Alike(t, left) /\ Pays(t, left)
  BY <1>1, <1>3, <1>5, AlikeTrans, PaysTrans
<1>7. left \in Tables /\ TimesOK(left) /\ left.voters[a] # NoRow /\ ProxiesThere(left)
  BY <1>6, AlikeProxies, TablesHave, KinFollows DEF Alike
<1>8. proxy # None => left.voters[proxy] # NoRow
  BY <1>6, TablesHave, KinFollows DEF Alike
<1>9. Pays(left, moved)
  BY <1>7, <1>8, PaysJoinProxy
<1> HIDE DEF moved
<1>10. QED
  BY <1>2, <1>6, <1>9, PaysTrans

\* Before the list of witnesses is updated, update_votes has kept the shares.
LEMMA PaysRecast ==
  ASSUME NEW t \in Tables, NEW a \in Accounts, t.voters[a] # NoRow,
         NEW proxy \in Accounts \cup {None}, NEW ps \in SUBSET Candidates,
         proxy # None => t.voters[proxy] # NoRow,
         now \in Nat, TimesOK(t), ProxiesThere(t)
  PROVE  LET recast == Recount(MovedTo(t, a, proxy), Delta(t.voters[a], ps), TRUE)
         IN  Pays(t, recast) /\ recast \in Tables
<1> DEFINE row    == t.voters[a]
           P      == Undone(row) \cup NewlyCast(row, ps)
           moved  == MovedTo(t, a, proxy)
           delta  == Delta(row, ps)
           recast == Recount(moved, delta, TRUE)
<1>1. /\ row \in VoterRow /\ VoteWeight(row) \in Int /\ row.last \in Int
      /\ row.producers \in SUBSET Candidates
  BY TablesHave, RowType, PowerType
<1>2. P \in SUBSET Candidates
  BY <1>1 DEF Undone, NewlyCast
<1>3. delta \in [P -> Int]
  <2> HIDE DEF row
  <2>1. QED
    BY <1>1 DEF Delta
<1>4. Alike(t, moved) /\ Pays(t, moved)
  BY MovedFacts, PaysMoved
<1> HIDE DEF row, P, delta, moved
<1>5. moved \in Tables /\ TimesOK(moved)
  BY <1>4 DEF Alike
<1>6. RecountOf(moved, P, delta, TRUE, recast) /\ Pays(moved, recast)
  BY <1>2, <1>3, <1>5, RecountFacts, PaysRecount
<1> HIDE DEF recast
<1>7. recast \in Tables
  BY <1>6 DEF RecountOf
<1>8. Pays(t, recast)
  BY <1>4, <1>6, PaysTrans
<1>9. QED
  BY <1>7, <1>8 DEF recast, moved, delta, row
-----------------------------------------------------------------------------
(* The list of witnesses                                                   *)

\* What p has by now for its time as a witness in the tables t.
TimeOf(t, p) ==
    IF t.producers[p] = NoRow THEN 0
    ELSE t.producers[p].wshare + (IF p \in Witnesses(t) THEN now - t.producers[p].wat ELSE 0)
WitnessTimes(t) == [p \in Candidates |-> TimeOf(t, p)]

\* What WitnessSharesAddUp says of the tables t, as long as nobody is deactivated.
WitnessAdds(t) ==
    /\ t.gstate.wrate = Cardinality(Witnesses(t))
    /\ t.gstate.wtotal + t.gstate.wrate * (now - t.gstate.wat)
          = SumOver(WitnessTimes(t), Candidates)
WitnessInv(t) ==
    /\ \A p \in Candidates : t.producers[p] # NoRow => t.producers[p].active
    /\ ~t.below => WitnessAdds(t)

\* The list depends on who is registered and active, the votes and their total.
LEMMA SameWitnesses ==
  ASSUME NEW t, NEW r, r.gstate.weight = t.gstate.weight,
         \A p \in Candidates : t.producers[p] = NoRow <=> r.producers[p] = NoRow,
         \A p \in Candidates : t.producers[p] # NoRow =>
             /\ r.producers[p].votes = t.producers[p].votes
             /\ r.producers[p].active = t.producers[p].active
  PROVE  Witnesses(r) = Witnesses(t)
<1>1. Registered(r) = Registered(t)
  BY DEF Registered
<1>2. ASSUME NEW p \in Registered(t)
      PROVE  /\ ByVotes(r.producers[p]) = ByVotes(t.producers[p])
             /\ Qualifies(r, p) <=> Qualifies(t, p)
  BY DEF Registered, ByVotes, Qualifies
<1>3. ASSUME NEW p \in Registered(t) PROVE Ahead(r, p) = Ahead(t, p)
  BY <1>1, <1>2 DEF Ahead, Precedes
<1>4. \A p \in Registered(t) : Ahead(t, p) \cup {p} \subseteq Registered(t)
  BY DEF Ahead
<1>5. ASSUME NEW p \in Registered(t)
      PROVE  (\A q \in Ahead(r, p) \cup {p} : Qualifies(r, q))
                <=> (\A q \in Ahead(t, p) \cup {p} : Qualifies(t, q))
  BY <1>2, <1>3, <1>4
<1>6. QED
  BY <1>1, <1>3, <1>5 DEF Witnesses

LEMMA WitnessesType ==
  ASSUME NEW t
  PROVE  /\ Witnesses(t) \subseteq Candidates /\ IsFiniteSet(Witnesses(t))
         /\ Cardinality(Witnesses(t)) \in Nat
         /\ \A p \in Witnesses(t) : t.producers[p] # NoRow
<1>1. Witnesses(t) \subseteq Candidates /\ \A p \in Witnesses(t) : t.producers[p] # NoRow
  BY DEF Witnesses, Registered
<1>2. IsFiniteSet(Candidates)
  BY AccountsAssumption, FS_Subset
<1>3. IsFiniteSet(Witnesses(t))
  BY <1>1, <1>2, FS_Subset
<1>4. QED
  BY <1>1, <1>3, FS_CardinalityType

\* What UpdateWitnesses does to a row.
Enlisted(before, t, p) ==
    IF p \in Witnesses(before) \ Witnesses(t) THEN UpdateWitnesspay(t.producers[p], 1)
    ELSE IF p \in Witnesses(t) \ Witnesses(before) THEN UpdateWitnesspay(t.producers[p], 0)
    ELSE t.producers[p]

LEMMA UpdateWitnessesRows ==
  ASSUME NEW before, NEW t \in Tables, now \in Nat, TimesOK(t),
         \A p \in Candidates : before.producers[p] = NoRow <=> t.producers[p] = NoRow
  PROVE  LET r    == UpdateWitnesses(before, t)
             rate == Cardinality(Witnesses(t) \ Witnesses(before))
                        - Cardinality(Witnesses(before) \ Witnesses(t))
         IN  /\ \A p \in Candidates : r.producers[p] = Enlisted(before, t, p)
             /\ rate \in Int
             /\ r.gstate.wrate = Floored(t.gstate.wrate, rate)
             /\ r.gstate.wtotal = Floored(t.gstate.wtotal, t.gstate.wrate * (now - t.gstate.wat) + 0)
             /\ r.gstate.wat = now /\ r.gstate.weight = t.gstate.weight
             /\ r.gstate.vrate = t.gstate.vrate /\ r.gstate.vtotal = t.gstate.vtotal
             /\ r.gstate.vat = t.gstate.vat
             /\ r.below = t.below
<1> DEFINE out  == Witnesses(before) \ Witnesses(t)
           in   == Witnesses(t) \ Witnesses(before)
           rows == [p \in Candidates |-> Enlisted(before, t, p)]
           rate == Cardinality(in) - Cardinality(out)
           g    == UpdateTotalWitnesspay(t.gstate, 0, rate)
           r    == [t EXCEPT !.producers = rows, !.gstate = g]
<1>1. UpdateWitnesses(before, t) = r
  BY DEF UpdateWitnesses, Enlisted
<1>2. rate \in Int
  <2>1. IsFiniteSet(in) /\ IsFiniteSet(out)
    BY WitnessesType, FS_Subset
  <2>2. QED
    BY <2>1, FS_CardinalityType
<1>3. t.gstate \in GState /\ t.gstate.wat <= now
  BY TablesHave DEF TimesOK
<1>4. /\ g.wat = now /\ g.weight = t.gstate.weight
      /\ g.vrate = t.gstate.vrate /\ g.vtotal = t.gstate.vtotal /\ g.vat = t.gstate.vat
  <2> HIDE DEF rate
  <2>1. LET h == UpdateTotalWitnesspay(t.gstate, 0, rate)
        IN  /\ h.wat = now /\ h.weight = t.gstate.weight
            /\ h.vrate = t.gstate.vrate /\ h.vtotal = t.gstate.vtotal /\ h.vat = t.gstate.vat
    BY <1>2, <1>3, TotalWitnesspayType
  <2>2. QED
    BY <2>1
<1>5. /\ g.wrate = Floored(t.gstate.wrate, rate)
      /\ g.wtotal = Floored(t.gstate.wtotal, t.gstate.wrate * (now - t.gstate.wat) + 0)
  <2> HIDE DEF rate
  <2> DEFINE total == Floored(t.gstate.wtotal, t.gstate.wrate * (now - t.gstate.wat) + 0)
             grows == Floored(t.gstate.wrate, rate)
  <2>1. g = [t.gstate EXCEPT !.wtotal = total, !.wrate = grows, !.wat = now]
    BY DEF UpdateTotalWitnesspay
  <2> HIDE DEF total, grows, g
  <2>2. g.wrate = grows /\ g.wtotal = total
    BY <1>3, <2>1 DEF GState
  <2>3. QED
    BY <2>2 DEF total, grows
<1>6. \A p \in Candidates : rows[p] = Enlisted(before, t, p)
  OBVIOUS
<1> HIDE DEF rows, g, rate
<1>7. r.producers = rows /\ r.gstate = g /\ r.below = t.below
  BY DEF Tables
<1> HIDE DEF r
<1>8. QED
  BY <1>1, <1>2, <1>4, <1>5, <1>6, <1>7 DEF rate

\* A row on the list or off it: its votes and its votepay share are the same.
LEMMA EnlistedRow ==
  ASSUME NEW before, NEW t \in Tables, NEW p \in Candidates, now \in Nat, TimesOK(t),
         t.producers[p] # NoRow
  PROVE  LET row == t.producers[p]
             new == Enlisted(before, t, p)
         IN  /\ new \in ProducerRow /\ new # NoRow
             /\ new.votes = row.votes /\ new.active = row.active /\ new.claimed = row.claimed
             /\ new.vshare = row.vshare /\ new.vat = row.vat
             /\ row.wshare \in Nat /\ row.wat \in Nat /\ row.wat <= now
             /\ p \in Witnesses(before) \ Witnesses(t) =>
                   new.wshare = row.wshare + 1 * (now - row.wat) /\ new.wat = now
             /\ p \in Witnesses(t) \ Witnesses(before) =>
                   new.wshare = row.wshare + 0 * (now - row.wat) /\ new.wat = now
             /\ ~(p \in Witnesses(before) \ Witnesses(t)) /\ ~(p \in Witnesses(t) \ Witnesses(before))
                   => new = row
<1> DEFINE row == t.producers[p]
           new == Enlisted(before, t, p)
<1>1. row \in ProducerRow /\ Dated(row)
  BY TablesHave DEF TimesOK
<1>2. row.wshare \in Nat /\ row.wat \in Nat /\ row.wat <= now
  BY <1>1, ShareTypes DEF Dated
<1>3. ASSUME NEW rate \in {0, 1}
      PROVE  LET paid == UpdateWitnesspay(row, rate)
             IN  /\ paid \in ProducerRow /\ paid # NoRow
                 /\ paid.votes = row.votes /\ paid.active = row.active /\ paid.claimed = row.claimed
                 /\ paid.vshare = row.vshare /\ paid.vat = row.vat
                 /\ paid.wshare = row.wshare + rate * (now - row.wat) /\ paid.wat = now
  <2> DEFINE paid == UpdateWitnesspay(row, rate)
             share == row.wshare + rate * (now - row.wat)
  <2> HIDE DEF row
  <2>1. LET n == UpdateWitnesspay(row, rate)
        IN  /\ n \in ProducerRow
            /\ n.votes = row.votes /\ n.active = row.active /\ n.claimed = row.claimed
            /\ n.vshare = row.vshare /\ n.vat = row.vat
    BY <1>1, WitnesspayType
  <2>2. paid = [row EXCEPT !.wshare = share, !.wat = now]
    BY DEF UpdateWitnesspay
  <2> HIDE DEF share
  <2>3. [row EXCEPT !.wshare = share, !.wat = now].wshare = share
        /\ [row EXCEPT !.wshare = share, !.wat = now].wat = now
    BY <1>1 DEF ProducerRow
  <2>4. paid.wshare = share /\ paid.wat = now
    BY <2>2, <2>3
  <2>5. QED
    BY <2>1, <2>4, VotingRowsAssumption DEF share
<1>4. CASE p \in Witnesses(before) \ Witnesses(t)
  <2>1. new = UpdateWitnesspay(row, 1)
    BY <1>4 DEF Enlisted
  <2> HIDE DEF new, row
  <2>2. QED
    BY <1>2, <1>3, <1>4, <2>1 DEF new, row
<1>5. CASE p \in Witnesses(t) \ Witnesses(before)
  <2>1. new = UpdateWitnesspay(row, 0)
    BY <1>5 DEF Enlisted
  <2> HIDE DEF new, row
  <2>2. QED
    BY <1>2, <1>3, <1>5, <2>1 DEF new, row
<1>6. CASE p \notin Witnesses(before) \ Witnesses(t) /\ p \notin Witnesses(t) \ Witnesses(before)
  <2>1. new = row
    BY <1>6 DEF Enlisted
  <2>2. row # NoRow
    OBVIOUS
  <2> HIDE DEF new, row
  <2>3. QED
    BY <1>1, <1>2, <1>6, <2>1, <2>2 DEF new, row
<1>7. QED
  BY <1>4, <1>5, <1>6

\* Updating the list leaves the votepay shares and the list itself as they are.
LEMMA UpdateWitnessesVotepay ==
  ASSUME NEW before, NEW t \in Tables, now \in Nat, TimesOK(t),
         \A p \in Candidates : before.producers[p] = NoRow <=> t.producers[p] = NoRow
  PROVE  LET r == UpdateWitnesses(before, t)
         IN  /\ SameVotepay(t, r)
             /\ Witnesses(r) = Witnesses(t)
             /\ \A p \in Candidates : t.producers[p] # NoRow =>
                   r.producers[p] # NoRow /\ r.producers[p].active = t.producers[p].active
<1> DEFINE r == UpdateWitnesses(before, t)
<1>1. /\ \A p \in Candidates : r.producers[p] = Enlisted(before, t, p)
      /\ r.gstate.weight = t.gstate.weight
      /\ r.gstate.vrate = t.gstate.vrate /\ r.gstate.vtotal = t.gstate.vtotal
      /\ r.gstate.vat = t.gstate.vat /\ r.below = t.below
  BY UpdateWitnessesRows
<1> HIDE DEF r
<1>2. ASSUME NEW p \in Candidates, t.producers[p] # NoRow
      PROVE  /\ r.producers[p] # NoRow
             /\ r.producers[p].votes = t.producers[p].votes
             /\ r.producers[p].active = t.producers[p].active
             /\ r.producers[p].claimed = t.producers[p].claimed
             /\ r.producers[p].vshare = t.producers[p].vshare
             /\ r.producers[p].vat = t.producers[p].vat
  <2>1. LET row == t.producers[p]
            new == Enlisted(before, t, p)
        IN  /\ new # NoRow
            /\ new.votes = row.votes /\ new.active = row.active /\ new.claimed = row.claimed
            /\ new.vshare = row.vshare /\ new.vat = row.vat
    <3>1. t.producers[p] # NoRow /\ now \in Nat /\ TimesOK(t)
      BY <1>2
    <3> DEFINE row == t.producers[p]
               new == Enlisted(before, t, p)
    <3>2. /\ new \in ProducerRow /\ new # NoRow
          /\ new.votes = row.votes /\ new.active = row.active /\ new.claimed = row.claimed
          /\ new.vshare = row.vshare /\ new.vat = row.vat
          /\ row.wshare \in Nat /\ row.wat \in Nat /\ row.wat <= now
          /\ p \in Witnesses(before) \ Witnesses(t) =>
                new.wshare = row.wshare + 1 * (now - row.wat) /\ new.wat = now
          /\ p \in Witnesses(t) \ Witnesses(before) =>
                new.wshare = row.wshare + 0 * (now - row.wat) /\ new.wat = now
      BY <3>1, EnlistedRow
    <3>3. QED
      BY <3>2
  <2>2. r.producers[p] = Enlisted(before, t, p)
    BY <1>1
  <2>3. QED
    BY <2>1, <2>2
<1>3. ASSUME NEW p \in Candidates, t.producers[p] = NoRow PROVE r.producers[p] = NoRow
  <2>1. p \notin Witnesses(t) /\ p \notin Witnesses(before)
    BY <1>3, WitnessesType
  <2>2. QED
    BY <1>1, <1>3, <2>1 DEF Enlisted
<1>4. SameVotepay(t, r)
  BY <1>1, <1>2, <1>3 DEF SameVotepay
<1>5. Witnesses(r) = Witnesses(t)
  BY <1>1, <1>2, <1>3, SameWitnesses
<1>6. QED
  BY <1>2, <1>4, <1>5 DEF r

\* Where two sets differ, and how many elements they have.
LEMMA SizesDiffer ==
  ASSUME NEW S, IsFiniteSet(S), NEW T, IsFiniteSet(T)
  PROVE  Cardinality(S) + (Cardinality(T \ S) - Cardinality(S \ T)) = Cardinality(T)
<1>1. /\ Cardinality(T \ S) = Cardinality(T) - Cardinality(T \cap S)
      /\ Cardinality(S \ T) = Cardinality(S) - Cardinality(S \cap T)
  BY FS_Difference
<1>2. T \cap S = S \cap T
  OBVIOUS
<1>3. Cardinality(S) \in Nat /\ Cardinality(T) \in Nat /\ Cardinality(S \cap T) \in Nat
  BY FS_Intersection, FS_CardinalityType
<1> DEFINE s == Cardinality(S)
           u == Cardinality(T)
           b == Cardinality(S \cap T)
           more == Cardinality(T \ S)
           fewer == Cardinality(S \ T)
<1>4. more = u - b /\ fewer = s - b /\ s \in Nat /\ u \in Nat /\ b \in Nat
  BY <1>1, <1>2, <1>3
<1> HIDE DEF s, u, b, more, fewer
<1>5. s + (more - fewer) = u
  BY <1>4
<1>6. QED
  BY <1>5 DEF s, u, more, fewer

\* Who leaves the list is paid for its time on it, and who joins is not: every moment on the
\* list counts once, and the total grows at the rate of the new list.
LEMMA UpdateWitnessesKeeps ==
  ASSUME NEW before \in Tables, NEW t \in Tables, now \in Nat, TimesOK(before), TimesOK(t),
         Unlisted(before, t), WitnessInv(before)
  PROVE  WitnessInv(UpdateWitnesses(before, t))
<1> DEFINE r    == UpdateWitnesses(before, t)
           old  == Witnesses(before)
           new  == Witnesses(t)
           rate == Cardinality(new \ old) - Cardinality(old \ new)
           grown == t.gstate.wrate * (now - t.gstate.wat)
<1>1. /\ \A p \in Candidates : before.producers[p] = NoRow <=> t.producers[p] = NoRow
      /\ \A p \in Candidates : before.producers[p] # NoRow =>
            /\ t.producers[p].active = before.producers[p].active
            /\ t.producers[p].wshare = before.producers[p].wshare
            /\ t.producers[p].wat = before.producers[p].wat
      /\ t.gstate.wrate = before.gstate.wrate /\ t.gstate.wtotal = before.gstate.wtotal
      /\ t.gstate.wat = before.gstate.wat
      /\ before.below => t.below
  BY DEF Unlisted
<1>2. /\ \A p \in Candidates : r.producers[p] = Enlisted(before, t, p)
      /\ rate \in Int
      /\ r.gstate.wrate = Floored(t.gstate.wrate, rate)
      /\ r.gstate.wtotal = Floored(t.gstate.wtotal, grown + 0)
      /\ r.gstate.wat = now /\ r.below = t.below
  <2>1. \A p \in Candidates : before.producers[p] = NoRow <=> t.producers[p] = NoRow
    BY <1>1
  <2>2. LET s == UpdateWitnesses(before, t)
            n == Cardinality(Witnesses(t) \ Witnesses(before))
                    - Cardinality(Witnesses(before) \ Witnesses(t))
        IN  /\ \A p \in Candidates : s.producers[p] = Enlisted(before, t, p)
            /\ n \in Int
            /\ s.gstate.wrate = Floored(t.gstate.wrate, n)
            /\ s.gstate.wtotal = Floored(t.gstate.wtotal, t.gstate.wrate * (now - t.gstate.wat) + 0)
            /\ s.gstate.wat = now /\ s.below = t.below
    BY <2>1, UpdateWitnessesRows
  <2>3. QED
    BY <2>2
<1>3. /\ SameVotepay(t, r) /\ Witnesses(r) = new
      /\ \A p \in Candidates : t.producers[p] # NoRow =>
            r.producers[p] # NoRow /\ r.producers[p].active = t.producers[p].active
  BY <1>1, UpdateWitnessesVotepay
<1> HIDE DEF r, rate
<1>4. \A p \in Candidates : t.producers[p] = NoRow <=> r.producers[p] = NoRow
  BY <1>3 DEF SameVotepay
<1>5. \A p \in Candidates : r.producers[p] # NoRow => r.producers[p].active
  BY <1>1, <1>3, <1>4 DEF WitnessInv
<1>6. ASSUME ~r.below PROVE WitnessAdds(r)
  <2>1. WitnessAdds(before)
    BY <1>1, <1>2, <1>6 DEF WitnessInv
  <2>2. /\ IsFiniteSet(old) /\ IsFiniteSet(new)
        /\ Cardinality(old) \in Nat /\ Cardinality(new) \in Nat
    BY WitnessesType
  <2>3. r.gstate.wrate = Cardinality(Witnesses(r))
    <3>1. t.gstate.wrate = Cardinality(old)
      BY <1>1, <2>1 DEF WitnessAdds
    <3>2. Cardinality(old) + rate = Cardinality(new)
      BY <2>2, SizesDiffer DEF rate
    <3> HIDE DEF old, new
    <3>3. Floored(Cardinality(old), rate) = Cardinality(new)
      BY <1>2, <2>2, <3>2, FlooredAdds
    <3>4. QED
      BY <1>2, <1>3, <3>1, <3>3
  <2>4. t.gstate.wtotal \in Nat /\ grown \in Nat
    <3>1. t.gstate.wtotal \in Nat /\ t.gstate.wrate \in Nat /\ now - t.gstate.wat \in Nat
      BY TablesHave DEF GState, TimesOK
    <3>2. QED
      BY <3>1, TimesNat
  <2>5. r.gstate.wtotal = SumOver(WitnessTimes(before), Candidates)
    <3>1. before.gstate.wtotal + before.gstate.wrate * (now - before.gstate.wat)
             = SumOver(WitnessTimes(before), Candidates)
      BY <2>1 DEF WitnessAdds
    <3>2. t.gstate.wtotal + grown = SumOver(WitnessTimes(before), Candidates)
      BY <1>1, <3>1
    <3> HIDE DEF grown
    <3>3. Floored(t.gstate.wtotal, grown + 0) = t.gstate.wtotal + grown
      BY <2>4 DEF Floored
    <3>4. QED
      BY <1>2, <3>2, <3>3
  <2>6. r.gstate.wrate * (now - r.gstate.wat) = 0
    BY <1>2, <1>3, <2>2, <2>3
  <2>7. ASSUME NEW p \in Candidates
        PROVE  TimeOf(before, p) \in Int /\ TimeOf(r, p) = TimeOf(before, p)
    <3>1. CASE before.producers[p] = NoRow
      BY <1>1, <1>4, <3>1 DEF TimeOf
    <3>2. CASE before.producers[p] # NoRow
      <4> DEFINE row == t.producers[p]
                 paid == r.producers[p]
      <4>1. row # NoRow /\ paid # NoRow
        BY <1>1, <1>4, <3>2
      <4>2. LET n == Enlisted(before, t, p)
            IN  /\ row.wshare \in Nat /\ row.wat \in Nat /\ row.wat <= now
                /\ p \in old \ new => n.wshare = row.wshare + 1 * (now - row.wat) /\ n.wat = now
                /\ p \in new \ old => n.wshare = row.wshare + 0 * (now - row.wat) /\ n.wat = now
                /\ ~(p \in old \ new) /\ ~(p \in new \ old) => n = row
        BY <4>1, EnlistedRow
      <4>3. /\ row.wshare \in Nat /\ row.wat \in Nat /\ row.wat <= now
            /\ p \in old \ new => paid.wshare = row.wshare + 1 * (now - row.wat) /\ paid.wat = now
            /\ p \in new \ old => paid.wshare = row.wshare + 0 * (now - row.wat) /\ paid.wat = now
            /\ ~(p \in old \ new) /\ ~(p \in new \ old) => paid = row
        BY <1>2, <4>2
      <4>4. /\ TimeOf(before, p) = row.wshare + (IF p \in old THEN now - row.wat ELSE 0)
            /\ TimeOf(r, p) = paid.wshare + (IF p \in new THEN now - paid.wat ELSE 0)
        BY <1>1, <1>3, <3>2, <4>1 DEF TimeOf
      <4> HIDE DEF row, paid, old, new
      <4>5. CASE p \in old /\ p \in new
        BY <4>3, <4>4, <4>5
      <4>6. CASE p \in old /\ p \notin new
        <5>1. paid.wshare = row.wshare + (now - row.wat)
          BY <4>3, <4>6
        <5>2. QED
          BY <4>3, <4>4, <4>6, <5>1
      <4>7. CASE p \notin old /\ p \in new
        <5>1. paid.wshare = row.wshare /\ paid.wat = now
          BY <4>3, <4>7
        <5>2. QED
          BY <4>3, <4>4, <4>7, <5>1
      <4>8. CASE p \notin old /\ p \notin new
        BY <4>3, <4>4, <4>8
      <4>9. QED
        BY <4>5, <4>6, <4>7, <4>8
    <3>3. QED
      BY <3>1, <3>2
  <2>8. SumOver(WitnessTimes(r), Candidates) = SumOver(WitnessTimes(before), Candidates)
    <3>1. IsFiniteSet(Candidates)
      BY AccountsAssumption, FS_Subset
    <3>2. /\ \A p \in Candidates : WitnessTimes(before)[p] \in Int
          /\ \A p \in Candidates : WitnessTimes(r)[p] = WitnessTimes(before)[p]
      BY <2>7 DEF WitnessTimes
    <3>3. QED
      BY <3>1, <3>2, SumOverAgree
  <2>9. SumOver(WitnessTimes(before), Candidates) \in Int
    <3>1. IsFiniteSet(Candidates)
      BY AccountsAssumption, FS_Subset
    <3>2. \A p \in Candidates : WitnessTimes(before)[p] \in Int
      BY <2>7 DEF WitnessTimes
    <3>3. QED
      BY <3>1, <3>2, SumOverType
  <2>10. r.gstate.wtotal + r.gstate.wrate * (now - r.gstate.wat)
            = SumOver(WitnessTimes(r), Candidates)
    BY <2>5, <2>6, <2>8, <2>9
  <2>11. QED
    BY <2>3, <2>10 DEF WitnessAdds
<1>7. QED
  BY <1>5, <1>6 DEF WitnessInv, r
-----------------------------------------------------------------------------
(* Shares, action by action                                                *)

\* The inductive invariant of the shares, where producers were deactivated n times.
SharesInv(t, n) == VotepayInv(t) /\ (n = 0 => WitnessInv(t))

LEMMA SharesSame ==
  ASSUME NEW t, NEW r, NEW n, SharesInv(t, n),
         r.producers = t.producers, SameTotals(t.gstate, r.gstate),
         r.gstate.weight = t.gstate.weight, t.below => r.below
  PROVE  SharesInv(r, n)
<1>1. VotepayInv(r)
  BY PaysSame DEF SharesInv, Pays
<1>2. Witnesses(r) = Witnesses(t)
  BY SameWitnesses
<1>3. WitnessTimes(r) = WitnessTimes(t)
  BY <1>2 DEF WitnessTimes, TimeOf
<1>4. n = 0 => WitnessInv(r)
  BY <1>2, <1>3 DEF SharesInv, WitnessInv, WitnessAdds, SameTotals
<1>5. QED
  BY <1>1, <1>4 DEF SharesInv

\* The list is updated after the votes were counted again.
LEMMA SharesListed ==
  ASSUME NEW before \in Tables, NEW t \in Tables, NEW n, now \in Nat,
         TimesOK(before), TimesOK(t), SharesInv(before, n), Pays(before, t)
  PROVE  SharesInv(UpdateWitnesses(before, t), n)
<1> DEFINE r == UpdateWitnesses(before, t)
<1>1. Unlisted(before, t) /\ VotepayInv(t)
  BY DEF Pays, SharesInv
<1>2. \A p \in Candidates : before.producers[p] = NoRow <=> t.producers[p] = NoRow
  BY <1>1 DEF Unlisted
<1>3. SameVotepay(t, r)
  BY <1>2, UpdateWitnessesVotepay
<1>4. n = 0 => WitnessInv(r)
  BY <1>1, UpdateWitnessesKeeps DEF SharesInv
<1> HIDE DEF r
<1>5. VotepayInv(r)
  BY <1>1, <1>3, SameVotepayKeeps
<1>6. QED
  BY <1>4, <1>5 DEF SharesInv, r

LEMMA SharesUpdateVotes ==
  ASSUME NEW t \in Tables, NEW a \in Accounts, NEW n, t.voters[a] # NoRow,
         NEW proxy \in Accounts \cup {None}, NEW ps \in SUBSET Candidates,
         proxy # None => t.voters[proxy] # NoRow,
         now \in Nat, TimesOK(t), ProxiesThere(t), SharesInv(t, n)
  PROVE  SharesInv(UpdateVotes(t, a, proxy, ps), n)
<1> DEFINE moved  == MovedTo(t, a, proxy)
           recast == Recount(moved, Delta(t.voters[a], ps), TRUE)
           listed == UpdateWitnesses(t, recast)
           r      == UpdateVotes(t, a, proxy, ps)
<1>1. Chain(t, moved, recast, r, a, proxy, ps)
  BY UpdateVotesChain
<1>2. Pays(t, recast) /\ recast \in Tables
  <2>1. LET u == Recount(MovedTo(t, a, proxy), Delta(t.voters[a], ps), TRUE)
        IN  Pays(t, u) /\ u \in Tables
    BY PaysRecast
  <2>2. QED
    BY <2>1
<1> HIDE DEF moved, recast, r
<1>3. TimesOK(recast)
  BY <1>1 DEF Chain, RecountOf
<1>4. SharesInv(listed, n)
  BY <1>2, <1>3, SharesListed
<1>5. r.producers = listed.producers /\ r.gstate = listed.gstate /\ (recast.below => r.below)
  BY <1>1 DEF Chain
<1>6. listed.below = recast.below
  <2>1. \A p \in Candidates : t.producers[p] = NoRow <=> recast.producers[p] = NoRow
    BY <1>2 DEF Pays, Unlisted
  <2>2. LET s == UpdateWitnesses(t, recast) IN s.below = recast.below
    BY <1>2, <1>3, <2>1, UpdateWitnessesFacts
  <2>3. QED
    BY <2>2
<1> HIDE DEF listed
<1>7. SharesInv(r, n)
  BY <1>4, <1>5, <1>6, SharesSame DEF SameTotals
<1>8. QED
  BY <1>7 DEF r

LEMMA SharesTaken ==
  ASSUME NEW n, NEW r \in Tables, SharesInv(r, gone' + n), now' = now,
         producers' = r.producers, gstate' = r.gstate, below' = r.below
  PROVE  SharesInv(VotingTables, gone + n)'
<1> DEFINE t == VotingTables
<1>1. t'.producers = r.producers /\ t'.gstate = r.gstate /\ t'.below = r.below
  BY DEF VotingTables
<1> HIDE DEF t
<1>2. VotesOf(t)' = VotesOf(r)
  BY <1>1 DEF VotesOf, VoteOf
<1>3. PastsOf(t)' = PastsOf(r)
  BY <1>1 DEF PastsOf, PastOf, GrownVotepay
<1>4. VotepayTimes(t)'
  BY <1>1 DEF SharesInv, VotepayInv, VotepayTimes, Since
<1>5. VotepayInv(t)'
  BY <1>1, <1>2, <1>3, <1>4 DEF SharesInv, VotepayInv, VotepayAdds
<1>6. Witnesses(t') = Witnesses(r)
  BY <1>1, SameWitnesses
<1>7. WitnessTimes(t)' = WitnessTimes(r)
  BY <1>1, <1>6 DEF WitnessTimes, TimeOf
<1>8. gone' + n = 0 => WitnessInv(t)'
  BY <1>1, <1>6, <1>7 DEF SharesInv, WitnessInv, WitnessAdds
<1>9. QED
  BY <1>5, <1>8 DEF SharesInv, t

\* Producers end their term, or take it up again while nobody ended any.
LEMMA EndedShares ==
  ASSUME NEW t \in Tables, NEW rows \in ProducerTable, NEW n, VotepayInv(t),
         \A p \in Candidates : rows[p] = NoRow <=> t.producers[p] = NoRow,
         \A p \in Candidates : t.producers[p] # NoRow =>
             /\ rows[p].votes = t.producers[p].votes /\ rows[p].claimed = t.producers[p].claimed
             /\ rows[p].vshare = t.producers[p].vshare /\ rows[p].vat = t.producers[p].vat,
         n # 0
  PROVE  SharesInv([t EXCEPT !.producers = rows], n)
<1> DEFINE r == [t EXCEPT !.producers = rows]
<1>1. r.producers = rows /\ r.gstate = t.gstate /\ r.below = t.below
  BY DEF Tables
<1> HIDE DEF r
<1>2. SameVotepay(t, r)
  BY <1>1 DEF SameVotepay
<1>3. VotepayInv(r)
  BY <1>2, SameVotepayKeeps
<1>4. QED
  BY <1>3 DEF SharesInv, r

\* A row that only its standing changes.
LEMMA StandingRow ==
  ASSUME NEW table \in ProducerTable, NEW p \in Candidates, NEW active \in BOOLEAN,
         table[p] # NoRow
  PROVE  LET rows == [table EXCEPT ![p].active = active]
         IN  /\ rows \in ProducerTable
             /\ \A q \in Candidates : rows[q] = NoRow <=> table[q] = NoRow
             /\ \A q \in Candidates : table[q] # NoRow =>
                   /\ rows[q].votes = table[q].votes /\ rows[q].claimed = table[q].claimed
                   /\ rows[q].vshare = table[q].vshare /\ rows[q].vat = table[q].vat
             /\ (table[p].active = active) => rows = table
<1> DEFINE row == table[p]
           new == [row EXCEPT !.active = active]
           rows == [table EXCEPT ![p] = new]
<1>1. [table EXCEPT ![p].active = active] = rows
  BY DEF ProducerTable
<1>2. row \in ProducerRow
  BY DEF ProducerTable
<1>3. row.active = active => new = row
  <2> HIDE DEF row
  <2>1. QED
    BY <1>2 DEF ProducerRow
<1>4. /\ new \in ProducerRow
      /\ new.votes = row.votes /\ new.claimed = row.claimed
      /\ new.vshare = row.vshare /\ new.vat = row.vat
  <2> HIDE DEF row
  <2>1. QED
    BY <1>2 DEF ProducerRow
<1>5. new # NoRow
  BY <1>4, VotingRowsAssumption
<1> HIDE DEF new
<1>6. /\ rows \in ProducerTable /\ rows[p] = new
      /\ \A q \in Candidates \ {p} : rows[q] = table[q]
  BY <1>4 DEF ProducerTable
<1>7. new = row => rows = table
  BY DEF ProducerTable
<1> HIDE DEF rows
<1>8. QED
  BY <1>1, <1>3, <1>4, <1>5, <1>6, <1>7

\* A producer that registers has neither votes nor shares, and is no witness.
LEMMA NewProducerShares ==
  ASSUME NEW t \in Tables, NEW r \in Tables, NEW p \in Candidates, NEW n, now \in Nat,
         SharesInv(t, n), t.producers[p] = NoRow,
         r.producers[p] = [votes |-> 0, active |-> TRUE, claimed |-> now,
                           vshare |-> 0, vat |-> now, wshare |-> 0, wat |-> now],
         \A q \in Candidates \ {p} : r.producers[q] = t.producers[q],
         r.gstate = t.gstate, r.below = t.below
  PROVE  SharesInv(r, n)
<1> DEFINE row == r.producers[p]
<1>1. /\ row \in ProducerRow /\ row # NoRow
      /\ row.votes = 0 /\ row.active = TRUE /\ row.claimed = now
      /\ row.vshare = 0 /\ row.vat = now /\ row.wshare = 0 /\ row.wat = now
  <2> DEFINE new == [votes |-> 0, active |-> TRUE, claimed |-> now,
                     vshare |-> 0, vat |-> now, wshare |-> 0, wat |-> now]
  <2>1. /\ new \in ProducerRow
        /\ new.votes = 0 /\ new.active = TRUE /\ new.claimed = now
        /\ new.vshare = 0 /\ new.vat = now /\ new.wshare = 0 /\ new.wat = now
    BY DEF ProducerRow
  <2>2. row = new
    OBVIOUS
  <2> HIDE DEF new, row
  <2>3. QED
    BY <2>1, <2>2, ShareTypes
<1> HIDE DEF row
<1>2. VotesOf(r) = VotesOf(t) /\ PastsOf(r) = PastsOf(t)
  <2>1. VoteOf(row) = 0 /\ PastOf(row) = 0
    BY <1>1 DEF VoteOf, PastOf, GrownVotepay
  <2>2. VoteOf(t.producers[p]) = 0 /\ PastOf(t.producers[p]) = 0
    BY DEF VoteOf, PastOf
  <2>3. ASSUME NEW q \in Candidates
        PROVE  /\ VoteOf(r.producers[q]) = VoteOf(t.producers[q])
               /\ PastOf(r.producers[q]) = PastOf(t.producers[q])
    BY <2>1, <2>2 DEF row
  <2>4. QED
    BY <2>3 DEF VotesOf, PastsOf
<1>3. VotepayTimes(r)
  BY <1>1 DEF SharesInv, VotepayInv, VotepayTimes, Since, row
<1>4. ~r.below => VotepayAdds(r)
  <2> SUFFICES ASSUME ~r.below PROVE VotepayAdds(r)
    OBVIOUS
  <2>1. VotepayAdds(t)
    BY DEF SharesInv, VotepayInv
  <2>2. \A q \in Candidates : r.producers[q] # NoRow => r.producers[q].votes >= 0
    BY <1>1, <2>1 DEF VotepayAdds, row
  <2>3. QED
    BY <1>2, <2>1, <2>2 DEF VotepayAdds
<1>5. ASSUME n = 0 PROVE WitnessInv(r)
  <2>1. WitnessInv(t)
    BY <1>5 DEF SharesInv
  <2>2. \A q \in Candidates : r.producers[q] # NoRow => r.producers[q].active
    BY <1>1, <2>1 DEF WitnessInv, row
  <2>3. ASSUME ~r.below PROVE WitnessAdds(r)
    <3>1. \A q \in Candidates : t.producers[q] # NoRow => t.producers[q].votes >= 0
      BY <2>3 DEF SharesInv, VotepayInv, VotepayAdds
    <3>2. WitnessAdds(t)
      BY <2>1, <2>3 DEF WitnessInv
    <3>3. t.gstate.weight \in Int /\ WitnessPart \in Nat \ {0}
      BY TablesHave, VotingBoundsAssumption DEF GState
    <3>4. Registered(r) = Registered(t) \cup {p} /\ p \notin Registered(t)
      BY <1>1 DEF Registered, row
    <3>5. ~Qualifies(r, p)
      BY <1>1, <3>3 DEF Qualifies, HasPart, row
    <3>6. ASSUME NEW q \in Registered(t)
          PROVE  /\ Ahead(t, q) = Ahead(r, q) \ {p}
                 /\ \A x \in Registered(t) : Qualifies(r, x) <=> Qualifies(t, x)
      <4>1. \A x \in Registered(t) : r.producers[x] = t.producers[x]
        BY <3>4 DEF Registered
      <4>2. \A x \in Registered(t) : Precedes(r, x, q) <=> Precedes(t, x, q)
        BY <4>1 DEF Precedes
      <4>3. QED
        BY <3>4, <4>1, <4>2 DEF Ahead, Qualifies
    <3>7. ASSUME NEW q \in Registered(t), Qualifies(t, q) PROVE p \notin Ahead(r, q)
      <4>1. /\ r.producers[q] = t.producers[q] /\ t.producers[q] \in ProducerRow
            /\ t.producers[q].active
        BY <3>4, <3>7, TablesHave DEF Registered, Qualifies
      <4>2. t.producers[q].votes \in Nat
        BY <3>1, <4>1, ShareTypes DEF Registered
      <4>3. t.producers[q].votes # 0
        BY <3>3, <3>7 DEF Qualifies, HasPart
      <4>4. ByVotes(r.producers[q]) < ByVotes(row)
        BY <1>1, <4>1, <4>2, <4>3 DEF ByVotes
      <4>5. ~Precedes(r, p, q)
        BY <1>1, <4>1, <4>2, <4>4 DEF Precedes, ByVotes, row
      <4>6. QED
        BY <4>5 DEF Ahead
    <3>8. Witnesses(r) = Witnesses(t)
      <4>1. ASSUME NEW q \in Witnesses(r) PROVE q \in Witnesses(t)
        <5>1. /\ q \in Registered(r) /\ Cardinality(Ahead(r, q)) < MaxWitness
              /\ \A x \in Ahead(r, q) \cup {q} : Qualifies(r, x)
          BY DEF Witnesses
        <5>2. q \in Registered(t) /\ p \notin Ahead(r, q)
          BY <3>4, <3>5, <5>1
        <5>3. Ahead(t, q) = Ahead(r, q)
          BY <3>6, <5>2
        <5>4. Ahead(t, q) \cup {q} \subseteq Registered(t)
          BY <5>2 DEF Ahead
        <5>5. \A x \in Ahead(t, q) \cup {q} : Qualifies(t, x)
          BY <3>6, <5>1, <5>2, <5>3, <5>4
        <5>6. QED
          BY <5>1, <5>2, <5>3, <5>5 DEF Witnesses
      <4>2. ASSUME NEW q \in Witnesses(t) PROVE q \in Witnesses(r)
        <5>1. /\ q \in Registered(t) /\ Cardinality(Ahead(t, q)) < MaxWitness
              /\ \A x \in Ahead(t, q) \cup {q} : Qualifies(t, x)
          BY DEF Witnesses
        <5>2. p \notin Ahead(r, q)
          BY <3>7, <5>1
        <5>3. Ahead(t, q) = Ahead(r, q)
          BY <3>6, <5>1, <5>2
        <5>4. Ahead(t, q) \cup {q} \subseteq Registered(t)
          BY <5>1 DEF Ahead
        <5>5. \A x \in Ahead(r, q) \cup {q} : Qualifies(r, x)
          BY <3>6, <5>1, <5>3, <5>4
        <5>6. q \in Registered(r)
          BY <3>4, <5>1
        <5>7. QED
          BY <5>1, <5>3, <5>5, <5>6 DEF Witnesses
      <4>3. QED
        BY <4>1, <4>2
    <3>9. p \notin Witnesses(t)
      BY WitnessesType
    <3>10. ASSUME NEW q \in Candidates PROVE TimeOf(r, q) = TimeOf(t, q)
      <4>1. CASE q = p
        BY <1>1, <3>8, <3>9, <4>1 DEF TimeOf, row
      <4>2. CASE q # p
        BY <3>8, <4>2 DEF TimeOf
      <4>3. QED
        BY <4>1, <4>2
    <3>11. WitnessTimes(r) = WitnessTimes(t)
      BY <3>10 DEF WitnessTimes
    <3>12. QED
      BY <3>2, <3>8, <3>11 DEF WitnessAdds
  <2>4. QED
    BY <2>2, <2>3 DEF WitnessInv
<1>6. QED
  BY <1>3, <1>4, <1>5 DEF SharesInv, VotepayInv

LEMMA RegProducerShares ==
  ASSUME NEW n \in Nat, VotingInv, SharesInv(VotingTables, gone + n),
         NEW p \in Candidates, RegProducer(p)
  PROVE  SharesInv(VotingTables, gone + n)'
<1> DEFINE t == VotingTables
           rows == producers'
           r == [t EXCEPT !.producers = rows]
<1>1. /\ t \in Tables /\ t.producers = producers /\ t.gstate = gstate /\ t.below = below
      /\ now \in Nat /\ producers \in ProducerTable
  BY InvOfTables, TablesHave DEF TablesInv
<1>2. /\ gstate' = gstate /\ below' = below /\ gone' = gone /\ now' = now
  BY DEF RegProducer
<1>3. CASE producers[p] = NoRow
  <2> DEFINE new == [votes |-> 0, active |-> TRUE, claimed |-> now,
                     vshare |-> 0, vat |-> now, wshare |-> 0, wat |-> now]
  <2>1. rows = [producers EXCEPT ![p] = new]
    BY <1>3 DEF RegProducer
  <2>2. new \in ProducerRow
    BY <1>1 DEF ProducerRow
  <2> HIDE DEF new, rows, t
  <2>3. /\ rows \in ProducerTable /\ rows[p] = new
        /\ \A q \in Candidates \ {p} : rows[q] = producers[q]
    BY <1>1, <2>1, <2>2 DEF ProducerTable
  <2>4. /\ r \in Tables /\ r.producers = rows /\ r.gstate = t.gstate /\ r.below = t.below
    BY <1>1, <2>3 DEF Tables
  <2> HIDE DEF r
  <2>5. SharesInv(r, gone + n)
    <3>1. /\ t.producers[p] = NoRow /\ SharesInv(t, gone + n)
          /\ r.producers[p] = [votes |-> 0, active |-> TRUE, claimed |-> now,
                               vshare |-> 0, vat |-> now, wshare |-> 0, wat |-> now]
          /\ \A q \in Candidates \ {p} : r.producers[q] = t.producers[q]
      BY <1>1, <1>3, <2>3, <2>4 DEF t, new
    <3>2. QED
      BY <1>1, <2>4, <3>1, NewProducerShares
  <2>6. r.producers = producers' /\ r.gstate = gstate' /\ r.below = below' /\ SharesInv(r, gone' + n)
    BY <1>1, <1>2, <2>4, <2>5 DEF rows
  <2>7. QED
    BY <1>2, <2>4, <2>6, SharesTaken
<1>4. CASE producers[p] # NoRow
  <2>1. rows = [producers EXCEPT ![p].active = TRUE]
    BY <1>1, <1>4 DEF RegProducer, ProducerTable
  <2>2. /\ rows \in ProducerTable
        /\ \A q \in Candidates : rows[q] = NoRow <=> producers[q] = NoRow
        /\ \A q \in Candidates : producers[q] # NoRow =>
              /\ rows[q].votes = producers[q].votes /\ rows[q].claimed = producers[q].claimed
              /\ rows[q].vshare = producers[q].vshare /\ rows[q].vat = producers[q].vat
        /\ producers[p].active = TRUE => rows = producers
    <3> DEFINE new == [producers EXCEPT ![p].active = TRUE]
    <3> HIDE DEF rows
    <3>1. /\ new \in ProducerTable
          /\ \A q \in Candidates : new[q] = NoRow <=> producers[q] = NoRow
          /\ \A q \in Candidates : producers[q] # NoRow =>
                /\ new[q].votes = producers[q].votes /\ new[q].claimed = producers[q].claimed
                /\ new[q].vshare = producers[q].vshare /\ new[q].vat = producers[q].vat
          /\ (producers[p].active = TRUE) => new = producers
      <4>1. producers \in ProducerTable /\ producers[p] # NoRow /\ TRUE \in BOOLEAN
        BY <1>1, <1>4
      <4>2. QED
        BY <4>1, StandingRow
    <3>2. rows = new
      BY <2>1
    <3> HIDE DEF new
    <3>3. QED
      BY <3>1, <3>2
  <2> HIDE DEF rows, t
  <2>3. /\ r \in Tables /\ r.producers = rows /\ r.gstate = t.gstate /\ r.below = t.below
    BY <1>1, <2>2 DEF Tables
  <2>4. SharesInv(r, gone + n)
    <3>1. CASE gone + n = 0
      <4>1. producers[p].active
        BY <1>1, <1>4, <3>1 DEF SharesInv, WitnessInv, t
      <4>2. producers[p].active = TRUE
        BY <1>1, <1>4, <4>1, TablesHave, ShareTypes
      <4>3. r.producers = t.producers
        BY <1>1, <2>2, <2>3, <4>2
      <4> HIDE DEF r
      <4>4. QED
        BY <2>3, <4>3, SharesSame DEF SameTotals, t
    <3>2. CASE gone + n # 0
      <4>1. VotepayInv(t)
        BY DEF SharesInv, t
      <4>2. QED
        BY <1>1, <2>2, <3>2, <4>1, EndedShares
    <3>3. QED
      BY <3>1, <3>2
  <2> HIDE DEF r
  <2>5. r.producers = producers' /\ r.gstate = gstate' /\ r.below = below' /\ SharesInv(r, gone' + n)
    BY <1>1, <1>2, <2>3, <2>4 DEF rows
  <2>6. QED
    BY <1>2, <2>3, <2>5, SharesTaken
<1>5. QED
  BY <1>3, <1>4

LEMMA DeactivateShares ==
  ASSUME NEW n \in Nat, VotingInv, SharesInv(VotingTables, gone + n),
         NEW p \in Candidates, Deactivate(p)
  PROVE  SharesInv(VotingTables, gone + n)'
<1> DEFINE t == VotingTables
           rows == [producers EXCEPT ![p].active = FALSE]
           r == [t EXCEPT !.producers = rows]
<1>1. /\ t \in Tables /\ t.producers = producers /\ t.gstate = gstate /\ t.below = below
      /\ now \in Nat /\ producers \in ProducerTable /\ gone \in Nat
  BY InvOfTables, TablesHave, VotingBoundsAssumption DEF TablesInv
<1>2. /\ producers[p] # NoRow /\ producers' = rows /\ gone' = gone + 1
      /\ gstate' = gstate /\ below' = below /\ now' = now
  BY DEF Deactivate
<1>3. /\ rows \in ProducerTable
      /\ \A q \in Candidates : rows[q] = NoRow <=> producers[q] = NoRow
      /\ \A q \in Candidates : producers[q] # NoRow =>
            /\ rows[q].votes = producers[q].votes /\ rows[q].claimed = producers[q].claimed
            /\ rows[q].vshare = producers[q].vshare /\ rows[q].vat = producers[q].vat
      /\ (producers[p].active = FALSE) => rows = producers
  <2>1. producers \in ProducerTable /\ producers[p] # NoRow /\ FALSE \in BOOLEAN
    BY <1>1, <1>2
  <2>2. QED
    BY <2>1, StandingRow
<1> HIDE DEF rows, t
<1>4. r \in Tables /\ r.producers = rows /\ r.gstate = t.gstate /\ r.below = t.below
  BY <1>1, <1>3 DEF Tables
<1>5. SharesInv(r, gone' + n)
  <2>1. VotepayInv(t) /\ gone' + n # 0
    BY <1>1, <1>2 DEF SharesInv, t
  <2>2. QED
    BY <1>1, <1>3, <2>1, EndedShares
<1> HIDE DEF r
<1>6. r.producers = producers' /\ r.gstate = gstate' /\ r.below = below'
  BY <1>1, <1>2, <1>4
<1>7. QED
  BY <1>2, <1>4, <1>5, <1>6, SharesTaken

LEMMA RegNewProxyShares ==
  ASSUME NEW n \in Nat, VotingInv, SharesInv(VotingTables, gone + n),
         NEW a \in Accounts, NEW isproxy \in BOOLEAN,
         RegNewProxy(a, isproxy)
  PROVE  SharesInv(VotingTables, gone + n)'
<1>1. VotingTables \in Tables
  BY InvOfTables DEF TablesInv
<1>2. /\ VotingTables.producers = producers' /\ VotingTables.gstate = gstate'
      /\ VotingTables.below = below' /\ now' = now /\ gone' = gone
  BY DEF RegNewProxy, VotingTables
<1>3. SharesInv(VotingTables, gone' + n)
  BY <1>2
<1>4. QED
  BY <1>1, <1>2, <1>3, SharesTaken

LEMMA RegProxyShares ==
  ASSUME NEW n \in Nat, VotingInv, SharesInv(VotingTables, gone + n),
         NEW a \in Accounts, NEW isproxy \in BOOLEAN,
         RegProxy(a, isproxy)
  PROVE  SharesInv(VotingTables, gone + n)'
<1> DEFINE t      == VotingTables
           row    == voters[a]
           new    == [row EXCEPT !.is_proxy = isproxy]
           marked == [t EXCEPT !.voters = [t.voters EXCEPT ![a] = new]]
           passed == Propagate(marked, a)
           r      == UpdateWitnesses(t, passed)
<1>1. TablesInv(t) /\ t \in Tables /\ TimesOK(t) /\ now \in Nat /\ t.voters = voters
  BY InvOfTables DEF TablesInv
<1>2. row # NoRow /\ row \in VoterRow
  BY <1>1, TablesHave DEF RegProxy
<1>3. row.proxy = None
  <2>1. CASE isproxy
    BY <2>1 DEF RegProxy
  <2>2. CASE ~isproxy
    <3>1. row.is_proxy
      BY <1>2, <2>2, RowType DEF RegProxy
    <3>2. a \notin Users(t)
      BY <1>1, <3>1 DEF TablesInv, ProxiesEndOf
    <3>3. QED
      BY <1>1, <1>2, <3>2 DEF Users
  <2>3. QED
    BY <2>1, <2>2
<1>4. CommitVotes(r) /\ gone' = gone
  <2>1. marked = [t EXCEPT !.voters = [t.voters EXCEPT ![a].is_proxy = isproxy]]
    BY <1>1 DEF Tables, VoterTable
  <2> HIDE DEF marked
  <2>2. QED
    BY <2>1 DEF RegProxy
<1>5. new \in VoterRow /\ new.proxy = None /\ new # NoRow
  <2>1. new \in VoterRow /\ new.proxy = None
    BY <1>2, <1>3 DEF VoterRow
  <2>2. QED
    BY <2>1, RowType
<1>6. SharesInv(t, gone + n)
  OBVIOUS
<1> HIDE DEF new, t
<1>7. OneRow(t, marked, a, new) /\ marked.below = t.below /\ TimesOK(marked)
  BY <1>1, <1>2, <1>3, <1>5, OtherRow
<1> HIDE DEF marked
<1>8. /\ marked \in Tables /\ marked.voters[a] = new /\ marked.producers = t.producers
      /\ marked.gstate = t.gstate
  BY <1>7 DEF OneRow
<1>9. Alike(marked, passed) /\ Pays(marked, passed)
  <2>1. LET b == marked.voters[a].proxy IN b # None => b # a /\ marked.voters[b] # NoRow
    BY <1>5, <1>8
  <2>2. LET s == Propagate(marked, a) IN Alike(marked, s) /\ Pays(marked, s)
    BY <1>1, <1>5, <1>7, <1>8, <2>1, PropagateFacts, PaysPropagate
  <2>3. QED
    BY <2>2
<1> HIDE DEF passed
<1>10. Pays(t, passed)
  <2>1. Pays(t, marked)
    BY <1>7, <1>8, PaysSame DEF SameTotals
  <2>2. QED
    BY <1>9, <2>1, PaysTrans
<1>11. passed \in Tables /\ TimesOK(passed)
  BY <1>9 DEF Alike
<1>12. SharesInv(r, gone + n) /\ r \in Tables
  <2>1. SharesInv(r, gone + n)
    BY <1>1, <1>6, <1>10, <1>11, SharesListed
  <2>2. \A p \in Candidates : t.producers[p] = NoRow <=> passed.producers[p] = NoRow
    BY <1>10 DEF Pays, Unlisted
  <2>3. LET s == UpdateWitnesses(t, passed) IN Alike(passed, s)
    BY <1>1, <1>11, <2>2, UpdateWitnessesFacts
  <2>4. r \in Tables
    BY <2>3 DEF Alike
  <2>5. QED
    BY <2>1, <2>4
<1> HIDE DEF r
<1>13. /\ r.producers = producers' /\ r.gstate = gstate' /\ r.below = below' /\ now' = now
       /\ SharesInv(r, gone' + n)
  BY <1>4, <1>12 DEF CommitVotes
<1>14. QED
  BY <1>12, <1>13, SharesTaken

LEMMA VoteProducerShares ==
  ASSUME NEW n \in Nat, VotingInv, SharesInv(VotingTables, gone + n), NEW a \in Accounts,
         NEW proxy \in Accounts \cup {None}, NEW ps \in SUBSET Candidates,
         VoteProducer(a, proxy, ps)
  PROVE  SharesInv(VotingTables, gone + n)'
<1> DEFINE t == VotingTables
           u == UpdateVotes(t, a, proxy, ps)
           r == CountUnpaid(u, a)
<1>1. TablesInv(t) /\ t \in Tables /\ TimesOK(t) /\ now \in Nat /\ SharesInv(t, gone + n)
  BY InvOfTables DEF TablesInv
<1>2. CanUpdateVotes(t, a, proxy, ps, TRUE) /\ CommitVotes(r) /\ gone' = gone
  BY DEF VoteProducer
<1> HIDE DEF t
<1>3. /\ t.voters[a] # NoRow
      /\ proxy # None => /\ proxy # a /\ t.voters[proxy] # NoRow
                         /\ t.voters[proxy].is_proxy /\ ~t.voters[a].is_proxy
  BY <1>2 DEF CanUpdateVotes
<1>4. ProxiesThere(t)
  BY <1>1, EndIsThere DEF TablesInv
<1>5. Recast(t, u, a, proxy, ps)
  BY <1>1, <1>3, <1>4, UpdateVotesFacts
<1>6. SharesInv(u, gone + n)
  BY <1>1, <1>3, <1>4, SharesUpdateVotes
<1> HIDE DEF u
<1>7. TablesInv(u) /\ u.voters[a] # NoRow
  <2>1. ProxiesEndOf(u)
    BY <1>1, <1>3, <1>5, RecastEnds DEF TablesInv
  <2>2. \A x \in Accounts : Follows(u, x)
    BY <1>1, <1>5 DEF TablesInv, Recast, Follows
  <2>3. QED
    BY <1>5, <2>1, <2>2, RowType DEF TablesInv, Recast
<1>8. r \in Tables
  BY <1>7, CountUnpaidFacts DEF TablesInv
<1>9. /\ r.producers = u.producers /\ r.below = u.below
      /\ SameTotals(u.gstate, r.gstate) /\ r.gstate.weight = u.gstate.weight
  <2> DEFINE power == VotePower(u.voters[a])
             m == u.gstate.unpaid + power
             g == [u.gstate EXCEPT !.unpaid = m]
             v == [u.voters EXCEPT ![a].unpaid = u.voters[a].unpaid + power]
  <2>1. r = [u EXCEPT !.voters = v, !.gstate = g]
    BY DEF CountUnpaid
  <2>2. u \in Tables /\ u.gstate \in GState
    BY <1>7, TablesHave DEF TablesInv
  <2> HIDE DEF m, v, r
  <2>3. SameTotals(u.gstate, g) /\ g.weight = u.gstate.weight
    BY <2>2 DEF GState, SameTotals
  <2> HIDE DEF g
  <2>4. r.producers = u.producers /\ r.below = u.below /\ r.gstate = g
    BY <2>1, <2>2 DEF Tables
  <2>5. QED
    BY <2>3, <2>4
<1> HIDE DEF r
<1>10. SharesInv(r, gone' + n)
  BY <1>2, <1>6, <1>9, SharesSame
<1>11. r.producers = producers' /\ r.gstate = gstate' /\ r.below = below' /\ now' = now
  BY <1>2 DEF CommitVotes
<1>12. QED
  BY <1>8, <1>10, <1>11, SharesTaken

LEMMA UpdateVotingPowerShares ==
  ASSUME NEW n \in Nat, NEW t, TablesInv(t), now \in Nat, SharesInv(t, gone' + n),
         NEW a \in Accounts, NEW stake \in Nat, UpdateVotingPower(t, a, stake)
  PROVE  SharesInv(VotingTables, gone + n)'
<1> DEFINE old   == IF t.voters[a] = NoRow THEN NewVoter(0) ELSE t.voters[a]
           row   == [old EXCEPT !.staked = stake]
           grown == [t EXCEPT !.voters = [t.voters EXCEPT ![a] = row]]
           votes == row.producers # {} \/ row.proxy # None
           r     == IF votes THEN UpdateVotes(grown, a, row.proxy, row.producers) ELSE grown
<1>1. /\ votes => CanUpdateVotes(grown, a, row.proxy, row.producers, FALSE)
      /\ CommitVotes(r)
  BY DEF UpdateVotingPower
<1>2. old \in VoterRow /\ (t.voters[a] = NoRow => old.proxy = None)
  BY TablesHave, NewVoterType DEF TablesInv
<1>3. t.voters[a] # NoRow => old = t.voters[a]
  OBVIOUS
<1> HIDE DEF old
<1>4. row \in VoterRow /\ row.proxy = old.proxy /\ row.is_proxy = old.is_proxy
  BY <1>2 DEF VoterRow
<1>5. row.proxy \in Accounts \cup {None} /\ row.producers \in SUBSET Candidates /\ row # NoRow
  BY <1>4, RowType
<1> HIDE DEF row
<1>6. /\ OneRow(t, grown, a, row) /\ TimesOK(grown) /\ ProxiesEndOf(grown)
      /\ grown.below = t.below
  BY <1>2, <1>3, <1>4, OtherRow
<1> HIDE DEF grown
<1>7. /\ grown \in Tables /\ grown.voters[a] = row /\ grown.producers = t.producers
      /\ grown.gstate = t.gstate
  BY <1>6 DEF OneRow
<1>8. SharesInv(grown, gone' + n)
  BY <1>6, <1>7, SharesSame DEF SameTotals
<1>9. SharesInv(r, gone' + n) /\ r \in Tables
  <2>1. CASE votes
    <3> DEFINE u == UpdateVotes(grown, a, row.proxy, row.producers)
    <3>1. row.proxy # None => grown.voters[row.proxy] # NoRow
      BY <1>1, <2>1 DEF CanUpdateVotes
    <3>2. ProxiesThere(grown)
      BY <1>6, <1>7, EndIsThere
    <3>3. Recast(grown, u, a, row.proxy, row.producers)
      BY <1>5, <1>6, <1>7, <3>1, <3>2, UpdateVotesFacts
    <3>4. SharesInv(u, gone' + n)
      BY <1>5, <1>6, <1>7, <1>8, <3>1, <3>2, SharesUpdateVotes
    <3> HIDE DEF u
    <3>5. u \in Tables
      BY <3>3 DEF Recast
    <3>6. QED
      BY <2>1, <3>4, <3>5 DEF u
  <2>2. CASE ~votes
    BY <1>7, <1>8, <2>2
  <2>3. QED
    BY <2>1, <2>2
<1> HIDE DEF r
<1>10. r.producers = producers' /\ r.gstate = gstate' /\ r.below = below' /\ now' = now
  BY <1>1 DEF CommitVotes
<1>11. QED
  BY <1>9, <1>10, SharesTaken

LEMMA DelegateShares ==
  ASSUME NEW n \in Nat, VotingInv, SharesInv(VotingTables, gone + n), NEW a \in Accounts,
         NEW stake \in Stakes[a], Delegate(a, stake)
  PROVE  SharesInv(VotingTables, gone + n)'
<1>1. TablesInv(VotingTables) /\ now \in Nat
  BY InvOfTables
<1>2. UpdateVotingPower(VotingTables, a, stake) /\ gone' = gone
  BY DEF Delegate
<1>3. stake \in Nat /\ SharesInv(VotingTables, gone' + n)
  BY <1>2, VotingBoundsAssumption
<1>4. QED
  BY <1>1, <1>2, <1>3, UpdateVotingPowerShares

LEMMA UndelegateShares ==
  ASSUME NEW n \in Nat, VotingInv, SharesInv(VotingTables, gone + n), NEW a \in Accounts,
         NEW stake \in Stakes[a], Undelegate(a, stake)
  PROVE  SharesInv(VotingTables, gone + n)'
<1> DEFINE t     == VotingTables
           big   == voters[a].staked > FreeStake
           rows  == [t.producers EXCEPT ![a].active = FALSE]
           ended == [t EXCEPT !.producers = rows]
           from  == IF big THEN ended ELSE t
<1>1. /\ TablesInv(t) /\ t \in Tables /\ now \in Nat /\ t.producers = producers /\ gone \in Nat
      /\ SharesInv(t, gone + n)
  BY InvOfTables, VotingBoundsAssumption DEF TablesInv
<1>2. /\ UpdateVotingPower(from, a, stake)
      /\ big => a \in Candidates /\ producers[a] # NoRow
      /\ gone' = IF big THEN gone + 1 ELSE gone
  BY DEF Undelegate
<1>3. stake \in Nat
  BY VotingBoundsAssumption
<1> HIDE DEF t, big
<1>4. TablesInv(from) /\ SharesInv(from, gone' + n)
  <2>1. CASE big
    <3>1. /\ t.producers \in ProducerTable /\ a \in Candidates /\ t.producers[a] # NoRow
          /\ \A q \in Candidates : t.producers[q] # NoRow => Dated(t.producers[q])
      BY <1>1, <1>2, <2>1, TablesHave DEF TablesInv, TimesOK
    <3>2. /\ rows \in ProducerTable
          /\ \A q \in Candidates : rows[q] # NoRow => Dated(rows[q])
      BY <3>1, EndedTable
    <3>3. /\ \A q \in Candidates : rows[q] = NoRow <=> t.producers[q] = NoRow
          /\ \A q \in Candidates : t.producers[q] # NoRow =>
                /\ rows[q].votes = t.producers[q].votes /\ rows[q].claimed = t.producers[q].claimed
                /\ rows[q].vshare = t.producers[q].vshare /\ rows[q].vat = t.producers[q].vat
      BY <3>1, StandingRow
    <3> HIDE DEF rows
    <3>4. TablesInv(ended)
      BY <1>1, <3>2, OtherProducers
    <3>5. VotepayInv(t) /\ gone' + n # 0
      BY <1>1, <1>2, <2>1 DEF SharesInv
    <3>6. SharesInv(ended, gone' + n)
      BY <1>1, <3>2, <3>3, <3>5, EndedShares
    <3> HIDE DEF ended
    <3>7. QED
      BY <2>1, <3>4, <3>6
  <2>2. CASE ~big
    BY <1>1, <1>2, <2>2
  <2>3. QED
    BY <2>1, <2>2
<1> HIDE DEF from
<1>5. QED
  BY <1>1, <1>2, <1>3, <1>4, UpdateVotingPowerShares

LEMMA OneMore ==
  ASSUME NEW i \in Int, NEW k \in Int
  PROVE  i * (k + 1) = i * k + i /\ i * k \in Int
OBVIOUS

\* Time passes: the total grows at the rate, and every share that counts by what it grows.
LEMMA TickShares ==
  ASSUME NEW n \in Nat, VotingInv, SharesInv(VotingTables, gone + n), VotingTick
  PROVE  SharesInv(VotingTables, gone + n)'
<1> DEFINE t == VotingTables
           w == Witnesses(t)
<1>1. t \in Tables /\ now \in Nat /\ TimesOK(t) /\ SharesInv(t, gone + n)
  BY InvOfTables DEF TablesInv
<1>2. t' = t /\ now' = now + 1 /\ gone' = gone
  BY DEF VotingTick, VotingTables
<1> HIDE DEF t
<1>3. VotepayTimes(t) /\ (~t.below => VotepayAdds(t)) /\ (gone + n = 0 => WitnessInv(t))
  BY <1>1 DEF SharesInv, VotepayInv
<1>4. /\ IsFiniteSet(Candidates)
      /\ \A p \in Candidates : VotesOf(t)[p] \in Int /\ PastsOf(t)[p] \in Int
      /\ t.gstate.vrate \in Int /\ t.gstate.vtotal \in Int /\ now - t.gstate.vat \in Nat
  BY <1>1, <1>3, PastTypes
<1>5. VotepayTimes(t)'
  <2>1. t.gstate.vat <= now + 1
    <3>1. t.gstate.vat \in Nat /\ t.gstate.vat <= now
      BY <1>1, <1>3, TablesHave DEF GState, VotepayTimes
    <3>2. QED
      BY <1>1, <3>1
  <2>2. ASSUME NEW p \in Candidates, t.producers[p] # NoRow
        PROVE  /\ t.producers[p].vat <= now + 1 /\ t.producers[p].vshare >= 0
               /\ UpdatedAfter(t.producers[p]) => t.producers[p].vshare = 0
    <3>1. Since(t.producers[p]) /\ t.producers[p] \in ProducerRow
      BY <1>1, <1>3, <2>2, TablesHave DEF VotepayTimes
    <3>2. QED
      BY <1>1, <3>1, ShareTypes DEF Since
  <2>3. QED
    BY <1>2, <2>1, <2>2 DEF VotepayTimes, Since, UpdatedAfter
<1>6. ASSUME ~t.below PROVE VotepayAdds(t)'
  <2>1. VotepayAdds(t)
    BY <1>3, <1>6
  <2>2. VotesOf(t)' = VotesOf(t)
    BY <1>2
  <2> DEFINE later == [p \in Candidates |-> PastOf(t.producers[p])']
  <2>3. PastsOf(t)' = later
    BY <1>2 DEF PastsOf
  <2>4. ASSUME NEW p \in Candidates PROVE later[p] = PastsOf(t)[p] + VotesOf(t)[p]
    <3> DEFINE row == t.producers[p]
    <3>1. /\ later[p] = PastOf(row)' /\ PastsOf(t)[p] = PastOf(row) /\ VotesOf(t)[p] = VoteOf(row)
          /\ row' = row
      BY <1>2 DEF PastsOf, VotesOf
    <3>2. row # NoRow => row \in ProducerRow /\ row.votes >= 0
      BY <1>1, <2>1, TablesHave DEF VotepayAdds
    <3> HIDE DEF row, later
    <3>3. CASE row = NoRow \/ UpdatedAfter(row)
      BY <3>1, <3>3 DEF PastOf, VoteOf
    <3>4. CASE row # NoRow /\ ~UpdatedAfter(row)
      <4>1. /\ row.votes \in Nat /\ row.vshare \in Int /\ row.vat \in Nat
        BY <3>2, <3>4, ShareTypes
      <4>2. /\ PastOf(row) = row.vshare + (IF row.votes > 0 THEN row.votes * (now - row.vat) ELSE 0)
            /\ PastOf(row)' = row.vshare
                  + (IF row.votes > 0 THEN row.votes * ((now + 1) - row.vat) ELSE 0)
            /\ VoteOf(row) = row.votes
        BY <1>2, <3>1, <3>4 DEF PastOf, VoteOf, GrownVotepay
      <4> DEFINE since == now - row.vat
                 votes == row.votes
                 product == votes * since
      <4>3. votes \in Nat /\ since \in Int /\ (now + 1) - row.vat = since + 1
        BY <1>1, <4>1
      <4> HIDE DEF since, votes
      <4>4. votes * (since + 1) = product + votes /\ product \in Int
        BY <4>3
      <4>5. votes * ((now + 1) - row.vat) = product + votes
        BY <4>3, <4>4
      <4>6. row.votes * ((now + 1) - row.vat) = row.votes * (now - row.vat) + row.votes
            /\ row.votes * (now - row.vat) \in Int
        BY <4>4, <4>5 DEF since, votes
      <4> DEFINE held == row.votes * (now - row.vat)
                 later1 == row.votes * ((now + 1) - row.vat)
      <4>7. later1 = held + row.votes /\ held \in Int
        BY <4>6
      <4>8. /\ PastOf(row) = row.vshare + (IF row.votes > 0 THEN held ELSE 0)
            /\ PastOf(row)' = row.vshare + (IF row.votes > 0 THEN later1 ELSE 0)
        BY <4>2
      <4> HIDE DEF held, later1
      <4>9. QED
        BY <3>1, <4>1, <4>2, <4>7, <4>8
    <3>5. QED
      BY <3>3, <3>4
  <2> HIDE DEF later
  <2>5. SumOver(later, Candidates) = SumOver(PastsOf(t), Candidates) + SumOver(VotesOf(t), Candidates)
    BY <1>4, <2>4, SumOverAdd
  <2>6. /\ t.gstate.vrate = SumOver(VotesOf(t), Candidates)
        /\ t.gstate.vtotal + t.gstate.vrate * (now - t.gstate.vat) = SumOver(PastsOf(t), Candidates)
        /\ \A p \in Candidates : t.producers[p] # NoRow => t.producers[p].votes >= 0
    BY <2>1 DEF VotepayAdds
  <2>7. t.gstate.vtotal + t.gstate.vrate * ((now + 1) - t.gstate.vat) = SumOver(later, Candidates)
    <3> DEFINE rate == t.gstate.vrate
               since == now - t.gstate.vat
               total == t.gstate.vtotal
    <3>1. rate \in Int /\ since \in Nat /\ total \in Int /\ (now + 1) - t.gstate.vat = since + 1
      <4>1. t.gstate.vat \in Nat
        BY <1>1, TablesHave DEF GState
      <4>2. QED
        BY <1>1, <1>4, <4>1
    <3>2. total + rate * since = SumOver(PastsOf(t), Candidates)
          /\ rate = SumOver(VotesOf(t), Candidates)
      BY <2>6
    <3> HIDE DEF rate, since, total
    <3>3. rate * (since + 1) = rate * since + rate /\ rate * since \in Int
      BY <3>1, OneMore
    <3> DEFINE product == rate * since
    <3> HIDE DEF product
    <3>4. total + (product + rate) = (total + product) + rate
      BY <3>1, <3>3 DEF product
    <3>5. total + rate * (since + 1) = SumOver(later, Candidates)
      BY <2>5, <3>2, <3>3, <3>4 DEF product
    <3>6. QED
      BY <3>1, <3>5 DEF rate, total
  <2>8. QED
    BY <1>2, <2>2, <2>3, <2>6, <2>7 DEF VotepayAdds
<1>7. ASSUME gone + n = 0 PROVE WitnessInv(t)'
  <2>1. WitnessInv(t)
    BY <1>3, <1>7
  <2>2. ASSUME ~t.below PROVE WitnessAdds(t)'
    <3>1. /\ t.gstate.wrate = Cardinality(w)
          /\ t.gstate.wtotal + t.gstate.wrate * (now - t.gstate.wat)
                = SumOver(WitnessTimes(t), Candidates)
      BY <2>1, <2>2 DEF WitnessInv, WitnessAdds
    <3>2. /\ w \subseteq Candidates /\ IsFiniteSet(w) /\ Cardinality(w) \in Nat
          /\ \A p \in w : t.producers[p] # NoRow
      BY WitnessesType
    <3>3. Witnesses(t)' = w
      BY <1>2
    <3> DEFINE one == [p \in Candidates |-> IF p \in w THEN 1 ELSE 0]
               ones == [p \in w |-> 1]
               later == [p \in Candidates |-> TimeOf(t, p)']
    <3>4. WitnessTimes(t)' = later
      BY <1>2 DEF WitnessTimes
    <3>5. SumOver(one, Candidates) = Cardinality(w)
      <4>1. /\ \A p \in Candidates : one[p] \in Int
            /\ \A p \in Candidates \ w : one[p] = 0
            /\ \A p \in w : ones[p] = one[p]
            /\ \A p \in w : ones[p] = 1
        BY <3>2
      <4> HIDE DEF one, ones, w
      <4>2. SumOver(ones, w) = SumOver(one, Candidates)
        BY <1>4, <3>2, <4>1, SumOverPart
      <4>3. SumOver(ones, w) = Cardinality(w)
        BY <3>2, <4>1, SumOverOnes
      <4>4. QED
        BY <4>2, <4>3
    <3>6. ASSUME NEW p \in Candidates
          PROVE  /\ later[p] = WitnessTimes(t)[p] + one[p]
                 /\ WitnessTimes(t)[p] \in Int /\ one[p] \in Int
      <4>1. later[p] = TimeOf(t, p)' /\ WitnessTimes(t)[p] = TimeOf(t, p)
            /\ one[p] = IF p \in w THEN 1 ELSE 0
        BY DEF WitnessTimes
      <4> HIDE DEF later, one
      <4>2. CASE t.producers[p] = NoRow
        BY <1>2, <3>2, <4>1, <4>2 DEF TimeOf
      <4>3. CASE t.producers[p] # NoRow
        <5> DEFINE row == t.producers[p]
        <5>1. row.wshare \in Nat /\ row.wat \in Nat
          BY <1>1, <4>3, TablesHave, ShareTypes
        <5>2. /\ TimeOf(t, p) = row.wshare + (IF p \in w THEN now - row.wat ELSE 0)
              /\ TimeOf(t, p)' = row.wshare + (IF p \in w THEN (now + 1) - row.wat ELSE 0)
          BY <1>2, <3>3, <4>3 DEF TimeOf
        <5> HIDE DEF row, w
        <5>3. QED
          BY <1>1, <4>1, <5>1, <5>2
      <4>4. QED
        BY <4>2, <4>3
    <3> HIDE DEF one, later, w
    <3>7. SumOver(later, Candidates) = SumOver(WitnessTimes(t), Candidates) + SumOver(one, Candidates)
      BY <1>4, <3>6, SumOverAdd
    <3>8. t.gstate.wtotal + t.gstate.wrate * ((now + 1) - t.gstate.wat) = SumOver(later, Candidates)
      <4> DEFINE rate == t.gstate.wrate
                 since == now - t.gstate.wat
                 total == t.gstate.wtotal
      <4>1. rate \in Nat /\ since \in Nat /\ total \in Nat /\ (now + 1) - t.gstate.wat = since + 1
        BY <1>1, TablesHave DEF GState, TimesOK
      <4>2. total + rate * since = SumOver(WitnessTimes(t), Candidates)
            /\ rate = SumOver(one, Candidates)
        BY <3>1, <3>5
      <4> HIDE DEF rate, since, total
      <4>3. rate * (since + 1) = rate * since + rate /\ rate * since \in Int
        BY <4>1, OneMore
      <4> DEFINE product == rate * since
      <4> HIDE DEF product
      <4>4. total + (product + rate) = (total + product) + rate
        BY <4>1, <4>3 DEF product
      <4>5. total + rate * (since + 1) = SumOver(later, Candidates)
        BY <3>7, <4>2, <4>3, <4>4 DEF product
      <4>6. QED
        BY <4>1, <4>5 DEF rate, total
    <3>9. QED
      BY <1>2, <3>1, <3>3, <3>4, <3>8 DEF WitnessAdds
  <2>3. QED
    BY <1>2, <2>1, <2>2 DEF WitnessInv
<1>8. QED
  BY <1>2, <1>5, <1>6, <1>7 DEF SharesInv, VotepayInv, t

LEMMA InitShares ==
  ASSUME NEW n \in Nat, VotingInit
  PROVE  SharesInv(VotingTables, gone + n)
<1> DEFINE t == VotingTables
<1>1. /\ t.producers = [p \in Candidates |-> NoRow] /\ now = 1
      /\ t.gstate.vrate = 0 /\ t.gstate.vtotal = 0 /\ t.gstate.vat = 0
      /\ t.gstate.wrate = 0 /\ t.gstate.wtotal = 0 /\ t.gstate.wat = 0
  BY DEF VotingInit, VotingTables
<1> HIDE DEF t
<1>2. IsFiniteSet(Candidates) /\ \A p \in Candidates : t.producers[p] = NoRow
  BY <1>1, AccountsAssumption, FS_Subset
<1>3. VotepayTimes(t)
  BY <1>1, <1>2 DEF VotepayTimes
<1>4. VotepayAdds(t)
  <2>1. \A p \in Candidates : VotesOf(t)[p] = 0 /\ PastsOf(t)[p] = 0
    BY <1>2 DEF VotesOf, PastsOf, VoteOf, PastOf
  <2>2. SumOver(VotesOf(t), Candidates) = 0
    <3>1. \A p \in Candidates : VotesOf(t)[p] = 0 /\ VotesOf(t)[p] \in Nat
      BY <2>1
    <3>2. QED
      BY <1>2, <3>1, SumOverNat
  <2>3. SumOver(PastsOf(t), Candidates) = 0
    <3>1. \A p \in Candidates : PastsOf(t)[p] = 0 /\ PastsOf(t)[p] \in Nat
      BY <2>1
    <3>2. QED
      BY <1>2, <3>1, SumOverNat
  <2>4. QED
    BY <1>1, <1>2, <2>2, <2>3 DEF VotepayAdds
<1>5. WitnessInv(t)
  <2>1. Witnesses(t) = {}
    BY <1>2 DEF Witnesses, Registered
  <2>2. Cardinality(Witnesses(t)) = 0
    BY <2>1, FS_EmptySet
  <2>3. \A p \in Candidates : WitnessTimes(t)[p] = 0 /\ WitnessTimes(t)[p] \in Nat
    BY <1>2 DEF WitnessTimes, TimeOf
  <2>4. SumOver(WitnessTimes(t), Candidates) = 0
    BY <1>2, <2>3, SumOverNat
  <2>5. QED
    BY <1>1, <1>2, <2>2, <2>4 DEF WitnessInv, WitnessAdds
<1>6. QED
  BY <1>3, <1>4, <1>5 DEF SharesInv, VotepayInv, t

\* With VotingInv, what is said of the shares is inductive.
LEMMA SharesStep ==
  ASSUME NEW n \in Nat, VotingInv, SharesInv(VotingTables, gone + n), [VotingNext]_votingVars
  PROVE  SharesInv(VotingTables, gone + n)'
<1>1. ASSUME NEW p \in Candidates, RegProducer(p) PROVE SharesInv(VotingTables, gone + n)'
  BY <1>1, RegProducerShares
<1>2. ASSUME NEW p \in Candidates, Deactivate(p) PROVE SharesInv(VotingTables, gone + n)'
  BY <1>2, DeactivateShares
<1>3. ASSUME NEW a \in Proxies, NEW isproxy \in BOOLEAN, RegProxy(a, isproxy)
      PROVE  SharesInv(VotingTables, gone + n)'
  BY <1>3, RegProxyShares, AccountsAssumption
<1>4. ASSUME NEW a \in Proxies, NEW isproxy \in BOOLEAN, RegNewProxy(a, isproxy)
      PROVE  SharesInv(VotingTables, gone + n)'
  BY <1>4, RegNewProxyShares, AccountsAssumption
<1>5. ASSUME NEW a \in Accounts, NEW proxy \in Accounts \cup {None}, NEW ps \in SUBSET Candidates,
             VoteProducer(a, proxy, ps)
      PROVE  SharesInv(VotingTables, gone + n)'
  BY <1>5, VoteProducerShares
<1>6. ASSUME NEW a \in Accounts, NEW stake \in Stakes[a], Delegate(a, stake)
      PROVE  SharesInv(VotingTables, gone + n)'
  BY <1>6, DelegateShares
<1>7. ASSUME NEW a \in Accounts, NEW stake \in Stakes[a], Undelegate(a, stake)
      PROVE  SharesInv(VotingTables, gone + n)'
  BY <1>7, UndelegateShares
<1>8. CASE VotingTick
  BY <1>8, TickShares
<1>9. CASE UNCHANGED votingVars
  <2>1. /\ VotingTables \in Tables /\ now' = now /\ gone' = gone
        /\ producers' = VotingTables.producers /\ gstate' = VotingTables.gstate
        /\ below' = VotingTables.below
    BY <1>9, InvOfTables DEF votingVars, VotingTables, TablesInv
  <2>2. QED
    BY <2>1, SharesTaken
<1>10. QED
  BY <1>1, <1>2, <1>3, <1>4, <1>5, <1>6, <1>7, <1>8, <1>9 DEF VotingNext
-----------------------------------------------------------------------------
(* The theorems                                                            *)

LEMMA VotingInvHolds == VotingSpec => []VotingInv
<1>1. VotingInit => VotingInv
  BY InitKeeps
<1>2. VotingInv /\ [VotingNext]_votingVars => VotingInv'
  BY StepKeeps
<1>3. QED
  BY <1>1, <1>2, PTL DEF VotingSpec

\* Rows and totals hold what their tables can hold: no account's table has a row that is none.
THEOREM VotingTypeCorrect == VotingSpec => []VotingTypeOK
<1>1. VotingInv => VotingTypeOK
  BY DEF VotingInv
<1>2. QED
  BY <1>1, VotingInvHolds, PTL

\* regproxy and voteproducer form no cycle of proxies: whoever is taken as a proxy uses none.
THEOREM ProxiesEndCorrect == VotingSpec => []ProxiesEnd
<1>1. VotingInv => ProxiesEnd
  BY DEF VotingInv
<1>2. QED
  BY <1>1, VotingInvHolds, PTL

\* After any vote, change of stake or of a proxy's standing, last_vote_weight is what the
\* voter weighs, so that the next vote undoes what is cast.
THEOREM VotesFollowStakeCorrect == VotingSpec => []VotesFollowStake
<1>1. VotingInv => VotesFollowStake
  BY DEF VotingInv
<1>2. QED
  BY <1>1, VotingInvHolds, PTL

\* A witness's time and share fit between its last claim and the last update of its share.
THEOREM WitnessTimeOnceCorrect == VotingSpec => []WitnessTimeOnce
<1>1. VotingInv => WitnessTimeOnce
  BY DEF VotingInv, TimesOK, Dated, WitnessTimeOnce, Registered, VotingTables
<1>2. QED
  BY <1>1, VotingInvHolds, PTL

\* What is kept of the tallies is what is said of them.
LEMMA TalliesMean ==
  ASSUME VotingInv, TallyInv(VotingTables)
  PROVE  TalliesMatch
<1> DEFINE t == VotingTables
<1> SUFFICES ASSUME ~below PROVE TalliesMatch
  BY DEF TalliesMatch
<1>1. /\ t \in Tables /\ t.voters = voters /\ t.producers = producers
      /\ t.gstate = gstate /\ t.withheld = withheld /\ ~t.below
  BY InvOfTables DEF TablesInv
<1>2. Tallied(t)
  BY DEF TallyInv
<1>3. Registered(VotingTables) = {p \in Candidates : producers[p] # NoRow}
  BY <1>1 DEF Registered
<1> HIDE DEF t
<1>4. /\ \A p \in Candidates : CastOn(p) = Cast(t, p)
      /\ \A b \in Accounts : HandedTo(b) = Handed(t, b)
  BY <1>1 DEF CastOn, Cast, CastBy, HandedTo, Handed, HandedBy
<1>5. ASSUME NEW p \in Candidates, producers[p] # NoRow
      PROVE  producers[p].votes = CastOn(p) - withheld.votes[p]
  <2>1. VoteOff(t, p) = 0
    BY <1>1, <1>2, <1>5 DEF Tallied
  <2>2. t.producers[p].votes \in Int /\ t.withheld.votes[p] \in Int /\ Cast(t, p) \in Int
    BY <1>1, <1>5, TallyTypes
  <2> DEFINE votes == t.producers[p].votes
             owed  == t.withheld.votes[p]
             cast  == Cast(t, p)
  <2>3. votes + owed - cast = 0
    BY <2>1 DEF VoteOff
  <2>4. producers[p].votes = votes /\ withheld.votes[p] = owed /\ CastOn(p) = cast
    BY <1>1, <1>4
  <2> HIDE DEF votes, owed, cast
  <2>5. votes \in Int /\ owed \in Int /\ cast \in Int
    BY <2>2 DEF votes, owed, cast
  <2>6. votes = cast - owed
    BY <2>3, <2>5
  <2>7. QED
    BY <2>4, <2>6
<1>6. ASSUME NEW b \in Accounts, voters[b] # NoRow
      PROVE  voters[b].proxied = HandedTo(b) - withheld.proxied[b]
  <2>1. HandOff(t, b) = 0
    BY <1>1, <1>2, <1>6 DEF Tallied
  <2>2. t.voters[b].proxied \in Int /\ t.withheld.proxied[b] \in Int /\ Handed(t, b) \in Int
    BY <1>1, <1>6, TallyTypes
  <2> DEFINE proxied == t.voters[b].proxied
             owed    == t.withheld.proxied[b]
             handed  == Handed(t, b)
  <2>3. proxied + owed - handed = 0
    BY <2>1 DEF HandOff
  <2>4. voters[b].proxied = proxied /\ withheld.proxied[b] = owed /\ HandedTo(b) = handed
    BY <1>1, <1>4
  <2> HIDE DEF proxied, owed, handed
  <2>5. proxied \in Int /\ owed \in Int /\ handed \in Int
    BY <2>2 DEF proxied, owed, handed
  <2>6. proxied = handed - owed
    BY <2>3, <2>5
  <2>7. QED
    BY <2>4, <2>6
<1>7. gstate.weight = SumOver([p \in Candidates |-> CastOn(p) - withheld.votes[p]], Candidates)
  <2>1. [p \in Candidates |-> CastOn(p) - withheld.votes[p]] = Weighed(t)
    BY <1>1, <1>4 DEF Weighed
  <2>2. WeightOff(t) = 0
    BY <1>1, <1>2 DEF Tallied
  <2>3. t.gstate.weight \in Int /\ SumOver(Weighed(t), Candidates) \in Int
    BY <1>1, TallyTypes
  <2>4. QED
    BY <1>1, <2>1, <2>2, <2>3 DEF WeightOff
<1>8. QED
  BY <1>3, <1>5, <1>6, <1>7 DEF TalliesMatch

\* However votes, proxies and stakes change in any order: a producer's total_votes is what is
\* cast on it, a proxy's proxied weight what is handed to it, and total_producer_vote_weight
\* the sum of the votes, but for what propagate_weight_change withholds.
THEOREM TalliesMatchCorrect == VotingSpec => []TalliesMatch
<1> DEFINE Inv == VotingInv /\ TallyInv(VotingTables)
<1>1. VotingInit => Inv
  BY InitKeeps, InitTally
<1>2. Inv /\ [VotingNext]_votingVars => Inv'
  BY StepKeeps, TallyStep
<1>3. Inv => TalliesMatch
  BY TalliesMean
<1>4. QED
  BY <1>1, <1>2, <1>3, PTL DEF VotingSpec

LEMMA SharesHold == VotingSpec => [](VotingInv /\ SharesInv(VotingTables, gone + 0))
<1> DEFINE Inv == VotingInv /\ SharesInv(VotingTables, gone + 0)
<1>1. VotingInit => Inv
  BY InitKeeps, InitShares
<1>2. Inv /\ [VotingNext]_votingVars => Inv'
  BY StepKeeps, SharesStep
<1>3. QED
  BY <1>1, <1>2, PTL DEF VotingSpec

\* What is kept of the votepay shares is what is said of them.
LEMMA VotepayMeans ==
  ASSUME VotingInv, VotepayInv(VotingTables)
  PROVE  VotepaySharesAddUp
<1> DEFINE t       == VotingTables
           counted == {p \in Registered(t) : ~UpdatedAfter(producers[p])}
           votes   == [p \in counted |-> producers[p].votes]
           shares  == [p \in counted |-> GrownVotepay(producers[p], producers[p].votes)]
<1> SUFFICES ASSUME ~below
             PROVE  /\ gstate.vrate = SumOver(votes, counted)
                    /\ gstate.vtotal + gstate.vrate * (now - gstate.vat) = SumOver(shares, counted)
  BY DEF VotepaySharesAddUp
<1>1. /\ t \in Tables /\ t.producers = producers /\ t.gstate = gstate /\ ~t.below /\ now \in Nat
  BY InvOfTables DEF TablesInv
<1>2. VotepayTimes(t) /\ VotepayAdds(t)
  BY <1>1 DEF VotepayInv
<1>3. /\ IsFiniteSet(Candidates)
      /\ \A p \in Candidates : VotesOf(t)[p] \in Int /\ PastsOf(t)[p] \in Int
  BY <1>1, <1>2, PastTypes
<1>4. counted = {p \in Candidates : producers[p] # NoRow /\ ~UpdatedAfter(producers[p])}
  BY <1>1 DEF Registered
<1>5. /\ counted \in SUBSET Candidates
      /\ \A p \in Candidates \ counted : VotesOf(t)[p] = 0 /\ PastsOf(t)[p] = 0
      /\ \A p \in counted : votes[p] = VotesOf(t)[p] /\ shares[p] = PastsOf(t)[p]
  BY <1>1, <1>4 DEF VotesOf, PastsOf, VoteOf, PastOf
<1> HIDE DEF t, counted, votes, shares
<1>6. SumOver(votes, counted) = SumOver(VotesOf(t), Candidates)
  BY <1>3, <1>5, SumOverPart
<1>7. SumOver(shares, counted) = SumOver(PastsOf(t), Candidates)
  BY <1>3, <1>5, SumOverPart
<1>8. QED
  BY <1>1, <1>2, <1>6, <1>7 DEF VotepayAdds

\* However votes move and whenever somebody registers, the rate at which the total of the votepay
\* shares grows is the votes of the producers that count, and the total the sum of their shares:
\* what update_votes and propagate_weight_change add and drop is what the rows gain and lose.
THEOREM VotepaySharesCorrect == VotingSpec => []VotepaySharesAddUp
<1>1. VotingInv /\ SharesInv(VotingTables, gone + 0) => VotepaySharesAddUp
  BY VotepayMeans DEF SharesInv
<1>2. QED
  BY <1>1, SharesHold, PTL

\* As long as nobody is deactivated, the rate at which the total of the witness shares grows is
\* the number of witnesses, and the total the sum of the time they have been on the list: what
\* update_witnesses counts is who enters and leaves, by one's own votes or those of others.
THEOREM WitnessSharesCorrect == VotingSpec => []WitnessSharesAddUp
<1>1. VotingInv /\ SharesInv(VotingTables, gone + 0) => WitnessSharesAddUp
  <2> DEFINE t     == VotingTables
             known == Registered(t)
             times == [p \in known |-> WitnessTime(p)]
  <2> SUFFICES ASSUME VotingInv, SharesInv(t, gone + 0), ~below, gone = 0
               PROVE  /\ gstate.wrate = Cardinality(Witnesses(t))
                      /\ gstate.wtotal + gstate.wrate * (now - gstate.wat) = SumOver(times, known)
    BY DEF WitnessSharesAddUp
  <2>1. /\ t \in Tables /\ t.producers = producers /\ t.gstate = gstate /\ ~t.below /\ now \in Nat
    BY InvOfTables DEF TablesInv
  <2>2. WitnessAdds(t)
    BY <2>1 DEF SharesInv, WitnessInv
  <2>3. IsFiniteSet(Candidates)
    BY AccountsAssumption, FS_Subset
  <2>4. known = {p \in Candidates : producers[p] # NoRow}
    BY <2>1 DEF Registered
  <2>5. /\ known \in SUBSET Candidates
        /\ \A p \in Candidates \ known : WitnessTimes(t)[p] = 0
        /\ \A p \in known : times[p] = WitnessTimes(t)[p]
    BY <2>1, <2>4 DEF WitnessTimes, TimeOf, WitnessTime
  <2> HIDE DEF t, known, times
  <2>6. ASSUME NEW p \in Candidates PROVE WitnessTimes(t)[p] \in Int
    <3>1. WitnessTimes(t)[p] = TimeOf(t, p)
      BY DEF WitnessTimes
    <3>2. t.producers[p] # NoRow => t.producers[p] \in ProducerRow
      BY <2>1, TablesHave
    <3>3. QED
      BY <2>1, <3>1, <3>2, ShareTypes DEF TimeOf
  <2>7. SumOver(times, known) = SumOver(WitnessTimes(t), Candidates)
    BY <2>3, <2>5, <2>6, SumOverPart
  <2>8. QED
    BY <2>1, <2>2, <2>7 DEF WitnessAdds
<1>2. QED
  BY <1>1, SharesHold, PTL
=============================================================================
