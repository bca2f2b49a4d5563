-------------------------- MODULE EosioMsig_proofs --------------------------
(***************************************************************************)
(* Proofs about EosioMsig for every set of keys, levels and transactions,  *)
(* every authorisation structure, every legacy table and any running time. *)
(* The inductive invariant adds to the checked ones what makes "exec"      *)
(* right: approvals are never of the future, so that an invalidation stops *)
(* all of them; an approval that "exec" would count belongs to a level     *)
(* that stands by the proposal; and the hashes of the standing consents    *)
(* name the very transaction that is proposed.                             *)
(***************************************************************************)
EXTENDS EosioMsig, TLAPS

\* No approval was given later than now.
TimesPast ==
    \A k \in Keys, l \in Levels : approvals[k] # NoRow =>
        \A i \in DOMAIN approvals[k].provided[l] : approvals[k].provided[l][i] <= now

\* "exec" would count an approval of l, from the table the row is in.
CountsNew(k, l) ==
    /\ approvals[k] # NoRow
    /\ \E i \in DOMAIN approvals[k].provided[l] : Counts2(l, approvals[k].provided[l][i])
CountsOld(k, l) ==
    /\ old_approvals[k] # NoRow
    /\ old_approvals[k].provided[l] > 0
    /\ invals[ActorOf[l]] = NoRow

Standing(k, l) == \E c \in consents : c.key = k /\ c.level = l

CountedStand ==
    \A k \in Keys, l \in Levels : CountsNew(k, l) \/ CountsOld(k, l) => Standing(k, l)

HashesPin ==
    \A c \in consents : /\ proposal[c.key] # NoRow
                        /\ c.hash \in {NoHash, proposal[c.key]}

IInv == TypeOK /\ OneApprovalsRow /\ TimesPast /\ CountedStand /\ HashesPin

Consent == [key : Keys, level : Levels, hash : Trxs \cup {NoHash}]
-----------------------------------------------------------------------------
\* Legacy tables satisfy the invariant: earlier versions kept one row of
\* approvals per proposal, and their approvals stand without a hash.
LEMMA InitInv == Init => IInv
<1> SUFFICES ASSUME Init PROVE IInv
  OBVIOUS
<1>1. PICK t \in LegacyTables :
        /\ proposal = t.proposal
        /\ old_approvals = t.approvals
        /\ consents = {[key |-> kl[1], level |-> kl[2], hash |-> NoHash] :
                          kl \in {kl \in Keys \X Levels :
                                     /\ t.approvals[kl[1]] # NoRow
                                     /\ t.approvals[kl[1]].provided[kl[2]] > 0}}
  BY Zenon DEF Init
<1>2. /\ proposal \in [Keys -> Trxs \cup {NoRow}]
      /\ old_approvals \in [Keys -> OldApproval \cup {NoRow}]
      /\ \A k \in Keys : proposal[k] = NoRow <=> old_approvals[k] = NoRow
  BY <1>1, LegacyAssumption
<1>3. /\ approvals = [k \in Keys |-> NoRow]
      /\ invals = [a \in Accounts |-> NoRow]
      /\ deferred = [k \in Keys |-> NoRow]
      /\ now = 0
  BY DEF Init
<1>4. consents \subseteq Consent
  BY <1>1 DEF Consent
<1>5. TypeOK
  BY <1>2, <1>3, <1>4, TypesAssumption DEF TypeOK, Consent
<1>6. OneApprovalsRow /\ TimesPast
  BY <1>2, <1>3 DEF OneApprovalsRow, TimesPast
<1>7. CountedStand
  <2> SUFFICES ASSUME NEW k \in Keys, NEW l \in Levels, CountsNew(k, l) \/ CountsOld(k, l)
               PROVE  Standing(k, l)
    BY DEF CountedStand
  <2>1. CountsOld(k, l)
    BY <1>3 DEF CountsNew
  <2> DEFINE c == [key |-> k, level |-> l, hash |-> NoHash]
             kl == <<k, l>>
  <2>2. kl \in Keys \X Levels /\ kl[1] = k /\ kl[2] = l
    OBVIOUS
  <2>3. c \in consents
    BY <1>1, <2>1, <2>2 DEF CountsOld
  <2>4. QED
    BY <2>3 DEF Standing
<1>8. HashesPin
  BY <1>1, <1>2 DEF HashesPin
<1>9. QED
  BY <1>5, <1>6, <1>7, <1>8 DEF IInv
-----------------------------------------------------------------------------
(* One lemma per action.                                                   *)

\* "propose" starts with an empty row, under a name no consent is left for.
LEMMA ProposeInv ==
  ASSUME IInv, NEW k \in Keys, NEW trx \in Trxs, NEW request \in Requests,
         Propose(k, trx, request)
  PROVE  IInv'
<1> DEFINE row == [requested |-> request, provided |-> [l \in Levels |-> <<>>]]
<1>1. TypeOK /\ OneApprovalsRow /\ TimesPast /\ CountedStand /\ HashesPin
  BY DEF IInv
<1>2. row \in Approval /\ row # NoRow
  <2>1. <<>> \in Seq(Nat)
    OBVIOUS
  <2>2. [l \in Levels |-> <<>>] \in Times
    BY <2>1 DEF Times
  <2>3. request \in Counts
    BY TypesAssumption
  <2>4. row \in Approval
    BY <2>2, <2>3 DEF Approval
  <2>5. QED
    BY <2>4, AbsentAssumption
<1>3. /\ proposal' = [proposal EXCEPT ![k] = trx]
      /\ approvals' = [approvals EXCEPT ![k] = row]
      /\ proposal[k] = NoRow /\ approvals[k] = NoRow
      /\ UNCHANGED <<old_approvals, invals, deferred, now, consents>>
  BY DEF Propose
<1>4. old_approvals[k] = NoRow /\ trx # NoRow
  BY <1>1, <1>3, AbsentAssumption DEF OneApprovalsRow
<1>5. \A l \in Levels : DOMAIN row.provided[l] = {}
  OBVIOUS
<1> HIDE DEF row
<1>6. TypeOK'
  BY <1>1, <1>2, <1>3 DEF TypeOK
<1>7. /\ approvals'[k] = row /\ proposal'[k] = trx
      /\ \A j \in Keys \ {k} : approvals'[j] = approvals[j] /\ proposal'[j] = proposal[j]
  BY <1>1, <1>3 DEF TypeOK
<1>8. OneApprovalsRow'
  BY <1>1, <1>2, <1>3, <1>4, <1>7 DEF OneApprovalsRow
<1>9. TimesPast'
  BY <1>1, <1>3, <1>5, <1>7 DEF TimesPast
<1>10. CountedStand'
  <2> SUFFICES ASSUME NEW j \in Keys, NEW l \in Levels, CountsNew(j, l)' \/ CountsOld(j, l)'
               PROVE  Standing(j, l)'
    BY DEF CountedStand
  <2>1. CountsOld(j, l)' => CountsOld(j, l)
    BY <1>3 DEF CountsOld
  <2>2. CountsNew(j, l)' => CountsNew(j, l)
    BY <1>3, <1>5, <1>7 DEF CountsNew, Counts2
  <2>3. Standing(j, l)
    BY <1>1, <2>1, <2>2 DEF CountedStand
  <2>4. QED
    BY <1>3, <2>3 DEF Standing
<1>11. HashesPin'
  <2>1. \A c \in consents : c.key \in Keys /\ c.key # k
    BY <1>1, <1>3 DEF HashesPin, TypeOK
  <2>2. QED
    BY <1>1, <1>3, <1>7, <2>1 DEF HashesPin
<1>12. QED
  BY <1>6, <1>8, <1>9, <1>10, <1>11 DEF IInv

\* A row of approvals2 differs from WithLevel's at l alone.
LEMMA WithLevelNew ==
  ASSUME NEW row \in Approval, NEW l \in Levels, NEW n \in Nat, NEW s \in Seq(Nat)
  PROVE  LET new == WithLevel(row, l, n, s)
         IN  /\ new \in Approval /\ new # NoRow
             /\ new.requested[l] = n /\ new.provided[l] = s
             /\ \A m \in Levels \ {l} : /\ new.requested[m] = row.requested[m]
                                        /\ new.provided[m] = row.provided[m]
<1>1. row.requested \in Counts /\ row.provided \in Times
  BY DEF Approval
<1>2. [row.requested EXCEPT ![l] = n] \in Counts /\ [row.provided EXCEPT ![l] = s] \in Times
  BY <1>1 DEF Counts, Times
<1>3. WithLevel(row, l, n, s) \in Approval
  BY <1>2 DEF WithLevel, Approval
<1>4. QED
  BY <1>1, <1>3, AbsentAssumption DEF WithLevel, Counts, Times

\* The same of a row of approvals.
LEMMA WithLevelOld ==
  ASSUME NEW row \in OldApproval, NEW l \in Levels, NEW n \in Nat, NEW p \in Nat
  PROVE  LET new == WithLevel(row, l, n, p)
         IN  /\ new \in OldApproval /\ new # NoRow
             /\ new.requested[l] = n /\ new.provided[l] = p
             /\ \A m \in Levels \ {l} : /\ new.requested[m] = row.requested[m]
                                        /\ new.provided[m] = row.provided[m]
<1>1. row.requested \in Counts /\ row.provided \in Counts
  BY DEF OldApproval
<1>2. [row.requested EXCEPT ![l] = n] \in Counts /\ [row.provided EXCEPT ![l] = p] \in Counts
  BY <1>1 DEF Counts
<1>3. WithLevel(row, l, n, p) \in OldApproval
  BY <1>2 DEF WithLevel, OldApproval
<1>4. QED
  BY <1>1, <1>3, AbsentAssumption DEF WithLevel, Counts

\* What a step that changes l's approvals of k in approvals2 has to show.
LEMMA NewRowInv ==
  ASSUME IInv, NEW k \in Keys, NEW l \in Levels, NEW row \in Approval, row # NoRow,
         approvals[k] # NoRow, approvals' = [approvals EXCEPT ![k] = row],
         UNCHANGED <<proposal, old_approvals, invals, deferred, now>>,
         \A m \in Levels \ {l} : row.provided[m] = approvals[k].provided[m],
         \A i \in DOMAIN row.provided[l] :
            /\ row.provided[l][i] <= now
            /\ Counts2(l, row.provided[l][i]) => Standing(k, l)',
         \A j \in Keys, m \in Levels : (j # k \/ m # l) /\ Standing(j, m) => Standing(j, m)',
         consents' \subseteq Consent, HashesPin'
  PROVE  IInv'
<1>1. TypeOK /\ OneApprovalsRow /\ TimesPast /\ CountedStand
  BY DEF IInv
<1>2. /\ approvals'[k] = row
      /\ \A j \in Keys \ {k} : approvals'[j] = approvals[j]
  BY <1>1 DEF TypeOK
<1>3. TypeOK'
  BY <1>1 DEF TypeOK, Consent
<1>4. OneApprovalsRow'
  BY <1>1, <1>2 DEF OneApprovalsRow
<1>5. TimesPast'
  <2> SUFFICES ASSUME NEW j \in Keys, NEW m \in Levels, approvals'[j] # NoRow,
                      NEW i \in DOMAIN approvals'[j].provided[m]
               PROVE  approvals'[j].provided[m][i] <= now
    BY DEF TimesPast
  <2>1. CASE j # k
    BY <1>1, <1>2, <2>1 DEF TimesPast
  <2>2. CASE j = k /\ m # l
    BY <1>1, <1>2, <2>2 DEF TimesPast
  <2>3. CASE j = k /\ m = l
    BY <1>2, <2>3
  <2>4. QED
    BY <2>1, <2>2, <2>3
<1>6. CountedStand'
  <2> SUFFICES ASSUME NEW j \in Keys, NEW m \in Levels, CountsNew(j, m)' \/ CountsOld(j, m)'
               PROVE  Standing(j, m)'
    BY DEF CountedStand
  <2>1. CASE j # k
    <3>1. CountsOld(j, m)' => CountsOld(j, m)
      BY DEF CountsOld
    <3>2. CountsNew(j, m)' => CountsNew(j, m)
      BY <1>2, <2>1 DEF CountsNew, Counts2
    <3>3. QED
      BY <1>1, <2>1, <3>1, <3>2 DEF CountedStand
  <2>2. CASE j = k
    <3>1. old_approvals[k] = NoRow
      BY <1>1 DEF OneApprovalsRow
    <3>2. CountsNew(k, m)'
      BY <2>2, <3>1 DEF CountsOld
    <3>3. CASE m # l
      <4>1. CountsNew(k, m)
        BY <1>2, <3>2, <3>3 DEF CountsNew, Counts2
      <4>2. QED
        BY <1>1, <2>2, <3>3, <4>1 DEF CountedStand
    <3>4. CASE m = l
      BY <1>2, <2>2, <3>2, <3>4 DEF CountsNew, Counts2
    <3>5. QED
      BY <3>3, <3>4
  <2>3. QED
    BY <2>1, <2>2
<1>7. QED
  BY <1>3, <1>4, <1>5, <1>6 DEF IInv

\* What a step that changes l's approvals of k in approvals has to show.
LEMMA OldRowInv ==
  ASSUME IInv, NEW k \in Keys, NEW l \in Levels, NEW row \in OldApproval, row # NoRow,
         approvals[k] = NoRow, old_approvals[k] # NoRow,
         old_approvals' = [old_approvals EXCEPT ![k] = row],
         UNCHANGED <<proposal, approvals, invals, deferred, now>>,
         \A m \in Levels \ {l} : row.provided[m] = old_approvals[k].provided[m],
         row.provided[l] > 0 /\ invals[ActorOf[l]] = NoRow => Standing(k, l)',
         \A j \in Keys, m \in Levels : (j # k \/ m # l) /\ Standing(j, m) => Standing(j, m)',
         consents' \subseteq Consent, HashesPin'
  PROVE  IInv'
<1>1. TypeOK /\ OneApprovalsRow /\ TimesPast /\ CountedStand
  BY DEF IInv
<1>2. /\ old_approvals'[k] = row
      /\ \A j \in Keys \ {k} : old_approvals'[j] = old_approvals[j]
  BY <1>1 DEF TypeOK
<1>3. TypeOK'
  BY <1>1 DEF TypeOK, Consent
<1>4. OneApprovalsRow'
  BY <1>1, <1>2 DEF OneApprovalsRow
<1>5. TimesPast'
  BY <1>1 DEF TimesPast
<1>6. CountedStand'
  <2> SUFFICES ASSUME NEW j \in Keys, NEW m \in Levels, CountsNew(j, m)' \/ CountsOld(j, m)'
               PROVE  Standing(j, m)'
    BY DEF CountedStand
  <2>1. CountsNew(j, m)' => CountsNew(j, m)
    BY DEF CountsNew, Counts2
  <2>2. CASE j # k
    <3>1. CountsOld(j, m)' => CountsOld(j, m)
      BY <1>2, <2>2 DEF CountsOld
    <3>2. QED
      BY <1>1, <2>1, <2>2, <3>1 DEF CountedStand
  <2>3. CASE j = k /\ m # l
    <3>1. CountsOld(j, m)' => CountsOld(j, m)
      BY <1>2, <2>3 DEF CountsOld
    <3>2. QED
      BY <1>1, <2>1, <2>3, <3>1 DEF CountedStand
  <2>4. CASE j = k /\ m = l
    BY <1>2, <2>1, <2>4 DEF CountsOld, CountsNew
  <2>5. QED
    BY <2>2, <2>3, <2>4
<1>7. QED
  BY <1>3, <1>4, <1>5, <1>6 DEF IInv

\* "approve" moves one request of l to the approvals, and l stands by k.
LEMMA ApproveInv ==
  ASSUME IInv, NEW k \in Keys, NEW l \in Levels, NEW hash \in Trxs \cup {NoHash},
         Approve(k, l, hash)
  PROVE  IInv'
<1> DEFINE c == [key |-> k, level |-> l, hash |-> hash]
<1>1. TypeOK /\ OneApprovalsRow /\ TimesPast /\ CountedStand /\ HashesPin
  BY DEF IInv
<1>2. /\ HashMatches(k, hash)
      /\ ApproveNew(k, l) \/ ApproveOld(k, l)
      /\ consents' = WithoutLevel(k, l) \cup {c}
      /\ UNCHANGED <<proposal, invals, deferred, now>>
  BY DEF Approve
<1>3. /\ proposal[k] # NoRow
      /\ c \in Consent /\ c.key = k /\ c.level = l /\ c.hash = hash
  BY <1>1, <1>2 DEF ApproveNew, ApproveOld, OneApprovalsRow, Consent
<1> HIDE DEF c
<1>4. consents' \subseteq Consent
  BY <1>1, <1>2, <1>3 DEF TypeOK, Consent, WithoutLevel
<1>5. HashesPin'
  BY <1>1, <1>2, <1>3 DEF HashesPin, HashMatches, WithoutLevel
<1>6. /\ Standing(k, l)'
      /\ \A j \in Keys, m \in Levels : (j # k \/ m # l) /\ Standing(j, m) => Standing(j, m)'
  BY <1>2, <1>3 DEF Standing, WithoutLevel
<1>7. CASE ApproveNew(k, l)
  <2> DEFINE old   == approvals[k]
             n     == old.requested[l] - 1
             times == Append(old.provided[l], now)
             row   == WithLevel(old, l, n, times)
  <2>1. /\ old \in Approval /\ old # NoRow
        /\ old.requested[l] > 0
        /\ approvals' = [approvals EXCEPT ![k] = row]
        /\ UNCHANGED old_approvals
    BY <1>1, <1>7 DEF ApproveNew, TypeOK
  <2>2. old.provided[l] \in Seq(Nat) /\ now \in Nat /\ n \in Nat
    BY <1>1, <2>1, TypesAssumption DEF Approval, Times, Counts, TypeOK
  <2>3. times \in Seq(Nat)
    BY <2>2
  <2>4. \A i \in DOMAIN times :
           (i \in DOMAIN old.provided[l] /\ times[i] = old.provided[l][i]) \/ times[i] = now
    <3> DEFINE given == old.provided[l]
    <3>1. given \in Seq(Nat) /\ now \in Nat /\ times = Append(given, now)
      BY <2>2
    <3> HIDE DEF given, times
    <3>2. \A i \in DOMAIN times : (i \in DOMAIN given /\ times[i] = given[i]) \/ times[i] = now
      BY <3>1
    <3>3. QED
      BY <3>2 DEF given
  <2>5. \A i \in DOMAIN times : times[i] <= now
    <3>1. \A i \in DOMAIN old.provided[l] : old.provided[l][i] <= now
      BY <1>1, <2>1 DEF TimesPast
    <3>2. now <= now
      BY <2>2
    <3> HIDE DEF old, times
    <3>3. QED
      BY <2>4, <3>1, <3>2
  <2> HIDE DEF n, times
  <2>6. old \in Approval /\ n \in Nat /\ times \in Seq(Nat)
    BY <2>1, <2>2, <2>3
  <2>7. /\ row \in Approval /\ row # NoRow /\ row.provided[l] = times
        /\ \A m \in Levels \ {l} : row.provided[m] = old.provided[m]
    BY <2>6, WithLevelNew
  <2> HIDE DEF row
  <2>8. QED
    BY <1>2, <1>4, <1>5, <1>6, <2>1, <2>5, <2>7, NewRowInv
<1>8. CASE ApproveOld(k, l)
  <2> DEFINE old == old_approvals[k]
             n   == old.requested[l] - 1
             p   == old.provided[l] + 1
             row == WithLevel(old, l, n, p)
  <2>1. /\ old \in OldApproval /\ old # NoRow /\ approvals[k] = NoRow
        /\ old.requested[l] > 0
        /\ old_approvals' = [old_approvals EXCEPT ![k] = row]
        /\ UNCHANGED approvals
    BY <1>1, <1>8 DEF ApproveOld, TypeOK
  <2>2. p \in Nat /\ n \in Nat
    BY <2>1 DEF OldApproval, Counts
  <2> HIDE DEF n, p
  <2>3. old \in OldApproval /\ p \in Nat /\ n \in Nat
    BY <2>1, <2>2
  <2>4. /\ row \in OldApproval /\ row # NoRow
        /\ \A m \in Levels \ {l} : row.provided[m] = old.provided[m]
    BY <2>3, WithLevelOld
  <2> HIDE DEF row
  <2>5. QED
    BY <1>2, <1>4, <1>5, <1>6, <2>1, <2>4, OldRowInv
<1>9. QED
  BY <1>2, <1>7, <1>8

\* "unapprove" takes back the oldest approval of l; with the last one l no
\* longer stands by k.
LEMMA UnapproveInv ==
  ASSUME IInv, NEW k \in Keys, NEW l \in Levels, Unapprove(k, l)
  PROVE  IInv'
<1>1. TypeOK /\ OneApprovalsRow /\ TimesPast /\ CountedStand /\ HashesPin
  BY DEF IInv
<1>2. /\ UnapproveNew(k, l) \/ UnapproveOld(k, l)
      /\ consents' = IF ApprovalCount(k, l) > 1 THEN consents ELSE WithoutLevel(k, l)
      /\ UNCHANGED <<proposal, invals, deferred, now>>
  BY DEF Unapprove
<1>3. consents' \subseteq consents
  BY <1>2 DEF WithoutLevel
<1>4. consents' \subseteq Consent /\ HashesPin'
  BY <1>1, <1>2, <1>3 DEF TypeOK, Consent, HashesPin
<1>5. \A j \in Keys, m \in Levels : (j # k \/ m # l) /\ Standing(j, m) => Standing(j, m)'
  BY <1>2 DEF Standing, WithoutLevel
<1>6. ApprovalCount(k, l) > 1 => (Standing(k, l) => Standing(k, l)')
  BY <1>2 DEF Standing
<1>7. CASE UnapproveNew(k, l)
  <2> DEFINE old   == approvals[k]
             n     == old.requested[l] + 1
             times == Tail(old.provided[l])
             row   == WithLevel(old, l, n, times)
  <2>1. /\ old \in Approval /\ old # NoRow
        /\ old.provided[l] # <<>>
        /\ approvals' = [approvals EXCEPT ![k] = row]
        /\ UNCHANGED old_approvals
    BY <1>1, <1>7 DEF UnapproveNew, TypeOK
  <2>2. old.provided[l] \in Seq(Nat) /\ n \in Nat
    BY <1>1, <2>1 DEF Approval, Times, Counts
  <2>3. /\ times \in Seq(Nat)
        /\ Len(times) = Len(old.provided[l]) - 1
        /\ \A i \in DOMAIN times : i + 1 \in DOMAIN old.provided[l] /\ times[i] = old.provided[l][i + 1]
    BY <2>1, <2>2
  <2>4. \A i \in DOMAIN times : times[i] <= now
    BY <1>1, <2>1, <2>3 DEF TimesPast
  <2>5. ASSUME NEW i \in DOMAIN times, Counts2(l, times[i]) PROVE Standing(k, l)'
    <3>1. Len(times) \in Nat /\ Len(times) # 0
      <4> DEFINE q == times
      <4>1. q \in Seq(Nat) /\ i \in DOMAIN q
        BY <2>3
      <4> HIDE DEF q, times
      <4>2. Len(q) \in Nat /\ Len(q) # 0
        BY <4>1
      <4>3. QED
        BY <4>2 DEF q
    <3>2. ApprovalCount(k, l) > 1
      <4>1. ApprovalCount(k, l) = Len(old.provided[l])
        BY <2>1 DEF ApprovalCount
      <4>2. Len(old.provided[l]) \in Nat
        BY <2>2
      <4>3. QED
        BY <2>3, <3>1, <4>1, <4>2
    <3>3. CountsNew(k, l)
      BY <2>1, <2>3, <2>5 DEF CountsNew
    <3>4. QED
      BY <1>1, <1>6, <3>2, <3>3 DEF CountedStand
  <2> HIDE DEF n, times
  <2>6. old \in Approval /\ n \in Nat /\ times \in Seq(Nat)
    BY <2>1, <2>2, <2>3
  <2>7. /\ row \in Approval /\ row # NoRow /\ row.provided[l] = times
        /\ \A m \in Levels \ {l} : row.provided[m] = old.provided[m]
    BY <2>6, WithLevelNew
  <2> HIDE DEF row
  <2>8. /\ approvals[k] # NoRow /\ approvals' = [approvals EXCEPT ![k] = row]
        /\ UNCHANGED <<proposal, old_approvals, invals, deferred, now>>
        /\ \A m \in Levels \ {l} : row.provided[m] = approvals[k].provided[m]
    BY <1>2, <2>1, <2>7
  <2>9. \A i \in DOMAIN row.provided[l] :
           /\ row.provided[l][i] <= now
           /\ Counts2(l, row.provided[l][i]) => Standing(k, l)'
    BY <2>4, <2>5, <2>7
  <2>10. QED
    BY <1>4, <1>5, <2>7, <2>8, <2>9, NewRowInv
<1>8. CASE UnapproveOld(k, l)
  <2> DEFINE old == old_approvals[k]
             n   == old.requested[l] + 1
             p   == old.provided[l] - 1
             row == WithLevel(old, l, n, p)
  <2>1. /\ old \in OldApproval /\ old # NoRow /\ approvals[k] = NoRow
        /\ old.provided[l] > 0
        /\ old_approvals' = [old_approvals EXCEPT ![k] = row]
        /\ UNCHANGED approvals
    BY <1>1, <1>8 DEF UnapproveOld, TypeOK
  <2>2. p \in Nat /\ n \in Nat /\ (p > 0 => old.provided[l] > 1)
    BY <2>1 DEF OldApproval, Counts
  <2> HIDE DEF n, p
  <2>3. /\ row \in OldApproval /\ row # NoRow /\ row.provided[l] = p
        /\ \A m \in Levels \ {l} : row.provided[m] = old.provided[m]
    BY <2>1, <2>2, WithLevelOld
  <2>4. ASSUME p > 0, invals[ActorOf[l]] = NoRow PROVE Standing(k, l)'
    <3>1. ApprovalCount(k, l) > 1
      BY <2>1, <2>2, <2>4 DEF ApprovalCount
    <3>2. CountsOld(k, l)
      BY <2>1, <2>4 DEF CountsOld
    <3>3. QED
      BY <1>1, <1>6, <3>1, <3>2 DEF CountedStand
  <2> HIDE DEF row
  <2>5. row.provided[l] > 0 /\ invals[ActorOf[l]] = NoRow => Standing(k, l)'
    BY <2>3, <2>4
  <2>6. /\ row \in OldApproval /\ row # NoRow
        /\ \A m \in Levels \ {l} : row.provided[m] = old.provided[m]
    BY <2>3
  <2>7. QED
    BY <1>2, <1>4, <1>5, <2>1, <2>5, <2>6, OldRowInv
<1>9. QED
  BY <1>2, <1>7, <1>8

\* "cancel" and "exec" leave nothing of a proposal behind.
LEMMA EraseInv ==
  ASSUME IInv, NEW k \in Keys, EraseApprovals(k),
         proposal' = [proposal EXCEPT ![k] = NoRow],
         consents' = WithoutKey(k),
         deferred' \in [Keys -> Trxs \cup {NoRow}],
         UNCHANGED <<invals, now>>
  PROVE  IInv'
<1>1. TypeOK /\ OneApprovalsRow /\ TimesPast /\ CountedStand /\ HashesPin
  BY DEF IInv
<1>2. /\ approvals'[k] = NoRow /\ old_approvals'[k] = NoRow
      /\ approvals' \in [Keys -> Approval \cup {NoRow}]
      /\ old_approvals' \in [Keys -> OldApproval \cup {NoRow}]
      /\ \A j \in Keys \ {k} : approvals'[j] = approvals[j] /\ old_approvals'[j] = old_approvals[j]
  BY <1>1 DEF EraseApprovals, TypeOK, OneApprovalsRow
<1>3. /\ proposal'[k] = NoRow
      /\ proposal' \in [Keys -> Trxs \cup {NoRow}]
      /\ \A j \in Keys \ {k} : proposal'[j] = proposal[j]
  BY <1>1 DEF TypeOK
<1>4. TypeOK'
  BY <1>1, <1>2, <1>3 DEF TypeOK, WithoutKey
<1>5. OneApprovalsRow' /\ TimesPast'
  BY <1>1, <1>2, <1>3 DEF OneApprovalsRow, TimesPast
<1>6. CountedStand'
  <2> SUFFICES ASSUME NEW j \in Keys, NEW l \in Levels, CountsNew(j, l)' \/ CountsOld(j, l)'
               PROVE  Standing(j, l)'
    BY DEF CountedStand
  <2>1. j # k
    BY <1>2 DEF CountsNew, CountsOld
  <2>2. CountsNew(j, l) \/ CountsOld(j, l)
    BY <1>2, <2>1 DEF CountsNew, CountsOld, Counts2
  <2>3. QED
    BY <1>1, <2>1, <2>2 DEF CountedStand, Standing, WithoutKey
<1>7. HashesPin'
  BY <1>1, <1>3 DEF HashesPin, WithoutKey, TypeOK
<1>8. QED
  BY <1>4, <1>5, <1>6, <1>7 DEF IInv

\* "invalidate" stops every approval of its account: none is of the future.
LEMMA InvalidateInv ==
  ASSUME IInv, NEW a \in Accounts, Invalidate(a)
  PROVE  IInv'
<1>1. TypeOK /\ OneApprovalsRow /\ TimesPast /\ CountedStand /\ HashesPin
  BY DEF IInv
<1>2. /\ invals' = [invals EXCEPT ![a] = now]
      /\ consents' = WithoutActor(a)
      /\ UNCHANGED <<proposal, approvals, old_approvals, deferred, now>>
  BY DEF Invalidate
<1>3. /\ invals'[a] = now /\ now \in Nat /\ now # NoRow
      /\ \A b \in Accounts \ {a} : invals'[b] = invals[b]
  BY <1>1, <1>2, AbsentAssumption, TypesAssumption DEF TypeOK
<1>4. TypeOK'
  BY <1>1, <1>2, <1>3 DEF TypeOK, WithoutActor
<1>5. OneApprovalsRow' /\ TimesPast' /\ HashesPin'
  BY <1>1, <1>2 DEF OneApprovalsRow, TimesPast, HashesPin, WithoutActor
<1>6. CountedStand'
  <2> SUFFICES ASSUME NEW k \in Keys, NEW l \in Levels, CountsNew(k, l)' \/ CountsOld(k, l)'
               PROVE  Standing(k, l)'
    BY DEF CountedStand
  <2>1. ActorOf[l] \in Accounts
    BY TypesAssumption
  <2>2. ActorOf[l] # a
    <3> SUFFICES ASSUME ActorOf[l] = a PROVE FALSE
      OBVIOUS
    <3>1. ~ CountsOld(k, l)'
      BY <1>3 DEF CountsOld
    <3>2. PICK i \in DOMAIN approvals[k].provided[l] :
             approvals[k] # NoRow /\ now < approvals[k].provided[l][i]
      BY <1>2, <1>3, <3>1 DEF CountsNew, Counts2
    <3>3. approvals[k].provided[l][i] <= now
      BY <1>1, <3>2 DEF TimesPast
    <3>4. approvals[k].provided[l][i] \in Nat
      BY <1>1, <3>2 DEF TypeOK, Approval, Times
    <3>5. QED
      BY <1>3, <3>2, <3>3, <3>4
  <2>3. CountsNew(k, l) \/ CountsOld(k, l)
    BY <1>2, <1>3, <2>1, <2>2 DEF CountsNew, CountsOld, Counts2
  <2>4. PICK c \in consents : c.key = k /\ c.level = l
    BY <1>1, <2>3 DEF CountedStand, Standing
  <2>5. c \in consents'
    BY <1>2, <2>2, <2>4 DEF WithoutActor
  <2>6. QED
    BY <2>4, <2>5 DEF Standing
<1>7. QED
  BY <1>4, <1>5, <1>6 DEF IInv

\* Time passes, or the chain runs a transaction: nothing here changes but the
\* clock and the queue.
LEMMA ChainInv ==
  ASSUME IInv, now' \in 0 .. MaxTime, now <= now',
         deferred' \in [Keys -> Trxs \cup {NoRow}],
         UNCHANGED <<proposal, approvals, old_approvals, invals, consents>>
  PROVE  IInv'
<1>1. TypeOK /\ OneApprovalsRow /\ TimesPast /\ CountedStand /\ HashesPin
  BY DEF IInv
<1>2. (0 .. now) \subseteq (0 .. now')
  BY <1>1, TypesAssumption DEF TypeOK
<1>3. TypeOK'
  BY <1>1, <1>2 DEF TypeOK
<1>4. OneApprovalsRow' /\ HashesPin'
  BY <1>1 DEF OneApprovalsRow, HashesPin
<1>5. TimesPast'
  <2> SUFFICES ASSUME NEW k \in Keys, NEW l \in Levels, approvals[k] # NoRow,
                      NEW i \in DOMAIN approvals[k].provided[l]
               PROVE  approvals[k].provided[l][i] <= now'
    BY DEF TimesPast
  <2>1. approvals[k].provided[l][i] <= now /\ approvals[k].provided[l][i] \in Nat
    BY <1>1 DEF TimesPast, TypeOK, Approval, Times
  <2>2. QED
    BY <1>1, <2>1, TypesAssumption DEF TypeOK
<1>6. CountedStand'
  BY <1>1 DEF CountedStand, CountsNew, CountsOld, Counts2, Standing
<1>7. QED
  BY <1>3, <1>4, <1>5, <1>6 DEF IInv

\* Every step of the contract and of the chain preserves the invariant.
LEMMA NextInv == IInv /\ [Next]_vars => IInv'
<1> SUFFICES ASSUME IInv, [Next]_vars PROVE IInv'
  OBVIOUS
<1>1. TypeOK
  BY DEF IInv
<1>2. ASSUME NEW k \in Keys, NEW trx \in Trxs, NEW request \in Requests, Propose(k, trx, request)
      PROVE  IInv'
  BY <1>2, ProposeInv
<1>3. ASSUME NEW k \in Keys, NEW l \in Levels, Unapprove(k, l)
      PROVE  IInv'
  BY <1>3, UnapproveInv
<1>4. ASSUME NEW k \in Keys, NEW l \in Levels, NEW hash \in Trxs \cup {NoHash},
             Approve(k, l, hash)
      PROVE  IInv'
  BY <1>4, ApproveInv
<1>5. ASSUME NEW k \in Keys, NEW canceler \in Accounts, Cancel(k, canceler)
      PROVE  IInv'
  BY <1>1, <1>5, EraseInv DEF Cancel, TypeOK
<1>6. ASSUME NEW k \in Keys, Exec(k)
      PROVE  IInv'
  <2>1. deferred' \in [Keys -> Trxs \cup {NoRow}]
    BY <1>1, <1>6 DEF Exec, TypeOK
  <2>2. QED
    BY <1>6, <2>1, EraseInv DEF Exec
<1>7. ASSUME NEW k \in Keys, RunDeferred(k)
      PROVE  IInv'
  <2>1. deferred' \in [Keys -> Trxs \cup {NoRow}] /\ now' \in 0 .. MaxTime /\ now <= now'
    BY <1>1, <1>7, TypesAssumption DEF RunDeferred, TypeOK
  <2>2. QED
    BY <1>7, <2>1, ChainInv DEF RunDeferred
<1>8. ASSUME NEW a \in Accounts, Invalidate(a)
      PROVE  IInv'
  BY <1>8, InvalidateInv
<1>9. CASE Tick
  <2>1. deferred' \in [Keys -> Trxs \cup {NoRow}] /\ now' \in 0 .. MaxTime /\ now <= now'
    BY <1>1, <1>9, TypesAssumption DEF Tick, TypeOK
  <2>2. QED
    BY <1>9, <2>1, ChainInv DEF Tick
<1>10. CASE UNCHANGED vars
  <2>1. deferred' \in [Keys -> Trxs \cup {NoRow}] /\ now' \in 0 .. MaxTime /\ now <= now'
    BY <1>1, <1>10, TypesAssumption DEF vars, TypeOK
  <2>2. QED
    BY <1>10, <2>1, ChainInv DEF vars
<1>11. QED
  BY <1>2, <1>3, <1>4, <1>5, <1>6, <1>7, <1>8, <1>9, <1>10 DEF Next

\* The invariant holds throughout.
LEMMA Invariance == Spec => []IInv
<1>1. Init => IInv
  BY InitInv
<1>2. IInv /\ [Next]_vars => IInv'
  BY NextInv
<1>3. QED
  BY <1>1, <1>2, PTL DEF Spec
-----------------------------------------------------------------------------
(* Theorems                                                                *)

\* Every table keeps rows of its type, whatever legacy tables it starts from.
THEOREM TypeCorrect == Spec => []TypeOK
<1>1. IInv => TypeOK
  BY DEF IInv
<1>2. QED
  BY <1>1, Invariance, PTL

\* A proposal has exactly one row of approvals, in one of the two tables, and
\* no approvals are left for the next proposal under the name.
THEOREM RowsCorrect == Spec => []OneApprovalsRow
<1>1. IInv => OneApprovalsRow
  BY DEF IInv
<1>2. QED
  BY <1>1, Invariance, PTL

\* In a state of the invariant, the levels "exec" counts stand by the proposal
\* and name no other transaction.
LEMMA CountedConsent ==
  ASSUME IInv, NEW k \in Keys, approvals[k] # NoRow \/ old_approvals[k] # NoRow,
         NEW l \in Counted(k)
  PROVE  Consents(k, l, proposal[k])
<1>1. OneApprovalsRow /\ CountedStand /\ HashesPin
  BY DEF IInv
<1>2. l \in Levels
  BY DEF Counted
<1>3. CountsNew(k, l) \/ CountsOld(k, l)
  BY <1>1 DEF Counted, CountsNew, CountsOld
<1>4. PICK c \in consents : c.key = k /\ c.level = l
  BY <1>1, <1>2, <1>3 DEF CountedStand, Standing
<1>5. QED
  BY <1>1, <1>4 DEF HashesPin, Consents

\* "exec" queues a transaction only with the consent of levels that suffice
\* for it, consent that was neither taken back nor invalidated and that names
\* no other transaction.
THEOREM ConsentCorrect == Spec => ExecutedWithConsent
<1> DEFINE Queued(k) == deferred'[k] # NoRow /\ deferred'[k] # deferred[k] =>
                           \E q \in Authorizes[deferred'[k]] :
                              \A l \in q : Consents(k, l, deferred'[k])
<1>1. IInv /\ [Next]_vars => [\A k \in Keys : Queued(k)]_vars
  <2> SUFFICES ASSUME IInv, Next, NEW k \in Keys, deferred'[k] # NoRow, deferred'[k] # deferred[k]
               PROVE  \E q \in Authorizes[deferred'[k]] :
                         \A l \in q : Consents(k, l, deferred'[k])
    OBVIOUS
  <2>1. deferred \in [Keys -> Trxs \cup {NoRow}]
    BY DEF IInv, TypeOK
  <2>2. PICK j \in Keys : Exec(j) \/ RunDeferred(j)
    <3>1. deferred' # deferred
      OBVIOUS
    <3>2. QED
      BY <3>1 DEF Next, Propose, Approve, Unapprove, Cancel, Invalidate, Tick
  <2>3. j = k /\ Exec(k)
    BY <2>1, <2>2 DEF Exec, RunDeferred
  <2>4. deferred'[k] = proposal[k] /\ Authorized(proposal[k], Counted(k))
    BY <2>1, <2>3 DEF Exec
  <2>5. approvals[k] # NoRow \/ old_approvals[k] # NoRow
    BY <2>3 DEF Exec
  <2>6. PICK q \in Authorizes[proposal[k]] : q \subseteq Counted(k)
    BY <2>4 DEF Authorized
  <2>7. \A l \in q : Consents(k, l, proposal[k])
    BY <2>5, <2>6, CountedConsent
  <2>8. QED
    BY <2>4, <2>6, <2>7
<1>2. QED
  BY <1>1, Invariance, PTL DEF Spec, ExecutedWithConsent

\* What a level is asked depends on the proposal's own rows alone.
LEMMA AskedOfRows ==
  ASSUME NEW k \in Keys, approvals'[k] = approvals[k], old_approvals'[k] = old_approvals[k]
  PROVE  \A l \in Levels : Asked(k, l)' = Asked(k, l)
  BY DEF Asked, ApprovalCount

\* A vote moves one entry of its level from one vector to the other.
LEMMA VoteKeepsAsked ==
  ASSUME IInv, NEW k \in Keys, NEW l \in Levels,
         \/ ApproveNew(k, l) \/ ApproveOld(k, l)
         \/ UnapproveNew(k, l) \/ UnapproveOld(k, l)
  PROVE  /\ \A m \in Levels : Asked(k, m)' = Asked(k, m)
         /\ \A j \in Keys \ {k} : approvals'[j] = approvals[j] /\ old_approvals'[j] = old_approvals[j]
<1>1. TypeOK
  BY DEF IInv
<1>2. \A s \in Seq(Nat), n \in Nat : Append(s, n) \in Seq(Nat) /\ Len(Append(s, n)) = Len(s) + 1
  OBVIOUS
<1>3. \A s \in Seq(Nat) : s # <<>> =>
         Tail(s) \in Seq(Nat) /\ Len(Tail(s)) = Len(s) - 1 /\ Len(s) \in Nat /\ Len(s) > 0
  OBVIOUS
<1>4. ASSUME NEW n \in Nat, NEW s \in Seq(Nat), approvals[k] # NoRow, UNCHANGED old_approvals,
             approvals' = [approvals EXCEPT ![k] = WithLevel(approvals[k], l, n, s)],
             n + Len(s) = approvals[k].requested[l] + Len(approvals[k].provided[l])
      PROVE  /\ \A m \in Levels : Asked(k, m)' = Asked(k, m)
             /\ \A j \in Keys \ {k} : approvals'[j] = approvals[j] /\ old_approvals'[j] = old_approvals[j]
  <2> DEFINE row == WithLevel(approvals[k], l, n, s)
  <2>1. approvals[k] \in Approval
    BY <1>1, <1>4 DEF TypeOK
  <2>1a. ASSUME NEW old \in Approval
         PROVE  LET new == WithLevel(old, l, n, s)
               IN  /\ new \in Approval /\ new # NoRow
                   /\ new.requested[l] = n /\ new.provided[l] = s
                   /\ \A m \in Levels \ {l} : /\ new.requested[m] = old.requested[m]
                                              /\ new.provided[m] = old.provided[m]
    BY WithLevelNew
  <2>2. /\ row \in Approval /\ row # NoRow
        /\ row.requested[l] = n /\ row.provided[l] = s
        /\ \A m \in Levels \ {l} : /\ row.requested[m] = approvals[k].requested[m]
                                   /\ row.provided[m] = approvals[k].provided[m]
    BY <2>1, <2>1a
  <2>3. approvals'[k] = row /\ \A j \in Keys \ {k} : approvals'[j] = approvals[j]
    BY <1>1, <1>4 DEF TypeOK
  <2>4. \A m \in Levels : /\ approvals[k].requested[m] \in Nat
                          /\ Len(approvals[k].provided[m]) \in Nat
    BY <2>1 DEF Approval, Counts, Times
  <2> HIDE DEF row
  <2>5. ASSUME NEW m \in Levels PROVE Asked(k, m)' = Asked(k, m)
    <3>1. Asked(k, m) = Len(approvals[k].provided[m]) + approvals[k].requested[m]
      BY <1>4 DEF Asked, ApprovalCount
    <3>2. Asked(k, m)' = Len(row.provided[m]) + row.requested[m]
      BY <2>2, <2>3 DEF Asked, ApprovalCount
    <3>3. CASE m = l
      <4>1. Len(s) \in Nat
        OBVIOUS
      <4>2. Asked(k, m) = Len(approvals[k].provided[l]) + approvals[k].requested[l]
        BY <3>1, <3>3
      <4>3. Asked(k, m)' = Len(s) + n
        BY <2>2, <3>2, <3>3
      <4>4. n + Len(s) = approvals[k].requested[l] + Len(approvals[k].provided[l])
        BY <1>4
      <4>5. /\ approvals[k].requested[l] \in Nat
            /\ Len(approvals[k].provided[l]) \in Nat
        BY <2>4
      <4>6. QED
        BY <4>1, <4>2, <4>3, <4>4, <4>5
    <3>4. CASE m # l
      BY <2>2, <3>1, <3>2, <3>4
    <3>5. QED
      BY <3>3, <3>4
  <2>6. QED
    BY <1>4, <2>3, <2>5
<1>5. ASSUME NEW n \in Nat, NEW p \in Nat, approvals[k] = NoRow, old_approvals[k] # NoRow,
             UNCHANGED approvals,
             old_approvals' = [old_approvals EXCEPT ![k] = WithLevel(old_approvals[k], l, n, p)],
             n + p = old_approvals[k].requested[l] + old_approvals[k].provided[l]
      PROVE  /\ \A m \in Levels : Asked(k, m)' = Asked(k, m)
             /\ \A j \in Keys \ {k} : approvals'[j] = approvals[j] /\ old_approvals'[j] = old_approvals[j]
  <2> DEFINE row == WithLevel(old_approvals[k], l, n, p)
  <2>1. old_approvals[k] \in OldApproval
    BY <1>1, <1>5 DEF TypeOK
  <2>2. /\ row \in OldApproval /\ row # NoRow
        /\ row.requested[l] = n /\ row.provided[l] = p
        /\ \A m \in Levels \ {l} : /\ row.requested[m] = old_approvals[k].requested[m]
                                   /\ row.provided[m] = old_approvals[k].provided[m]
    BY <2>1, WithLevelOld
  <2>3. old_approvals'[k] = row /\ \A j \in Keys \ {k} : old_approvals'[j] = old_approvals[j]
    BY <1>1, <1>5 DEF TypeOK
  <2>4. \A m \in Levels : old_approvals[k].requested[m] \in Nat /\ old_approvals[k].provided[m] \in Nat
    BY <2>1 DEF OldApproval, Counts
  <2> HIDE DEF row
  <2>5. ASSUME NEW m \in Levels PROVE Asked(k, m)' = Asked(k, m)
    <3>1. Asked(k, m) = old_approvals[k].provided[m] + old_approvals[k].requested[m]
      BY <1>5 DEF Asked, ApprovalCount
    <3>2. Asked(k, m)' = row.provided[m] + row.requested[m]
      BY <1>5, <2>2, <2>3 DEF Asked, ApprovalCount
    <3>3. CASE m = l
      BY <1>5, <2>2, <2>4, <3>1, <3>2, <3>3
    <3>4. CASE m # l
      BY <2>2, <3>1, <3>2, <3>4
    <3>5. QED
      BY <3>3, <3>4
  <2>6. QED
    BY <1>5, <2>3, <2>5
<1>6. approvals[k] # NoRow => approvals[k].provided[l] \in Seq(Nat) /\ approvals[k].requested[l] \in Nat
  BY <1>1 DEF TypeOK, Approval, Counts, Times
<1>7. old_approvals[k] # NoRow => old_approvals[k].provided[l] \in Nat /\ old_approvals[k].requested[l] \in Nat
  BY <1>1 DEF TypeOK, OldApproval, Counts
<1>8. now \in Nat
  BY <1>1, TypesAssumption DEF TypeOK
<1>9. CASE ApproveNew(k, l)
  <2> DEFINE n == approvals[k].requested[l] - 1
             s == Append(approvals[k].provided[l], now)
  <2>1. /\ approvals[k] # NoRow
        /\ approvals[k].requested[l] > 0
        /\ approvals' = [approvals EXCEPT ![k] = WithLevel(approvals[k], l, n, s)]
        /\ UNCHANGED old_approvals
    BY <1>9 DEF ApproveNew
  <2>2. /\ approvals[k].requested[l] \in Nat
        /\ approvals[k].provided[l] \in Seq(Nat)
        /\ Len(approvals[k].provided[l]) \in Nat
    BY <1>6, <2>1
  <2>3. s \in Seq(Nat) /\ Len(s) = Len(approvals[k].provided[l]) + 1
    BY <1>2, <1>8, <2>2
  <2>4. n \in Nat
    BY <2>1, <2>2
  <2>5. \A a, b \in Nat : (a - 1) + (b + 1) = a + b
    OBVIOUS
  <2>6. n + Len(s) = approvals[k].requested[l] + Len(approvals[k].provided[l])
    <3>1. Len(s) = Len(approvals[k].provided[l]) + 1
      BY <2>3
    <3>2. (approvals[k].requested[l] - 1) + (Len(approvals[k].provided[l]) + 1)
             = approvals[k].requested[l] + Len(approvals[k].provided[l])
      BY <2>2, <2>5, Zenon
    <3>3. QED
      BY <3>1, <3>2, Zenon
  <2> HIDE DEF n, s
  <2>7. QED
    BY <1>4, <2>1, <2>3, <2>4, <2>6
<1>10. CASE UnapproveNew(k, l)
  <2> DEFINE n == approvals[k].requested[l] + 1
             s == Tail(approvals[k].provided[l])
  <2>1. /\ approvals[k] # NoRow
        /\ approvals[k].provided[l] # <<>>
        /\ approvals' = [approvals EXCEPT ![k] = WithLevel(approvals[k], l, n, s)]
        /\ UNCHANGED old_approvals
    BY <1>10 DEF UnapproveNew
  <2>2. /\ approvals[k].requested[l] \in Nat
        /\ approvals[k].provided[l] \in Seq(Nat)
        /\ Len(approvals[k].provided[l]) \in Nat
    BY <1>6, <2>1
  <2>3. s \in Seq(Nat) /\ Len(s) = Len(approvals[k].provided[l]) - 1
    BY <1>3, <2>1, <2>2
  <2>4. n \in Nat
    BY <2>2
  <2>5. \A a, b \in Nat : (a + 1) + (b - 1) = a + b
    OBVIOUS
  <2>6. n + Len(s) = approvals[k].requested[l] + Len(approvals[k].provided[l])
    <3>1. Len(s) = Len(approvals[k].provided[l]) - 1
      BY <2>3
    <3>2. (approvals[k].requested[l] + 1) + (Len(approvals[k].provided[l]) - 1)
             = approvals[k].requested[l] + Len(approvals[k].provided[l])
      BY <2>2, <2>5, Zenon
    <3>3. QED
      BY <3>1, <3>2, Zenon
  <2> HIDE DEF n, s
  <2>7. QED
    BY <1>4, <2>1, <2>3, <2>4, <2>6
<1>11. CASE ApproveOld(k, l)
  <2> DEFINE n == old_approvals[k].requested[l] - 1
             p == old_approvals[k].provided[l] + 1
  <2>1. /\ approvals[k] = NoRow
        /\ old_approvals[k] # NoRow
        /\ old_approvals[k].requested[l] > 0
        /\ old_approvals' = [old_approvals EXCEPT ![k] = WithLevel(old_approvals[k], l, n, p)]
        /\ UNCHANGED approvals
    BY <1>11 DEF ApproveOld
  <2>2. /\ old_approvals[k].requested[l] \in Nat
        /\ old_approvals[k].provided[l] \in Nat
    BY <1>7, <2>1
  <2>3. /\ n \in Nat
        /\ p \in Nat
        /\ n + p = old_approvals[k].requested[l] + old_approvals[k].provided[l]
    BY <2>1, <2>2
  <2> HIDE DEF n, p
  <2>4. QED
    BY <1>5, <2>1, <2>3
<1>12. CASE UnapproveOld(k, l)
  <2> DEFINE n == old_approvals[k].requested[l] + 1
             p == old_approvals[k].provided[l] - 1
  <2>1. /\ approvals[k] = NoRow
        /\ old_approvals[k] # NoRow
        /\ old_approvals[k].provided[l] > 0
        /\ old_approvals' = [old_approvals EXCEPT ![k] = WithLevel(old_approvals[k], l, n, p)]
        /\ UNCHANGED approvals
    BY <1>12 DEF UnapproveOld
  <2>2. /\ old_approvals[k].requested[l] \in Nat
        /\ old_approvals[k].provided[l] \in Nat
    BY <1>7, <2>1
  <2>3. /\ n \in Nat
        /\ p \in Nat
        /\ n + p = old_approvals[k].requested[l] + old_approvals[k].provided[l]
    BY <2>1, <2>2
  <2> HIDE DEF n, p
  <2>4. QED
    BY <1>5, <2>1, <2>3
<1>13. QED
  BY <1>9, <1>10, <1>11, <1>12

\* A standing proposal keeps its transaction and what it asks of each level,
\* whatever approvals are given and taken back.
THEOREM AskedCorrect == Spec => AskedStays
<1> DEFINE Keeps(k) == proposal[k] # NoRow /\ proposal'[k] # NoRow =>
                          /\ proposal'[k] = proposal[k]
                          /\ \A l \in Levels : Asked(k, l)' = Asked(k, l)
<1>1. IInv /\ [Next]_vars => [\A k \in Keys : Keeps(k)]_vars
  <2> SUFFICES ASSUME IInv, Next, NEW k \in Keys, proposal[k] # NoRow, proposal'[k] # NoRow
               PROVE  /\ proposal'[k] = proposal[k]
                      /\ \A l \in Levels : Asked(k, l)' = Asked(k, l)
    OBVIOUS
  <2>1. TypeOK
    BY DEF IInv
  <2>2. ASSUME NEW j \in Keys, NEW l \in Levels,
               \/ ApproveNew(j, l) \/ ApproveOld(j, l)
               \/ UnapproveNew(j, l) \/ UnapproveOld(j, l)
        PROVE  \A m \in Levels : Asked(k, m)' = Asked(k, m)
    <3>1. CASE j = k
      BY <2>2, <3>1, VoteKeepsAsked
    <3>2. CASE j # k
      <4>1. approvals'[k] = approvals[k] /\ old_approvals'[k] = old_approvals[k]
        BY <2>2, <3>2, VoteKeepsAsked
      <4>2. QED
        BY <4>1, AskedOfRows
    <3>3. QED
      BY <3>1, <3>2
  <2>3. ASSUME NEW j \in Keys, NEW trx \in Trxs, NEW request \in Requests, Propose(j, trx, request)
        PROVE  Keeps(k)
    <3>1. /\ j # k /\ proposal'[k] = proposal[k]
          /\ approvals'[k] = approvals[k] /\ old_approvals'[k] = old_approvals[k]
      BY <2>1, <2>3 DEF Propose, TypeOK
    <3>2. QED
      BY <3>1, AskedOfRows
  <2>4. ASSUME NEW j \in Keys, NEW l \in Levels,
               Unapprove(j, l) \/ \E hash \in Trxs \cup {NoHash} : Approve(j, l, hash)
        PROVE  Keeps(k)
    <3>1. /\ proposal' = proposal
          /\ \/ ApproveNew(j, l) \/ ApproveOld(j, l)
             \/ UnapproveNew(j, l) \/ UnapproveOld(j, l)
      BY <2>4 DEF Approve, Unapprove
    <3>2. QED
      BY <2>2, <3>1
  <2>5. ASSUME NEW j \in Keys, Exec(j) \/ \E canceler \in Accounts : Cancel(j, canceler)
        PROVE  Keeps(k)
    <3>1. EraseApprovals(j) /\ proposal' = [proposal EXCEPT ![j] = NoRow]
      BY <2>5 DEF Exec, Cancel
    <3>2. /\ j # k /\ proposal'[k] = proposal[k]
          /\ approvals'[k] = approvals[k] /\ old_approvals'[k] = old_approvals[k]
      BY <2>1, <3>1 DEF EraseApprovals, TypeOK
    <3>3. QED
      BY <3>2, AskedOfRows
  <2>6. ASSUME \/ \E j \in Keys : RunDeferred(j)
               \/ \E a \in Accounts : Invalidate(a)
               \/ Tick
        PROVE  Keeps(k)
    <3>1. UNCHANGED <<proposal, approvals, old_approvals>>
      BY <2>6 DEF RunDeferred, Invalidate, Tick
    <3>2. QED
      BY <3>1, AskedOfRows
  <2>7. QED
    BY <2>3, <2>4, <2>5, <2>6 DEF Next
<1>2. QED
  BY <1>1, Invariance, PTL DEF Spec, AskedStays
=============================================================================
