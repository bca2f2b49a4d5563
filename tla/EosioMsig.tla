------------------------------ MODULE EosioMsig ------------------------------
(***************************************************************************)
(* The eosio.msig contract: proposals, the approvals asked of and given by *)
(* permission levels, the invalidations an account makes of all approvals  *)
(* it ever gave, and the deferred transactions "exec" leaves behind.       *)
(*                                                                         *)
(* A proposal is named by a key <<proposer, proposal_name>> (the scope and *)
(* the primary key of its rows).  The vectors of a row are kept per level: *)
(* how often the level is still asked, and the times it approved at, in    *)
(* the order of the vector; the order between levels never matters.        *)
(*                                                                         *)
(* Time is counted in block slots; transaction headers count in seconds.   *)
(***************************************************************************)
EXTENDS Integers, Sequences, FiniteSets

CONSTANTS Keys,          \* proposals that may exist: pairs <<proposer, name>>
          Accounts,      \* every account, the proposers among them
          Levels,        \* permission levels
          ActorOf,       \* ActorOf[l]: the account of level l
          Trxs,          \* transactions that may be proposed
          Expiration,    \* Expiration[t]: the second t expires at
          Authorizes,    \* Authorizes[t]: the sets of levels that suffice for t
          Requests,      \* vectors of requested levels, as counts per level
          LegacyTables,  \* tables an earlier version of the contract left
          SlotsPerSec,   \* block slots in a second
          MaxTime,       \* bound on the block slots of a behaviour
          NoRow,         \* the absence of a table row
          NoHash         \* the absent binary extension of "approve"

Counts == [Levels -> Nat]
Times  == [Levels -> Seq(Nat)]

\* Rows of the tables approvals2 and approvals.
Approval    == [requested : Counts, provided : Times]
OldApproval == [requested : Counts, provided : Counts]

ASSUME TypesAssumption ==
    /\ \A k \in Keys : k[1] \in Accounts
    /\ ActorOf \in [Levels -> Accounts]
    /\ Expiration \in [Trxs -> Nat]
    /\ Authorizes \in [Trxs -> SUBSET SUBSET Levels]
    /\ Requests \subseteq Counts
    /\ SlotsPerSec \in Nat \ {0}
    /\ MaxTime \in Nat
ASSUME AbsentAssumption ==
    /\ NoRow \notin Trxs \cup Nat
    /\ NoRow \notin Approval
    /\ NoRow \notin OldApproval
    /\ NoHash \notin Trxs
\* Earlier versions kept a row of approvals beside every proposal as well.
ASSUME LegacyAssumption ==
    \A t \in LegacyTables :
        /\ t.proposal \in [Keys -> Trxs \cup {NoRow}]
        /\ t.approvals \in [Keys -> OldApproval \cup {NoRow}]
        /\ \A k \in Keys : t.proposal[k] = NoRow <=> t.approvals[k] = NoRow

VARIABLES proposal,       \* proposal[k]: the transaction of proposal k, or NoRow
          approvals,      \* the rows of approvals2
          old_approvals,  \* the rows of approvals, which "propose" no longer writes
          invals,         \* invals[a]: last_invalidation_time of a, or NoRow
          deferred,       \* deferred[k]: the transaction queued under k's sender id, or NoRow
          now,            \* the block slot
          consents        \* history: who stands by which proposal, and with which hash

vars == <<proposal, approvals, old_approvals, invals, deferred, now, consents>>

Sec(t) == t \div SlotsPerSec

\* check_transaction_authorization, for the given levels.
Authorized(trx, levels) == \E q \in Authorizes[trx] : q \subseteq levels

\* History: what remains of the consents when some of k's, or of a's, go.
WithoutKey(k)      == {c \in consents : c.key # k}
WithoutLevel(k, l) == {c \in consents : ~ (c.key = k /\ c.level = l)}
WithoutActor(a)    == {c \in consents : ActorOf[c.level] # a}
-----------------------------------------------------------------------------
Init == \E legacy \in LegacyTables :
    /\ proposal = legacy.proposal
    /\ old_approvals = legacy.approvals
    /\ approvals = [k \in Keys |-> NoRow]
    /\ invals = [a \in Accounts |-> NoRow]
    /\ deferred = [k \in Keys |-> NoRow]
    /\ now = 0
    /\ consents = {[key |-> kl[1], level |-> kl[2], hash |-> NoHash] :
                      kl \in {kl \in Keys \X Levels :
                                 /\ legacy.approvals[kl[1]] # NoRow
                                 /\ legacy.approvals[kl[1]].provided[kl[2]] > 0}}

\* The key's proposer asks the levels of request to approve trx.
Propose(k, trx, request) ==
    /\ Expiration[trx] >= Sec(now)
    /\ proposal[k] = NoRow
    /\ Authorized(trx, {l \in Levels : request[l] > 0})
    /\ approvals[k] = NoRow
    /\ proposal' = [proposal EXCEPT ![k] = trx]
    /\ approvals' = [approvals EXCEPT ![k] =
                        [requested |-> request, provided |-> [l \in Levels |-> <<>>]]]
    /\ UNCHANGED <<old_approvals, invals, deferred, now, consents>>

\* assert_sha256: the hash, when there is one, is that of the transaction.
HashMatches(k, hash) == hash # NoHash => proposal[k] = hash

\* A row of approvals with other entries for l.
WithLevel(row, l, requested, provided) ==
    [requested |-> [row.requested EXCEPT ![l] = requested],
     provided  |-> [row.provided EXCEPT ![l] = provided]]

ApproveNew(k, l) ==
    /\ approvals[k] # NoRow
    /\ approvals[k].requested[l] > 0
    /\ approvals' = [approvals EXCEPT ![k] =
            WithLevel(@, l, @.requested[l] - 1, Append(@.provided[l], now))]
    /\ UNCHANGED old_approvals

ApproveOld(k, l) ==
    /\ approvals[k] = NoRow
    /\ old_approvals[k] # NoRow
    /\ old_approvals[k].requested[l] > 0
    /\ old_approvals' = [old_approvals EXCEPT ![k] =
            WithLevel(@, l, @.requested[l] - 1, @.provided[l] + 1)]
    /\ UNCHANGED approvals

Approve(k, l, hash) ==
    /\ HashMatches(k, hash)
    /\ ApproveNew(k, l) \/ ApproveOld(k, l)
    /\ consents' = WithoutLevel(k, l) \cup {[key |-> k, level |-> l, hash |-> hash]}
    /\ UNCHANGED <<proposal, invals, deferred, now>>

\* Mutant: unapprove in approvals2 does not ask the level again.
UnapproveNew_Forgotten(k, l) ==
    /\ approvals[k] # NoRow
    /\ approvals[k].provided[l] # <<>>
    /\ approvals' = [approvals EXCEPT ![k].provided[l] = Tail(@)]
    /\ UNCHANGED old_approvals

\* Erases the first approval of the level, the oldest.
UnapproveNew(k, l) ==
    /\ approvals[k] # NoRow
    /\ approvals[k].provided[l] # <<>>
    /\ approvals' = [approvals EXCEPT ![k] =
            WithLevel(@, l, @.requested[l] + 1, Tail(@.provided[l]))]
    /\ UNCHANGED old_approvals

\* Mutant: unapprove in approvals does not look for the approval.
UnapproveOld_Unchecked(k, l) ==
    /\ approvals[k] = NoRow
    /\ old_approvals[k] # NoRow
    /\ old_approvals' = [old_approvals EXCEPT ![k] =
            WithLevel(@, l, @.requested[l] + 1, @.provided[l] - 1)]
    /\ UNCHANGED approvals

UnapproveOld(k, l) ==
    /\ approvals[k] = NoRow
    /\ old_approvals[k] # NoRow
    /\ old_approvals[k].provided[l] > 0
    /\ old_approvals' = [old_approvals EXCEPT ![k] =
            WithLevel(@, l, @.requested[l] + 1, @.provided[l] - 1)]
    /\ UNCHANGED approvals

\* The approvals of l that proposal k has.
ApprovalCount(k, l) ==
    IF approvals[k] # NoRow THEN Len(approvals[k].provided[l])
    ELSE IF old_approvals[k] # NoRow THEN old_approvals[k].provided[l]
    ELSE 0

\* A level asked more than once approves and withdraws one approval at a time.
Unapprove(k, l) ==
    /\ UnapproveNew(k, l) \/ UnapproveOld(k, l)
    /\ consents' = IF ApprovalCount(k, l) > 1 THEN consents ELSE WithoutLevel(k, l)
    /\ UNCHANGED <<proposal, invals, deferred, now>>

\* Mutant: the row in approvals stays behind.
EraseApprovals_NewOnly(k) ==
    /\ approvals' = [approvals EXCEPT ![k] = NoRow]
    /\ approvals[k] # NoRow \/ old_approvals[k] # NoRow
    /\ UNCHANGED old_approvals

\* Erases the row in approvals2, or else the one in approvals.
EraseApprovals(k) ==
    IF approvals[k] # NoRow
    THEN /\ approvals' = [approvals EXCEPT ![k] = NoRow]
         /\ UNCHANGED old_approvals
    ELSE /\ old_approvals[k] # NoRow
         /\ old_approvals' = [old_approvals EXCEPT ![k] = NoRow]
         /\ UNCHANGED approvals

Cancel(k, canceler) ==
    /\ proposal[k] # NoRow
    /\ canceler # k[1] => Expiration[proposal[k]] < Sec(now)
    /\ proposal' = [proposal EXCEPT ![k] = NoRow]
    /\ EraseApprovals(k)
    /\ consents' = WithoutKey(k)
    /\ UNCHANGED <<invals, deferred, now>>

\* Mutant: an approval of the invalidation's own block still counts.
Counts2_SameBlock(l, t) == invals[ActorOf[l]] # NoRow => invals[ActorOf[l]] <= t

\* An approval in approvals2 counts when its actor never invalidated, or did
\* so strictly earlier; one in approvals, which has no time, when it never did.
Counts2(l, t) == invals[ActorOf[l]] # NoRow => invals[ActorOf[l]] < t

Counted(k) ==
    IF approvals[k] # NoRow
    THEN {l \in Levels : \E i \in DOMAIN approvals[k].provided[l] :
                             Counts2(l, approvals[k].provided[l][i])}
    ELSE {l \in Levels : /\ old_approvals[k].provided[l] > 0
                         /\ invals[ActorOf[l]] = NoRow}

\* Queues the transaction under the sender id of the key; a sender id that is
\* still queued fails the transaction.
Exec(k) ==
    /\ proposal[k] # NoRow
    /\ Expiration[proposal[k]] >= Sec(now)
    /\ approvals[k] # NoRow \/ old_approvals[k] # NoRow
    /\ Authorized(proposal[k], Counted(k))
    /\ deferred[k] = NoRow
    /\ deferred' = [deferred EXCEPT ![k] = proposal[k]]
    /\ EraseApprovals(k)
    /\ proposal' = [proposal EXCEPT ![k] = NoRow]
    /\ consents' = WithoutKey(k)
    /\ UNCHANGED <<invals, now>>

Invalidate(a) ==
    /\ invals' = [invals EXCEPT ![a] = now]
    /\ consents' = WithoutActor(a)
    /\ UNCHANGED <<proposal, approvals, old_approvals, deferred, now>>

\* The chain runs a queued transaction, or drops it when it fails or expires.
RunDeferred(k) ==
    /\ deferred[k] # NoRow
    /\ deferred' = [deferred EXCEPT ![k] = NoRow]
    /\ UNCHANGED <<proposal, approvals, old_approvals, invals, now, consents>>

\* The next block.
Tick == /\ now < MaxTime
        /\ now' = now + 1
        /\ UNCHANGED <<proposal, approvals, old_approvals, invals, deferred, consents>>

Next ==
    \/ \E k \in Keys :
          \/ \E trx \in Trxs, request \in Requests : Propose(k, trx, request)
          \/ \E l \in Levels : \/ Unapprove(k, l)
                               \/ \E hash \in Trxs \cup {NoHash} : Approve(k, l, hash)
          \/ \E canceler \in Accounts : Cancel(k, canceler)
          \/ Exec(k)
          \/ RunDeferred(k)
    \/ \E a \in Accounts : Invalidate(a)
    \/ Tick

Spec == Init /\ [][Next]_vars
-----------------------------------------------------------------------------
(* Properties                                                              *)

\* Every table holds rows of its type; no vector of a row is shorter than
\* empty and no time lies in the future.
TypeOK ==
    /\ proposal \in [Keys -> Trxs \cup {NoRow}]
    /\ approvals \in [Keys -> Approval \cup {NoRow}]
    /\ old_approvals \in [Keys -> OldApproval \cup {NoRow}]
    /\ invals \in [Accounts -> (0 .. now) \cup {NoRow}]
    /\ deferred \in [Keys -> Trxs \cup {NoRow}]
    /\ now \in 0 .. MaxTime
    /\ consents \subseteq [key : Keys, level : Levels, hash : Trxs \cup {NoHash}]

\* The three tables agree: a proposal has exactly one row of approvals, in
\* one of the two tables, and no approvals outlive their proposal.  "approve"
\* without a hash never reads the proposal and so rests on this: approvals
\* left behind would count for whatever is proposed under the name next.
OneApprovalsRow ==
    \A k \in Keys :
        /\ proposal[k] # NoRow <=> (approvals[k] # NoRow \/ old_approvals[k] # NoRow)
        /\ approvals[k] = NoRow \/ old_approvals[k] = NoRow

\* How often proposal k asks or has asked l.
Asked(k, l) ==
    ApprovalCount(k, l) + (IF approvals[k] # NoRow THEN approvals[k].requested[l]
                           ELSE old_approvals[k].requested[l])

\* While a proposal stands, approving and unapproving only move its levels
\* between the two vectors (the header asks that they keep their total size,
\* so that the row's serialised size stays), whatever table the row is in.
AskedStays ==
    [][\A k \in Keys : proposal[k] # NoRow /\ proposal'[k] # NoRow =>
          /\ proposal'[k] = proposal[k]
          /\ \A l \in Levels : Asked(k, l)' = Asked(k, l)]_vars

\* Level l stands by trx as proposal k: it approved k, naming trx or no
\* transaction, and neither unapproved nor invalidated since.
Consents(k, l, trx) ==
    \E c \in consents : c.key = k /\ c.level = l /\ c.hash \in {NoHash, trx}

\* "exec" queues a transaction only when levels that suffice for it stand by
\* it at that moment: no approval of an earlier proposal under the name, none
\* taken back, none given before its actor's last invalidation or in the same
\* block, and none given for another transaction.
ExecutedWithConsent ==
    [][\A k \in Keys :
          deferred'[k] # NoRow /\ deferred'[k] # deferred[k] =>
              \E q \in Authorizes[deferred'[k]] :
                  \A l \in q : Consents(k, l, deferred'[k])]_vars
=============================================================================
