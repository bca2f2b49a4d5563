------------------------------- MODULE Oracle -------------------------------
(***************************************************************************)
(* Requests to the oracles of block producers (oracle.cpp).  A request is  *)
(* assigned to the oracle account of one of the top producers, with that   *)
(* of another standing by.  The assigned one may answer in the first       *)
(* period, the other in the second, and then anybody may close it.         *)
(*                                                                         *)
(* Requests and replies name oracles by their accounts, and counters are   *)
(* kept in the rows of producers: the row is looked up by account each     *)
(* time, and producers may change their accounts in between.  Counters are *)
(* unsigned words, which wrap.                                             *)
(***************************************************************************)
EXTENDS Voting

CONSTANTS OracleAccounts,  \* accounts that producers name as their oracles
          Callers,         \* who signs replies
          RequestKeys,     \* callers and ids of requests
          Slots,           \* Slots: the block slots at which requests are made
          TopOracles,      \* producers whose oracles are used (21)
          RequestPeriod,   \* request_period (5 minutes)
          BaseRange,       \* the least range of slots of an oracle (10)
          Word             \* what a uint32_t counter counts to (2^32)

ASSUME OracleAssumption ==
    /\ IsFiniteSet(RequestKeys)
    /\ None \notin OracleAccounts
    /\ Slots \subseteq Nat
    /\ {TopOracles, RequestPeriod, BaseRange} \subseteq Nat \ {0}
    /\ Word \in Nat \ {0, 1}

Counters   == 0 .. Word - 1
OracleRow  == [account : OracleAccounts \cup {None}, pending : Counters, successful : Counters,
               failed : Counters, punishment : Nat]
RequestRow == [time : Nat, assigned : OracleAccounts, standby : OracleAccounts \cup {None}]

ASSUME OracleRowsAssumption == NoRow \notin OracleRow \cup RequestRow

VARIABLES oracles,     \* oracles[p]: the row of producer p, or NoRow
          requests,    \* requests[k]: the row of request k, or NoRow
          successes,   \* total_successful_requests
          lost,        \* history: the replies whose assigned oracle had no row any more
          tangled      \* history: a producer changed its account, or took another's

oracleVars == <<oracles, requests, successes, lost, tangled>>

OracleInit ==
    /\ oracles = [p \in Candidates |-> NoRow]
    /\ requests = [k \in RequestKeys |-> NoRow]
    /\ successes = 0
    /\ lost = 0
    /\ tangled = FALSE

\* The producers with a row that names this account.
Naming(rows, account) ==
    {p \in Candidates : rows[p] # NoRow /\ rows[p].account = account}

\* Mutant: counters are integers that go below zero.
Counted_Signed(row, change) ==
    [f \in DOMAIN row |-> IF f \in DOMAIN change THEN row[f] + change[f] ELSE row[f]]

\* A row with changes added to its counters.
Counted(row, change) ==
    [f \in DOMAIN row |-> IF f \in DOMAIN change THEN (row[f] + change[f]) % Word ELSE row[f]]

\* A change of the row that the "oracleacc" index finds first, if any.
Bump(rows, account, change) ==
    [p \in Candidates |->
        IF /\ p \in Naming(rows, account)
           /\ \A q \in Naming(rows, account) : NameValue[p] <= NameValue[q]
        THEN Counted(rows[p], change) ELSE rows[p]]

\* Mutant: the request stays pending.
Missed_Stays == [failed |-> 1]

\* The changes of a row's counters.
Requested == [pending |-> 1]
Answered == [pending |-> -1]
Missed == [pending |-> -1, failed |-> 1]
StandbyMiss == [failed |-> 1]
Succeeded == [successful |-> 1]
-----------------------------------------------------------------------------
(* get_current_oracle                                                      *)

\* The producers among the first of the index whose oracles take requests.
ActiveOracles ==
    {p \in Registered(VotingTables) :
        /\ Cardinality(Ahead(VotingTables, p)) < TopOracles
        /\ \A q \in Ahead(VotingTables, p) \cup {p} : producers[q].votes > 0 /\ producers[q].active
        /\ oracles[p] # NoRow
        /\ oracles[p].account # None}

\* The orders std::sort may put them in: most pending requests first.
Orders(S) ==
    {s \in [1 .. Cardinality(S) -> S] :
        \A i, j \in DOMAIN s : i < j => /\ s[i] # s[j]
                                        /\ oracles[s[i]].pending >= oracles[s[j]].pending}

\* The upper ends of the ranges of slots: fewer pending requests, wider range.
UpperEnds(s) ==
    LET Width(i) == BaseRange + Cardinality({j \in 2 .. i : oracles[s[j - 1]].pending
                                                              > oracles[s[j]].pending})
    IN  [i \in 0 .. Cardinality(DOMAIN s) |-> SumOver([j \in 1 .. i |-> Width(j)], 1 .. i)]

\* The first of the indices in I whose range reaches above x.
FirstAbove(I, upper, x) ==
    CHOOSE i \in I : x < upper[i] /\ \A j \in I : j < i => x >= upper[j]

\* The oracle assigned at a slot, and the one standing by: the ranges stay
\* where they are when the first is taken out.
CurrentOracle(s, slot) ==
    LET n     == Cardinality(DOMAIN s)
        upper == UpperEnds(s)
        first == FirstAbove(1 .. n, upper, slot % upper[n])
        left  == upper[n] - (upper[first] - upper[first - 1])
        rest  == (1 .. n) \ {first}
    IN  [assigned |-> oracles[s[first]].account,
         standby  |-> IF rest = {} THEN None
                      ELSE oracles[s[FirstAbove(rest, upper, slot % left)]].account]
-----------------------------------------------------------------------------
(* The actions                                                             *)

\* addrequest
AddRequest(k, slot) ==
    /\ requests[k] = NoRow
    /\ ActiveOracles # {}
    /\ \E s \in Orders(ActiveOracles) :
          LET chosen == CurrentOracle(s, slot)
          IN  /\ oracles' = Bump(oracles, chosen.assigned, Requested)
              /\ requests' = [requests EXCEPT ![k] = [time |-> now, assigned |-> chosen.assigned,
                                                      standby |-> chosen.standby]]
    /\ UNCHANGED <<successes, lost, tangled>>

First(k)  == now - requests[k].time < RequestPeriod
Second(k) == ~First(k) /\ now - requests[k].time < 2 * RequestPeriod
Timeout(k) == ~First(k) /\ ~Second(k)

\* Who may answer, or close, request k by now.
MayReply(k, by) ==
    /\ First(k)  => by = requests[k].assigned
    /\ Second(k) => by = requests[k].standby

\* reply
Reply(k, by) ==
    /\ requests[k] # NoRow
    /\ MayReply(k, by)
    /\ LET assigned == requests[k].assigned
           standby  == requests[k].standby
           found    == Naming(oracles, assigned) # {}
           answered == Bump(oracles, assigned, IF First(k) THEN Answered ELSE Missed)
           noticed  == IF Timeout(k) /\ standby # None
                       THEN Bump(answered, standby, StandbyMiss) ELSE answered
           winner   == CASE First(k) /\ found -> assigned [] Second(k) -> standby [] OTHER -> None
           rewarded == Naming(oracles, winner) # {} /\ winner # None
       IN  /\ rewarded => successes # Word - 1
           /\ oracles' = IF rewarded THEN Bump(noticed, winner, Succeeded) ELSE noticed
           /\ successes' = IF rewarded THEN successes + 1 ELSE successes
           /\ lost' = IF found THEN lost ELSE (lost + 1) % Word
    /\ requests' = [requests EXCEPT ![k] = NoRow]
    /\ UNCHANGED tangled

\* setoracle; an empty account takes the oracle out of service.
SetOracle(p, account) ==
    /\ producers[p] # NoRow
    /\ oracles' = [oracles EXCEPT ![p] =
                      IF oracles[p] = NoRow
                      THEN [account |-> account, pending |-> 0, successful |-> 0,
                            failed |-> 0, punishment |-> 0]
                      ELSE [oracles[p] EXCEPT !.account = account]]
    /\ tangled' = (\/ tangled
                   \/ Naming(oracles, account) \ {p} # {} /\ account # None
                   \/ oracles[p] # NoRow /\ oracles[p].account \notin {None, account})
    /\ UNCHANGED <<requests, successes, lost>>

OracleNext ==
    \/ \E k \in RequestKeys, slot \in Slots : AddRequest(k, slot)
    \/ \E k \in RequestKeys, by \in Callers : Reply(k, by)
    \/ \E p \in Candidates, account \in OracleAccounts \cup {None} : SetOracle(p, account)
-----------------------------------------------------------------------------
(* Properties                                                              *)

\* Type correctness: counters stay within their words.
OracleTypeOK ==
    /\ oracles \in [Candidates -> OracleRow \cup {NoRow}]
    /\ requests \in [RequestKeys -> RequestRow \cup {NoRow}]
    /\ successes \in Counters
    /\ lost \in Counters
    /\ tangled \in BOOLEAN

OraclesWithRow  == {p \in Candidates : oracles[p] # NoRow}
OpenRequests    == {k \in RequestKeys : requests[k] # NoRow}
Assigned(a)     == {k \in OpenRequests : requests[k].assigned = a}

\* Who replied to what: requests that are open are the ones counted as pending, except those
\* whose oracle was renamed before the reply; while producers keep to accounts of their own,
\* each has exactly its open requests pending, and no request has its assigned oracle
\* standing by as well (get_current_oracle: "standby oracle must be a different one").
RequestsAccounted ==
    /\ (SumOver([p \in OraclesWithRow |-> oracles[p].pending], OraclesWithRow)
            - Cardinality(OpenRequests) - lost) % Word = 0
    /\ ~tangled =>
          /\ lost = 0
          /\ \A p \in OraclesWithRow :
                oracles[p].account # None =>
                    oracles[p].pending = Cardinality(Assigned(oracles[p].account)) % Word
          /\ \A k \in OpenRequests : requests[k].standby # requests[k].assigned

\* The total that oracle pay is divided by is the sum of the rows' counters,
\* whoever the replies were credited to.
SuccessesAddUp ==
    SumOver([p \in OraclesWithRow |-> oracles[p].successful], OraclesWithRow) = successes
=============================================================================
