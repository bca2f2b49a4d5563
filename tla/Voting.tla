------------------------------- MODULE Voting -------------------------------
(***************************************************************************)
(* Voting for block producers (voting.cpp).  A voter's weight is its stake *)
(* up to a limit; it is cast on producers, or handed to a proxy that casts *)
(* it along with its own.  A vote is undone by the weight it was cast      *)
(* with, so every tally is kept by differences, and so are the shares that *)
(* producers are paid by: votes held over time (votepay), and time spent   *)
(* on the list of witnesses.                                               *)
(*                                                                         *)
(* Weights are doubles in the code and whole numbers here.  Time counts in *)
(* the unit of the shares, and 0 is time_point().  The accounts of this    *)
(* module hold no REX (see Rex for what that adds to a vote).              *)
(***************************************************************************)
EXTENDS Integers, FiniteSets, Sums

CONSTANTS Accounts,       \* the accounts that stake and vote
          Candidates,     \* those of them that may register as producers
          Proxies,        \* those that may register as proxies
          NameValue,      \* NameValue[a]: the number a name stands for
          Stakes,         \* Stakes[a]: what a may have staked
          InitStake,      \* InitStake[a]: what a has staked at first, or NoRow
          ProducerStake,  \* a producer's voters row must have more than this (1000000000)
          FreeStake,      \* who has more staked than this must be a producer to unstake (1000000)
          MaxVotePower,   \* max_vote_power (10000000)
          MinActivated,   \* min_activated_stake (10'000'000'0000)
          MaxVotes,       \* producers one may vote for (30)
          MaxWitness,     \* witnesses there may be (50)
          WitnessPart,    \* one in so many votes makes a witness (200)
          PayWindow,      \* days that shares grow without a claim (3)
          MaxNow,         \* bound on the clock
          MaxUnpaid,      \* bound on the votes that are not paid
          MaxActivated,   \* bound on the activated stake when somebody unstakes
          MaxGone,        \* bound on the times producers are deactivated
          MaxTally,       \* bound on the tallies when somebody votes
          None,           \* no account: the empty name
          NoRow           \* no row in a table

ASSUME AccountsAssumption ==
    /\ IsFiniteSet(Accounts)
    /\ Candidates \subseteq Accounts
    /\ Proxies \subseteq Accounts
    /\ None \notin Accounts
    /\ NameValue \in [Accounts -> Nat]
    /\ \A a, b \in Accounts : NameValue[a] = NameValue[b] => a = b
ASSUME VotingBoundsAssumption ==
    /\ \A a \in Accounts : Stakes[a] \subseteq Nat
    /\ {ProducerStake, MaxVotePower, MinActivated, MaxVotes, FreeStake, MaxActivated, MaxUnpaid,
        MaxGone, MaxTally} \subseteq Nat
    /\ {MaxWitness, WitnessPart, PayWindow, MaxNow} \subseteq Nat \ {0}

VoterRow == [staked : Nat, producers : SUBSET Candidates, proxy : Accounts \cup {None},
             last : Int, proxied : Int, is_proxy : BOOLEAN, unpaid : Nat, claimed : Nat]
ProducerRow == [votes : Int, active : BOOLEAN, claimed : Nat,
                vshare : Int, vat : Nat, wshare : Nat, wat : Nat]

ASSUME VotingRowsAssumption ==
    /\ NoRow \notin VoterRow \cup ProducerRow
    /\ \A a \in Accounts : InitStake[a] \in Nat \cup {NoRow}

VARIABLES voters,     \* voters[a]: the row of a, or NoRow
          producers,  \* producers[p]: the rows of p in producers, producers2 and producers3
          gstate,     \* what _gstate to _gstate4 hold of votes and shares
          now,        \* current_time_point()
          withheld,   \* history: the changes of weight too small to pass on, by the
                      \* producers and the proxies they would have reached
          below,      \* history: some tally was below zero
          gone        \* history: how often a producer was deactivated

votingVars == <<voters, producers, gstate, now, withheld, below, gone>>

\* The tables that the handlers work on.
VotingTables == [voters |-> voters, producers |-> producers, gstate |-> gstate,
                 withheld |-> withheld, below |-> below, failed |-> FALSE]

NewVoter(stake) ==
    [staked |-> stake, producers |-> {}, proxy |-> None, last |-> 0, proxied |-> 0,
     is_proxy |-> FALSE, unpaid |-> 0, claimed |-> 0]

VotingInit ==
    /\ voters = [a \in Accounts |-> IF InitStake[a] = NoRow THEN NoRow ELSE NewVoter(InitStake[a])]
    /\ producers = [p \in Candidates |-> NoRow]
    /\ gstate = [weight |-> 0, activated |-> 0, thresh |-> 0, unpaid |-> 0,
                 vrate |-> 0, vtotal |-> 0, vat |-> 0, wrate |-> 0, wtotal |-> 0, wat |-> 0]
    /\ now = 1
    /\ withheld = [votes |-> [p \in Candidates |-> 0], proxied |-> [a \in Accounts |-> 0]]
    /\ below = FALSE
    /\ gone = 0
-----------------------------------------------------------------------------
(* Shares                                                                  *)

Abs(i) == IF i < 0 THEN -i ELSE i

\* Mutant: a total may go below zero.
Floored_Below(total, change) == total + change

\* A total after a change, which does not take it below zero.
Floored(total, change) == IF change < 0 /\ total < -change THEN 0 ELSE total + change

\* Mutant: the past grows at the new rate.
UpdateTotalVotepay_Rate(g, shares, rate) ==
    [g EXCEPT !.vtotal = Floored(g.vtotal, Floored(g.vrate, rate) * (now - g.vat) + shares),
              !.vrate = Floored(g.vrate, rate),
              !.vat = now]

\* update_total_votepay_share
UpdateTotalVotepay(g, shares, rate) ==
    [g EXCEPT !.vtotal = Floored(g.vtotal, g.vrate * (now - g.vat) + shares),
              !.vrate = Floored(g.vrate, rate),
              !.vat = now]

\* The votepay share of a producer's row when votes have been held since its last update.
GrownVotepay(row, votes) ==
    row.vshare + (IF votes > 0 THEN votes * (now - row.vat) ELSE 0)

\* Mutant: the time since the last update counts again at the next.
UpdateTotalWitnesspay_Again(g, shares, rate) ==
    [g EXCEPT !.wtotal = Floored(g.wtotal, g.wrate * (now - g.wat) + shares),
              !.wrate = Floored(g.wrate, rate)]

\* update_total_witnesspay_share
UpdateTotalWitnesspay(g, shares, rate) ==
    [g EXCEPT !.wtotal = Floored(g.wtotal, g.wrate * (now - g.wat) + shares),
              !.wrate = Floored(g.wrate, rate),
              !.wat = now]

\* Mutant: the time is paid, and the clock of the share goes on.
UpdateWitnesspay_Late(row, rate) == [row EXCEPT !.wshare = row.wshare + rate * (now - row.wat)]

\* update_producer_witnesspay_share without a reset
UpdateWitnesspay(row, rate) ==
    [row EXCEPT !.wshare = row.wshare + rate * (now - row.wat), !.wat = now]

\* A producer that has not claimed within the window counts for no votepay,
\* from the first change of its votes after it.
Crossed(row)      == row.claimed + PayWindow <= now
UpdatedAfter(row) == row.claimed + PayWindow <= row.vat

\* The votes of the producers in DOMAIN delta change, and their votepay shares
\* with them: the loops of update_votes, where votes are floored, and of
\* propagate_weight_change, where they are not.  Somebody whose weight was below zero
\* may have voted for producers without a row, which the former skips and the latter refuses.
Recount(t, delta, floor) ==
    LET Of(p)      == t.producers[p]
        Dropped(p) == Crossed(Of(p)) /\ ~UpdatedAfter(Of(p))
        Share(p)   == GrownVotepay(Of(p), IF UpdatedAfter(Of(p)) THEN 0 ELSE Of(p).votes)
        Rate(p)    == CASE ~Crossed(Of(p)) -> delta[p]
                        [] Dropped(p) -> -Of(p).votes
                        [] OTHER -> 0
        Now(p)     == LET votes == Of(p).votes + delta[p]
                      IN  [Of(p) EXCEPT !.votes = IF floor /\ votes < 0 THEN 0 ELSE votes,
                                        !.vshare = IF Dropped(p) THEN 0 ELSE Share(p),
                                        !.vat = now]
        ps         == {p \in DOMAIN delta : Of(p) # NoRow}
    IN  [t EXCEPT !.producers = [p \in Candidates |-> IF p \in ps THEN Now(p) ELSE Of(p)],
                  !.gstate = UpdateTotalVotepay(
                                 [t.gstate EXCEPT !.weight = t.gstate.weight + SumOver(delta, ps)],
                                 -SumOver([p \in ps |-> IF Dropped(p) THEN Share(p) ELSE 0], ps),
                                 SumOver([p \in ps |-> Rate(p)], ps)),
                  !.below = t.below \/ \E p \in ps : Of(p).votes + delta[p] < 0,
                  !.failed = t.failed \/ (~floor /\ ps # DOMAIN delta)]
-----------------------------------------------------------------------------
(* The witnesses                                                           *)

\* The order of the "prototalvote" index.
ByVotes(row) == IF row.active THEN -row.votes ELSE row.votes
Precedes(t, p, q) ==
    \/ ByVotes(t.producers[p]) < ByVotes(t.producers[q])
    \/ ByVotes(t.producers[p]) = ByVotes(t.producers[q]) /\ NameValue[p] < NameValue[q]

Registered(t)  == {p \in Candidates : t.producers[p] # NoRow}
Ahead(t, p)    == {q \in Registered(t) : Precedes(t, q, p)}

\* total_votes / total_producer_vote_weight > 0.005, as doubles divide.
HasPart(votes, weight) ==
    CASE weight > 0 -> votes * WitnessPart > weight
      [] weight < 0 -> votes * WitnessPart < weight
      [] OTHER -> votes > 0

Qualifies(t, p) ==
    /\ t.producers[p].active
    /\ HasPart(t.producers[p].votes, t.gstate.weight)

\* The top of the index, up to the first that does not qualify.
Witnesses(t) ==
    {p \in Registered(t) : /\ Cardinality(Ahead(t, p)) < MaxWitness
                           /\ \A q \in Ahead(t, p) \cup {p} : Qualifies(t, q)}

\* Who left the list since the tables were as in before is paid for its time on
\* it, who joined starts its time, and the total grows at the new rate.
UpdateWitnesses(before, t) ==
    LET out == Witnesses(before) \ Witnesses(t)
        in  == Witnesses(t) \ Witnesses(before)
    IN  [t EXCEPT !.producers = [p \in Candidates |->
                        IF p \in out THEN UpdateWitnesspay(t.producers[p], 1)
                        ELSE IF p \in in THEN UpdateWitnesspay(t.producers[p], 0)
                        ELSE t.producers[p]],
                  !.gstate = UpdateTotalWitnesspay(t.gstate, 0, Cardinality(in) - Cardinality(out))]
-----------------------------------------------------------------------------
(* Votes                                                                   *)

\* min( staked, max_vote_power )
VotePower(row) == IF row.staked < MaxVotePower THEN row.staked ELSE MaxVotePower

VoteWeight(row) == VotePower(row) + (IF row.is_proxy THEN row.proxied ELSE 0)

SetLast(t, a, weight) ==
    [t EXCEPT !.voters = [t.voters EXCEPT ![a].last = weight],
              !.below = t.below \/ weight < 0]

AddProxied(t, a, weight) ==
    [t EXCEPT !.voters = [t.voters EXCEPT ![a].proxied = t.voters[a].proxied + weight]]

WithholdVotes(t, ps, change) ==
    [t EXCEPT !.withheld.votes =
         [p \in Candidates |-> t.withheld.votes[p] + (IF p \in ps THEN change ELSE 0)]]
WithholdProxied(t, b, change) ==
    [t EXCEPT !.withheld.proxied[b] = t.withheld.proxied[b] + change]

\* Mutant: a change that is too small is not recorded either.
PropagateCast_Small(t, a) ==
    LET row    == t.voters[a]
        change == VoteWeight(row) - row.last
    IN  IF Abs(change) > 1
        THEN SetLast(Recount(t, [p \in row.producers |-> change], FALSE), a, VoteWeight(row))
        ELSE t

\* propagate_weight_change of an account that uses no proxy.
PropagateCast(t, a) ==
    LET row    == t.voters[a]
        change == VoteWeight(row) - row.last
        passed == IF Abs(change) > 1
                  THEN Recount(t, [p \in row.producers |-> change], FALSE)
                  ELSE WithholdVotes(t, row.producers, change)
    IN  SetLast(passed, a, VoteWeight(row))

\* propagate_weight_change.  It calls itself for the proxy of a proxy that
\* resigned, which never needs it (VotesFollowStake), and so once is enough.
Propagate(t, a) ==
    LET row    == t.voters[a]
        change == VoteWeight(row) - row.last
        passed == IF Abs(change) > 1
                  THEN PropagateCast(AddProxied(t, row.proxy, change), row.proxy)
                  ELSE WithholdProxied(t, row.proxy, change)
    IN  IF row.proxy = None THEN PropagateCast(t, a)
                            ELSE SetLast(passed, a, VoteWeight(row))

\* Whoever has no weight cast counts as voting for the first time.
Activate(t, a) ==
    LET row == t.voters[a]
        sum == t.gstate.activated + row.staked
    IN  IF row.last > 0 THEN t
        ELSE [t EXCEPT !.gstate = [t.gstate EXCEPT
                  !.activated = sum,
                  !.thresh = IF sum >= MinActivated /\ t.gstate.thresh = 0 THEN now
                                                                          ELSE t.gstate.thresh]]

\* The proxy that a used loses the weight it had from a.
LeaveProxy(t, a) ==
    LET row == t.voters[a]
    IN  IF row.last > 0 /\ row.proxy # None
        THEN Propagate(AddProxied(t, row.proxy, -row.last), row.proxy)
        ELSE t

\* The proxy a takes gets what a weighs, unless that is negative.
JoinProxy(t, a, proxy) ==
    LET weight == VoteWeight(t.voters[a])
    IN  IF proxy # None /\ weight >= 0
        THEN Propagate(AddProxied(t, proxy, weight), proxy)
        ELSE t

\* The producers whose votes update_votes undoes, and those it casts.
Undone(row)          == IF row.last > 0 /\ row.proxy = None THEN row.producers ELSE {}
NewlyCast(row, ps)   == IF VoteWeight(row) >= 0 THEN ps ELSE {}

\* Mutant: anybody with a stake may be taken as a proxy.
CanUpdateVotes_Anybody(t, a, proxy, ps, voting) ==
    /\ t.voters[a] # NoRow
    /\ proxy # None => ps = {} /\ proxy # a /\ ~t.voters[a].is_proxy /\ t.voters[proxy] # NoRow
    /\ Cardinality(ps) <= MaxVotes
    /\ \A p \in NewlyCast(t.voters[a], ps) : t.producers[p] # NoRow

\* The checks of update_votes.
CanUpdateVotes(t, a, proxy, ps, voting) ==
    /\ proxy # None => ps = {} /\ proxy # a
    /\ Cardinality(ps) <= MaxVotes
    /\ t.voters[a] # NoRow
    /\ proxy # None => /\ ~t.voters[a].is_proxy
                       /\ t.voters[proxy] # NoRow
                       /\ voting => t.voters[proxy].is_proxy
    /\ \A p \in NewlyCast(t.voters[a], ps) :
          /\ t.producers[p] # NoRow
          /\ voting => t.producers[p].active

\* Mutant: the weight cast before is not undone, where the producer is kept.
UpdateVotes_Twice(t, a, proxy, ps) ==
    LET row    == t.voters[a]
        weight == VoteWeight(row)
        undone == Undone(row) \ NewlyCast(row, ps)
        cast   == NewlyCast(row, ps)
        moved  == JoinProxy(LeaveProxy(Activate(t, a), a), a, proxy)
        recast == Recount(moved, [p \in undone \cup cast |->
                                      (IF p \in cast THEN weight ELSE 0)
                                    - (IF p \in undone THEN row.last ELSE 0)], TRUE)
        new    == [row EXCEPT !.producers = ps, !.proxy = proxy]
    IN  SetLast([UpdateWitnesses(t, recast) EXCEPT !.voters = [recast.voters EXCEPT ![a] = new]],
                a, weight)

\* update_votes
UpdateVotes(t, a, proxy, ps) ==
    LET row    == t.voters[a]
        weight == VoteWeight(row)
        undone == Undone(row)
        cast   == NewlyCast(row, ps)
        moved  == JoinProxy(LeaveProxy(Activate(t, a), a), a, proxy)
        recast == Recount(moved, [p \in undone \cup cast |->
                                      (IF p \in cast THEN weight ELSE 0)
                                    - (IF p \in undone THEN row.last ELSE 0)], TRUE)
        new    == [row EXCEPT !.producers = ps, !.proxy = proxy]
    IN  SetLast([UpdateWitnesses(t, recast) EXCEPT !.voters = [recast.voters EXCEPT ![a] = new]],
                a, weight)

CommitVotes(t) ==
    /\ ~t.failed
    /\ voters' = t.voters
    /\ producers' = t.producers
    /\ gstate' = t.gstate
    /\ withheld' = t.withheld
    /\ below' = t.below
    /\ UNCHANGED now
-----------------------------------------------------------------------------
(* The actions                                                             *)

\* regproducer.  The voters row is read without asking whether there is one;
\* what is read where there is none may be anything.
RegProducer(p) ==
    /\ voters[p] # NoRow => voters[p].staked > ProducerStake
    /\ producers' = [producers EXCEPT ![p] =
                        IF producers[p] = NoRow
                        THEN [votes |-> 0, active |-> TRUE, claimed |-> now,
                              vshare |-> 0, vat |-> now, wshare |-> 0, wat |-> now]
                        ELSE [producers[p] EXCEPT !.active = TRUE]]
    /\ UNCHANGED <<voters, gstate, now, withheld, below, gone>>

\* unregprod by the producer, rmvproducer by the system account
Deactivate(p) ==
    /\ producers[p] # NoRow
    /\ producers' = [producers EXCEPT ![p].active = FALSE]
    /\ gone < MaxGone
    /\ gone' = gone + 1
    /\ UNCHANGED <<voters, gstate, now, withheld, below>>

\* regproxy of an account that has a row
RegProxy(a, isproxy) ==
    /\ voters[a] # NoRow
    /\ isproxy # voters[a].is_proxy
    /\ isproxy => voters[a].proxy = None
    /\ LET t == VotingTables
           marked == [t EXCEPT !.voters = [t.voters EXCEPT ![a].is_proxy = isproxy]]
       IN  CommitVotes(UpdateWitnesses(t, Propagate(marked, a)))
    /\ UNCHANGED gone

\* regproxy of one that has none
RegNewProxy(a, isproxy) ==
    /\ voters[a] = NoRow
    /\ voters' = [voters EXCEPT ![a] = [NewVoter(0) EXCEPT !.is_proxy = isproxy]]
    /\ UNCHANGED <<producers, gstate, now, withheld, below, gone>>

\* The votes that were cast and not paid, counted by their power.
CountUnpaid(t, a) ==
    LET power == VotePower(t.voters[a])
    IN  [t EXCEPT !.voters = [t.voters EXCEPT ![a].unpaid = t.voters[a].unpaid + power],
                  !.gstate = [t.gstate EXCEPT !.unpaid = t.gstate.unpaid + power]]

\* voteproducer
VoteProducer(a, proxy, ps) ==
    /\ a \in Candidates => producers[a] = NoRow
    /\ CanUpdateVotes(VotingTables, a, proxy, ps, TRUE)
    /\ gstate.unpaid + VotePower(voters[a]) <= MaxUnpaid
    /\ Abs(gstate.weight) <= MaxTally
    /\ \A p \in Candidates : producers[p] # NoRow => producers[p].votes <= MaxTally
    /\ CommitVotes(CountUnpaid(UpdateVotes(VotingTables, a, proxy, ps), a))
    /\ UNCHANGED gone

\* update_voting_power: a has another amount staked than before.
UpdateVotingPower(t, a, stake) ==
    LET old   == IF t.voters[a] = NoRow THEN NewVoter(0) ELSE t.voters[a]
        row   == [old EXCEPT !.staked = stake]
        grown == [t EXCEPT !.voters = [t.voters EXCEPT ![a] = row]]
        votes == row.producers # {} \/ row.proxy # None
    IN  /\ stake # old.staked
        /\ votes => CanUpdateVotes(grown, a, row.proxy, row.producers, FALSE)
        /\ CommitVotes(IF votes THEN UpdateVotes(grown, a, row.proxy, row.producers)
                                ELSE grown)

\* delegatebw, as far as votes go
Delegate(a, stake) ==
    /\ voters[a] # NoRow => stake > voters[a].staked
    /\ UpdateVotingPower(VotingTables, a, stake)
    /\ UNCHANGED gone

\* undelegatebw, as far as votes go: it ends the term of a producer.
Undelegate(a, stake) ==
    LET big   == voters[a].staked > FreeStake
        t     == VotingTables
        ended == [t EXCEPT !.producers = [t.producers EXCEPT ![a].active = FALSE]]
    IN  /\ voters[a] # NoRow
        /\ stake < voters[a].staked
        /\ gstate.activated \in MinActivated .. MaxActivated
        /\ big => a \in Candidates /\ producers[a] # NoRow
        /\ UpdateVotingPower(IF big THEN ended ELSE t, a, stake)
        /\ big => gone < MaxGone
        /\ gone' = IF big THEN gone + 1 ELSE gone

\* Time passes.
VotingTick ==
    /\ now < MaxNow
    /\ now' = now + 1
    /\ UNCHANGED <<voters, producers, gstate, withheld, below, gone>>

VotingNext ==
    \/ \E p \in Candidates : RegProducer(p)
    \/ \E p \in Candidates : Deactivate(p)
    \/ \E a \in Proxies, isproxy \in BOOLEAN : RegProxy(a, isproxy)
    \/ \E a \in Proxies, isproxy \in BOOLEAN : RegNewProxy(a, isproxy)
    \/ \E a \in Accounts, proxy \in Accounts \cup {None}, ps \in SUBSET Candidates :
          VoteProducer(a, proxy, ps)
    \/ \E a \in Accounts : \E stake \in Stakes[a] : Delegate(a, stake)
    \/ \E a \in Accounts : \E stake \in Stakes[a] : Undelegate(a, stake)
    \/ VotingTick

VotingSpec == VotingInit /\ [][VotingNext]_votingVars
-----------------------------------------------------------------------------
(* Properties                                                              *)

\* Type correctness: rows hold what their tables can hold, and only
\* accounts with a row have ever voted or been chosen.
VotingTypeOK ==
    /\ voters \in [Accounts -> VoterRow \cup {NoRow}]
    /\ producers \in [Candidates -> ProducerRow \cup {NoRow}]
    /\ gstate \in [weight : Int, activated : Nat, thresh : Nat, unpaid : Nat,
                   vrate : Int, vtotal : Int, vat : Nat, wrate : Nat, wtotal : Nat, wat : Nat]
    /\ now \in 1 .. MaxNow
    /\ withheld \in [votes : [Candidates -> Int], proxied : [Accounts -> Int]]
    /\ below \in BOOLEAN
    /\ gone \in 0 .. MaxGone

\* What is cast on p, and handed to proxy b.
CastOn(p) ==
    SumOver([a \in Accounts |->
                 IF voters[a] # NoRow /\ p \in voters[a].producers THEN voters[a].last ELSE 0], Accounts)
HandedTo(b) ==
    SumOver([a \in Accounts |->
                 IF voters[a] # NoRow /\ voters[a].proxy = b THEN voters[a].last ELSE 0], Accounts)

\* However votes, proxies and stakes changed, a producer's votes are what the
\* voters have cast on it, a proxy's weight is what was handed to it, and the
\* total is the sum of all votes, but for the changes of weight that
\* propagate_weight_change found too small to pass on; until those once bring a tally
\* below zero, from where update_votes cuts it off and skips what it would undo.
TalliesMatch ==
    ~below =>
        /\ \A p \in Registered(VotingTables) : producers[p].votes = CastOn(p) - withheld.votes[p]
        /\ \A b \in Accounts :
              voters[b] # NoRow => voters[b].proxied = HandedTo(b) - withheld.proxied[b]
        /\ gstate.weight
              = SumOver([p \in Candidates |-> CastOn(p) - withheld.votes[p]], Candidates)

\* The weight that a voter is recorded with is always the one its stake and its
\* followers give it, so that the next vote undoes what is really cast: after a change of
\* stake, of the proxy's standing, or of what followers hand over (last_vote_weight).
VotesFollowStake ==
    \A a \in Accounts :
        voters[a] # NoRow /\ (voters[a].producers # {} \/ voters[a].proxy # None)
            => voters[a].last = VoteWeight(voters[a])

\* Who uses a proxy is none, and proxies that resigned form no cycle: passing
\* a change on ends (the recursion of propagate_weight_change).
ProxiesEnd ==
    LET users == {a \in Accounts : voters[a] # NoRow /\ voters[a].proxy # None}
    IN  /\ \A a \in users : ~voters[a].is_proxy /\ voters[voters[a].proxy] # NoRow
        /\ \A s \in SUBSET users : s # {} => \E a \in s : voters[a].proxy \notin s

\* The total of the votepay shares, and its rate, are those of the producers that
\* count, in whatever order they drop out of the three day window and their votes change.
VotepaySharesAddUp ==
    ~below =>
        LET counted == {p \in Registered(VotingTables) : ~UpdatedAfter(producers[p])}
        IN  /\ gstate.vrate = SumOver([p \in counted |-> producers[p].votes], counted)
            /\ gstate.vtotal + gstate.vrate * (now - gstate.vat)
                  = SumOver([p \in counted |-> GrownVotepay(producers[p], producers[p].votes)], counted)

\* What p has by now for its time as a witness.
WitnessTime(p) ==
    producers[p].wshare + (IF p \in Witnesses(VotingTables) THEN now - producers[p].wat ELSE 0)

\* As long as nobody is deactivated, the rate at which the total of the witness shares
\* grows is the number of witnesses, and the total is the sum of the shares: joining and
\* leaving the list by one's own votes or by the votes of others.
WitnessSharesAddUp ==
    ~below /\ gone = 0 =>
             /\ gstate.wrate = Cardinality(Witnesses(VotingTables))
             /\ gstate.wtotal + gstate.wrate * (now - gstate.wat)
                   = SumOver([p \in Registered(VotingTables) |-> WitnessTime(p)],
                             Registered(VotingTables))

\* No moment counts twice for a witness: its share and the time since its
\* last update fit between its last claim and now, deactivated or not.
WitnessTimeOnce ==
    \A p \in Registered(VotingTables) :
        producers[p].claimed + producers[p].wshare <= producers[p].wat
=============================================================================
