---------------------------- MODULE DappRegistry ----------------------------
(***************************************************************************)
(* The registry of dapps (dapp_registry.cpp): what the accounts linked to  *)
(* a dapp have received, or who has sent to them, since the dapp's owner   *)
(* was last rewarded, and the totals that a reward is a part of.           *)
(*                                                                         *)
(* Actions take the time as a parameter, which who uses them passes.       *)
(***************************************************************************)
EXTENDS Integers, FiniteSets, Sums

CONSTANTS Dapps,        \* names of dapps
          DappAccounts, \* accounts that own dapps, or are linked to them
          Senders,      \* accounts that transfer tokens to them
          Amounts,      \* the amounts of a transfer
          RewardRates,  \* rates setrewrate may be given
          RateUnit,     \* the rate that is the whole bucket (10000)
          ClaimPeriods, \* periods setclaimprd may be given
          DefaultPeriod,\* the period at first (1 day)
          MaxVolume,    \* bound on what is transferred
          NoDapp        \* no row in the table of dapps

Preferences == {"TokenCirculation", "UniqueUsers"}
DappRow == [owner : DappAccounts, preference : Preferences, volume : Nat,
            users : SUBSET Senders, claimed : Nat]

ASSUME DappAssumption ==
    /\ IsFiniteSet(Dapps)
    /\ IsFiniteSet(Senders)
    /\ Amounts \subseteq Nat \ {0}
    /\ RewardRates \subseteq Nat \ {0}
    /\ ClaimPeriods \subseteq Nat
    /\ RateUnit \in Nat \ {0}
    /\ {DefaultPeriod, MaxVolume} \subseteq Nat
    /\ NoDapp \notin DappRow
    /\ NoDapp \notin Dapps

VARIABLES dapps,     \* dapps[d]: the row of dapp d, or NoDapp
          linked,    \* linked[a]: the dapp that account a is linked to, or NoDapp
          config,    \* the configuration: the totals, the reward rate, the claim period
          orphaned   \* history: the volume and the users of the dapps that were removed

dappVars == <<dapps, linked, config, orphaned>>

DappInit ==
    /\ dapps = [d \in Dapps |-> NoDapp]
    /\ linked = [a \in DappAccounts |-> NoDapp]
    /\ config = [transactions |-> 0, users |-> 0, rate |-> RateUnit, period |-> DefaultPeriod]
    /\ orphaned = [transactions |-> 0, users |-> 0]
-----------------------------------------------------------------------------
(* The actions                                                             *)

\* add: the owner's account is linked at once.
AddDapp(d, owner, preference, time) ==
    /\ dapps[d] = NoDapp
    /\ linked[owner] = NoDapp
    /\ dapps' = [dapps EXCEPT ![d] = [owner |-> owner, preference |-> preference, volume |-> 0,
                                      users |-> {}, claimed |-> time]]
    /\ linked' = [linked EXCEPT ![owner] = d]
    /\ UNCHANGED <<config, orphaned>>

\* remove: what the dapp was not paid for stays in the totals.
RemoveDapp(d) ==
    /\ dapps[d] # NoDapp
    /\ \A a \in DappAccounts : linked[a] # d
    /\ dapps' = [dapps EXCEPT ![d] = NoDapp]
    /\ orphaned' = [transactions |-> orphaned.transactions + dapps[d].volume,
                    users |-> orphaned.users + Cardinality(dapps[d].users)]
    /\ UNCHANGED <<linked, config>>

\* linkacc
LinkAccount(d, a) ==
    /\ dapps[d] # NoDapp
    /\ linked[a] = NoDapp
    /\ linked' = [linked EXCEPT ![a] = d]
    /\ UNCHANGED <<dapps, config, orphaned>>

\* unlinkacc
UnlinkAccount(a) ==
    /\ linked[a] # NoDapp
    /\ linked' = [linked EXCEPT ![a] = NoDapp]
    /\ UNCHANGED <<dapps, config, orphaned>>

\* Mutant: every transfer counts its sender.
OnTransfer_Again(d, user, amount) ==
    LET row == dapps[d]
    IN  IF row.preference = "TokenCirculation"
        THEN /\ dapps' = [dapps EXCEPT ![d].volume = row.volume + amount]
             /\ config' = [config EXCEPT !.transactions = config.transactions + amount]
        ELSE /\ dapps' = [dapps EXCEPT ![d].users = row.users \cup {user}]
             /\ config' = [config EXCEPT !.users = config.users + 1]

\* ontransfer, which only the registry sends
OnTransfer(d, user, amount) ==
    LET row == dapps[d]
    IN  IF row.preference = "TokenCirculation"
        THEN /\ dapps' = [dapps EXCEPT ![d].volume = row.volume + amount]
             /\ config' = [config EXCEPT !.transactions = config.transactions + amount]
        ELSE /\ dapps' = [dapps EXCEPT ![d].users = row.users \cup {user}]
             /\ config' = [config EXCEPT !.users = config.users
                                                   + Cardinality({user} \ row.users)]

\* transfer: the notification of a token transfer to a linked account, and the
\* action it sends to the registry.  Any other transfer is refused.
DappTransfer(user, to, amount) ==
    /\ linked[to] # NoDapp
    /\ dapps[linked[to]] # NoDapp
    /\ config.transactions + amount <= MaxVolume
    /\ OnTransfer(linked[to], user, amount)
    /\ UNCHANGED <<linked, orphaned>>

\* claim, called by claimdapprwd with what it pays, or by the owner with any amount
ClaimDapp(owner, d, time) ==
    /\ dapps[d] # NoDapp
    /\ dapps[d].owner = owner
    /\ time - dapps[d].claimed > config.period
    /\ dapps' = [dapps EXCEPT ![d].volume = 0, ![d].users = {}, ![d].claimed = time]
    /\ config' = [config EXCEPT !.transactions = config.transactions - dapps[d].volume,
                                !.users = config.users - Cardinality(dapps[d].users)]
    /\ UNCHANGED <<linked, orphaned>>

\* setrewrate
SetRewardRate(rate) ==
    /\ config' = [config EXCEPT !.rate = rate]
    /\ UNCHANGED <<dapps, linked, orphaned>>

\* setclaimprd
SetClaimPeriod(period) ==
    /\ config' = [config EXCEPT !.period = period]
    /\ UNCHANGED <<dapps, linked, orphaned>>

DappNext(time) ==
    \/ \E d \in Dapps, owner \in DappAccounts, preference \in Preferences :
          AddDapp(d, owner, preference, time)
    \/ \E d \in Dapps : RemoveDapp(d)
    \/ \E d \in Dapps, a \in DappAccounts : LinkAccount(d, a)
    \/ \E a \in DappAccounts : UnlinkAccount(a)
    \/ \E user \in Senders, to \in DappAccounts, amount \in Amounts :
          DappTransfer(user, to, amount)
    \/ \E owner \in DappAccounts, d \in Dapps : ClaimDapp(owner, d, time)
    \/ \E rate \in RewardRates : SetRewardRate(rate)
    \/ \E period \in ClaimPeriods : SetClaimPeriod(period)

\* The registry by itself, at any times.
DappSpec == DappInit /\ [][\E time \in Nat : DappNext(time)]_dappVars
-----------------------------------------------------------------------------
(* get_dapp_rewards, of a bucket                                           *)

\* Is there a part to be had?  For unique users the code asks for the total of
\* the transactions, and then divides by that of the users, which fails for 0.
HasReward(d) ==
    /\ config.transactions > 0
    /\ dapps[d].preference = "UniqueUsers" => config.users > 0

\* Dapp d's part of a bucket.
DappReward(d, bucket) ==
    IF dapps[d].preference = "TokenCirculation"
    THEN (config.rate * dapps[d].volume * bucket) \div (RateUnit * config.transactions)
    ELSE (config.rate * Cardinality(dapps[d].users) * bucket) \div (RateUnit * config.users)
-----------------------------------------------------------------------------
(* Properties                                                              *)

\* Type correctness: rows and configuration hold what they can hold.
DappTypeOK ==
    /\ dapps \in [Dapps -> DappRow \cup {NoDapp}]
    /\ linked \in [DappAccounts -> Dapps \cup {NoDapp}]
    /\ config \in [transactions : Nat, users : Nat, rate : Nat, period : Nat]
    /\ orphaned \in [transactions : Nat, users : Nat]

VolumeOf(d) == IF dapps[d] = NoDapp THEN 0 ELSE dapps[d].volume
UsersOf(d)  == IF dapps[d] = NoDapp THEN 0 ELSE Cardinality(dapps[d].users)

\* The totals that rewards are divided by are the sums over the dapps, and of those that
\* were removed unpaid: whatever is transferred, claimed, unlinked, removed and added
\* again in between, no reward is a part of less than what is owed.
DappTotals ==
    /\ config.transactions = SumOver([d \in Dapps |-> VolumeOf(d)], Dapps) + orphaned.transactions
    /\ config.users = SumOver([d \in Dapps |-> UsersOf(d)], Dapps) + orphaned.users
=============================================================================
