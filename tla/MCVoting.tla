------------------------------ MODULE MCVoting ------------------------------
(***************************************************************************)
(* Two accounts that stake, one of which may register as a producer, as    *)
(* may a third that has no stake.                                          *)
(***************************************************************************)
EXTENDS Voting

MCAccounts   == {"ann", "bea", "quinn"}
MCCandidates == {"bea", "quinn"}
MCNameValue  == [a \in MCAccounts |-> CASE a = "ann" -> 1 [] a = "bea" -> 2 [] OTHER -> 3]
MCInitStake  == [a \in MCAccounts |-> CASE a = "ann" -> 2 [] OTHER -> NoRow]
MCStakes     == [a \in MCAccounts |->
                    CASE a = "ann" -> {0, 1, 2} [] a = "bea" -> {0, 3} [] OTHER -> {}]
MCProxies    == {"ann", "bea"}

\* What is explored: two producers while time passes, and nobody uses a proxy; or
\* two proxies, of each other and of resigned ones, with one producer and no time.
NoProxies   == \A a \in MCAccounts :
                  voters[a] # NoRow => /\ ~voters[a].is_proxy
                                       /\ voters[a].proxy = None
                                       /\ voters[a].staked # 1
OneProducer == producers["bea"] = NoRow /\ gone = 0 /\ now = 1

VARIABLE part  \* what is explored

MCInit   == VotingInit /\ part \in {"time", "proxies"}
MCNext   == VotingNext /\ UNCHANGED part
MCSpec   == MCInit /\ [][MCNext]_<<votingVars, part>>
MCBounds == IF part = "time" THEN NoProxies ELSE OneProducer
=============================================================================
