-------------------------------- MODULE MCRex --------------------------------
(***************************************************************************)
(* One or two users in an exchange of a few tokens.                        *)
(***************************************************************************)
EXTENDS Rex

MCUsers == {"alice", "bob"}
MCKinds == {"cpu", "net"}

MCHolders == MCUsers \cup {"eosio.rex", "eosio.names", "eosio.stake", "eosio.ramfee"}

\* One lends, the other rents.
MCLender == {"alice"}
MCPoolLiquid == [h \in MCHolders |->
    CASE h = "alice" -> 4 [] h = "bob" -> 2 [] h = "eosio.names" -> 1 [] OTHER -> 0]
MCNoStake == [s \in MCUsers \X MCUsers \X MCKinds |-> 0]
MCPoolQuantities ==
    [deposit |-> {2, 4}, withdraw |-> {4}, buy |-> {4}, sell |-> {2, 4}, save |-> {},
     unstake |-> {}, rent |-> {1}, fund |-> {0, 1}, fee |-> {1}, bid |-> {1}, price |-> {1}]

\* What alice stakes for bob.
MCStake(amount) == [s \in MCUsers \X MCUsers \X MCKinds |->
                        IF s = <<"alice", "bob", "cpu">> THEN amount ELSE 0]

\* Both lend, alice what she has staked, and bob rents.
MCOrderLiquid == [h \in MCHolders |->
    CASE h = "bob" -> 3 [] h = "eosio.stake" -> 2 [] OTHER -> 0]
MCOrderStake  == MCStake(2)
MCOrderQuantities ==
    [deposit |-> {2, 3}, withdraw |-> {}, buy |-> {2}, sell |-> {1, 2}, save |-> {1},
     unstake |-> {0, 2}, rent |-> {1}, fund |-> {0}, fee |-> {}, bid |-> {}, price |-> {}]

\* Alice buys REX before she lends what she has staked.
MCVoteLiquid == [h \in MCHolders |->
    CASE h = "alice" -> 2 [] h = "bob" -> 3 [] h = "eosio.stake" -> 1 [] OTHER -> 0]
MCVoteStake  == MCStake(1)
MCVoteQuantities == [MCOrderQuantities EXCEPT !.unstake = {0, 1}]
=============================================================================
