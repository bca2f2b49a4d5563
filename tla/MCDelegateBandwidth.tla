------------------------ MODULE MCDelegateBandwidth ------------------------
(***************************************************************************)
(* Two users and eosio.stake.                                              *)
(***************************************************************************)
EXTENDS DelegateBandwidth

MCAccounts == {"alice", "bob", "eosio.stake"}
MCUsers    == {"alice", "bob"}
MCRes      == {"net", "cpu"}

Pair(net, cpu) == [r \in MCRes |-> IF r = "net" THEN net ELSE cpu]
\* One resource, both, more of one, and a pair the checks reject.
MCQuantities == {Pair(1, 0), Pair(0, 1), Pair(1, 1), Pair(2, 0), Pair(1, -1)}

\* A token of alice's, and one of eosio.stake's that it can stake for anyone.
MCLiquid     == [a \in MCAccounts |-> IF a = "bob" THEN 0 ELSE 1]
\* Only alice registers as a producer.
MCBounds == \A a \in MCAccounts : a # "alice" => producer[a] = "none"

\* More, for the runs in which only users sign.
MCUserLiquid == [a \in MCAccounts |-> IF a = "alice" THEN 2 ELSE 1]
=============================================================================
