---------------------------- MODULE MCEosioMsig ----------------------------
(***************************************************************************)
(* One proposal name, used again and again (keys share nothing but the     *)
(* invalidations), which may hold a proposal left in the legacy table.     *)
(* Two levels, of one account each; a transaction that needs both and      *)
(* expires while the clock runs, one that needs either and does not.  A    *)
(* level may be asked twice.                                               *)
(***************************************************************************)
EXTENDS EosioMsig

MCKeys     == {<<"alice", "first">>}
MCAccounts == {"alice", "bob"}
MCLevels   == {"alice@active", "bob@active"}
MCActorOf  == [l \in MCLevels |-> IF l = "alice@active" THEN "alice" ELSE "bob"]

MCTrxs       == {"both", "either"}
MCExpiration == [t \in MCTrxs |-> IF t = "both" THEN 1 ELSE 9]
MCAuthorizes == [t \in MCTrxs |-> IF t = "both" THEN {MCLevels} ELSE {{l} : l \in MCLevels}]

\* The number of times alice and bob are asked.
Asking(a, b) == [l \in MCLevels |-> IF l = "alice@active" THEN a ELSE b]
MCRequests   == {Asking(1, 1), Asking(2, 0)}

\* No legacy rows; or a legacy proposal that bob has approved.
NoLegacy  == [proposal  |-> [k \in MCKeys |-> NoRow],
              approvals |-> [k \in MCKeys |-> NoRow]]
OneLegacy == [proposal  |-> [k \in MCKeys |-> "both"],
              approvals |-> [k \in MCKeys |-> [requested |-> Asking(1, 0),
                                               provided  |-> Asking(0, 1)]]]
MCLegacyTables == {NoLegacy, OneLegacy}
=============================================================================
