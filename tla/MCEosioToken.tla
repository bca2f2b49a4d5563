---------------------------- MODULE MCEosioToken ----------------------------
(***************************************************************************)
(* One symbol code; the token contract's own account, the issuer and a     *)
(* holder; a name that is not an account; two precisions.                  *)
(***************************************************************************)
EXTENDS EosioToken

MCAccounts   == {"eosio.token", "issuer", "holder"}
MCNames      == MCAccounts \cup {"nobody"}
\* Single signers, and the two parties of a transfer together.
MCAuthSets   == {{a} : a \in MCAccounts} \cup {{"issuer", "holder"}}
MCContract   == "eosio.token"
MCPrecisions == {4, 8}
\* A negative, a zero and an out-of-range amount, to meet the checks.
MCQuantities == -1 .. 3
MCMaxAmount  == 2
=============================================================================
