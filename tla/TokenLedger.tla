----------------------------- MODULE TokenLedger -----------------------------
(***************************************************************************)
(* What a token contract promises, without tables, symbols, RAM payers or  *)
(* authorities: units of a token are held by holders, they come out of an  *)
(* allowance fixed when the token is founded, they move between holders,   *)
(* and they leave circulation either back into the allowance (retire) or   *)
(* for good (burn).  EosioToken is shown to implement this module.         *)
(***************************************************************************)
EXTENDS Integers

CONSTANTS Holders,  \* everyone who may hold units
          Units     \* the amounts a step may name, all positive

VARIABLES bal,       \* bal[h]: units held by h
          unissued,  \* units that may still be minted
          founded    \* the token exists

vars == <<bal, unissued, founded>>

Init == /\ bal = [h \in Holders |-> 0]
        /\ unissued = 0
        /\ founded = FALSE

Found(cap) == /\ ~ founded
              /\ founded' = TRUE
              /\ unissued' = cap
              /\ UNCHANGED bal

Mint(h, q) == /\ founded
              /\ q <= unissued
              /\ unissued' = unissued - q
              /\ bal' = [bal EXCEPT ![h] = @ + q]
              /\ UNCHANGED founded

Move(f, t, q) == /\ f # t
                 /\ q <= bal[f]
                 /\ bal' = [bal EXCEPT ![f] = @ - q, ![t] = @ + q]
                 /\ UNCHANGED <<unissued, founded>>

Retire(h, q) == /\ q <= bal[h]
                /\ bal' = [bal EXCEPT ![h] = @ - q]
                /\ unissued' = unissued + q
                /\ UNCHANGED founded

\* A burnt unit is gone and takes one unit of the allowance with it: the
\* allowance may go below zero, and then nothing can be minted.
Burn(h, q) == /\ q <= bal[h]
              /\ bal' = [bal EXCEPT ![h] = @ - q]
              /\ unissued' = unissued - q
              /\ UNCHANGED founded

Next == \E q \in Units :
            \/ Found(q)
            \/ \E h \in Holders :
                  \/ Mint(h, q)
                  \/ Retire(h, q)
                  \/ Burn(h, q)
                  \/ \E t \in Holders : Move(h, t, q)

Spec == Init /\ [][Next]_vars
=============================================================================
