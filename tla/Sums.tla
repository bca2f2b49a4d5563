-------------------------------- MODULE Sums --------------------------------
(***************************************************************************)
(* Totals of integer-valued functions, the arithmetic of every ledger of   *)
(* the contracts: token balances, vote pay shares, delegated bandwidth,    *)
(* orders and loans.  The recursion is a function on the subsets of S, not *)
(* an operator, so that Sums_proofs can reason about it.                   *)
(***************************************************************************)
EXTENDS Integers

\* The sum of f[x] for x in the finite set S.
SumOver(f, S) ==
    LET total[T \in SUBSET S] ==
            IF T = {} THEN 0
                      ELSE LET x == CHOOSE y \in T : TRUE
                           IN  f[x] + total[T \ {x}]
    IN  total[S]

\* The sum of every value of f.
Total(f) == SumOver(f, DOMAIN f)
=============================================================================
