----------------------------- MODULE EosioToken -----------------------------
(***************************************************************************)
(* The eosio.token contract: the stat row of one symbol code and the       *)
(* balance rows of its holders.  stat and accounts are scoped or keyed by  *)
(* the symbol code, so codes never touch one another and one is enough;    *)
(* the precision stays, because "close" ignores it and the others compare  *)
(* it.  Every operator of a transaction is one step: a failed check rolls  *)
(* the transaction back, so a step that would fail is not taken.           *)
(***************************************************************************)
EXTENDS Integers, FiniteSets, Sums

CONSTANTS Accounts,    \* the accounts that exist
          Names,       \* every name an action may mention, existing or not
          AuthSets,    \* the sets of accounts that may authorise a transaction
          Contract,    \* the account the contract is deployed on (_self)
          Precisions,  \* precisions a symbol of this code may carry
          Quantities,  \* amounts an action may carry
          MaxAmount,   \* asset::max_amount, 2^62 - 1 in the code
          NoRow        \* the absence of a table row

ASSUME NamesAssumption ==
    /\ IsFiniteSet(Names)
    /\ Accounts \subseteq Names
    /\ Contract \in Accounts
    /\ AuthSets \subseteq SUBSET Accounts
ASSUME AmountsAssumption ==
    /\ MaxAmount \in Nat \ {0}
    /\ Quantities \subseteq Int

\* A balance row and a currency_stats row.
Row  == [precision : Precisions, amount : 0 .. MaxAmount, payer : Accounts]
Stat == [precision : Precisions, supply : 0 .. MaxAmount,
         max_supply : 0 .. MaxAmount, issuer : Names]

ASSUME NoRowAssumption == NoRow \notin Row /\ NoRow \notin Stat

VARIABLES stat,      \* the currency_stats row, or NoRow
          accounts,  \* accounts[n]: the balance row of n, or NoRow
          declared,  \* history: the maximum supply "create" was called with
          signers    \* history: the accounts that authorised the last transaction

vars == <<stat, accounts, declared, signers>>

-----------------------------------------------------------------------------
(* Assets and balance rows                                                 *)

\* asset::is_valid, and what asset's += and -= check of their result.
IsValid(amount) == amount \in -MaxAmount .. MaxAmount

\* The checks every action that names a quantity makes of it.
GoodQuantity(prec, q) == IsValid(q) /\ q > 0 /\ prec = stat.precision

\* Mutant: sub_balance without "overdrawn balance".
CanSub_Overdrawn(rows, owner, prec, q) ==
    rows[owner] # NoRow /\ rows[owner].precision = prec

\* sub_balance succeeds.
CanSub(rows, owner, prec, q) ==
    /\ rows[owner] # NoRow
    /\ rows[owner].precision = prec
    /\ rows[owner].amount >= q

\* sub_balance: the owner takes over the row's RAM.
SubBalance(rows, owner, q) ==
    [rows EXCEPT ![owner] =
        [precision |-> @.precision, amount |-> @.amount - q, payer |-> owner]]

\* add_balance succeeds: asset's += of an existing row neither mixes symbols
\* nor leaves the range of an asset.
CanAdd(rows, owner, prec, q) ==
    rows[owner] # NoRow =>
        rows[owner].precision = prec /\ IsValid(rows[owner].amount + q)

\* Mutant: add_balance overwrites an existing row.
AddBalance_Overwrites(rows, owner, prec, q, ram_payer) ==
    [rows EXCEPT ![owner] = [precision |-> prec, amount |-> q, payer |-> ram_payer]]

\* add_balance: ram_payer pays only for a row that is new.
AddBalance(rows, owner, prec, q, ram_payer) ==
    IF rows[owner] = NoRow
    THEN [rows EXCEPT ![owner] = [precision |-> prec, amount |-> q, payer |-> ram_payer]]
    ELSE [rows EXCEPT ![owner].amount = @ + q]

\* The body of "transfer" on the balance rows, with payer the RAM payer.
CanTransfer(rows, from, to, prec, q) ==
    /\ from # to
    /\ to \in Accounts
    /\ CanSub(rows, from, prec, q)
    /\ CanAdd(SubBalance(rows, from, q), to, prec, q)

Transferred(rows, from, to, prec, q, payer) ==
    AddBalance(SubBalance(rows, from, q), to, prec, q, payer)

\* Mutant: the receiver always pays for its row.
TransferPayer_Receiver(auths, from, to) == to

\* has_auth( to ) ? to : from
TransferPayer(auths, from, to) == IF to \in auths THEN to ELSE from

\* Mutant: "issue" compares with the cap alone.
Available_WholeCap == stat.max_supply

\* What "issue" may still issue.
Available == stat.max_supply - stat.supply
-----------------------------------------------------------------------------
(* The actions; auths is who authorised the transaction.                   *)

Init == /\ stat = NoRow
        /\ accounts = [n \in Names |-> NoRow]
        /\ declared = 0
        /\ signers = {}

\* Mutant: "create" does not look for an existing row.
Create_Twice(auths, issuer, prec, max) ==
    /\ Contract \in auths
    /\ IsValid(max)
    /\ max > 0
    /\ stat' = [precision |-> prec, supply |-> 0, max_supply |-> max, issuer |-> issuer]
    /\ declared' = max
    /\ signers' = auths
    /\ UNCHANGED accounts

Create(auths, issuer, prec, max) ==
    /\ Contract \in auths
    /\ IsValid(max)
    /\ max > 0
    /\ stat = NoRow
    /\ stat' = [precision |-> prec, supply |-> 0, max_supply |-> max, issuer |-> issuer]
    /\ declared' = max
    /\ signers' = auths
    /\ UNCHANGED accounts

\* Credits the issuer, then transfers to the receiver in an inline action
\* that carries the issuer's authority alone.
Issue(auths, to, prec, q) ==
    /\ stat # NoRow
    /\ stat.issuer \in auths
    /\ GoodQuantity(prec, q)
    /\ q <= Available
    /\ IsValid(stat.supply + q)
    /\ CanAdd(accounts, stat.issuer, prec, q)
    /\ stat' = [stat EXCEPT !.supply = @ + q]
    /\ LET issuer   == stat.issuer
           credited == AddBalance(accounts, issuer, prec, q, issuer)
           payer    == TransferPayer({issuer}, issuer, to)
       IN  IF to = issuer
           THEN accounts' = credited
           ELSE /\ CanTransfer(credited, issuer, to, prec, q)
                /\ accounts' = Transferred(credited, issuer, to, prec, q, payer)
    /\ signers' = auths
    /\ UNCHANGED declared

Retire(auths, prec, q) ==
    /\ stat # NoRow
    /\ stat.issuer \in auths
    /\ GoodQuantity(prec, q)
    /\ IsValid(stat.supply - q)
    /\ CanSub(accounts, stat.issuer, prec, q)
    /\ stat' = [stat EXCEPT !.supply = @ - q]
    /\ accounts' = SubBalance(accounts, stat.issuer, q)
    /\ signers' = auths
    /\ UNCHANGED declared

\* Lowers max_supply; the line that would lower supply is commented out.
Burn(auths, prec, q) ==
    /\ stat # NoRow
    /\ stat.issuer \in auths
    /\ GoodQuantity(prec, q)
    /\ IsValid(stat.max_supply - q)
    /\ CanSub(accounts, stat.issuer, prec, q)
    /\ stat' = [stat EXCEPT !.max_supply = @ - q]
    /\ accounts' = SubBalance(accounts, stat.issuer, q)
    /\ signers' = auths
    /\ UNCHANGED declared

Transfer(auths, from, to, prec, q) ==
    /\ from \in auths
    /\ stat # NoRow
    /\ GoodQuantity(prec, q)
    /\ CanTransfer(accounts, from, to, prec, q)
    /\ accounts' = Transferred(accounts, from, to, prec, q, TransferPayer(auths, from, to))
    /\ signers' = auths
    /\ UNCHANGED <<stat, declared>>

\* Mutant: "open" does not compare the symbol's precision.
Open_AnyPrecision(auths, owner, prec, ram_payer) ==
    /\ ram_payer \in auths
    /\ owner \in Accounts
    /\ stat # NoRow
    /\ accounts[owner] = NoRow
    /\ accounts' = [accounts EXCEPT ![owner] =
                        [precision |-> prec, amount |-> 0, payer |-> ram_payer]]
    /\ signers' = auths
    /\ UNCHANGED <<stat, declared>>

Open(auths, owner, prec, ram_payer) ==
    /\ ram_payer \in auths
    /\ owner \in Accounts
    /\ stat # NoRow
    /\ prec = stat.precision
    /\ accounts' = IF accounts[owner] = NoRow
                   THEN [accounts EXCEPT ![owner] =
                            [precision |-> prec, amount |-> 0, payer |-> ram_payer]]
                   ELSE accounts
    /\ signers' = auths
    /\ UNCHANGED <<stat, declared>>

\* Reads the symbol's code only: any precision closes the row.
Close(auths, owner) ==
    /\ owner \in auths
    /\ accounts[owner] # NoRow
    /\ accounts[owner].amount = 0
    /\ accounts' = [accounts EXCEPT ![owner] = NoRow]
    /\ signers' = auths
    /\ UNCHANGED <<stat, declared>>

Transact(auths) ==
    \/ \E n \in Names, prec \in Precisions :
          \/ \E q \in Quantities :
                \/ Create(auths, n, prec, q)
                \/ Issue(auths, n, prec, q)
                \/ \E from \in Names : Transfer(auths, from, n, prec, q)
          \/ \E payer \in Accounts : Open(auths, n, prec, payer)
    \/ \E prec \in Precisions, q \in Quantities :
          \/ Retire(auths, prec, q)
          \/ Burn(auths, prec, q)
    \/ \E owner \in Names : Close(auths, owner)

Next == \E auths \in AuthSets : Transact(auths)

Spec == Init /\ [][Next]_vars
-----------------------------------------------------------------------------
(* Properties                                                              *)

\* Every table holds rows of its type: no balance, supply or cap is negative
\* or beyond what an asset can hold, and only accounts pay for rows.
TypeOK ==
    /\ stat \in Stat \cup {NoRow}
    /\ accounts \in [Names -> Row \cup {NoRow}]
    /\ declared \in 0 .. MaxAmount
    /\ signers \in SUBSET Accounts

\* The units n holds in the balance rows; a name without a row holds none.
HeldIn(rows, n) == IF rows[n] = NoRow THEN 0 ELSE rows[n].amount

HoldingsIn(rows) == [n \in Names |-> HeldIn(rows, n)]

Holdings == HoldingsIn(accounts)

\* The balance tables and the stat row agree: rows exist only for a created
\* token, carry its precision and belong to accounts that exist, although
\* "create" and "issue" never look their receiver up themselves.
RowsMatchStat ==
    \A n \in Names : accounts[n] # NoRow =>
        /\ stat # NoRow
        /\ accounts[n].precision = stat.precision
        /\ n \in Accounts

\* Every unit is accounted for: what all holders have together is the supply
\* less what "burn" took, and what "burn" took is what the cap lost since
\* "create".  A unit moved, issued or retired on one side only breaks it.
CirculationMatchesBurns ==
    stat # NoRow =>
        SumOver(Holdings, Names) = stat.supply - (declared - stat.max_supply)

\* Nobody can hold more units than the cap, as it stands after every burn:
\* the guarantee "issue" gives ("does not allow the total quantity to exceed
\* the max allowed supply"), read for the units that exist.
CirculationWithinCap ==
    stat # NoRow => SumOver(Holdings, Names) <= stat.max_supply

\* A transaction takes units, or RAM for a new or taken-over row, only from
\* accounts that authorised it: through "issue" and its inline transfer too.
OnlySignersCharged ==
    [][\A n \in Names :
        /\ HeldIn(accounts', n) < HeldIn(accounts, n) => n \in signers'
        /\ (/\ accounts'[n] # NoRow
            /\ accounts[n] = NoRow \/ accounts[n].payer # accounts'[n].payer)
               => accounts'[n].payer \in signers']_vars

\* The contract keeps the promises of an abstract ledger: one token, founded
\* once, whose units are only minted within the allowance, moved, retired or
\* burnt, one of these at a time and by the amount of the action.
Ledger == INSTANCE TokenLedger WITH
    Holders  <- Names,
    Units    <- {q \in Quantities : q > 0},
    bal      <- Holdings,
    unissued <- IF stat = NoRow THEN 0 ELSE stat.max_supply - stat.supply,
    founded  <- stat # NoRow

LedgerSpec == Ledger!Spec
=============================================================================
