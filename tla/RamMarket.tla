------------------------------ MODULE RamMarket ------------------------------
(***************************************************************************)
(* The market for RAM: buyrambytes, buyram and sellram                     *)
(* (delegate_bandwidth.cpp), setram, setramrate and the growth of the      *)
(* supply (eosio.system.cpp), and the conversion between the connectors of *)
(* an exchange (exchange_state.cpp).                                       *)
(*                                                                         *)
(* A conversion issues tokens of the exchange for what goes in and takes   *)
(* them back for what comes out, so that its supply is the same after each *)
(* trade.  The powers are taken exactly here and in doubles in the code,   *)
(* and truncated in the same places.                                       *)
(*                                                                         *)
(* Actions take the time as a parameter, which who uses them passes.       *)
(***************************************************************************)
EXTENDS Integers, FiniteSets, Sums

CONSTANTS RamUsers,    \* accounts that buy and sell RAM
          Payments,    \* the amounts buyram is called with
          ByteAmounts, \* the bytes buyrambytes and sellram are called with
          RamSizes,    \* the sizes setram is called with
          RamRates,    \* the rates setramrate is called with
          InitRam,     \* max_ram_size at first (64 GB)
          InitQuote,   \* the core tokens the market starts with (a thousandth of the supply)
          CoreSupply,  \* the tokens of the exchange (100000000000000)
          RamWord,     \* what a uint32_t holds (2^32)
          MaxRam,      \* bound on max_ram_size
          MaxStake     \* bound on the tokens that are paid for RAM

ASSUME RamAssumption ==
    /\ IsFiniteSet(RamUsers)
    /\ Payments \subseteq Nat \ {0}
    /\ ByteAmounts \subseteq Nat \ {0}
    /\ RamSizes \subseteq Nat
    /\ RamRates \subseteq Nat
    /\ {InitRam, InitQuote, CoreSupply, RamWord} \subseteq Nat \ {0}
    /\ {MaxRam, MaxStake} \subseteq Nat

VARIABLES market,   \* the row of rammarket: the balances of its connectors base and quote
          ram,      \* max_ram_size, total_ram_bytes_reserved, total_ram_stake, the rate, and when
                    \* it was last applied
          held,     \* held[a]: ram_bytes of a's resources
          tokens    \* what eosio.ram holds

ramVars == <<market, ram, held, tokens>>

\* init, of a chain whose RAM is not used
RamInit ==
    /\ market = [base |-> InitRam, quote |-> InitQuote]
    /\ ram = [size |-> InitRam, reserved |-> 0, stake |-> 0, rate |-> 0, at |-> 0]
    /\ held = [a \in RamUsers |-> 0]
    /\ tokens = 0
-----------------------------------------------------------------------------
(* The conversion                                                          *)

\* convert_to_exchange: the largest e with (R + e)^2 / R^2 <= 1 + in / (balance + in)
Issued(balance, in) ==
    LET R == CoreSupply
        C == balance + in
    IN  Cardinality({e \in 1 .. R : (R + e) * (R + e) * C <= R * R * (C + in)})

\* convert_from_exchange: balance * ((1 + e / R)^2 - 1), where R is the supply without e
Withdrawn(balance, e) ==
    LET R == CoreSupply
    IN  (balance * (e * e + 2 * e * R)) \div (R * R)

\* Mutant: the connector's balance is taken without what goes in.
Converted_Before(from, to, in) ==
    LET R == CoreSupply
        e == Cardinality({x \in 1 .. R : (R + x) * (R + x) * from <= R * R * (from + in)})
    IN  Withdrawn(to, e)

\* convert: in goes into the connector with balance from, and this comes out of to.
Converted(from, to, in) == Withdrawn(to, Issued(from, in))

\* The fee of half a percent, rounded up.
RamFee(amount) == (amount + 199) \div 200
-----------------------------------------------------------------------------
(* The actions                                                             *)

\* What the market and the totals are once RAM has grown at its rate.
NewRam(time)      == IF time <= ram.at THEN 0 ELSE ((time - ram.at) * ram.rate) % RamWord
GrownMarket(time) == [market EXCEPT !.base = market.base + NewRam(time)]
GrownRam(time)    == [ram EXCEPT !.size = ram.size + NewRam(time),
                                 !.at = IF time <= ram.at THEN ram.at ELSE time]

\* buyram for receiver a.  Fees go to the REX pool.
BuyRam(a, amount, time) ==
    LET m     == GrownMarket(time)
        g     == GrownRam(time)
        net   == amount - RamFee(amount)
        bytes == Converted(m.quote, m.base, net)
    IN  /\ net > 0
        /\ bytes > 0
        /\ market' = [base |-> m.base - bytes, quote |-> m.quote + net]
        /\ ram' = [g EXCEPT !.reserved = g.reserved + bytes, !.stake = g.stake + net]
        /\ held' = [held EXCEPT ![a] = held[a] + bytes]
        /\ tokens' = tokens + net

\* buyrambytes: the price that a sale of the bytes would bring, before RAM grows
BuyRamBytes(a, bytes, time) == BuyRam(a, Converted(market.base, market.quote, bytes), time)

\* sellram
SellRam(a, bytes, time) ==
    LET m   == GrownMarket(time)
        g   == GrownRam(time)
        out == Converted(m.base, m.quote, bytes)
    IN  /\ held[a] >= bytes
        /\ out > 1
        /\ g.stake - out >= 0
        /\ tokens >= out
        /\ market' = [base |-> m.base + bytes, quote |-> m.quote - out]
        /\ ram' = [g EXCEPT !.reserved = g.reserved - bytes, !.stake = g.stake - out]
        /\ held' = [held EXCEPT ![a] = held[a] - bytes]
        /\ tokens' = tokens - out

\* Mutant: the market does not get the RAM that is added.
SetRam_Kept(size) ==
    /\ ram.size < size
    /\ size > ram.reserved
    /\ ram' = [ram EXCEPT !.size = size]
    /\ UNCHANGED <<market, held, tokens>>

\* setram
SetRam(size) ==
    /\ ram.size < size
    /\ size > ram.reserved
    /\ market' = [market EXCEPT !.base = market.base + (size - ram.size)]
    /\ ram' = [ram EXCEPT !.size = size]
    /\ UNCHANGED <<held, tokens>>

\* setramrate
SetRamRate(rate, time) ==
    /\ market' = GrownMarket(time)
    /\ ram' = [GrownRam(time) EXCEPT !.rate = rate]
    /\ UNCHANGED <<held, tokens>>

\* Trading goes on within the bounds.
WithinRamBounds(time) == GrownRam(time).size <= MaxRam /\ ram.stake <= MaxStake

RamNext(time) ==
    \/ \E a \in RamUsers, amount \in Payments : WithinRamBounds(time) /\ BuyRam(a, amount, time)
    \/ \E a \in RamUsers, bytes \in ByteAmounts :
          WithinRamBounds(time) /\ BuyRamBytes(a, bytes, time)
    \/ \E a \in RamUsers, bytes \in ByteAmounts : WithinRamBounds(time) /\ SellRam(a, bytes, time)
    \/ \E size \in RamSizes : SetRam(size)
    \/ \E rate \in RamRates : WithinRamBounds(time) /\ SetRamRate(rate, time)

\* The market by itself, at any times.
RamSpec == RamInit /\ [][\E time \in Nat : RamNext(time)]_ramVars
-----------------------------------------------------------------------------
(* Properties                                                              *)

\* Type correctness: balances are whole and not below zero.
RamTypeOK ==
    /\ market \in [base : Nat, quote : Nat]
    /\ ram \in [size : Nat, reserved : Nat, stake : Nat, rate : Nat, at : Nat]
    /\ held \in [RamUsers -> Nat]
    /\ tokens \in Nat

\* No byte and no token is made or lost between the market, the accounts and eosio.ram: the
\* bytes that exist are for sale or held, the market's tokens are those it started with and
\* those that were paid, and eosio.ram holds what was paid, as RAM grows and is traded.
RamConserved ==
    /\ market.base + ram.reserved = ram.size
    /\ ram.reserved = SumOver(held, RamUsers)
    /\ market.quote = InitQuote + ram.stake
    /\ tokens = ram.stake

\* Trading never pays for itself: whatever is bought and sold, in whatever pieces, the
\* product of the market's balances does not fall, so that nobody gets out more than was
\* put in, and the check of sellram that "shouldn't happen" does not.
RamNoProfit ==
    /\ market.base * market.quote >= ram.size * InitQuote
    /\ \A a \in RamUsers, bytes \in ByteAmounts :
          held[a] >= bytes => Converted(market.base, market.quote, bytes) <= ram.stake
=============================================================================
