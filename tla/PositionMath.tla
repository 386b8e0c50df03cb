---------------------------- MODULE PositionMath ----------------------------
(***************************************************************************)
(* The arithmetic of a paper position.  Prices are exact rationals on two  *)
(* grids: the quote of the provider is a float, counted here in sub-ticks; *)
(* the columns average_entry_price and execution_price are NUMERIC(18, 4), *)
(* counted in ticks of 0.0001, which is what PostgreSQL rounds a float to  *)
(* when it stores it (half away from zero).  SubTicks sub-ticks make a     *)
(* tick.  The error of the float operations themselves is left out.        *)
(***************************************************************************)
EXTENDS Integers

CONSTANT SubTicks

ASSUME SubTicksAssumption == SubTicks \in Nat \ {0}

\* n / d rounded to the nearest integer, halves up (n and d are not negative).
RoundDiv(n, d) == (2 * n + d) \div (2 * d)

\* The stored value of a price.
Ticks(price) == RoundDiv(price, SubTicks)

\* The stored average of a position of `held` shares at `average` ticks into
\* which `bought` shares at `price` sub-ticks are merged.
MergedPrice(held, average, bought, price) ==
    RoundDiv(held * average * SubTicks + bought * price,
             (held + bought) * SubTicks)
=============================================================================
