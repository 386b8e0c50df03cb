------------------------------- MODULE FeedMC -------------------------------
(***************************************************************************)
(* Instances of MarketFeed for TLC: two symbols, of which one falls below  *)
(* its previous close and rises again.                                     *)
(***************************************************************************)
EXTENDS MarketFeed, TLC

CONSTANTS w1, w2

Symmetry == Permutations(Workers)

MCWatchlist == <<"AAPL", "MSFT">>
MCTrend ==
    [s \in {"AAPL", "MSFT"} |->
       IF s = "AAPL" THEN [m \in Moments |-> IF m = 1 THEN "down" ELSE "up"]
       ELSE [m \in Moments |-> IF m = 0 THEN "flat" ELSE "down"]]
=============================================================================
