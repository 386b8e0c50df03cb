---------------------------- MODULE QuotePoolMC ----------------------------
(***************************************************************************)
(* An instance of QuotePool for TLC: readers of a portfolio of two         *)
(* holdings, trades, additions and looks at the dashboard, with fewer      *)
(* threads than quotes.                                                    *)
(***************************************************************************)
EXTENDS QuotePool

CONSTANTS r1, r2, r3

Job(kind, quotes) == [kind |-> kind, quotes |-> quotes]
MCJobs == {Job("get", 2), Job("trade", 1), Job("add", 1), Job("look", 1)}
=============================================================================
