--------------------------- MODULE HoldingsAccount ---------------------------
(***************************************************************************)
(* The account of holdings as a user pictures it: one portfolio, a bounded *)
(* set of stocks, additions that are free up to a number, each followed by *)
(* its charge unless the service fails between the two.                    *)
(***************************************************************************)
EXTENDS Integers, FiniteSets

CONSTANTS Users, Symbols, MaxHoldings, FreeTrades,
          Metered,   \* the users whose additions are limited
          Counted,   \* the users whose additions are counted
          Opening, Spent, None

VARIABLES stocks,    \* stocks[u]: what u holds, None without a portfolio
          spent,     \* spent[u]: the additions counted so far
          owing      \* the users whose last addition is not yet counted

Open(u) ==
    /\ stocks[u] = None
    /\ stocks' = [stocks EXCEPT ![u] = {}]
    /\ UNCHANGED <<spent, owing>>

Add(u) ==
    /\ u \notin owing
    /\ u \in Metered => spent[u] < FreeTrades
    /\ stocks[u] # None
    /\ Cardinality(stocks[u]) < MaxHoldings
    /\ \E s \in Symbols \ stocks[u] :
        stocks' = [stocks EXCEPT ![u] = @ \cup {s}]
    /\ \/ owing' = owing \cup {u}
       \/ UNCHANGED owing       \* the service failed after the addition
    /\ UNCHANGED spent

Charge(u) ==
    /\ u \in owing
    /\ spent' = [spent EXCEPT ![u] = IF u \in Counted THEN @ + 1 ELSE @]
    /\ owing' = owing \ {u}
    /\ UNCHANGED stocks

Forgive(u) ==
    /\ u \in owing
    /\ owing' = owing \ {u}
    /\ UNCHANGED <<stocks, spent>>

Remove(u) ==
    /\ u \notin owing
    /\ stocks[u] # None
    /\ \E s \in stocks[u] : stocks' = [stocks EXCEPT ![u] = @ \ {s}]
    /\ UNCHANGED <<spent, owing>>

Init == stocks = Opening /\ spent = Spent /\ owing = {}

Next == \E u \in Users : Open(u) \/ Add(u) \/ Charge(u) \/ Forgive(u) \/ Remove(u)

Spec == Init /\ [][Next]_<<stocks, spent, owing>>
=============================================================================
