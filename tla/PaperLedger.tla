----------------------------- MODULE PaperLedger -----------------------------
(***************************************************************************)
(* A paper account as its users picture it: a trade reads the position,    *)
(* moves it and is journaled in one indivisible step, and an edit replaces *)
(* the position.                                                           *)
(***************************************************************************)
EXTENDS PositionMath

CONSTANTS Trades,    \* the orders that may be executed
          Prices,    \* the prices they may be executed at, in sub-ticks
          Edits,     \* <<key, quantity, price>> of an edit
          Opening, NoShares

VARIABLES shares,    \* shares[k]: quantity and average price (ticks) of key k
          journal    \* the executed trades

Held(k) == IF shares[k] = NoShares THEN 0 ELSE shares[k].quantity

Put(k, quantity, price) ==
    shares' = [shares EXCEPT ![k] =
                 IF quantity = 0 THEN NoShares
                 ELSE [quantity |-> quantity, price |-> price]]

Buy(k, quantity, price) ==
    Put(k, Held(k) + quantity,
        IF shares[k] = NoShares THEN Ticks(price)
        ELSE MergedPrice(Held(k), shares[k].price, quantity, price))

Sell(k, quantity) ==
    /\ shares[k] # NoShares
    /\ quantity <= Held(k)
    /\ Put(k, Held(k) - quantity, shares[k].price)

Trade(order, price) ==
    /\ \A e \in journal : /\ e.order.proposal # order.proposal
                          /\ e.order.execution # order.execution
    /\ LET k == <<order.portfolio, order.symbol>>
       IN  \/ order.action = "BUY" /\ Buy(k, order.quantity, price)
           \/ order.action = "SELL" /\ Sell(k, order.quantity)
    /\ journal' = journal \cup {[order |-> order, price |-> Ticks(price)]}

Replace(edit) ==
    /\ Put(edit[1], edit[2], Ticks(edit[3]))
    /\ UNCHANGED journal

Init == shares = Opening /\ journal = {}

Next == \/ \E o \in Trades, p \in Prices : Trade(o, p)
        \/ \E e \in Edits : Replace(e)

Spec == Init /\ [][Next]_<<shares, journal>>
=============================================================================
