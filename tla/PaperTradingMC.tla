--------------------------- MODULE PaperTradingMC ---------------------------
(***************************************************************************)
(* Instances of PaperTrading for TLC: one portfolio that holds three       *)
(* shares of AAPL at two ticks, and small sets of payloads that meet on    *)
(* it.                                                                     *)
(***************************************************************************)
EXTENDS PaperBooks, TLC

CONSTANTS alice, bob, r1, r2, r3, p1, p2, p3, p4, e1, e2, e3, e4, main, ghost

Symmetry == Permutations(Requests)

Trade(proposal, execution, action, symbol, quantity) ==
    [kind |-> "trade", proposal |-> proposal, execution |-> execution,
     portfolio |-> main, user |-> alice, symbol |-> symbol, action |-> action,
     quantity |-> quantity]
Edit(symbol, quantity, price) ==
    [kind |-> "edit", portfolio |-> main, user |-> alice, symbol |-> symbol,
     quantity |-> quantity, price |-> price]

MCSymbols == {"AAPL", "aapl"}
MCCanonical == [s \in {"AAPL", "aapl", "BUY", "buy", "SELL", "HOLD"} |->
                  CASE s = "aapl" -> "AAPL" [] s = "buy" -> "BUY" [] OTHER -> s]
MCOwner == [p \in {main} |-> alice]
MCOpening == [k \in {main} \X MCSymbols |->
                IF k[2] = "AAPL" THEN [id |-> 0, quantity |-> 3, price |-> 2]
                ELSE NoRow]

Buy == Trade(p1, e1, "buy", "AAPL", 2)
SellAll == Trade(p2, e2, "SELL", "AAPL", 3)
SellSome == Trade(p3, e3, "SELL", "AAPL", 2)
BuyLower == Trade(p4, e4, "BUY", "aapl", 1)
SameExecution == Trade(p4, e1, "BUY", "AAPL", 1)
SetDown == Edit("aapl", 1, 4)

\* Trades and an edit that race on the held position.
RaceOrders == {Buy, SellAll, SellSome, SameExecution}
RaceEdits == {SetDown}

NoEdits == {}

\* Orders that do not repeat an id, and one that is sent again.
TwoPurchases == {Buy, Trade(p4, e4, "BUY", "AAPL", 1)}
FirstPurchases == {BuyLower, Trade(p1, e1, "BUY", "aapl", 2)}
OneOrder == {Buy}

\* Every way a request is refused, beside one that is accepted.
RefusalOrders ==
    {Buy, SellAll, BuyLower, SameExecution,
     [Buy EXCEPT !.portfolio = ghost], [Buy EXCEPT !.user = bob],
     [Buy EXCEPT !.action = "HOLD"], [Buy EXCEPT !.quantity = 8],
     [SellAll EXCEPT !.quantity = 4], [SellAll EXCEPT !.symbol = "aapl"]}
RefusalEdits ==
    {SetDown, Edit("AAPL", 3, 4), Edit("AAPL", 8, 4), Edit("AAPL", 2, 1),
     [SetDown EXCEPT !.portfolio = ghost], [SetDown EXCEPT !.user = bob]}
=============================================================================
