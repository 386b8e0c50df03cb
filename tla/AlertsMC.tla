------------------------------ MODULE AlertsMC ------------------------------
(***************************************************************************)
(* Instances of PriceAlerts for TLC: alice has two alerts on AAPL, one on  *)
(* each side of the prices that are evaluated, and bob one; the limit is   *)
(* scaled down to three, which alice is one alert below.                   *)
(***************************************************************************)
EXTENDS PriceAlerts

CONSTANTS alice, bob, r1, r2, r3, a1, a2, b1

MCSymbols == {"AAPL", "MSFT"}
MCCanonical == [s \in {"AAPL", "aapl", "MSFT", " "} |->
                  CASE s = "aapl" -> "AAPL" [] s = " " -> "" [] OTHER -> s]

Alert(id, user, condition, price) ==
    [id |-> id, user |-> user, symbol |-> "AAPL", price |-> price,
     condition |-> condition, triggered |-> FALSE, at |-> Never]
MCOpening == {Alert(a1, alice, "ABOVE", 5), Alert(a2, alice, "BELOW", 6),
              Alert(b1, bob, "ABOVE", 7)}

Create(u, s, condition, price) ==
    [kind |-> "create", user |-> u, symbol |-> s, condition |-> condition,
     price |-> price]
Delete(u, a) == [kind |-> "delete", user |-> u, alert |-> a]
Tick(s, price) == [kind |-> "evaluate", symbol |-> s, price |-> price]

\* Users change their alerts, one just created among them, while two prices are
\* evaluated: 5 reaches both of alice's alerts, 7 one of hers and bob's.
RaceJobs == {Create(alice, "aapl", "ABOVE", 4), Create(alice, " ", "ABOVE", 4),
             Delete(alice, a1), Delete(bob, a1), Delete(alice, r1),
             Tick("aapl", 5), Tick("AAPL", 7), Tick("MSFT", 9)}
=============================================================================
