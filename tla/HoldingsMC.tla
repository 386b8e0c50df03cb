----------------------------- MODULE HoldingsMC -----------------------------
(***************************************************************************)
(* Instances of PortfolioHoldings for TLC: alice, on the free tier, has    *)
(* one free addition left; bob is on the PRO tier; carol has no portfolio, *)
(* and the authentication service does not know her.                       *)
(***************************************************************************)
EXTENDS PortfolioHoldings, TLC

CONSTANTS alice, bob, carol, r1, r2, r3, s1, s2, s3, s4, s5, s6, s7

Symmetry == Permutations(Requests)

Folio(id, user) == [id |-> id, user |-> user]
Holding(id, portfolio, symbol) == [id |-> id, portfolio |-> portfolio, symbol |-> symbol]

Create(u) == [kind |-> "create", user |-> u]
Get(u) == [kind |-> "get", user |-> u]
Add(u, s) == [kind |-> "add", user |-> u, symbol |-> s]
Remove(u, s) == [kind |-> "remove", user |-> u, symbol |-> s]

MCPortfolios == {Folio(1, alice), Folio(2, bob)}
MCHoldings == {Holding(11, 1, s1), Holding(12, 1, s2), Holding(13, 1, s3),
               Holding(14, 1, s4), Holding(21, 2, s1)}
MCTrades == [u \in Users |-> IF u = alice THEN 5 ELSE 7]

\* What users do at the limits: with one stock to a portfolio alice has room for
\* one, and one free addition left.
RaceHoldings == {Holding(21, 2, s1)}
RaceJobs == {Add(alice, s5), Add(alice, s6), Add(alice, s7), Remove(alice, s5),
             Create(carol)}
\* One request of a user after the other: alice meets the limit of free
\* additions, bob that of holdings, and carol creates her portfolio.
SerialHoldings == {Holding(11, 1, s1), Holding(21, 2, s1), Holding(22, 2, s2),
                   Holding(23, 2, s3), Holding(24, 2, s4)}
SerialJobs == {Create(carol), Add(carol, s5), Add(alice, s5), Add(alice, s6),
               Add(bob, s5), Add(bob, s6), Remove(bob, s1), Get(bob)}
\* Two creations for one user.
CreateOnly == {Create(carol)}
=============================================================================
