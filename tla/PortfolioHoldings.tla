-------------------------- MODULE PortfolioHoldings --------------------------
(***************************************************************************)
(* The portfolios and their holdings (PortfolioService.create_portfolio,   *)
(* get_portfolio, add_holding, remove_holding and PortfolioRepository),    *)
(* with the counter of free trades in the row of the user, which belongs   *)
(* to the authentication service.                                          *)
(*                                                                         *)
(* Every await of a handler is a step.  The limits are checked against     *)
(* what a request has read, and nothing is locked between the reading and  *)
(* the insert.  A session takes a connection of the pools at its first     *)
(* statement and holds it until its transaction ends, also while it waits  *)
(* for a quote: this is what bounds the number of requests that have       *)
(* passed a check and not yet inserted.                                    *)
(*                                                                         *)
(* A definition marked `Bug` is a faulty variant of the one below it.      *)
(***************************************************************************)
EXTENDS Integers, FiniteSets

CONSTANTS
    Requests,        \* the requests that arrive, over all replicas
    Jobs,            \* their payloads: create, add, remove and get
    Users, Symbols,
    Registered,      \* the users with a row in authentication.users
    Pro,             \* the users whose subscription_tier is PRO
    MaxHoldings,     \* 5 in the code
    FreeTrades,      \* 6 in the code
    Connections,     \* connections of all pools: 2 replicas of 10 + 20
    OpenPortfolios,  \* the portfolios, holdings and trades_count at the start
    OpenHoldings,
    OpenTrades,
    NoRow

ASSUME LimitsAssumption ==
    /\ MaxHoldings \in Nat \ {0}
    /\ FreeTrades \in Nat
    /\ Connections \in Nat \ {0}
    /\ Registered \subseteq Users

ASSUME JobsAssumption ==
    \A j \in Jobs : /\ j.kind \in {"create", "add", "remove", "get"}
                    /\ j.user \in Users
                    /\ j.kind \in {"add", "remove"} => j.symbol \in Symbols

VARIABLES
    pc,          \* pc[r]: the next await of the handler of r
    job,         \* job[r]: the payload of r
    found,       \* found[r]: the portfolio r has loaded
    target,      \* target[r]: the holding r has saved or is about to delete
    status,      \* status[r]: the HTTP status r was answered, 0 when none
    portfolios,  \* market.portfolios
    holdings,    \* market.portfolio_holdings
    trades       \* authentication.users.trades_count

local == <<pc, job, found, target, status>>
tables == <<portfolios, holdings, trades>>
vars == <<local, tables>>

\* A row is named by the request that inserts it.
Portfolios == [id : Requests, user : Users] \cup OpenPortfolios
Holdings == [id : Requests, portfolio : {p.id : p \in Portfolios}, symbol : Symbols]
                \cup OpenHoldings

ASSUME RowsAssumption ==
    /\ NoRow \notin Portfolios \cup Holdings
    /\ \A S \in SUBSET Symbols : NoRow # S
    /\ IsFiniteSet(OpenHoldings)
    /\ OpenTrades \in [Users -> Nat]
    /\ \A p \in OpenPortfolios : p.id \notin Requests /\ p.user \in Users
    /\ \A h \in OpenHoldings :
        /\ h.id \notin Requests
        /\ h.portfolio \in {p.id : p \in OpenPortfolios}
        /\ h.symbol \in Symbols

\* The portfolios at the start keep the limit, the primary key and the unique
\* index.
ASSUME OpeningAssumption ==
    /\ \A p, q \in OpenPortfolios : p.id = q.id => p = q
    /\ \A h, i \in OpenHoldings :
        h.portfolio = i.portfolio /\ h.symbol = i.symbol => h = i
    /\ \A p \in OpenPortfolios :
        Cardinality({h \in OpenHoldings : h.portfolio = p.id}) <= MaxHoldings

PCs == {"idle", "find", "list", "count", "quote", "insert", "refresh", "charge",
        "delete", "reply", "done"}

PortfoliosOf(u) == {p \in portfolios : p.user = u}
HoldingsOf(p) == {h \in holdings : h.portfolio = p}

\* Bug: the connection is given back while the handler waits for a quote.
InTransactionOnWrites(r) == pc[r] \in {"list", "insert", "charge", "delete"}

\* A request that has a transaction open.
InTransaction(r) == pc[r] \in {"list", "count", "quote", "insert", "charge", "delete"}

FreeConnection == Cardinality({r \in Requests : InTransaction(r)}) < Connections

-----------------------------------------------------------------------------
Goto(r, label) ==
    /\ pc' = [pc EXCEPT ![r] = label]
    /\ UNCHANGED <<job, status>>

Answer(r, code) ==
    /\ pc' = [pc EXCEPT ![r] = "done"]
    /\ status' = [status EXCEPT ![r] = code]
    /\ UNCHANGED <<job, found, target>>

\* An error answer: the session is closed and rolled back.
Refuse(r, code) == Answer(r, code) /\ UNCHANGED tables

Send(r) ==
    /\ pc[r] = "idle"
    /\ Goto(r, "find")
    /\ UNCHANGED <<found, target, tables>>

\* get_portfolio_by_user raises MultipleResultsFound when there are several.
FindPortfolio(r) ==
    /\ pc[r] = "find"
    /\ FreeConnection
    /\ LET mine == PortfoliosOf(job[r].user)
       IN  \/ Cardinality(mine) > 1 /\ Refuse(r, 500)
           \/ /\ mine = {}
              /\ \/ job[r].kind # "create" /\ Refuse(r, 404)
                 \/ /\ job[r].kind = "create"
                    /\ Goto(r, "insert")
                    /\ UNCHANGED <<found, target, tables>>
           \/ \E p \in mine :
                /\ mine = {p}
                /\ \/ job[r].kind = "create" /\ Refuse(r, 409)
                   \/ /\ job[r].kind # "create"
                      /\ found' = [found EXCEPT ![r] = p.id]
                      /\ Goto(r, "list")
                      /\ UNCHANGED <<target, tables>>

\* Bug: off by one.
IsFullLate(loaded) == Cardinality(loaded) > MaxHoldings

IsFull(loaded) == Cardinality(loaded) >= MaxHoldings

\* The holdings of the portfolio are loaded by a SELECT of their own.
ListHoldings(r) ==
    /\ pc[r] = "list"
    /\ LET loaded == HoldingsOf(found[r])
           same == {h \in loaded : h.symbol = job[r].symbol}
       IN  \/ /\ job[r].kind = "get"
              /\ \/ loaded = {} /\ Refuse(r, 200)
                 \/ loaded # {} /\ Goto(r, "quote") /\ UNCHANGED <<found, target, tables>>
           \/ /\ job[r].kind = "add"
              /\ \/ same # {} /\ Refuse(r, 409)
                 \/ same = {} /\ IsFull(loaded) /\ Refuse(r, 400)
                 \/ /\ same = {} /\ ~IsFull(loaded)
                    /\ Goto(r, "count")
                    /\ UNCHANGED <<found, target, tables>>
           \/ /\ job[r].kind = "remove"
              /\ \/ same = {} /\ Refuse(r, 404)
                 \/ \E h \in same :
                      /\ target' = [target EXCEPT ![r] = h]
                      /\ Goto(r, "delete")
                      /\ UNCHANGED <<found, tables>>

\* Bug: the user is read in a second session, with a connection of its own.
CountTradesInSecondSession(r) ==
    /\ pc[r] = "count"
    /\ FreeConnection
    /\ Goto(r, "quote")
    /\ UNCHANGED <<found, target, tables>>

\* Bug: the addition is counted before it is known whether it will be made.
CountAhead(r) ==
    /\ pc[r] = "count"
    /\ trades' = [trades EXCEPT ![job[r].user] = @ + 1]
    /\ Goto(r, "quote")
    /\ UNCHANGED <<found, target, portfolios, holdings>>

\* A user the authentication service does not know is not limited.
CountTrades(r) ==
    /\ pc[r] = "count"
    /\ LET u == job[r].user
           spent == u \in Registered /\ u \notin Pro /\ trades[u] >= FreeTrades
       IN  \/ spent /\ Refuse(r, 402)
           \/ ~spent /\ Goto(r, "quote") /\ UNCHANGED <<found, target, tables>>

\* The provider knows the symbol, or it does not answer; a portfolio is shown
\* without the quotes that are missing.
FetchQuote(r) ==
    /\ pc[r] = "quote"
    /\ \/ job[r].kind = "get" /\ Refuse(r, 200)
       \/ job[r].kind = "add" /\ Refuse(r, 400)
       \/ /\ job[r].kind = "add"
          /\ Goto(r, "insert")
          /\ UNCHANGED <<found, target, tables>>

\* The confirmation of a commit that took effect is lost.
LoseConfirmation(r) == Answer(r, 500)

InsertPortfolio(r) ==
    /\ pc[r] = "insert"
    /\ job[r].kind = "create"
    /\ portfolios' = portfolios \cup {[id |-> r, user |-> job[r].user]}
    /\ \/ Goto(r, "refresh") /\ UNCHANGED <<found, target>>
       \/ LoseConfirmation(r)
    /\ UNCHANGED <<holdings, trades>>

\* Bug: the table has no unique index.
IsTakenNever(p, s) == FALSE

\* The unique index uq_portfolio_symbol.
IsTaken(p, s) == \E h \in HoldingsOf(p) : h.symbol = s

\* A holding that another request has added since the check violates the index;
\* the IntegrityError is not handled.
InsertHolding(r) ==
    /\ pc[r] = "insert"
    /\ job[r].kind = "add"
    /\ LET row == [id |-> r, portfolio |-> found[r], symbol |-> job[r].symbol]
       IN  \/ IsTaken(found[r], row.symbol) /\ Refuse(r, 500)
           \/ /\ ~IsTaken(found[r], row.symbol)
              /\ holdings' = holdings \cup {row}
              /\ UNCHANGED <<portfolios, trades>>
              /\ \/ /\ target' = [target EXCEPT ![r] = row]
                    /\ Goto(r, "refresh")
                    /\ UNCHANGED found
                 \/ LoseConfirmation(r)

\* A new transaction reads the new row again, if it is still there.
Refresh(r) ==
    /\ pc[r] = "refresh"
    /\ FreeConnection
    /\ \/ job[r].kind = "add" /\ target[r] \notin holdings /\ Refuse(r, 500)
       \/ /\ job[r].kind = "add" => target[r] \in holdings
          /\ Goto(r, IF job[r].kind = "add" THEN "charge" ELSE "reply")
          /\ UNCHANGED <<found, target, tables>>

\* Bug: there is no second commit, and the increment is rolled back when the
\* session is closed.
ChargeTradeUncommitted(r) ==
    /\ pc[r] = "charge"
    /\ Goto(r, "reply")
    /\ UNCHANGED <<found, target, tables>>

\* SET trades_count = trades_count + 1, and the second commit.
ChargeTrade(r) ==
    /\ pc[r] = "charge"
    /\ trades' = [trades EXCEPT ![job[r].user] =
                    IF job[r].user \in Registered THEN @ + 1 ELSE @]
    /\ UNCHANGED <<portfolios, holdings>>
    /\ \/ Goto(r, "reply") /\ UNCHANGED <<found, target>>
       \/ LoseConfirmation(r)

\* A DELETE of a row that is gone is only a warning.
DeleteHolding(r) ==
    /\ pc[r] = "delete"
    /\ holdings' = holdings \ {target[r]}
    /\ UNCHANGED <<portfolios, trades>>
    /\ \/ Goto(r, "reply") /\ UNCHANGED <<found, target>>
       \/ LoseConfirmation(r)

Reply(r) ==
    /\ pc[r] = "reply"
    /\ Refuse(r, IF job[r].kind = "remove" THEN 200 ELSE 201)

\* A statement fails, the connection is lost, or none is free for 30 seconds.
DatabaseError(r) ==
    /\ pc[r] \in {"find", "list", "count", "insert", "refresh", "charge", "delete"}
    /\ Refuse(r, 500)

\* The replica dies: no answer, and the open transaction is rolled back.
Crash(r) ==
    /\ pc[r] \notin {"idle", "done"}
    /\ Refuse(r, 0)

Step(r) ==
    \/ FindPortfolio(r) \/ ListHoldings(r) \/ CountTrades(r) \/ FetchQuote(r)
    \/ InsertPortfolio(r) \/ InsertHolding(r) \/ Refresh(r) \/ ChargeTrade(r)
    \/ DeleteHolding(r) \/ Reply(r)

Finished == (\A r \in Requests : pc[r] = "done") /\ UNCHANGED vars

-----------------------------------------------------------------------------
Init ==
    /\ pc = [r \in Requests |-> "idle"]
    /\ job \in [Requests -> Jobs]
    /\ found = [r \in Requests |-> NoRow]
    /\ target = [r \in Requests |-> NoRow]
    /\ status = [r \in Requests |-> 0]
    /\ portfolios = OpenPortfolios
    /\ holdings = OpenHoldings
    /\ trades = OpenTrades

Next ==
    \/ \E r \in Requests : Send(r) \/ Step(r) \/ DatabaseError(r) \/ Crash(r)
    \/ Finished

Spec == Init /\ [][Next]_vars

\* The event loops, PostgreSQL and the provider do not stop for ever, and the
\* queue of a pool is served in its order.
FairSpec == Spec /\ \A r \in Requests : WF_vars(Step(r))

\* Each user sends a request when the one before it has ended.
Running(r) == pc[r] \notin {"idle", "done"}
OneRequestPerUser ==
    \A r, o \in Requests :
        r # o /\ Running(r) /\ Running(o) => job[r].user # job[o].user
SerialSpec == Init /\ [][Next /\ OneRequestPerUser']_vars

-----------------------------------------------------------------------------
(* Properties.                                                             *)

TypeOK ==
    /\ pc \in [Requests -> PCs]
    /\ job \in [Requests -> Jobs]
    /\ found \in [Requests -> {p.id : p \in Portfolios} \cup {NoRow}]
    /\ target \in [Requests -> Holdings \cup {NoRow}]
    /\ status \in [Requests -> {0, 200, 201, 400, 402, 404, 409, 500}]
    /\ portfolios \subseteq Portfolios
    /\ holdings \subseteq Holdings
    /\ trades \in [Users -> Nat]

\* A stock is in a portfolio at most once, whatever requests race to add it and
\* to remove it.
HoldingsAreDistinct ==
    \A h, i \in holdings :
        h.portfolio = i.portfolio /\ h.symbol = i.symbol => h = i

\* The check of the limit races, but a request that has passed it holds a
\* connection until its insert: the limit is overrun by less than the number
\* of connections, however many requests there are.
Approved(p) ==
    {r \in Requests : /\ job[r].kind = "add" /\ found[r] = p
                      /\ pc[r] \in {"count", "quote", "insert"}}
OverrunIsBounded ==
    \A p \in portfolios :
        Cardinality(HoldingsOf(p.id)) < MaxHoldings + Connections

\* A request whose stock is already there adds nothing, one that was answered
\* 201 has been counted, and one that was refused has not.
Adding(u) == {r \in Requests : job[r].kind = "add" /\ job[r].user = u}
TradesAreCounted ==
    \A u \in Registered :
        LET counted == trades[u] - OpenTrades[u]
        IN  /\ Cardinality({r \in Adding(u) : status[r] = 201}) <= counted
            /\ counted <= Cardinality({r \in Adding(u) :
                  pc[r] = "reply" \/ (pc[r] = "done" /\ status[r] \in {0, 201, 500})})

\* The counter is read before the quote and incremented after the second commit,
\* so additions that overlap exceed the free ones.  Each addition that has read
\* the counter and will increment it has its stock in the portfolio or holds a
\* connection: the excess is bounded by the room of one portfolio.
FreeOverrunIsBounded ==
    \A u \in Registered \ Pro :
        OpenTrades[u] <= FreeTrades
            => trades[u] <= FreeTrades + MaxHoldings + Connections - 2

\* No request waits for ever for a connection: none that holds one waits for
\* another.
EveryRequestEnds == \A r \in Requests : pc[r] = "find" ~> pc[r] = "done"

\* portfolio_service.py, "User already has a portfolio": there is one at most.
OnePortfolioPerUser == \A u \in Users : Cardinality(PortfoliosOf(u)) <= 1

\* The additions that are in the table and whose requests have not failed: they
\* were answered 201, or will be unless something fails yet.
Succeeding(u) ==
    {r \in Adding(u) : status[r] = 201 \/ pc[r] \in {"refresh", "charge", "reply"}}

\* Where the requests of each user come one after the other, the checks do keep
\* the limits: one portfolio, MaxHoldings stocks in it, and FreeTrades additions
\* that succeed.  An addition whose request fails between its two commits is not
\* counted, and is not limited by this (HoldingsAccount, Forgive).
OneAtMost(u, folios) ==
    \A p, q \in folios : p.user = u /\ q.user = u => p = q
LimitsAreKept ==
    \A u \in Users :
        /\ OneAtMost(u, OpenPortfolios) => OneAtMost(u, portfolios)
        /\ \A p \in PortfoliosOf(u) : Cardinality(HoldingsOf(p.id)) <= MaxHoldings
        /\ u \in Registered \ Pro /\ OpenTrades[u] <= FreeTrades =>
              /\ trades[u] <= FreeTrades
              /\ OpenTrades[u] + Cardinality(Succeeding(u)) <= FreeTrades

-----------------------------------------------------------------------------
StocksOf(u, folios, rows) ==
    LET mine == {p.id : p \in {x \in folios : x.user = u}}
    IN  IF mine = {} THEN NoRow
        ELSE {h.symbol : h \in {x \in rows : x.portfolio \in mine}}

\* When each user sends one request after the other, the tables are the account
\* the user pictures: one portfolio, the limits kept, and an addition that is
\* not counted only where the service failed before the second commit.
Account == INSTANCE HoldingsAccount WITH
    Metered <- Registered \ Pro,
    Counted <- Registered,
    Opening <- [u \in Users |-> StocksOf(u, OpenPortfolios, OpenHoldings)],
    Spent <- OpenTrades,
    None <- NoRow,
    stocks <- [u \in Users |-> StocksOf(u, portfolios, holdings)],
    spent <- trades,
    owing <- {u \in Users : \E r \in Requests :
                /\ job[r].kind = "add" /\ job[r].user = u
                /\ pc[r] \in {"refresh", "charge"}}

AccountSpec == Account!Spec
=============================================================================
