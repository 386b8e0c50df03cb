# Market service: TLA+ models, checks and proofs

This project models the parts of the market service that keep state and run
concurrently: paper trading, portfolios with their holdings, price alerts, the
market feed, the pools of connections and threads that requests share, and the
sockets of the dashboard. It has TLA+ modules translated from
`src/market_service`, TLC instances that check them, and TLAPS proofs, for all
values of the constants, of the safety properties of trading, holdings, alerts,
feed, pools and sockets. `PROJECT.json` maps every definition to the lines it models and
lists the runs, hazards, findings and theorems.

Paths below are relative to `src/src/market_service/` unless they start with
`src/` (the root of the repository).

## 1. The system

Two API replicas (`src/k8s/deployment.yaml`), each one asyncio process, share a
PostgreSQL database and a Redis. Two Celery worker pods and one beat
(`src/k8s/celery-deployment.yaml`, `celery-beat-deployment.yaml`) keep the
market data in Redis up to date. The AI service calls `/internal/paper-executions`;
browsers call the rest.

| component | state | operations | interacts with |
|---|---|---|---|
| Paper trade execution (`services/execution_service.py`, `routers/internal.py`) | `market.paper_trade_executions` | `execute_paper_trade`: idempotency check, quote, portfolio, merge, record, one commit | provider, paper positions |
| Paper positions (`repositories/portfolio_repository.py`) | `market.paper_positions` | `merge_paper_position`, `add_or_update_paper_position`, reads | written by trades and by edits |
| Portfolios and holdings (`services/portfolio_service.py`) | `market.portfolios`, `market.portfolio_holdings`, `authentication.users.trades_count` | `create_portfolio`, `get_portfolio`, `add_holding`, `remove_holding` | provider; a counter in another service's table |
| Price alerts (`services/price_alert_service.py`) | `market.price_alerts` | `create_alert`, `delete_alert`, `evaluate_price_change`, list | email service; a caller the repository does not have |
| Market feed (`tasks/market_tasks.py`, `core/celery.py`, `core/redis.py`) | queue; `market:{symbol}`, `market:analysis` | `update_market_price` every ten seconds | provider, dashboard, sockets |
| Database sessions (`dependencies.py`, `core/database.py`) | pool of 10 + 20 connections per replica | one session per request, rollback when it ends, 30 s of waiting for a connection | every request |
| Quote provider (`services/yfinance_service.py`) | the threads of `asyncio.to_thread` and their queue | `get_stock_quote`, charts, search | Yahoo Finance, every request that needs a quote |
| Dashboard and socket (`routers/dashboard.py`, `core/websocket_manager.py`) | list of open sockets | `connect`, `disconnect`, `broadcast`; a handler per socket reads Redis and sends every ten seconds | market feed |
| Yahoo poller (`services/yfinance_ws_service.py`) | `market:{symbol}` | read, change the price, write back | nothing starts it |
| Email, authentication, settings, limiter, system tasks, random prices, migrations | none that the service changes | formatting, token checks, wiring | |

**What is hard.** Every handler is a coroutine that stops at each `await`, on
two replicas, and no statement of the repository takes a lock before it writes
(`with_for_update` occurs nowhere). So:

- every check (idempotency, quantity to sell, limit of holdings, free trades,
  number of alerts, existing portfolio) is a read, then awaits, among them a
  fetch from the provider, then a write that relies on the read;
- what is left to keep the tables right are unique indexes, CHECK constraints,
  row locks of flushed writes, and the fact that SQLAlchemy updates and deletes
  by primary key and counts the rows;
- callers time out and retry, processes are killed, and the confirmation of a
  commit can be lost, which the code answers 500 like a failed one;
- averages are floats rounded to `NUMERIC(18, 4)` when they are stored;
- fetches run in threads that outlive the request that gave them up, while
  requests that wait for theirs keep database connections;
- a client that leaves is noticed only when a send to it fails, by its handler
  or by a broadcast;
- runs of the feed overlap (one every 10 s, a soft limit of 60 s) and are
  repeated when their worker is lost.

**What makes each component correct.** Trades: no proposal is executed twice,
an answer tells the truth about the table, positions and records move together,
averages stay within the prices paid. Holdings: a stock once per portfolio, the
limits and the counter. Alerts: triggered by a price that reached them, not
told again once a call has returned them, deleted for good. Feed: an analysis
of one run that goes back in time only where runs overlap, no update lost with
its worker. Pools: every request answered, readers in
time, no refusal without holders that account for it, no wait of the two pools
for each other. Sockets: a list without dead sockets, a broadcast that reaches the
living, a client that is shown the latest. `PROJECT.json` lists the hazards against
each of these, at the lines where they bite.

## 2. The modules

| module | models | composed from |
|---|---|---|
| `PositionMath` | rounding and the merged average of `merge_paper_position` | |
| `PaperTrading` | both writers of the positions, await by await | `PositionMath` |
| `TradeJournal` | abstract: idempotent journal with receipts | |
| `PaperLedger` | abstract: indivisible trades on positions | `PositionMath` |
| `Totals` | the sum of a function, as the cardinality of its units | |
| `PaperBooks` | sums over the executions; refinement mappings to the two abstract modules | `PaperTrading`, `Totals`, `TradeJournal`, `PaperLedger` |
| `PortfolioHoldings` | portfolios, holdings, free trades, connections | `HoldingsAccount` by refinement |
| `HoldingsAccount` | abstract: the account a user pictures | |
| `PriceAlerts` | alerts and their evaluation | |
| `MarketFeed` | beat, queue, workers, the keys of Redis | |
| `QuotePool` | connections and threads of one replica | |
| `StreamSockets` | the sockets of one replica | |
| `PaperTradingMC`, `HoldingsMC`, `AlertsMC`, `FeedMC`, `QuotePoolMC` | payloads and instances for TLC | |
| `TotalsProofs` | lemmas about sums, for `PaperBooksProofs` and `QuotePoolProofs` | TLAPS |
| `PaperTradingProofs`, `PaperBooksProofs` | theorems about paper trading and its arithmetic, and about its books | TLAPS |
| `PortfolioHoldingsProofs`, `PriceAlertsProofs`, `MarketFeedProofs`, `QuotePoolProofs`, `StreamSocketsProofs` | theorems about the module of the name | TLAPS |

In the handler modules a *request* is a process: `pc[r]` is the await at which
its handler stands, the other variables indexed by `r` are its locals, and the
tables are sets or functions of committed rows. `Send` starts a request with
any payload of the instance; a retry is another request with the same payload.
`DatabaseError` lets any statement fail, `Crash` kills the replica at any await;
both leave the committed rows alone, because `get_db` closes the session and
PostgreSQL rolls back a lost one.

### PaperTrading

| step | code |
|---|---|
| `CheckIdempotency`, `Replay` | `execution_service.py:39-69`, also the check of the action |
| `FetchQuote` | `:71-78`; `Quotes` are the answers of the provider, 0 is `None` or a price not above 0 |
| `LoadPortfolio` | `:81-92`, `portfolio_repository.py:49-63`: 404, 403; the positions are loaded with the portfolio |
| `SelectPosition` | the second SELECT of `merge_paper_position`/`add_or_update_paper_position`, and the check of a SELL |
| `FlushPosition` | `InsertPosition`, `UpdatePosition`, `DeletePosition`: the write the ORM derives from the object |
| `RecordExecution` | `:104-130`: insert with both unique indexes; waits for a session that has inserted the same key |
| `Commit`, `LoseConfirmation` | `:132-133`; takes effect, and is confirmed or not |
| `Reply` | `:135-143` from the locals; an edit refreshes its object first |

Facts about the database and the ORM that the model depends on:

- READ COMMITTED: a SELECT sees what is committed when it runs.
- The identity map: `get_portfolio_by_id` loads the positions, and the second
  SELECT of the same row returns the *old* object (`Object`), so the merge can
  use columns older than its own SELECT.
- Only columns that differ from the object are written (`Updated`). A new
  average is a float compared with a `Decimal`; when both are the same number
  the outcome depends on its binary form, so `PriceIsDirty` leaves it open.
- An UPDATE waits for the row lock (`Busy`), and if the row with its primary
  key is gone it fails with `StaleDataError`: 500. A DELETE that finds no row
  is only a warning.
- Any `IntegrityError` of a trade becomes 409, of an edit 500.

Rows carry the request that inserted them as their id, which is how the model
tells a row from a new one of the same symbol.

### PortfolioHoldings, PriceAlerts, MarketFeed

`PortfolioHoldings` follows `portfolio_service.py` in the same way: `FindPortfolio`,
`ListHoldings` (a SELECT of its own), `CountTrades`, `FetchQuote`, `InsertHolding`
(with `uq_portfolio_symbol`), `Refresh`, `ChargeTrade` (the second commit),
`DeleteHolding`, `InsertPortfolio`. `InTransaction` says when a session holds a
connection; a session returns it at each commit and needs another one afterwards.

`PriceAlerts` has `CountAlerts`, `InsertAlert`, `Refresh`, `GetAlert`,
`DeleteAlert`, `Evaluate` and `MarkTriggered` (one UPDATE by primary key for
one alert, which fails when the row is gone, or an executemany, which passes over
it).

`MarketFeed` represents a quote by the moment at which the provider gave it,
which is all its properties need: `Trend` says how a symbol then stood to its
previous close. `Beat` sends, `Receive`, `FetchQuote`, `SaveNext` (one round of
the loop), `Publish` and `Acknowledge` are a run; `TimeOut` ends one at its time
limit and `Lose` kills its worker, after which `task_acks_late` and
`task_reject_on_worker_lost` return the message to the queue. `alone` and `apart` are history
variables: `alone[w]` says that no other run has been under way during the present one of
`w`, and `apart` that no two runs ever were.

### QuotePool

Every quote is fetched with `asyncio.to_thread`, in the default executor of the
replica. A request that uses the database has a connection from its first
statement to its commit or its end, so it holds one while it fetches. The module
keeps only these two resources, and four kinds of request: `get` (a portfolio
with its holdings' quotes, under `wait_for` of 2.5 s), `trade` and `add` (one quote, no
limit), `look` (a dashboard endpoint: a thread, no connection).

| step | code |
|---|---|
| `Send`, `Connect`, `Connect2` | the first statement of a session takes a connection, or waits; an addition needs one again after its commit |
| `Fetch`, `TakeFetch`, `EndFetch` | `to_thread`: a work item in the queue, a free thread, the provider's answer or error |
| `Resume` | the quotes are there; the request commits and ends |
| `GiveUp` | `portfolio_service.py:97-108`: `wait_for` cancels what waits for a thread, what runs goes on without a reader |
| `RefuseConnection` | the pool's time-out: 500 |
| `Tick` | time passes, while nothing else is to be done |

A tick stands for 2.5 s. Statements and the event loop take no time in it, which
is an abstraction: its properties speak of the waits that the provider causes. The history
`delayed` marks a request that waited for a connection while a request without a time limit held one.

### StreamSockets

`Accept`, `Read`, `SendAnalysis` and `Wake` are the rounds of the handler of
`/dashboard/ws/market`; each may fail, and `End` is then the `disconnect` of its
`except` (not when `accept` itself fails, which is outside of the `try`). `Begin`, `Tell`
and `Return` are a broadcast, which goes through a copy of the list. `Arrive` and
`Leave` are the client, of which the server learns at the next send. Sockets and
broadcasts are numbered in the order of their beginnings, since their names mean nothing. An analysis is its
number in the order of publication.

Definitions marked `Bug` are faulty variants of the definition that follows
them. They are used to see that a property notices when the code is wrong in
that way.

## 3. What TLC checks

| run | configuration | question and outcome |
|---|---|---|
| `trading_races` | 3 requests, 4 orders with colliding ids, an edit | idempotency, true receipts, traceless refusals, averages within prices paid, no invented shares, moves only with a record, sold rows stay sold, waits end at a session that can go on; the books go out by stale trades and edits only; every commit that finds the position as it was loaded is a step of the indivisible `PaperLedger`: hold |
| `trading_refusals` | 2 requests, every kind of refusal, `FairSpec` | the executions and answers implement `TradeJournal`, in which a refusal leaves no trace; every started request ends: no deadlock of row locks and unique keys |
| `holdings_races` | 3 requests at alice's limits, 2 connections, `FairSpec` | stocks distinct, overrun of the limit of holdings below the number of connections, overrun of the free additions below the room of one portfolio and the connections, every addition answered 201 counted and none that was refused, nobody waits for a connection for ever: hold |
| `holdings_serial` | one request per user at a time | the tables implement `HoldingsAccount`; a user then has one portfolio with at most five holdings, and the counter and the additions that succeed stay within the six free ones (`LimitsAreKept`); an addition whose request fails between its two commits is not counted and not limited (`Forgive`) |
| `alert_races` | 3 requests: creations, deletions, two prices | bounded overrun, triggered alerts were reached, returned alerts are triggered, not returned again by an evaluation that selects later, and returned by no more overlapping evaluations than there are connections; deleted alerts stay deleted |
| `feed_overlaps` | 2 workers, 2 messages, a market move, a lost worker, `FairSpec` | the analysis shows quotes of one run, fetched after its message was sent; what is listed is stored; every queued message leads to a run that ends (with a publication, a failure or a time-out), also when workers are lost; only a run that overlaps another one brings back an older quote, and none older than its message |
| `quote_pool` | 3 requests of four kinds, 2 connections, 2 threads, `FairSpec` | readers are answered within the two time-outs whatever the provider does; threads begin no fetch that was given up; a connection is refused only behind a fetch without a limit (two connections are more than two readers can fill); when nothing can go on, the provider has yet to answer; every request ends if every fetch that has begun does |
| `stream_sockets` | 2 sockets, 2 broadcasts, 2 analyses, `FairSpec` | the list holds what is served; a broadcast reaches everyone it began with who is still there; sockets of gone clients are dropped; a client that stays is shown the latest analysis |

Four further runs show a disagreement between the code and what it says of
itself (`findings` in `PROJECT.json` quotes the lines):

| run | what happens |
|---|---|
| `lost_update` | two overlapping purchases are recorded, the position holds one of them ("Updates positions atomically."); two overlapping sales of the whole position are both recorded in the same way |
| `false_conflict` | of two first purchases of a symbol one is answered "already executed", which it was not |
| `replay_price` | a replayed answer shows the rounded price, the first one the unrounded |
| `second_portfolio` | overlapping creations give a user two portfolios, and every later request of hers fails |

The runs that hold and those that do not belong together. `LedgerUnlessStale`
says of *every* behaviour that a commit either moves the tables as one
indivisible trade or edit, or is a `StaleCommit`, one whose session loaded the
position before another commit changed it: lost updates are the only harm that
races do. `OnlyStaleTradesUnbalance` says the same of the equation that `lost_update` refutes:
the difference between a position and its executions (`Imbalance`) changes in no
other step than a stale trade or an edit. `SerialSpec` of `PortfolioHoldings` says under which discipline of the
callers the account of the abstract specification is what one gets, and `alone[w]`
says of a run of the feed when it brings nothing older back. What
holds without any of these is stated for `Spec`: a limit that is checked and then used
is overrun, but by less than the number of connections, since a request that
has passed the check keeps one until its insert; the free additions, whose check and
count are two commits apart, by what a portfolio has room for in addition; an
alert is returned by overlapping evaluations, but once for each connection at
most; and a run of the feed that overlaps writes quotes that are older than what was
there, but none older than its message.

### Observations

Seen while modelling, and not runs of their own:

- Overlapping additions exceed the five holdings and the six free trades, and
  overlapping creations the ten alerts; the bounds above are what is left of the
  limits. Even alone, a user whose additions fail between their two commits is not
  charged for them, and has more than six. A second addition of a stock is answered 409 by the check and 500 by
  the unique index.
- Of two overlapping runs of the feed the one with the older quotes may publish
  last, and their writes to the keys interleave. While runs take longer than the ten seconds of the schedule, the queue
  grows. While the provider gives no quotes, each run replaces the analysis by
  empty lists with a fresh `last_updated`.
- Nothing calls `evaluate_price_change`, although `src/k8s/celery-deployment.yaml:3`
  says "Workers consume price alert evaluations and background market updates.": in
  a deployment no alert ever triggers. If one did, no email would be sent for it, because the
  model `PriceAlert` has no `user_email`.
- Nothing calls `broadcast` either, and one that is called would reach the sockets of its
  own replica only.
- `/dashboard/quote/{symbol}` declares `StockQuote` as its response and returns
  `None` when there is no quote, which is answered 500.
- Trades and additions fetch without a limit: as many of them as there are
  connections, behind a provider that hangs, keep every other request of the
  replica out of the database for the 30 s of the pool, and then refuse it.

### Bounds

- *Requests*: three in the race runs. Every hazard found here needs two
  requests; the third gives a retry, an edit or a deletion between them, and
  is needed for counting (one addition more than there are connections). Two in
  `trading_refusals`, whose many payloads matter and not their number.
- *Payloads*: chosen to collide: the same execution id under two proposals, a
  sale of everything against a partial sale, 'buy' and 'aapl' to tell the stored
  from the given string, quantities that reach `MaxInt` (5 in place of
  2147483647) in one purchase.
- *Prices*: `SubTicks = 4`, quotes of 1.5 and 3.75 ticks, so that rounding goes
  both ways; 1 sub-tick rounds to a price of zero.
- *Limits*: five holdings and six free trades as in the code, in `holdings_serial`
  and `second_portfolio`; in `holdings_races` one holding, so that three requests can
  come to the bound of the free additions (`FreeOverrunIsBounded` allows
  `MaxHoldings + Connections - 2` more than the free ones); alerts 3 in place
  of 10, with two present, which shows the same boundary in a smaller table.
- *Connections*: 2 or 3 in place of 60. The properties only relate their number
  to that of the requests.
- *Feed*: `MaxMoment` 1, two different quotes of a symbol (older and newer
  than a message is all that the properties tell apart); two messages and two
  workers, the smallest overlap; `MaxLosses` 1, so that a repeated run meets an
  unrelated one.
- *Pools*: 2 connections, 2 threads, `QuoteTimeout` 1 and `PoolTimeout` 2 in
  place of 30 connections, `min(32, cpus + 4)` threads, 2.5 s and 30 s. A reader has two quotes, so that one
  reader fills the threads and a second one queues behind it; three requests are
  one more than there are connections. Readers alone can use a pool up one after the
  other, but it takes `Connections * PoolTimeout \div QuoteTimeout` of them, 360 with
  the code's numbers, and four with those of `quote_pool`. That run has no such crowd:
  there, and only there, `RefusalsHaveHolders` rests on its theorem alone.
- *Sockets*: two sockets are enough for a broadcast to pass one that failed and
  for a list to shift below it; two broadcasts and a handler drop the same one.

Symmetry over requests or workers is used where no payload names one and no
liveness is checked. Deadlock is checked everywhere (`Finished` is the only
way to stop).

### Fairness

`FairSpec` of the first modules is weak fairness of `Step(r)`, for each request,
and of `Work(w)`, for each worker. It says that an event loop, PostgreSQL, Redis and a worker
process that can do something eventually do it; that the provider answers
(`get_stock_quote` returns `None` on any exception, a request of the library has
a timeout); and that a released connection or lock goes to someone who waits
for it. It does not say that requests are sent, that the market moves or that
errors, crashes and time-outs happen or do not happen. The pool hands out
connections in the order of the waiting, and a wait that takes more than 30 s
ends in `DatabaseError`.

`FairSpec` of `QuotePool` has weak fairness of the handlers, of the threads and
of the clock, and none of the provider: that every fetch which has begun ends
is the premise of `EveryRequestEnds`, and `ReadersAnswerInTime` does without it.
That of `StreamSockets` is weak fairness of the handlers of the sockets (an event loop,
sleeps of ten seconds); clients need not leave, nor broadcasts or analyses come.

## 4. What is proved

All proofs hold for every set of requests, payloads and quotes, for every
`MaxInt`, every positive `SubTicks`, every limit and number of connections and
threads, every watchlist and number of workers, losses and messages, from the
assumptions named in the modules only: `NumbersAssumption`, `RowsAssumption`,
`PayloadAssumption` (what the pydantic schemas let through), `SharesAssumption`
(the mark for no row is not a position) and `SubTicksAssumption` for trading;
`LimitsAssumption`, `JobsAssumption`, `OpeningAssumption` (the tables start within
the limits, the primary keys and the indexes) and, for the holdings,
`RowsAssumption`; `FeedAssumption` for the feed; `JobsAssumption` and
`LimitsAssumption` for the pools; `NumbersAssumption` for the sockets. TLC evaluates
them in every run of their module.

| theorem | module | statement |
|---|---|---|
| `MergedPriceIsBetween` | `PaperTradingProofs` | a merged, rounded average lies between the stored average and the stored price of the purchase |
| `TypesAreKept` | `PaperTradingProofs` | `Spec => []TypeOK` |
| `Idempotency` | `PaperBooksProofs` | `Spec => []OneExecutionPerProposal` |
| `ReceiptsAreTrue` | `PaperBooksProofs` | `Spec => []ReceiptIsRecorded` |
| `RefusalsAreFinal` | `PaperBooksProofs` | `Spec => []RefusedTradeLeavesNoTrace` |
| `ImplementsJournal` | `PaperBooksProofs` | `Spec => JournalSpec`, the refinement of `TradeJournal` |
| `AveragesAreTrue` | `PaperTradingProofs` | `Spec => []AverageIsWithinPricesPaid` |
| `MovesAreRecorded` | `PaperBooksProofs` | `Spec => PositionMovesWithExecution` |
| `SoldRowsAreGone` | `PaperBooksProofs` | `Spec => SoldRowsStaySold` |
| `ImplementsLedger` | `PaperBooksProofs` | `Spec => LedgerUnlessStale`, the refinement of `PaperLedger` up to stale commits |
| `SharesAreReal` | `PaperBooksProofs` | `Spec => []NoInventedShares` |
| `OnlyRacesUnbalance` | `PaperBooksProofs` | `Spec => OnlyStaleTradesUnbalance` |
| `NoDeadlock` | `PaperBooksProofs` | `Spec => []LockChainsEnd` |
| `HoldingTypes` | `PortfolioHoldingsProofs` | `Spec => []TypeOK` |
| `StocksAreDistinct` | `PortfolioHoldingsProofs` | `Spec => []HoldingsAreDistinct` |
| `OverrunIsLess` | `PortfolioHoldingsProofs` | `Spec => []OverrunIsBounded` |
| `FreeOverrunIsLess` | `PortfolioHoldingsProofs` | `Spec => []FreeOverrunIsBounded` |
| `AdditionsAreCounted` | `PortfolioHoldingsProofs` | `Spec => []TradesAreCounted` |
| `ImplementsAccount` | `PortfolioHoldingsProofs` | `SerialSpec => AccountSpec`, the refinement of `HoldingsAccount` |
| `SerialUsersKeepLimits` | `PortfolioHoldingsProofs` | `SerialSpec => []LimitsAreKept` |
| `AlertTypes` | `PriceAlertsProofs` | `Spec => []TypeOK` |
| `TriggersAreReached` | `PriceAlertsProofs` | `Spec => []TriggeredAlertsWereReached` |
| `ReturnsAreTriggered` | `PriceAlertsProofs` | `Spec => []ReturnedAlertsAreTriggered` |
| `EachFiresOnce` | `PriceAlertsProofs` | `Spec => AlertsFireOnce` |
| `AnnouncementsAreFew` | `PriceAlertsProofs` | `Spec => []AnnouncementsAreBounded` |
| `DeletionsLast` | `PriceAlertsProofs` | `Spec => DeletedAlertsStayDeleted` |
| `OverrunIsBounded` | `PriceAlertsProofs` | `Spec => []ActiveAlertsAreBounded` |
| `FeedTypes` | `MarketFeedProofs` | `Spec => []TypeOK` |
| `OneRunIsPublished` | `MarketFeedProofs` | `Spec => []AnalysisIsOfOneRun` |
| `WhatIsListedIsStored` | `MarketFeedProofs` | `Spec => []ListedSymbolsAreStored` |
| `AnalysisGoesForward` | `MarketFeedProofs` | `Spec => AnalysisGoesBackInOverlaps` |
| `DataGoesForward` | `MarketFeedProofs` | `Spec => DataGoesBackInOverlaps` |
| `PoolTypes` | `QuotePoolProofs` | `Spec => []TypeOK` |
| `ReadersAreInTime` | `QuotePoolProofs` | `Spec => []ReadersAnswerInTime` |
| `NoAbandonedStart` | `QuotePoolProofs` | `Spec => AbandonedFetchesNeverStart` |
| `RefusalsAreExplained` | `QuotePoolProofs` | `Spec => []RefusalsHaveHolders` |
| `PoolsDoNotDeadlock` | `QuotePoolProofs` | `Spec => []OnlyTheProviderHoldsUp` |
| `SocketTypes` | `StreamSocketsProofs` | `Spec => []TypeOK` |
| `TheListIsTrue` | `StreamSocketsProofs` | `Spec => []ListIsServed` |
| `BroadcastsReachAll` | `StreamSocketsProofs` | `Spec => []BroadcastReachesAll` |

For paper trading the argument is built in layers, each an inductive invariant
on top of the ones before:

1. `TypeInv` is `TypeOK` with `Paths`, what the control points imply: past the
   check of the portfolio a request is about a key of the table, past the quote a
   trade has a positive one, and before its commit a stored price that is
   positive. `TypeOK` alone is not inductive: the price a trade records has the
   type of a price only because the CHECK was passed one step earlier.
2. `Recordings`: an execution belongs to the request that recorded it, which has
   reached its commit and was answered 201, 500 or nothing; two sessions never
   both stand before their commit with the same proposal or execution id, and
   neither clashes with the table. The last part is why the wait in
   `RecordExecution` matters: without it two sessions would both see no clash.
   Idempotency, receipts, refusals and the refinement follow from it. A commit of
   a trade maps to `Enter`, an answer with a receipt to `Acknowledge`, every
   other step to a stutter.
3. `Averages`: not only stored averages but also those in `seen` and `pending`
   lie within the prices paid so far (for a pending purchase, its own price
   included). It holds although merges overwrite each other, because a
   stale average is still one of a time when fewer prices had been paid, and
   prices paid are never forgotten; `MergedPriceIsBetween` closes the step.
4. `Locks`: at most one session has a write pending for a key, and the
   row that write replaces is still the stored one. With it, a commit can only
   replace the row it has locked, so that a sold row stays sold.
5. `Ids` and `Orderly`, for the refinement of `PaperLedger`: what a session has
   written is what the ledger computes from the session's object, whenever
   that object is the row still stored. The row is locked from the write
   to the commit, so an object that is fresh at the commit was fresh at the
   write; and a trade that wrote nothing (a DELETE that found no row) is stale for
   ever, because the id of a deleted row is not given again. A fresh commit of
   a trade maps to `Trade`, one of an edit to `Replace`; whether the ORM writes the price
   column or leaves it out makes no difference (`PriceIsWritten`).
6. `Supplies`, for `NoInventedShares`, which is not inductive: a lost update writes
   back an old quantity. Such a quantity is still covered, because what is on the
   books (`OnTheBooks`: opening shares, recorded purchases, edits) only grows; so
   every object a session has loaded is covered, and every row it has written
   is up to the shares its own commit adds (`Adding`). `OnlyRacesUnbalance` then
   compares, for a commit that is not stale, what the row and the sums move by.
   That a commit adds one execution to one sum and leaves all others alone rests on
   `Recordings`: the execution is not in the table yet.
7. `NoDeadlock` follows from `Locks`: whoever holds a row stands at the insert of the
   execution or at the commit, and the insert waits for sessions at their
   commit only, so a chain of waits has at most two links.

A sum over a set is usually defined by recursion and reasoned about by induction,
which the provers cannot do here. `Totals` defines it as the number of the units
it counts, so that `FiniteSetTheorems` give what is needed without induction: sums grow
with their functions (`TotalGrows`), one argument more adds its value
(`TotalAdds`), a bound on the values bounds the sum (`TotalIsBounded`), and values
that rise raise it (`TotalRises`).

For the holdings, besides `TypeInv` (types and control points again):

1. `StocksAreDistinct` is inductive by itself, since only `InsertHolding` adds a row
   and the unique index is part of that step.
2. `OverrunIsBounded` is not: it says nothing of the requests that have passed
   the check and have not inserted yet. `Pool` bounds the open transactions by the
   connections, and `Room` says that the holdings of a portfolio *and* the approved
   additions to it together stay below `MaxHoldings + Connections`. A request
   that passes the check finds fewer than `MaxHoldings` holdings, and all approved
   ones, itself included, hold connections; an insert moves one from the
   approved to the holdings. This is where it matters that the session keeps its
   connection during the quote fetch.
3. `Count` puts the counter of a user between the additions that were `Surely`
   counted (about to be answered 201, or answered so) and those that `Maybe` were
   (those, and the ones answered 500 or not at all). `ChargeTrade` adds one to the
   count and the same request to both sets; no other step adds to the first or
   takes from the second.
4. `Keyed` and `Owned`, for the refinement of `HoldingsAccount` under `SerialSpec`: a
   portfolio belongs to one user, and what a request has checked (the portfolio it
   found, the room in it, a free addition left) still holds when it writes, since
   the requests between are about portfolios of other users. An insert then maps
   to `Open` or `Add`, the second commit to `Charge`, a failure between the two to
   `Forgive`, a DELETE that finds its row to `Remove`, every other step to a stutter.
5. `WithinLimits`, for `LimitsAreKept` under `SerialSpec`: besides the limits, an addition
   that is inserted and not yet counted was free when it was checked, and no other one of
   its user has been counted since. `SucceedingAreFree` then adds the one request that is
   between its insert and its count to those `Count` has counted. With
   `second_portfolio`, `OverrunIsBounded` and `FreeOverrunIsBounded` this
   draws the line: each check is right, and what gets past it is two requests of one user at
   a time, or a failure between two commits.
6. `FreeRoom`, for `FreeOverrunIsBounded`: the count of a user together with the additions
   `Pledged` to be counted, those that have read the counter and not incremented it yet.
   When one more reads the counter and finds an addition free, the bound follows from
   `FewPledged` alone: each pledged addition has its row in the portfolio or holds a
   connection (`Occupied`), and `Occupancy` bounds these two together, as `Room` did for
   `OverrunIsBounded`. A removal can take the row of an addition that is still to be refreshed,
   which then fails and is no longer pledged. `Claims` says that the portfolio an addition
   found is the only one of its user: a user with two gets an error.

For the alerts:

1. What a call selects and what it then marks are apart by an await, with creations
   and deletions in between. `Stored` carries what was true at the selection to the
   update: an id is inserted once, and only by a request that has then passed its insert
   (`Born`), so an id in `batch` can only mean the alert that was selected or
   none; no step changes a row otherwise than by triggering it, so the
   selected alerts still are reached by the price; and a call that is about to
   answer has marked all of its batch that is left.
2. `Pool` and `Room` are those of the holdings, with active alerts in place of
   holdings.
3. `FewHolders`, for `AnnouncementsAreBounded`: the calls that hold an alert, from their
   selection on, are at most as many as there are connections. A call that selects an
   alert finds it active, so no other call has committed it yet, and all that
   hold it hold a connection, too.

For the feed, `Inv` has three parts besides the types:

1. `Runs`: a run that has a task holds one quote for each symbol, none older than
   its task, and lists these quotes only. A run that is lost or timed out leaves
   nothing behind, which is why a repeated one starts over. `AnalysisIsOfOneRun` follows at `Publish`.
2. `Times`: nothing comes from the future, so a fetched quote is at least as young as
   all that is stored and published at that time.
3. `Serial`: a run that is alone is `Leading`, its quotes are no older than the stored
   and the published ones, because nobody else has written since it fetched them;
   what is listed is stored; and until runs have overlapped every run is alone, so that
   no listed quote is replaced by an older one. `StepOfKeys` and `StepOfAnalysis` give the
   two action properties: a step of a run that is alone by `Leading`, one of any other run by
   `Runs`, which bounds the age of its quotes by its message.

For the pools, `Clocks` splits the time of a reader into its two waits, of which each
is bounded by its own time-out because a tick is only possible while none is due
(`Tick` and `CanHandle`); and `Items` says that a work item waits for a thread only
while its request waits for it, which `wait_for` has to establish when it gives up.

`RefusalsHaveHolders` is an account of connection time. `Holds(r)` gives each
reader of `Crowd(r)` the ticks for which it can have held a connection: its age while it
fetches, `QuoteTimeout` afterwards. `Share(r)` says that a request which waits, and before
which no unlimited fetch stood, has waited for at most the sum of these times divided by the
number of connections: time only passes while no connection is free, so each
tick adds one to the times of at least `Connections` readers (`TickShares`), and all
other steps only raise them (`QuietKeeps`). At the refusal the wait is
`PoolTimeout`, and the sum is at most `QuoteTimeout` for each of the crowd.

`OnlyTheProviderHoldsUp` needs `Tended`: a work item that waits for a thread is in the queue, and
no item of a request that still waits for it has been cancelled. A request that waits
for a connection then leads to one that holds it and fetches, from there to a work item
that runs, or to one in the queue behind threads that all run something.

For the sockets, types and `ListIsServed` are proved together: a socket is put into the
list before it is served and only once, because what is in the list is
served; and with each socket in it once, `list.remove`, which takes the first occurrence,
takes the socket away (`RemoveOnly`). `Progress` says of a broadcast that it has sent to those
before its place in the copy, or they are gone; it needs that a client who is gone does
not come back, and nothing of the list.

**Only model-checked**:

- liveness (`EveryRequestEnds` of three modules, `EveryUpdateEnds`,
  `GoneSocketsAreDropped`, `LatestIsShown`): fairness and ENABLED are out of the
  prover's reach. Its safety half is proved where requests wait for each other
  (`LockChainsEnd`, `OnlyTheProviderHoldsUp`): something can always go on;
- the four findings, which are counterexamples and not invariants.

Every invariant and every action property of a passing run, and each of the three
refinements, is the statement of a theorem. The other way round, the type invariants of all
modules but `PaperTrading` are proved and in no run's list, which the
theorem makes superfluous.

## 5. Not modelled

- The float error of one multiplication and division in the average: prices are
  exact rationals on two grids, and only the rounding to `NUMERIC(18, 4)` is
  modelled.
- A quote that is NaN: it passes the test `<= 0`. It is listed as a hazard.
- Reads that change nothing (`get_positions`, listing alerts, charts, indicators,
  search), formatting of answers and emails, token checks, logging: they have no
  state whose interleaving could matter.
- The Yahoo poller, the random prices and the rate limiter: nothing starts or uses
  them, so no run of the program has a step of theirs.
- The email service: one HTTP call, which no alert reaches.
- `SERIALIZABLE` or other isolation levels, migrations, replication: the code
  sets none.
- The connection pool in `PaperTrading`: its sessions hold a connection in the
  same pattern as those of `PortfolioHoldings` and `QuotePool`, where it is modelled.
- `MarketFeed` composed with `PriceAlerts`: no code joins the two, so the
  composition would have no step of its own.
- Sockets of several replicas: each has its own list, and nothing connects them.

## 6. Plan

Done, in this order: paper trading with its abstract specifications and proofs;
holdings; alerts; feed; pools; sockets; the proofs about alerts, feed, pools
and sockets; the proofs of the refinements of `PaperLedger` and `HoldingsAccount`; the sums
over executions, the accounting of connection time, the absence of deadlock and the
limits of serial users; the bounds on free additions and on announcements that overlap, and
the ages of what overlapping runs of the feed write.
What is left is work for when the code changes: when it calls
`evaluate_price_change` or `broadcast`, the composition with `MarketFeed`, and as
liveness what `src/k8s/celery-deployment.yaml:3` promises.
