---------------------------- MODULE PaperTrading ----------------------------
(***************************************************************************)
(* The writers of the paper positions: POST /internal/paper-executions     *)
(* (ExecutionService.execute_paper_trade) and POST                         *)
(* /portfolio/{id}/positions (PortfolioService.add_or_update_position).    *)
(*                                                                         *)
(* Each request runs in a session of its own on one of the API replicas,   *)
(* and every await of its handler is a step of the model, so that requests *)
(* interleave between any two of their SQL statements.  `positions` and    *)
(* `executions` hold what is committed; a request that has flushed a write *)
(* keeps it, with the lock of the row, in `pending` until it commits or is *)
(* rolled back (PostgreSQL, READ COMMITTED).  `seen` is the row held by    *)
(* the identity map of the session: a second SELECT of the same row does   *)
(* not refresh it.  A retry is another request with the same payload.      *)
(*                                                                         *)
(* A definition marked `Bug` is a faulty variant of the one below it: the  *)
(* project checks that a property notices when it is put in its place.     *)
(***************************************************************************)
EXTENDS PositionMath

CONSTANTS
    Requests,   \* the requests that arrive, over all replicas
    Orders,     \* trade payloads: BUY and SELL proposals of the AI service
    Edits,      \* payloads that set a position to a quantity and a price
    Symbols,    \* the strings used as symbols
    Canonical,  \* Canonical[s] is s.strip().upper(), of symbols and actions
    Owner,      \* Owner[p] is the user of portfolio p; its domain exists
    Quotes,     \* the answers of the provider, in sub-ticks; 0 is no answer
    MaxInt,     \* the largest value of an INTEGER column
    Opening,    \* the positions stored at the start, NoRow where there is none
    Opened,     \* the row id of the opening positions
    NoRow,      \* no row
    NoWrite     \* no write is pending

Keys == (DOMAIN Owner) \X Symbols
Jobs == Orders \cup Edits
Price == Nat \ {0}
Rows == [id : Requests \cup {Opened}, quantity : 1 .. MaxInt, price : Price]
OptionalRows == Rows \cup {NoRow}

\* The stored action is the upper-case one, the symbol is stored as it came.
Recorded(order) ==
    [proposal |-> order.proposal, execution |-> order.execution,
     portfolio |-> order.portfolio, user |-> order.user, symbol |-> order.symbol,
     action |-> Canonical[order.action], quantity |-> order.quantity]

RecordedOrders == {Recorded(o) : o \in Orders}
Executions == [by : Requests, order : RecordedOrders, price : Price]
Receipts == [order : RecordedOrders, price : Price]

ASSUME NumbersAssumption == MaxInt \in Nat /\ Quotes \subseteq Nat

ASSUME RowsAssumption ==
    /\ Opened \notin Requests
    /\ NoRow \notin Rows \cup Receipts
    /\ NoWrite \notin OptionalRows
    /\ Opening \in [Keys -> OptionalRows]
    /\ \A k \in Keys : Opening[k] # NoRow => Opening[k].id = Opened

\* What the schemas of the two endpoints let through (gt=0, max_length).
ASSUME PayloadAssumption ==
    /\ \A j \in Orders : /\ j.kind = "trade"
                         /\ j.quantity \in Price
                         /\ j.symbol \in Symbols
                         /\ j.action \in DOMAIN Canonical
    /\ \A j \in Edits : /\ j.kind = "edit"
                        /\ j.quantity \in Price
                        /\ j.price \in Price
                        /\ j.symbol \in DOMAIN Canonical
                        /\ Canonical[j.symbol] \in Symbols

VARIABLES
    pc,          \* pc[r]: the next await of the handler of r
    job,         \* job[r]: the payload of r
    quote,       \* quote[r]: execution_price, in sub-ticks
    seen,        \* seen[r]: the position object of the session of r
    pending,     \* pending[r]: the row r has flushed and not yet committed
    status,      \* status[r]: the HTTP status r was answered, 0 when none
    receipt,     \* receipt[r]: the body of a 201 answer, price in sub-ticks
    positions,   \* market.paper_positions, by portfolio and symbol
    executions   \* market.paper_trade_executions

vars == <<pc, job, quote, seen, pending, status, receipt, positions, executions>>

PCs == {"idle", "check", "quote", "load", "select", "flush", "record",
        "commit", "reply", "done"}
Statuses == {0, 201, 403, 404, 409, 422, 500}

-----------------------------------------------------------------------------
(* The payload and the table cells a request is about.                     *)

IsTrade(r) == job[r].kind = "trade"

\* A trade uses the symbol as it came, an edit strips and upper-cases it.
KeyOf(r) == <<job[r].portfolio,
              IF IsTrade(r) THEN job[r].symbol ELSE Canonical[job[r].symbol]>>

Side(r) == Canonical[job[r].action]

\* The price the handler merges or sets, in sub-ticks.
EntryPrice(r) == IF IsTrade(r) THEN quote[r] ELSE job[r].price

\* The row of a key that another session has written and not yet committed.
Busy(r) == \E o \in Requests \ {r} : pending[o] # NoWrite /\ KeyOf(o) = KeyOf(r)

\* The row of the object r holds is in the table: UPDATE, DELETE and refresh go
\* by primary key, whatever else is now stored for the symbol.
IsStored(r) ==
    /\ positions[KeyOf(r)] # NoRow
    /\ positions[KeyOf(r)].id = IF seen[r] = NoRow THEN r ELSE seen[r].id

\* The row of the executions table that r inserts.
Execution(r) == [by |-> r, order |-> Recorded(job[r]),
                 price |-> Ticks(quote[r])]

SameTrade(a, b) == a.proposal = b.proposal \/ a.execution = b.execution

-----------------------------------------------------------------------------
(* Ends of a handler.                                                      *)

\* The session is closed: what it had not committed is rolled back.
Close(r, code) ==
    /\ pc' = [pc EXCEPT ![r] = "done"]
    /\ status' = [status EXCEPT ![r] = code]
    /\ pending' = [pending EXCEPT ![r] = NoWrite]

\* Bug: the handler commits instead of rolling back.
RefuseWithoutRollback(r, code) ==
    /\ Close(r, code)
    /\ positions' = IF pending[r] = NoWrite THEN positions
                    ELSE [positions EXCEPT ![KeyOf(r)] = pending[r]]
    /\ UNCHANGED <<job, quote, seen, receipt, executions>>

\* An error answer leaves everything that is committed alone.
Refuse(r, code) ==
    /\ Close(r, code)
    /\ UNCHANGED <<job, quote, seen, receipt, positions, executions>>

Goto(r, label) ==
    /\ pc' = [pc EXCEPT ![r] = label]
    /\ UNCHANGED <<job, status, receipt, positions, executions>>

\* IntegrityError: the trade handler answers 409, the edit handler 500.
Violation(r) == IF IsTrade(r) THEN 409 ELSE 500

-----------------------------------------------------------------------------
(* The steps of a handler.                                                 *)

Send(r) ==
    /\ pc[r] = "idle"
    /\ Goto(r, IF IsTrade(r) THEN "check" ELSE "load")
    /\ UNCHANGED <<quote, seen, pending>>

\* Bug: the execution id is taken for the idempotency key.
ReplayByExecution(r) ==
    \E e \in executions :
        /\ e.order.execution = job[r].execution
        /\ Close(r, 201)
        /\ receipt' = [receipt EXCEPT ![r] =
                         [order |-> e.order, price |-> e.price * SubTicks]]
        /\ UNCHANGED <<job, quote, seen, positions, executions>>

\* The execution of the same proposal, if the table has one, is the answer.
Replay(r) ==
    \E e \in executions :
        /\ e.order.proposal = job[r].proposal
        /\ Close(r, 201)
        /\ receipt' = [receipt EXCEPT ![r] =
                         [order |-> e.order, price |-> e.price * SubTicks]]
        /\ UNCHANGED <<job, quote, seen, positions, executions>>

CheckIdempotency(r) ==
    /\ pc[r] = "check"
    /\ \/ Replay(r)
       \/ /\ \A e \in executions : e.order.proposal # job[r].proposal
          /\ \/ /\ Side(r) \notin {"BUY", "SELL"}
                /\ Refuse(r, 422)
             \/ /\ Side(r) \in {"BUY", "SELL"}
                /\ Goto(r, "quote")
                /\ UNCHANGED <<quote, seen, pending>>

FetchQuote(r) ==
    /\ pc[r] = "quote"
    /\ \E q \in Quotes :
        \/ q = 0 /\ Refuse(r, 422)
        \/ /\ q > 0
           /\ quote' = [quote EXCEPT ![r] = q]
           /\ Goto(r, "load")
           /\ UNCHANGED <<seen, pending>>

\* get_portfolio_by_id loads the positions of the portfolio with it.
LoadPortfolio(r) ==
    /\ pc[r] = "load"
    /\ \/ job[r].portfolio \notin DOMAIN Owner /\ Refuse(r, 404)
       \/ /\ job[r].portfolio \in DOMAIN Owner
          /\ \/ Owner[job[r].portfolio] # job[r].user /\ Refuse(r, 403)
             \/ /\ Owner[job[r].portfolio] = job[r].user
                /\ seen' = [seen EXCEPT ![r] = positions[KeyOf(r)]]
                /\ Goto(r, "select")
                /\ UNCHANGED <<quote, pending>>

\* The object the second SELECT returns: the one already loaded when the row
\* is still the same one, whatever its columns have become.
Object(r) ==
    LET row == positions[KeyOf(r)]
    IN  IF row # NoRow /\ seen[r] # NoRow /\ row.id = seen[r].id
        THEN seen[r] ELSE row

Oversells(r, object) ==
    /\ IsTrade(r) /\ Side(r) = "SELL"
    /\ ~(object # NoRow /\ job[r].quantity <= object.quantity)

SelectPosition(r) ==
    /\ pc[r] = "select"
    /\ \/ Oversells(r, Object(r)) /\ Refuse(r, 422)
       \/ /\ ~Oversells(r, Object(r))
          /\ seen' = [seen EXCEPT ![r] = Object(r)]
          /\ Goto(r, "flush")
          /\ UNCHANGED <<quote, pending>>

\* Bug: the columns have no range.
StoreUnchecked(r, row) ==
    /\ pending' = [pending EXCEPT ![r] = row]
    /\ Goto(r, IF IsTrade(r) THEN "record" ELSE "commit")
    /\ UNCHANGED <<quote, seen>>

\* A flushed row is checked against the types and CHECKs of its columns.
Store(r, row) ==
    \/ row.quantity > MaxInt /\ Refuse(r, 500)
    \/ row.quantity <= MaxInt /\ row.price = 0 /\ Refuse(r, Violation(r))
    \/ /\ row.quantity <= MaxInt /\ row.price > 0
       /\ pending' = [pending EXCEPT ![r] = row]
       /\ Goto(r, IF IsTrade(r) THEN "record" ELSE "commit")
       /\ UNCHANGED <<quote, seen>>

\* The first BUY of a symbol, or an edit of a symbol that is not held.
InsertPosition(r) ==
    /\ seen[r] = NoRow
    /\ ~Busy(r)
    /\ \/ positions[KeyOf(r)] # NoRow /\ Refuse(r, Violation(r))
       \/ /\ positions[KeyOf(r)] = NoRow
          /\ Store(r, [id |-> r, quantity |-> job[r].quantity,
                       price |-> Ticks(EntryPrice(r))])

NewQuantity(r) ==
    IF ~IsTrade(r) THEN job[r].quantity
    ELSE IF Side(r) = "BUY" THEN seen[r].quantity + job[r].quantity
    ELSE seen[r].quantity - job[r].quantity

\* Bug: the cost of the shares is divided by the bought ones alone.
NewPriceOverBought(r) ==
    IF IsTrade(r)
    THEN RoundDiv(seen[r].quantity * seen[r].price * SubTicks
                    + job[r].quantity * quote[r], job[r].quantity * SubTicks)
    ELSE Ticks(EntryPrice(r))

NewPrice(r) ==
    IF IsTrade(r)
    THEN MergedPrice(seen[r].quantity, seen[r].price, job[r].quantity, quote[r])
    ELSE Ticks(EntryPrice(r))

\* The ORM writes the columns that differ from the object.  A new average is a
\* float compared with a Decimal: when the two are the same number, whether
\* they compare equal depends on its binary representation.
PriceIsDirty(r) ==
    IF IsTrade(r) /\ Side(r) = "SELL" THEN {FALSE}
    ELSE IF EntryPrice(r) = seen[r].price * SubTicks THEN BOOLEAN
    ELSE {TRUE}

Updated(r, priceToo) ==
    [positions[KeyOf(r)] EXCEPT
        !.quantity = IF NewQuantity(r) # seen[r].quantity THEN NewQuantity(r) ELSE @,
        !.price = IF priceToo THEN NewPrice(r) ELSE @]

\* Bug: an upsert of the object instead of an UPDATE by primary key.
UpsertPosition(r) ==
    /\ seen[r] # NoRow
    /\ NewQuantity(r) > 0
    /\ ~Busy(r)
    /\ Store(r, [seen[r] EXCEPT !.quantity = NewQuantity(r)])

UpdatePosition(r) ==
    /\ seen[r] # NoRow
    /\ NewQuantity(r) > 0
    /\ \E priceToo \in PriceIsDirty(r) :
        \/ /\ NewQuantity(r) = seen[r].quantity /\ ~priceToo   \* no UPDATE at all
           /\ Goto(r, "commit")
           /\ UNCHANGED <<quote, seen, pending>>
        \/ /\ NewQuantity(r) # seen[r].quantity \/ priceToo
           /\ \/ ~IsStored(r) /\ Refuse(r, 500)                      \* StaleDataError
              \/ IsStored(r) /\ ~Busy(r) /\ Store(r, Updated(r, priceToo))

\* A SELL of all that is held.  A DELETE that finds no row is only a warning.
DeletePosition(r) ==
    /\ seen[r] # NoRow
    /\ NewQuantity(r) = 0
    /\ \/ ~IsStored(r) /\ UNCHANGED pending
       \/ IsStored(r) /\ ~Busy(r) /\ pending' = [pending EXCEPT ![r] = NoRow]
    /\ Goto(r, "record")
    /\ UNCHANGED <<quote, seen>>

FlushPosition(r) ==
    /\ pc[r] = "flush"
    /\ InsertPosition(r) \/ UpdatePosition(r) \/ DeletePosition(r)

\* Bug: the table has no unique index.
ClashesNever(r) == FALSE

\* The unique indexes on proposal_id and execution_id.
Clashes(r) == \E e \in executions : SameTrade(e.order, job[r])

\* The insert waits for a session that has inserted the same key.
RecordExecution(r) ==
    /\ pc[r] = "record"
    /\ \A o \in Requests :
        pc[o] = "commit" /\ IsTrade(o) => ~SameTrade(job[o], job[r])
    /\ \/ /\ Clashes(r) \/ Ticks(quote[r]) = 0
          /\ Refuse(r, 409)
       \/ /\ ~Clashes(r) /\ Ticks(quote[r]) > 0
          /\ Goto(r, "commit")
          /\ UNCHANGED <<quote, seen, pending>>

\* Bug: a commit whose outcome is unknown is answered as a duplicate.
LoseConfirmationAsConflict(r) == Close(r, 409)

\* Bug: the connection goes back to the pool with its transaction open.
LoseConfirmationKeepLock(r) ==
    /\ pc' = [pc EXCEPT ![r] = "done"]
    /\ status' = [status EXCEPT ![r] = 500]
    /\ UNCHANGED pending

\* The commit takes effect and its confirmation is lost.
LoseConfirmation(r) == Close(r, 500)

Commit(r) ==
    /\ pc[r] = "commit"
    /\ positions' = IF pending[r] = NoWrite THEN positions
                    ELSE [positions EXCEPT ![KeyOf(r)] = pending[r]]
    /\ executions' = IF IsTrade(r) THEN executions \cup {Execution(r)}
                     ELSE executions
    /\ \/ /\ pc' = [pc EXCEPT ![r] = "reply"]
          /\ pending' = [pending EXCEPT ![r] = NoWrite]
          /\ UNCHANGED status
       \/ LoseConfirmation(r)
    /\ UNCHANGED <<job, quote, seen, receipt>>

\* A trade answers from its local variables, an edit refreshes its object.
Reply(r) ==
    /\ pc[r] = "reply"
    /\ \/ /\ IsTrade(r)
          /\ Close(r, 201)
          /\ receipt' = [receipt EXCEPT ![r] =
                           [order |-> Recorded(job[r]), price |-> quote[r]]]
          /\ UNCHANGED <<job, quote, seen, positions, executions>>
       \/ /\ ~IsTrade(r)
          /\ Refuse(r, IF IsStored(r) THEN 201 ELSE 500)

\* A statement fails for a reason of the database, or the connection is lost.
DatabaseError(r) ==
    /\ pc[r] \in {"check", "load", "select", "flush", "record", "commit"}
    /\ Refuse(r, 500)

\* The replica dies: no answer, and PostgreSQL rolls the session back.
Crash(r) ==
    /\ pc[r] \notin {"idle", "done"}
    /\ Refuse(r, 0)

Step(r) ==
    \/ CheckIdempotency(r) \/ FetchQuote(r) \/ LoadPortfolio(r)
    \/ SelectPosition(r) \/ FlushPosition(r) \/ RecordExecution(r)
    \/ Commit(r) \/ Reply(r)

Finished == (\A r \in Requests : pc[r] = "done") /\ UNCHANGED vars

-----------------------------------------------------------------------------
Init ==
    /\ pc = [r \in Requests |-> "idle"]
    /\ job \in [Requests -> Jobs]
    /\ quote = [r \in Requests |-> 0]
    /\ seen = [r \in Requests |-> NoRow]
    /\ pending = [r \in Requests |-> NoWrite]
    /\ status = [r \in Requests |-> 0]
    /\ receipt = [r \in Requests |-> NoRow]
    /\ positions = Opening
    /\ executions = {}

Next ==
    \/ \E r \in Requests : Send(r) \/ Step(r) \/ DatabaseError(r) \/ Crash(r)
    \/ Finished

Spec == Init /\ [][Next]_vars

\* A handler that can take its next step takes it: the event loop, PostgreSQL
\* and the provider (which answers None on any failure) do not stop forever.
FairSpec == Spec /\ \A r \in Requests : WF_vars(Step(r))

-----------------------------------------------------------------------------
(* Properties.                                                             *)

TypeOK ==
    /\ pc \in [Requests -> PCs]
    /\ job \in [Requests -> Jobs]
    /\ quote \in [Requests -> Quotes \cup {0}]
    /\ seen \in [Requests -> OptionalRows]
    /\ pending \in [Requests -> OptionalRows \cup {NoWrite}]
    /\ status \in [Requests -> Statuses]
    /\ receipt \in [Requests -> Receipts \cup {NoRow}]
    /\ positions \in [Keys -> OptionalRows]
    /\ executions \subseteq Executions

\* "Ensures idempotency": however requests and retries interleave, crash or
\* lose their answers, no proposal and no execution id is executed twice.
OneExecutionPerProposal ==
    \A e, f \in executions : SameTrade(e.order, f.order) => e = f

\* A 201 answer is never about a trade that is not in the table, and it is the
\* execution of the proposal that was asked for, at the stored price.
ReceiptIsRecorded ==
    \A r \in Requests : receipt[r] # NoRow =>
        \E e \in executions :
            /\ e.order = receipt[r].order
            /\ e.order.proposal = job[r].proposal
            /\ e.price = Ticks(receipt[r].price)

\* A trade answered 4xx has executed nothing, so the caller may give it up.
RefusedTradeLeavesNoTrace ==
    \A r \in Requests : status[r] \in {403, 404, 409, 422} =>
        \A e \in executions : e.by # r

\* tests/test_execution_service.py, "Position and Execution are atomic": a
\* position moves only in the step that records an execution for its key, or
\* in the commit of an edit of it.
PositionMovesWithExecution ==
    [][\A k \in Keys : positions'[k] # positions[k] =>
          \/ \E e \in executions' \ executions :
                <<e.order.portfolio, e.order.symbol>> = k
          \/ \E r \in Requests : ~IsTrade(r) /\ KeyOf(r) = k /\ pc[r] = "commit"
      ]_vars

\* A session that still holds a position another one has sold out does not
\* bring the row back, and no row replaces one that is stored: the id of a
\* stored position changes only by an insert of a request that is committing.
SoldRowsStaySold ==
    [][\A k \in Keys :
          /\ positions'[k] # NoRow
          /\ positions[k] # NoRow => positions[k].id # positions'[k].id
          => positions[k] = NoRow /\ positions'[k].id \in {r \in Requests : pc[r] = "commit"}
      ]_vars

\* What was paid for the shares of a key so far, in ticks: the opening average,
\* the recorded BUYs, and the prices that edits which are over may have set (those
\* that were refused or failed are not told apart).
PricesPaid(k) ==
    {row.price : row \in {Opening[k]} \ {NoRow}}
    \cup {e.price : e \in {x \in executions :
            x.order.action = "BUY" /\ <<x.order.portfolio, x.order.symbol>> = k}}
    \cup {Ticks(job[r].price) : r \in {o \in Requests :
            ~IsTrade(o) /\ KeyOf(o) = k /\ pc[o] \in {"reply", "done"}}}

\* Even when trades of a symbol race and one merge overwrites another, the
\* average entry price stays between the lowest and the highest price paid or set.
AverageIsWithinPricesPaid ==
    \A k \in Keys : positions[k] # NoRow =>
        \E low, high \in PricesPaid(k) : low <= positions[k].price
                                         /\ positions[k].price <= high

\* o has the lock of the position r is about to write, or it has inserted and
\* not yet committed an id that r is about to insert.
Blocks(o, r) ==
    /\ o # r
    /\ \/ pc[r] = "flush" /\ pending[o] # NoWrite /\ KeyOf(o) = KeyOf(r)
       \/ /\ pc[r] = "record" /\ pc[o] = "commit"
          /\ IsTrade(o) /\ SameTrade(job[o], job[r])

CanGoOn(r) == pc[r] \in {"record", "commit"} /\ \A o \in Requests : ~Blocks(o, r)

\* No deadlock of row locks and unique indexes: a session that another waits
\* for can go on, or it waits itself for one that can.
LockChainsEnd ==
    \A r, o \in Requests : Blocks(o, r) =>
        CanGoOn(o) \/ \E p \in Requests : Blocks(p, o) /\ CanGoOn(p)

\* No lock order and no wait for a unique index leaves requests waiting for
\* each other: each one that has started ends.
EveryRequestEnds ==
    \A r \in Requests : pc[r] = "check" \/ pc[r] = "load" ~> pc[r] = "done"
=============================================================================
