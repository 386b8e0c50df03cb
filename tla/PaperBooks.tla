----------------------------- MODULE PaperBooks -----------------------------
(***************************************************************************)
(* The books of paper trading: sums over the recorded executions, and the  *)
(* two abstract specifications of PaperTrading with their refinement       *)
(* mappings.                                                               *)
(***************************************************************************)
EXTENDS PaperTrading, Totals

SharesOf(row) == IF row = NoRow THEN 0 ELSE row.quantity

\* The recorded executions of a key and an action, and the shares they moved.
Fills(k, action) ==
    {e \in executions : /\ e.order.action = action
                        /\ <<e.order.portfolio, e.order.symbol>> = k}

Traded(k, action) == Total([e \in Fills(k, action) |-> e.order.quantity])

\* The edits of a key that are over, and the shares that they may have set, one
\* edit after the other; those that were refused or failed are not told apart.
Placing(k) == {r \in Requests : ~IsTrade(r) /\ KeyOf(r) = k /\ pc[r] \in {"reply", "done"}}

Placed(k) == Total([r \in Placing(k) |-> job[r].quantity])

\* No interleaving invents shares: a position never holds more than was there,
\* was bought by recorded executions or may have been set by edits.  Shares that a
\* race loses are OnlyStaleTradesUnbalance's matter.
NoInventedShares ==
    \A k \in Keys : SharesOf(positions[k]) <=
        SharesOf(Opening[k]) + Traded(k, "BUY") + Placed(k)

\* When nothing but trades moves them, the positions are the sum of the
\* recorded executions.
BooksBalance ==
    \A k \in Keys : SharesOf(positions[k]) =
        SharesOf(Opening[k]) + Traded(k, "BUY") - Traded(k, "SELL")

\* What the books of a position are out by.
Imbalance(k) ==
    SharesOf(positions[k])
    - (SharesOf(Opening[k]) + Traded(k, "BUY") - Traded(k, "SELL"))

\* The books of a position are put out only by the commit of an edit, which sets
\* what it likes, or of a trade whose session has loaded another row than the
\* one it overwrites.  No crash, refusal, replay or lost commit puts them out.
OnlyStaleTradesUnbalance ==
    [][\A k \in Keys : Imbalance(k)' # Imbalance(k) =>
          \E r \in Requests :
              /\ pc[r] = "commit" /\ pc'[r] # "commit" /\ KeyOf(r) = k
              /\ ~IsTrade(r) \/ seen[r] # positions[k]
      ]_vars

\* execution_service.py, "Duplicate execution: proposal or execution ID
\* already executed": a valid order is answered 409 only when that is so.
ConflictMeansExecuted ==
    \A r \in Requests : status[r] = 409 /\ Ticks(quote[r]) > 0 => Clashes(r)

\* execution_service.py, "Returning cached result": a retry is answered what
\* the first request was answered.
ReplayRepeatsReceipt ==
    \A r, o \in Requests :
        /\ receipt[r] # NoRow
        /\ receipt[o] # NoRow
        /\ job[r].proposal = job[o].proposal
        => receipt[r] = receipt[o]

-----------------------------------------------------------------------------
Entry(order, price) == [order |-> order, price |-> price]
EntriesOf(table) == {Entry(e.order, e.price) : e \in table}

ReceiptEntry(r) ==
    IF receipt[r] = NoRow THEN NoRow
    ELSE Entry(receipt[r].order, Ticks(receipt[r].price))

\* Under every interleaving, crash and lost commit, the executions table and
\* the answers are a journal with receipts.
Journal == INSTANCE TradeJournal WITH
    journal <- EntriesOf(executions),
    receipts <- [r \in Requests |-> ReceiptEntry(r)],
    NoReceipt <- NoRow

JournalSpec == Journal!Spec

SharesOnly(row) ==
    IF row = NoRow THEN NoRow
    ELSE [quantity |-> row.quantity, price |-> row.price]

ASSUME SharesAssumption == NoRow \notin [quantity : Nat, price : Nat]

\* The two tables as those of the indivisible ledger.
Ledger == INSTANCE PaperLedger WITH
    Trades <- RecordedOrders,
    Prices <- Quotes,
    Edits <- {<< <<j.portfolio, Canonical[j.symbol]>>, j.quantity, j.price>> :
                j \in {x \in Edits : x.portfolio \in DOMAIN Owner}},
    Opening <- [k \in Keys |-> SharesOnly(Opening[k])],
    NoShares <- NoRow,
    shares <- [k \in Keys |-> SharesOnly(positions[k])],
    journal <- EntriesOf(executions)

\* A commit of columns that were computed from another row than the stored one.
StaleCommit ==
    \E r \in Requests :
        /\ pc[r] = "commit" /\ pc'[r] # "commit"
        /\ seen[r] # positions[KeyOf(r)]

\* Races do no other harm than lost updates: whatever interleaves, crashes or is
\* retried, a commit moves the tables as one indivisible trade or edit would,
\* unless another session has changed the position since it was loaded.  A
\* caller that sends the requests of a position one by one has the ledger.
LedgerUnlessStale ==
    /\ Ledger!Init
    /\ [][Ledger!Next \/ StaleCommit]_<<positions, executions>>
=============================================================================
