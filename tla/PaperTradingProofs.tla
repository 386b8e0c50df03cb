------------------------- MODULE PaperTradingProofs -------------------------
(***************************************************************************)
(* Theorems about PaperTrading, for every set of requests and payloads,    *)
(* and about the arithmetic of PositionMath, for every grid.               *)
(***************************************************************************)
EXTENDS PaperTrading, TLAPS

-----------------------------------------------------------------------------
(* The arithmetic of a position.                                           *)

LEMMA QuotientEncloses ==
    ASSUME NEW a \in Int, NEW d \in Nat \ {0}
    PROVE  /\ a \div d \in Int
           /\ d * (a \div d) <= a
           /\ a < d * (a \div d) + d
  OBVIOUS

LEMMA RoundDivType ==
    ASSUME NEW n \in Nat, NEW d \in Nat \ {0}
    PROVE  RoundDiv(n, d) \in Nat
  BY QuotientEncloses DEF RoundDiv

\* A rounded quotient is at least m exactly when the half-up rule says so, and
\* the same from above.
LEMMA RoundDivAtLeast ==
    ASSUME NEW n \in Nat, NEW d \in Nat \ {0}, NEW m \in Nat
    PROVE  RoundDiv(n, d) >= m <=> 2 * n + d >= 2 * d * m
<1> DEFINE q == RoundDiv(n, d)
           D == 2 * d
<1>1. /\ q \in Int
      /\ D * q <= 2 * n + d
      /\ 2 * n + d < D * q + D
      /\ D \in Nat \ {0}
    <2>1. D \in Nat \ {0} /\ 2 * n + d \in Int
        OBVIOUS
    <2>2. q = (2 * n + d) \div D
        BY DEF RoundDiv
    <2> HIDE DEF q, D
    <2> QED BY <2>1, <2>2, QuotientEncloses
<1> HIDE DEF q
<1>2. ASSUME q >= m PROVE D * q >= D * m
    BY <1>1, <1>2, Z3
<1>3. ASSUME q + 1 <= m PROVE D * q + D <= D * m
    BY <1>1, <1>3, Z3
<1>4. q >= m \/ q + 1 <= m
    BY <1>1
<1>5. 2 * d * m = D * m
    OBVIOUS
<1>6. q >= m <=> 2 * n + d >= D * m
    <2> HIDE DEF D
    <2>1. D * q \in Int /\ D * m \in Int
        BY <1>1
    <2> QED BY <1>1, <1>2, <1>3, <1>4, <2>1
<1> QED BY <1>5, <1>6 DEF q

LEMMA RoundDivAtMost ==
    ASSUME NEW n \in Nat, NEW d \in Nat \ {0}, NEW m \in Nat
    PROVE  RoundDiv(n, d) <= m <=> 2 * n + d < 2 * d * (m + 1)
<1>1. RoundDiv(n, d) \in Nat
    BY RoundDivType
<1>2. RoundDiv(n, d) >= m + 1 <=> 2 * n + d >= 2 * d * (m + 1)
    BY RoundDivAtLeast
<1>3. 2 * d * (m + 1) \in Int
    OBVIOUS
<1> QED BY <1>1, <1>2, <1>3

LEMMA TicksType ==
    ASSUME NEW price \in Nat
    PROVE  Ticks(price) \in Nat
  BY RoundDivType, SubTicksAssumption DEF Ticks

\* A stored price survives the way to a float and back.
LEMMA TicksOfStoredPrice ==
    ASSUME NEW price \in Nat
    PROVE  Ticks(price * SubTicks) = price
<1>1. /\ price * SubTicks \in Nat
      /\ 2 * (price * SubTicks) + SubTicks >= 2 * SubTicks * price
      /\ 2 * (price * SubTicks) + SubTicks < 2 * SubTicks * (price + 1)
    BY SubTicksAssumption, Z3
<1> QED BY <1>1, RoundDivAtLeast, RoundDivAtMost, TicksType, SubTicksAssumption
        DEF Ticks

LEMMA MergedPriceType ==
    ASSUME NEW held \in Nat, NEW average \in Nat,
           NEW bought \in Nat \ {0}, NEW price \in Nat
    PROVE  MergedPrice(held, average, bought, price) \in Nat
<1>1. /\ held * average * SubTicks + bought * price \in Nat
      /\ (held + bought) * SubTicks \in Nat \ {0}
    BY SubTicksAssumption, Z3
<1> QED BY <1>1, RoundDivType DEF MergedPrice

\* The merged average lies between any bounds of the old average and of the
\* stored price of the shares that are merged in.
THEOREM MergedPriceIsBetween ==
    ASSUME NEW held \in Nat, NEW average \in Nat,
           NEW bought \in Nat \ {0}, NEW price \in Nat,
           NEW low \in Nat, NEW high \in Nat,
           low <= average, average <= high,
           low <= Ticks(price), Ticks(price) <= high
    PROVE  /\ low <= MergedPrice(held, average, bought, price)
           /\ MergedPrice(held, average, bought, price) <= high
<1> DEFINE U == SubTicks
           n == held * average * U + bought * price
           d == (held + bought) * U
<1>1. U \in Nat \ {0} /\ n \in Nat /\ d \in Nat \ {0}
    BY SubTicksAssumption, Z3
<1>2. 2 * price + U >= 2 * U * low /\ 2 * price + U < 2 * U * (high + 1)
    BY <1>1, RoundDivAtLeast, RoundDivAtMost, TicksType DEF Ticks
<1>3. 2 * n + d >= 2 * d * low
    <2>1. held * U * average >= held * U * low
        BY <1>1, Z3
    <2>2. bought * (2 * price + U) >= bought * (2 * U * low)
        BY <1>1, <1>2, Z3
    <2>3. held * U >= 0
        BY <1>1, Z3
    <2>4. 2 * n + d = 2 * (held * U * average) + bought * (2 * price + U) + held * U
        BY <1>1, Z3
    <2>5. 2 * d * low = 2 * (held * U * low) + bought * (2 * U * low)
        BY <1>1, Z3
    <2> QED BY <1>1, <2>1, <2>2, <2>3, <2>4, <2>5, Z3
<1>4. 2 * n + d < 2 * d * (high + 1)
    <2>1. held * U * average <= held * U * high
        BY <1>1, Z3
    <2>2. bought * (2 * price + U) < bought * (2 * U * (high + 1))
        BY <1>1, <1>2, Z3
    <2>3. held * U >= 0
        BY <1>1, Z3
    <2>4. 2 * n + d = 2 * (held * U * average) + bought * (2 * price + U) + held * U
        BY <1>1, Z3
    <2>5. 2 * d * (high + 1)
            = 2 * (held * U * high) + 2 * (held * U) + bought * (2 * U * (high + 1))
        BY <1>1, Z3
    <2> QED BY <1>1, <2>1, <2>2, <2>3, <2>4, <2>5, Z3
<1>5. RoundDiv(n, d) \in Nat /\ low <= RoundDiv(n, d) /\ RoundDiv(n, d) <= high
    <2> HIDE DEF n, d
    <2> QED BY <1>1, <1>3, <1>4, RoundDivAtLeast, RoundDivAtMost, RoundDivType
<1> QED BY <1>5 DEF MergedPrice

-----------------------------------------------------------------------------
(* Type correctness.  TypeOK alone is not inductive: what is stored for the *)
(* key of a request has the type of a row only because the portfolio was    *)
(* found, and a recorded price is positive only because the CHECK was       *)
(* passed before the commit.                                                *)

Priced == {"load", "select", "flush", "record", "commit", "reply"}

Paths ==
    \A r \in Requests :
        /\ pc[r] \in {"select", "flush", "record", "commit", "reply"} =>
              KeyOf(r) \in Keys
        /\ pc[r] \in {"check", "quote", "record"} => IsTrade(r)
        /\ pc[r] = "commit" /\ IsTrade(r) => Ticks(quote[r]) \in Price
        /\ pc[r] \in Priced /\ IsTrade(r) => quote[r] \in Price

TypeInv == TypeOK /\ Paths

LEMMA JobType ==
    ASSUME TypeOK, NEW r \in Requests
    PROVE  /\ job[r].quantity \in Price
           /\ IsTrade(r) => job[r] \in Orders /\ job[r].symbol \in Symbols
           /\ ~IsTrade(r) => /\ job[r] \in Edits
                             /\ job[r].price \in Price
                             /\ Canonical[job[r].symbol] \in Symbols
  BY PayloadAssumption DEF TypeOK, Jobs, IsTrade

LEMMA QuoteType ==
    ASSUME TypeOK, NEW r \in Requests
    PROVE  /\ quote[r] \in Nat
           /\ EntryPrice(r) \in Nat
           /\ Ticks(quote[r]) \in Nat
           /\ Ticks(EntryPrice(r)) \in Nat
<1>1. quote[r] \in Nat
    <2>1. quote[r] \in Quotes \cup {0}
        BY DEF TypeOK
    <2>2. ASSUME NEW x \in Quotes PROVE x \in Nat
        BY NumbersAssumption
    <2> QED BY <2>1, <2>2
<1>2. EntryPrice(r) \in Nat
    BY <1>1, JobType DEF EntryPrice, Price
<1> QED BY <1>1, <1>2, TicksType

\* Closing a session, with any of the answers, keeps the types.
LEMMA RefuseType ==
    ASSUME TypeInv, NEW r \in Requests, NEW code \in Statuses, Refuse(r, code)
    PROVE  TypeInv'
<1> USE DEF TypeInv, Refuse, Close
<1>1. TypeOK'
    BY DEF TypeOK, PCs
<1>2. Paths'
    BY DEF TypeOK, Paths, Priced, IsTrade, KeyOf
<1> QED BY <1>1, <1>2

LEMMA ViolationType ==
    ASSUME NEW r \in Requests PROVE Violation(r) \in Statuses
  BY DEF Violation, Statuses

\* What a handler may flush, before the range and the CHECKs of the columns.
Candidates == [id : Requests \cup {Opened}, quantity : Price, price : Nat]

\* A row that passes the range and the CHECKs is stored with its type.
LEMMA StoreType ==
    ASSUME TypeInv, NEW r \in Requests, pc[r] = "flush",
           NEW row \in Candidates, Store(r, row)
    PROVE  TypeInv'
<1>1. CASE row.quantity > MaxInt /\ Refuse(r, 500)
    BY <1>1, RefuseType DEF Statuses
<1>2. CASE row.price = 0 /\ Refuse(r, Violation(r))
    BY <1>2, RefuseType, ViolationType
<1>3. CASE /\ row.quantity <= MaxInt /\ row.price > 0
           /\ pending' = [pending EXCEPT ![r] = row]
           /\ Goto(r, IF IsTrade(r) THEN "record" ELSE "commit")
           /\ UNCHANGED <<quote, seen>>
    <2> USE DEF TypeInv, Goto
    <2>1. row \in Rows
        <3>1. row.quantity \in 1 .. MaxInt
            BY <1>3, NumbersAssumption DEF Candidates, Price
        <3>2. row.price \in Price
            BY <1>3 DEF Candidates, Price
        <3> QED BY <3>1, <3>2 DEF Candidates, Rows
    <2>2. TypeOK'
        BY <1>3, <2>1 DEF TypeOK, PCs, OptionalRows
    <2>3. Paths'
        BY <1>3 DEF TypeOK, Paths, Priced, IsTrade, KeyOf
    <2> QED BY <2>2, <2>3
<1> QED BY <1>1, <1>2, <1>3 DEF Store

\* A step that only moves the program counter keeps the types.
LEMMA GotoType ==
    ASSUME TypeInv, NEW r \in Requests, NEW label \in PCs, Goto(r, label),
           label \in {"check", "quote", "record"} => IsTrade(r),
           label \in {"select", "flush", "record", "commit", "reply"} => KeyOf(r) \in Keys,
           label = "commit" /\ IsTrade(r) => Ticks(quote[r]) \in Price,
           label \in Priced /\ IsTrade(r) => quote[r] \in Price,
           UNCHANGED <<quote, seen, pending>>
    PROVE  TypeInv'
<1> USE DEF TypeInv, Goto
<1>1. TypeOK'
    BY DEF TypeOK
<1>2. Paths'
    BY DEF TypeOK, Paths, Priced, IsTrade, KeyOf
<1> QED BY <1>1, <1>2

LEMMA ExecutionType ==
    ASSUME TypeInv, NEW r \in Requests, IsTrade(r)
    PROVE  Recorded(job[r]) \in RecordedOrders
  BY JobType DEF TypeInv, RecordedOrders

LEMMA KeyIsOwned ==
    ASSUME TypeInv, NEW r \in Requests, job[r].portfolio \in DOMAIN Owner
    PROVE  KeyOf(r) \in Keys
  BY JobType DEF TypeInv, KeyOf, Keys

LEMMA CheckIdempotencyType ==
    ASSUME TypeInv, NEW r \in Requests, CheckIdempotency(r)
    PROVE  TypeInv'
<1>1. CASE Replay(r)
    <2>1. PICK e \in executions :
            /\ Close(r, 201)
            /\ receipt' = [receipt EXCEPT ![r] =
                             [order |-> e.order, price |-> e.price * SubTicks]]
            /\ UNCHANGED <<job, quote, seen, positions, executions>>
        BY <1>1 DEF Replay
    <2>2. e.order \in RecordedOrders /\ e.price \in Price
        BY DEF TypeInv, TypeOK, Executions
    <2>3. e.price * SubTicks \in Price
        BY <2>2, SubTicksAssumption, Z3 DEF Price
    <2>4. [order |-> e.order, price |-> e.price * SubTicks] \in Receipts
        BY <2>2, <2>3 DEF Receipts
    <2>5. TypeOK'
        BY <2>1, <2>4 DEF TypeInv, TypeOK, Close, PCs, Statuses
    <2>6. Paths'
        BY <2>1 DEF TypeInv, TypeOK, Paths, Priced, Close, IsTrade, KeyOf
    <2> QED BY <2>5, <2>6 DEF TypeInv
<1>2. CASE Refuse(r, 422)
    BY <1>2, RefuseType DEF Statuses
<1>3. CASE Goto(r, "quote") /\ UNCHANGED <<quote, seen, pending>>
    BY <1>3, GotoType DEF CheckIdempotency, PCs, Priced, TypeInv, Paths
<1> QED BY <1>1, <1>2, <1>3 DEF CheckIdempotency

LEMMA FetchQuoteType ==
    ASSUME TypeInv, NEW r \in Requests, FetchQuote(r)
    PROVE  TypeInv'
<1>1. CASE Refuse(r, 422)
    BY <1>1, RefuseType DEF Statuses
<1>2. ASSUME NEW q \in Quotes, q > 0,
             quote' = [quote EXCEPT ![r] = q],
             Goto(r, "load"),
             UNCHANGED <<seen, pending>>
      PROVE  TypeInv'
    <2> USE <1>2 DEF TypeInv, Goto
    <2>1. TypeOK'
        BY DEF TypeOK, PCs
    <2>2. q \in Price
        BY NumbersAssumption DEF Price
    <2>3. Paths'
        BY <2>2 DEF TypeOK, Paths, Priced, IsTrade, KeyOf
    <2> QED BY <2>1, <2>3
<1> QED BY <1>1, <1>2 DEF FetchQuote

\* The steps that read a position object into the session.
LEMMA SeeType ==
    ASSUME TypeInv, NEW r \in Requests, NEW row \in OptionalRows,
           NEW label \in {"select", "flush"}, Goto(r, label), KeyOf(r) \in Keys,
           pc[r] \in {"load", "select"},
           seen' = [seen EXCEPT ![r] = row],
           UNCHANGED <<quote, pending>>
    PROVE  TypeInv'
<1> USE DEF TypeInv, Goto
<1>1. TypeOK'
    BY DEF TypeOK, PCs
<1>2. Paths'
    BY DEF TypeOK, Paths, Priced, IsTrade, KeyOf
<1> QED BY <1>1, <1>2

LEMMA LoadPortfolioType ==
    ASSUME TypeInv, NEW r \in Requests, LoadPortfolio(r)
    PROVE  TypeInv'
<1>1. CASE Refuse(r, 404) \/ Refuse(r, 403)
    BY <1>1, RefuseType DEF Statuses
<1>2. CASE /\ job[r].portfolio \in DOMAIN Owner
           /\ seen' = [seen EXCEPT ![r] = positions[KeyOf(r)]]
           /\ Goto(r, "select")
           /\ UNCHANGED <<quote, pending>>
    <2>1. KeyOf(r) \in Keys
        BY <1>2, KeyIsOwned
    <2>2. positions[KeyOf(r)] \in OptionalRows
        BY <2>1 DEF TypeInv, TypeOK
    <2> QED BY <1>2, <2>1, <2>2, SeeType DEF LoadPortfolio
<1> QED BY <1>1, <1>2 DEF LoadPortfolio

LEMMA SelectPositionType ==
    ASSUME TypeInv, NEW r \in Requests, SelectPosition(r)
    PROVE  TypeInv'
<1>1. CASE Refuse(r, 422)
    BY <1>1, RefuseType DEF Statuses
<1>2. CASE /\ seen' = [seen EXCEPT ![r] = Object(r)]
           /\ Goto(r, "flush")
           /\ UNCHANGED <<quote, pending>>
    <2>1. KeyOf(r) \in Keys
        BY DEF SelectPosition, TypeInv, Paths
    <2>2. Object(r) \in OptionalRows
        BY <2>1 DEF Object, TypeInv, TypeOK
    <2> QED BY <1>2, <2>1, <2>2, SeeType DEF SelectPosition
<1> QED BY <1>1, <1>2 DEF SelectPosition

LEMMA NewPriceType ==
    ASSUME TypeInv, NEW r \in Requests, seen[r] # NoRow
    PROVE  NewPrice(r) \in Nat
<1>1. seen[r].quantity \in Nat /\ seen[r].price \in Nat
    BY NumbersAssumption DEF TypeInv, TypeOK, OptionalRows, Rows, Price
<1>2. job[r].quantity \in Nat \ {0}
    BY JobType DEF TypeInv, Price
<1> QED BY <1>1, <1>2, QuoteType, MergedPriceType DEF NewPrice, TypeInv

\* A trade always moves the quantity it saw.
LEMMA TradesMove ==
    ASSUME TypeInv, NEW r \in Requests, seen[r] # NoRow, IsTrade(r)
    PROVE  NewQuantity(r) # seen[r].quantity
<1>1. seen[r].quantity \in Nat
    BY NumbersAssumption DEF TypeInv, TypeOK, OptionalRows, Rows
<1>2. job[r].quantity \in Nat \ {0}
    BY JobType DEF Price, TypeInv
<1> QED BY <1>1, <1>2 DEF NewQuantity

LEMMA InsertPositionType ==
    ASSUME TypeInv, NEW r \in Requests, pc[r] = "flush", InsertPosition(r)
    PROVE  TypeInv'
<1> DEFINE row == [id |-> r, quantity |-> job[r].quantity,
                   price |-> Ticks(EntryPrice(r))]
<1>1. CASE Refuse(r, Violation(r))
    BY <1>1, RefuseType, ViolationType
<1>2. CASE Store(r, row)
    <2>1. row \in Candidates
        BY JobType, QuoteType DEF TypeInv, Candidates
    <2> HIDE DEF row
    <2> QED BY <1>2, <2>1, StoreType
<1> QED BY <1>1, <1>2 DEF InsertPosition

\* The row that an UPDATE writes, before it is checked.
LEMMA UpdatedType ==
    ASSUME TypeInv, NEW r \in Requests, KeyOf(r) \in Keys, seen[r] # NoRow,
           NewQuantity(r) > 0, IsStored(r), NEW priceToo \in BOOLEAN
    PROVE  Updated(r, priceToo) \in Candidates
<1> DEFINE old == positions[KeyOf(r)]
<1>1. old \in Rows
    BY DEF IsStored, TypeInv, TypeOK, OptionalRows
<1>2. seen[r].quantity \in Nat /\ job[r].quantity \in Nat
    BY JobType, NumbersAssumption DEF TypeInv, TypeOK, OptionalRows, Rows, Price
<1>3. NewQuantity(r) \in Price
    BY <1>2 DEF NewQuantity, Price
<1>4. NewPrice(r) \in Nat
    BY NewPriceType
<1>5. old.quantity \in Price /\ old.price \in Nat
    BY <1>1, NumbersAssumption DEF Rows, Price
<1>6. \A a \in Price, b \in Nat : [old EXCEPT !.quantity = a, !.price = b] \in Candidates
    BY <1>1 DEF Rows, Candidates
<1> QED BY <1>3, <1>4, <1>5, <1>6 DEF Updated

LEMMA UpdatePositionType ==
    ASSUME TypeInv, NEW r \in Requests, pc[r] = "flush", UpdatePosition(r)
    PROVE  TypeInv'
<1>1. KeyOf(r) \in Keys /\ seen[r] # NoRow /\ NewQuantity(r) > 0
    BY DEF UpdatePosition, TypeInv, Paths
<1>2. CASE Refuse(r, 500)
    BY <1>2, RefuseType DEF Statuses
<1>3. CASE Goto(r, "commit") /\ ~IsTrade(r) /\ UNCHANGED <<quote, seen, pending>>
    BY <1>1, <1>3, GotoType DEF PCs
<1>4. ASSUME NEW priceToo \in BOOLEAN, IsStored(r), Store(r, Updated(r, priceToo))
      PROVE  TypeInv'
    BY <1>1, <1>4, UpdatedType, StoreType
<1>5. PriceIsDirty(r) \subseteq BOOLEAN
    BY DEF PriceIsDirty
<1>6. IsTrade(r) => NewQuantity(r) # seen[r].quantity
    BY <1>1, TradesMove
<1> QED BY <1>2, <1>3, <1>4, <1>5, <1>6 DEF UpdatePosition

LEMMA DeletePositionType ==
    ASSUME TypeInv, NEW r \in Requests, pc[r] = "flush", DeletePosition(r)
    PROVE  TypeInv'
<1>1. KeyOf(r) \in Keys
    BY DEF TypeInv, Paths
<1>2. IsTrade(r)
    BY JobType DEF DeletePosition, NewQuantity, Price, TypeInv
<1>3. TypeOK'
    BY DEF DeletePosition, Goto, TypeInv, TypeOK, PCs, OptionalRows
<1>4. Paths'
    BY <1>1, <1>2 DEF DeletePosition, Goto, TypeInv, TypeOK, Paths, Priced, IsTrade, KeyOf
<1> QED BY <1>3, <1>4 DEF TypeInv

LEMMA RecordExecutionType ==
    ASSUME TypeInv, NEW r \in Requests, RecordExecution(r)
    PROVE  TypeInv'
<1>1. CASE Refuse(r, 409)
    BY <1>1, RefuseType DEF Statuses
<1>2. CASE /\ Ticks(quote[r]) > 0
           /\ Goto(r, "commit")
           /\ UNCHANGED <<quote, seen, pending>>
    <2>1. KeyOf(r) \in Keys
        BY DEF RecordExecution, TypeInv, Paths
    <2>2. Ticks(quote[r]) \in Price
        BY <1>2, QuoteType DEF Price, TypeInv
    <2>3. IsTrade(r) => quote[r] \in Price
        BY DEF RecordExecution, TypeInv, Paths, Priced
    <2> QED BY <1>2, <2>1, <2>2, <2>3, GotoType DEF PCs
<1> QED BY <1>1, <1>2 DEF RecordExecution

LEMMA CommitType ==
    ASSUME TypeInv, NEW r \in Requests, Commit(r)
    PROVE  TypeInv'
<1>1. positions' \in [Keys -> OptionalRows]
    BY DEF Commit, TypeInv, TypeOK
<1>2. executions' \subseteq Executions
    BY ExecutionType DEF Commit, Execution, Executions, TypeInv, TypeOK, Paths
<1>3. TypeOK'
    BY <1>1, <1>2 DEF Commit, LoseConfirmation, Close, TypeInv, TypeOK, PCs, Statuses
<1>4. Paths'
    BY DEF Commit, LoseConfirmation, Close, TypeInv, TypeOK, Paths, Priced, IsTrade, KeyOf
<1> QED BY <1>3, <1>4 DEF TypeInv

LEMMA ReplyType ==
    ASSUME TypeInv, NEW r \in Requests, Reply(r)
    PROVE  TypeInv'
<1>1. CASE Refuse(r, 201) \/ Refuse(r, 500)
    BY <1>1, RefuseType DEF Statuses
<1>2. CASE /\ IsTrade(r)
           /\ Close(r, 201)
           /\ receipt' = [receipt EXCEPT ![r] =
                            [order |-> Recorded(job[r]), price |-> quote[r]]]
           /\ UNCHANGED <<job, quote, seen, positions, executions>>
    <2>1. quote[r] \in Price
        BY <1>2 DEF Reply, TypeInv, Paths, Priced
    <2>2. [order |-> Recorded(job[r]), price |-> quote[r]] \in Receipts
        BY <1>2, <2>1, ExecutionType DEF Receipts
    <2>3. TypeOK'
        BY <1>2, <2>2 DEF Close, TypeInv, TypeOK, PCs, Statuses
    <2>4. Paths'
        BY <1>2 DEF Close, TypeInv, TypeOK, Paths, Priced, IsTrade, KeyOf
    <2> QED BY <2>3, <2>4 DEF TypeInv
<1> QED BY <1>1, <1>2 DEF Reply

LEMMA StepType ==
    ASSUME TypeInv, [Next]_vars
    PROVE  TypeInv'
<1>1. ASSUME NEW r \in Requests, Send(r) PROVE TypeInv'
    BY <1>1, GotoType DEF Send, PCs, Priced
<1>2. ASSUME NEW r \in Requests, Step(r) PROVE TypeInv'
    <2>1. CASE FlushPosition(r)
        BY <2>1, InsertPositionType, UpdatePositionType, DeletePositionType
           DEF FlushPosition
    <2> QED BY <1>2, <2>1, CheckIdempotencyType, FetchQuoteType, LoadPortfolioType,
               SelectPositionType, RecordExecutionType, CommitType, ReplyType DEF Step
<1>3. ASSUME NEW r \in Requests, DatabaseError(r) \/ Crash(r) PROVE TypeInv'
    BY <1>3, RefuseType DEF DatabaseError, Crash, Statuses
<1>4. CASE UNCHANGED vars
    BY <1>4 DEF vars, TypeInv, TypeOK, Paths, Priced, IsTrade, KeyOf
<1> QED BY <1>1, <1>2, <1>3, <1>4 DEF Next, Finished

LEMMA InitType == Init => TypeInv
<1> SUFFICES ASSUME Init PROVE TypeInv
    OBVIOUS
<1>1. TypeOK
    BY RowsAssumption DEF Init, TypeOK, PCs, OptionalRows, Statuses, Receipts
<1>2. Paths
    BY DEF Init, Paths, Priced
<1> QED BY <1>1, <1>2 DEF TypeInv

\* Every table and every session always holds values of its columns' types.
THEOREM TypeCorrect == Spec => []TypeInv
  BY InitType, StepType, PTL DEF Spec

THEOREM TypesAreKept == Spec => []TypeOK
<1>1. TypeInv => TypeOK
    BY DEF TypeInv
<1> QED BY <1>1, TypeCorrect, PTL

-----------------------------------------------------------------------------
(* The average entry price of a position stays within the prices paid for  *)
(* its shares, whatever trades and edits race on it.                       *)

Within(p, S) == \E low, high \in S : low <= p /\ p <= high

\* What the write of r adds to the prices paid once it is committed.
Paying(r) ==
    IF IsTrade(r) /\ Side(r) = "SELL" THEN {} ELSE {Ticks(EntryPrice(r))}

\* The stored average is within the prices paid because every average a session
\* still holds, and every one it is about to commit, is.
Averages ==
    /\ AverageIsWithinPricesPaid
    /\ \A r \in Requests :
        /\ pc[r] \in {"quote", "load", "select", "flush", "record", "commit"}
             /\ IsTrade(r) => Side(r) \in {"BUY", "SELL"}
        /\ pc[r] \notin {"record", "commit"} => pending[r] = NoWrite
        /\ pc[r] = "flush" /\ seen[r] = NoRow => Paying(r) # {}
        /\ pc[r] \in {"select", "flush"} /\ seen[r] # NoRow =>
             Within(seen[r].price, PricesPaid(KeyOf(r)))
        /\ pc[r] \in {"record", "commit"} /\ pending[r] \notin {NoRow, NoWrite} =>
             Within(pending[r].price, PricesPaid(KeyOf(r)) \cup Paying(r))

LEMMA WithinMore ==
    ASSUME NEW p, NEW S, NEW T, S \subseteq T, Within(p, S)
    PROVE  Within(p, T)
  BY DEF Within

LEMMA PricesPaidType ==
    ASSUME TypeInv, NEW k \in Keys
    PROVE  PricesPaid(k) \subseteq Nat
<1>1. \A row \in {Opening[k]} \ {NoRow} : row.price \in Nat
    BY RowsAssumption DEF OptionalRows, Rows, Price
<1>2. \A e \in executions : e.price \in Nat
    BY DEF TypeInv, TypeOK, Executions, Price
<1>3. \A r \in Requests : ~IsTrade(r) => Ticks(job[r].price) \in Nat
    BY JobType, TicksType DEF TypeInv, Price
<1> QED BY <1>1, <1>2, <1>3 DEF PricesPaid

\* Prices paid are never forgotten.
LEMMA PricesPaidGrow ==
    ASSUME TypeInv, NEW k \in Keys, UNCHANGED job,
           executions \subseteq executions',
           \A r \in Requests : pc[r] \in {"reply", "done"} => pc'[r] \in {"reply", "done"}
    PROVE  PricesPaid(k) \subseteq PricesPaid(k)'
  BY DEF PricesPaid, IsTrade, KeyOf

\* Merging a purchase keeps the average within the prices paid and its price.
LEMMA MergedIsWithin ==
    ASSUME TypeInv, NEW r \in Requests, IsTrade(r), seen[r] \in Rows,
           NEW S \in SUBSET Nat, Within(seen[r].price, S)
    PROVE  Within(NewPrice(r), S \cup {Ticks(quote[r])})
<1> DEFINE t == Ticks(quote[r])
<1>1. PICK low \in S, high \in S : low <= seen[r].price /\ seen[r].price <= high
    BY DEF Within
<1>2. /\ low \in Nat /\ high \in Nat /\ t \in Nat
      /\ seen[r].quantity \in Nat /\ seen[r].price \in Nat
      /\ job[r].quantity \in Nat \ {0} /\ quote[r] \in Nat
    BY JobType, QuoteType, NumbersAssumption DEF Rows, Price, TypeInv
<1>3. ASSUME NEW l \in S \cup {t}, NEW h \in S \cup {t},
             l <= seen[r].price, seen[r].price <= h, l <= t, t <= h
      PROVE  Within(NewPrice(r), S \cup {t})
    <2>1. l \in Nat /\ h \in Nat
        BY <1>2
    <2>2. NewPrice(r)
            = MergedPrice(seen[r].quantity, seen[r].price, job[r].quantity, quote[r])
        BY DEF NewPrice
    <2>3. l <= NewPrice(r) /\ NewPrice(r) <= h
        <3> DEFINE held == seen[r].quantity
                   average == seen[r].price
                   bought == job[r].quantity
                   price == quote[r]
        <3>1. /\ held \in Nat /\ average \in Nat
              /\ bought \in Nat \ {0} /\ price \in Nat
              /\ l <= average /\ average <= h
              /\ l <= Ticks(price) /\ Ticks(price) <= h
            BY <1>2, <1>3
        <3>2. NewPrice(r) = MergedPrice(held, average, bought, price)
            BY <2>2
        <3> HIDE DEF held, average, bought, price
        <3> QED BY <2>1, <3>1, <3>2, MergedPriceIsBetween
    <2> QED BY <2>3 DEF Within
<1>4. CASE low <= t /\ t <= high
    BY <1>1, <1>3, <1>4
<1>5. CASE t < low
    BY <1>1, <1>2, <1>3, <1>5
<1>6. CASE high < t
    BY <1>1, <1>2, <1>3, <1>6
<1> HIDE DEF t
<1> QED BY <1>2, <1>4, <1>5, <1>6 DEF t

\* A step of r that changes no table keeps the invariant when what r then holds
\* is within the prices paid.
LEMMA QuietPrices ==
    ASSUME TypeInv, TypeInv', Averages, NEW r \in Requests,
           UNCHANGED <<job, positions, executions>>,
           \A o \in Requests \ {r} :
               /\ pc'[o] = pc[o] /\ quote'[o] = quote[o]
               /\ seen'[o] = seen[o] /\ pending'[o] = pending[o],
           pc[r] \in {"reply", "done"} => pc'[r] \in {"reply", "done"},
           pc'[r] \in {"quote", "load", "select", "flush", "record", "commit"}
             /\ IsTrade(r) => Side(r) \in {"BUY", "SELL"},
           pc'[r] \notin {"record", "commit"} => pending'[r] = NoWrite,
           pc'[r] = "flush" /\ seen'[r] = NoRow => Paying(r)' # {},
           pc'[r] \in {"select", "flush"} /\ seen'[r] # NoRow =>
             Within(seen'[r].price, PricesPaid(KeyOf(r))),
           pc'[r] \in {"record", "commit"} /\ pending'[r] \notin {NoRow, NoWrite} =>
             Within(pending'[r].price, PricesPaid(KeyOf(r)) \cup Paying(r)')
    PROVE  Averages'
<1>1. \A o \in Requests :
        pc[o] \in {"reply", "done"} => pc'[o] \in {"reply", "done"}
    OBVIOUS
<1>2. \A k \in Keys : PricesPaid(k) \subseteq PricesPaid(k)'
    BY <1>1, PricesPaidGrow
<1>3. \A o \in Requests : /\ IsTrade(o)' = IsTrade(o)
                          /\ Side(o)' = Side(o)
                          /\ KeyOf(o)' = KeyOf(o)
    BY DEF IsTrade, Side, KeyOf
<1>4. \A o \in Requests \ {r} : Paying(o)' = Paying(o)
    BY <1>3 DEF Paying, EntryPrice
<1>5. AverageIsWithinPricesPaid'
    BY <1>2, WithinMore DEF Averages, AverageIsWithinPricesPaid, Within
<1>6. ASSUME NEW o \in Requests
      PROVE  /\ pc'[o] \in {"quote", "load", "select", "flush", "record", "commit"}
                  /\ IsTrade(o)' => Side(o)' \in {"BUY", "SELL"}
             /\ pc'[o] \notin {"record", "commit"} => pending'[o] = NoWrite
             /\ pc'[o] = "flush" /\ seen'[o] = NoRow => Paying(o)' # {}
             /\ pc'[o] \in {"select", "flush"} /\ seen'[o] # NoRow =>
                  Within(seen'[o].price, PricesPaid(KeyOf(o)))
             /\ pc'[o] \in {"record", "commit"} /\ pending'[o] \notin {NoRow, NoWrite} =>
                  Within(pending'[o].price, PricesPaid(KeyOf(o)) \cup Paying(o)')
    <2>1. CASE o = r
        BY <1>3, <2>1
    <2>2. CASE o # r
        BY <1>3, <1>4, <2>2 DEF Averages
    <2> QED BY <2>1, <2>2
<1>7. ASSUME NEW o \in Requests
      PROVE  PricesPaid(KeyOf(o)) \subseteq PricesPaid(KeyOf(o))'
    BY <1>1, <1>3 DEF PricesPaid
<1>8. ASSUME NEW o \in Requests, pc'[o] \in {"select", "flush"}, seen'[o] # NoRow
      PROVE  Within(seen[o].price, PricesPaid(KeyOf(o)))'
    BY <1>6, <1>7, <1>8 DEF Within
<1>9. ASSUME NEW o \in Requests, pc'[o] \in {"record", "commit"},
             pending'[o] \notin {NoRow, NoWrite}
      PROVE  Within(pending[o].price, PricesPaid(KeyOf(o)) \cup Paying(o))'
    <2>1. PricesPaid(KeyOf(o)) \cup Paying(o)'
            \subseteq (PricesPaid(KeyOf(o)) \cup Paying(o))'
        BY <1>7
    <2> QED BY <1>6, <1>9, <2>1 DEF Within
<1> QED BY <1>5, <1>6, <1>8, <1>9 DEF Averages

LEMMA RefusePrices ==
    ASSUME TypeInv, TypeInv', Averages, NEW r \in Requests, NEW code, Refuse(r, code)
    PROVE  Averages'
<1>1. /\ pc'[r] = "done" /\ pending'[r] = NoWrite
      /\ \A o \in Requests \ {r} : pc'[o] = pc[o] /\ pending'[o] = pending[o]
    BY DEF Refuse, Close, TypeInv, TypeOK
<1> QED BY <1>1, QuietPrices DEF Refuse

LEMMA GotoPrices ==
    ASSUME TypeInv, TypeInv', Averages, NEW r \in Requests, NEW label, Goto(r, label),
           pc[r] \notin {"reply", "done"},
           \A o \in Requests \ {r} : /\ quote'[o] = quote[o] /\ seen'[o] = seen[o]
                                     /\ pending'[o] = pending[o],
           pc[r] \in {"quote", "load", "select", "flush", "record", "commit"}
             \/ (IsTrade(r) => label = "check" \/ Side(r) \in {"BUY", "SELL"}),
           label \notin {"record", "commit"} => pending'[r] = NoWrite,
           label = "flush" /\ seen'[r] = NoRow => Paying(r)' # {},
           label \in {"select", "flush"} /\ seen'[r] # NoRow =>
             Within(seen'[r].price, PricesPaid(KeyOf(r))),
           label \in {"record", "commit"} /\ pending'[r] \notin {NoRow, NoWrite} =>
             Within(pending'[r].price, PricesPaid(KeyOf(r)) \cup Paying(r)')
    PROVE  Averages'
<1>1. /\ pc'[r] = label
      /\ \A o \in Requests \ {r} : pc'[o] = pc[o]
    BY DEF Goto, TypeInv, TypeOK
<1>2. label \in {"quote", "load", "select", "flush", "record", "commit"} /\ IsTrade(r)
        => Side(r) \in {"BUY", "SELL"}
    BY DEF Averages
<1> QED BY <1>1, <1>2, QuietPrices DEF Goto

LEMMA StorePrices ==
    ASSUME TypeInv, TypeInv', Averages, NEW r \in Requests, pc[r] = "flush",
           NEW row, Store(r, row),
           Within(row.price, PricesPaid(KeyOf(r)) \cup Paying(r))
    PROVE  Averages'
<1>1. ASSUME NEW code, Refuse(r, code) PROVE Averages'
    BY <1>1, RefusePrices
<1>2. CASE /\ pending' = [pending EXCEPT ![r] = row]
           /\ Goto(r, IF IsTrade(r) THEN "record" ELSE "commit")
           /\ UNCHANGED <<quote, seen>>
    <2>1. /\ pending'[r] = row
          /\ \A o \in Requests \ {r} : pending'[o] = pending[o]
        BY <1>2 DEF TypeInv, TypeOK
    <2>2. Paying(r)' = Paying(r)
        BY <1>2 DEF Goto, Paying, IsTrade, Side, EntryPrice
    <2> QED BY <1>2, <2>1, <2>2, GotoPrices
<1> QED BY <1>1, <1>2 DEF Store

\* What an update writes: the price of the stored row, or a new average.
LEMMA UpdatedIsWithin ==
    ASSUME TypeInv, Averages, NEW r \in Requests, pc[r] = "flush",
           seen[r] # NoRow, IsStored(r), NEW priceToo \in PriceIsDirty(r)
    PROVE  Within(Updated(r, priceToo).price, PricesPaid(KeyOf(r)) \cup Paying(r))
<1>1. KeyOf(r) \in Keys /\ seen[r] \in Rows /\ positions[KeyOf(r)] \in Rows
    BY DEF TypeInv, TypeOK, Paths, OptionalRows, IsStored
<1>2. PricesPaid(KeyOf(r)) \subseteq Nat
    BY <1>1, PricesPaidType
<1>3. Updated(r, priceToo).price
        = IF priceToo THEN NewPrice(r) ELSE positions[KeyOf(r)].price
    BY <1>1 DEF Updated, Rows
<1>4. Within(positions[KeyOf(r)].price, PricesPaid(KeyOf(r)))
    BY <1>1 DEF Averages, AverageIsWithinPricesPaid, Within, IsStored
<1>5. CASE ~priceToo
    BY <1>3, <1>4, <1>5 DEF Within
<1>6. CASE priceToo /\ ~IsTrade(r)
    <2>1. NewPrice(r) = Ticks(EntryPrice(r)) /\ Ticks(EntryPrice(r)) \in Nat
        BY <1>6, QuoteType DEF NewPrice, TypeInv
    <2> QED BY <1>3, <1>6, <2>1 DEF Within, Paying
<1>7. CASE priceToo /\ IsTrade(r)
    <2>1. Paying(r) = {Ticks(quote[r])}
        BY <1>7 DEF PriceIsDirty, Paying, EntryPrice
    <2>2. Within(seen[r].price, PricesPaid(KeyOf(r)))
        BY DEF Averages
    <2> QED BY <1>1, <1>2, <1>3, <1>7, <2>1, <2>2, MergedIsWithin
<1>8. priceToo \in BOOLEAN
    BY DEF PriceIsDirty
<1> QED BY <1>5, <1>6, <1>7, <1>8

LEMMA FlushPrices ==
    ASSUME TypeInv, TypeInv', Averages, NEW r \in Requests, FlushPosition(r)
    PROVE  Averages'
<1>1. pc[r] = "flush"
    BY DEF FlushPosition
<1>2. ASSUME NEW code, Refuse(r, code) PROVE Averages'
    BY <1>2, RefusePrices
<1>3. CASE InsertPosition(r)
    <2> DEFINE row == [id |-> r, quantity |-> job[r].quantity,
                       price |-> Ticks(EntryPrice(r))]
    <2>1. Paying(r) = {row.price}
        BY <1>1, <1>3 DEF Averages, Paying, InsertPosition
    <2>2. row.price \in Nat
        BY QuoteType DEF TypeInv
    <2>3. Within(row.price, PricesPaid(KeyOf(r)) \cup Paying(r))
        BY <2>1, <2>2 DEF Within
    <2>4. Refuse(r, Violation(r)) \/ Store(r, row)
        BY <1>3 DEF InsertPosition
    <2> HIDE DEF row
    <2> QED BY <1>1, <1>2, <2>3, <2>4, StorePrices
<1>4. CASE UpdatePosition(r)
    <2>1. CASE Goto(r, "commit") /\ UNCHANGED <<quote, seen, pending>> /\ ~IsTrade(r)
        <3>1. pending[r] \in {NoRow, NoWrite}
            BY <1>1 DEF Averages
        <3> QED BY <1>1, <2>1, <3>1, GotoPrices
    <2>2. seen[r] # NoRow /\ (IsTrade(r) => NewQuantity(r) # seen[r].quantity)
        BY <1>4, TradesMove DEF UpdatePosition
    <2>3. ASSUME NEW priceToo \in PriceIsDirty(r), IsStored(r),
                 Store(r, Updated(r, priceToo))
          PROVE  Averages'
        BY <1>1, <2>2, <2>3, UpdatedIsWithin, StorePrices
    <2> QED BY <1>2, <1>4, <2>1, <2>2, <2>3 DEF UpdatePosition
<1>5. CASE DeletePosition(r)
    <2>1. pending'[r] \in {NoRow, NoWrite}
        BY <1>1, <1>5 DEF DeletePosition, TypeInv, TypeOK, Averages
    <2> QED BY <1>1, <1>5, <2>1, GotoPrices DEF DeletePosition, TypeInv, TypeOK
<1> QED BY <1>3, <1>4, <1>5 DEF FlushPosition

\* A committed purchase or edit is itself among the prices paid.
LEMMA CommitPays ==
    ASSUME TypeInv, Averages, NEW r \in Requests, Commit(r)
    PROVE  PricesPaid(KeyOf(r)) \cup Paying(r) \subseteq PricesPaid(KeyOf(r))'
<1>1. /\ pc[r] = "commit" /\ pc'[r] \in {"reply", "done"}
      /\ \A o \in Requests \ {r} : pc'[o] = pc[o]
      /\ UNCHANGED <<job, quote>>
      /\ executions' = IF IsTrade(r) THEN executions \cup {Execution(r)} ELSE executions
    BY DEF Commit, LoseConfirmation, Close, TypeInv, TypeOK
<1>2. \A o \in Requests : IsTrade(o)' = IsTrade(o) /\ KeyOf(o)' = KeyOf(o)
    BY <1>1 DEF IsTrade, KeyOf
<1>3. PricesPaid(KeyOf(r)) \subseteq PricesPaid(KeyOf(r))'
    BY <1>1, <1>2 DEF PricesPaid
<1>4. CASE IsTrade(r) /\ Side(r) # "SELL"
    <2>1. Side(r) = "BUY"
        BY <1>1, <1>4 DEF Averages
    <2>2. /\ Execution(r).order.action = "BUY"
          /\ <<Execution(r).order.portfolio, Execution(r).order.symbol>> = KeyOf(r)
          /\ Execution(r).price = Ticks(EntryPrice(r))
          /\ Execution(r) \in executions'
        BY <1>1, <1>4, <2>1 DEF Execution, Recorded, Side, KeyOf, EntryPrice
    <2>3. Ticks(EntryPrice(r)) \in PricesPaid(KeyOf(r))'
        <3> HIDE DEF Execution
        <3> QED BY <1>2, <2>2 DEF PricesPaid
    <2> QED BY <1>3, <2>3 DEF Paying
<1>5. CASE ~IsTrade(r)
    <2>1. Ticks(job[r].price) \in PricesPaid(KeyOf(r))'
        BY <1>1, <1>2, <1>5 DEF PricesPaid
    <2> QED BY <1>3, <1>5, <2>1 DEF Paying, EntryPrice
<1>6. CASE IsTrade(r) /\ Side(r) = "SELL"
    BY <1>3, <1>6 DEF Paying
<1> QED BY <1>4, <1>5, <1>6

LEMMA CommitPrices ==
    ASSUME TypeInv, TypeInv', Averages, NEW r \in Requests, Commit(r)
    PROVE  Averages'
<1>1. /\ pc[r] = "commit" /\ pc'[r] \in {"reply", "done"} /\ pending'[r] = NoWrite
      /\ \A o \in Requests \ {r} : pc'[o] = pc[o] /\ pending'[o] = pending[o]
      /\ UNCHANGED <<job, quote, seen>>
      /\ executions \subseteq executions'
    BY DEF Commit, LoseConfirmation, Close, TypeInv, TypeOK
<1>2. \A o \in Requests :
        pc[o] \in {"reply", "done"} => pc'[o] \in {"reply", "done"}
    BY <1>1
<1>3. \A k \in Keys : PricesPaid(k) \subseteq PricesPaid(k)'
    BY <1>1, <1>2, PricesPaidGrow
<1>4. \A o \in Requests : /\ IsTrade(o)' = IsTrade(o)
                          /\ Side(o)' = Side(o)
                          /\ KeyOf(o)' = KeyOf(o)
                          /\ Paying(o)' = Paying(o)
    BY <1>1 DEF IsTrade, Side, KeyOf, Paying, EntryPrice
<1>5. \A o \in Requests : PricesPaid(KeyOf(o)) \subseteq PricesPaid(KeyOf(o))'
    BY <1>1, <1>2, <1>4 DEF PricesPaid
<1>6. KeyOf(r) \in Keys
    BY <1>1 DEF TypeInv, Paths
<1>7. ASSUME NEW k \in Keys, positions'[k] # NoRow
      PROVE  \E low, high \in PricesPaid(k)' :
                low <= positions'[k].price /\ positions'[k].price <= high
    <2>1. CASE positions'[k] = positions[k]
        BY <1>3, <1>7, <2>1 DEF Averages, AverageIsWithinPricesPaid
    <2>2. CASE positions'[k] # positions[k]
        <3>1. k = KeyOf(r) /\ positions'[k] = pending[r] /\ pending[r] # NoWrite
            BY <1>6, <2>2 DEF Commit, TypeInv, TypeOK
        <3>2. Within(pending[r].price, PricesPaid(KeyOf(r)) \cup Paying(r))
            BY <1>1, <1>7, <3>1 DEF Averages
        <3>3. \E low, high \in PricesPaid(KeyOf(r))' :
                 low <= pending[r].price /\ pending[r].price <= high
            BY <3>2, CommitPays DEF Within
        <3>4. PricesPaid(KeyOf(r))' = PricesPaid(k)'
            BY <1>4, <3>1 DEF PricesPaid
        <3> QED BY <3>1, <3>3, <3>4
    <2> QED BY <2>1, <2>2
<1>8. AverageIsWithinPricesPaid'
    BY <1>7 DEF AverageIsWithinPricesPaid
<1>9. ASSUME NEW o \in Requests
      PROVE  /\ pc'[o] \in {"quote", "load", "select", "flush", "record", "commit"}
                  /\ IsTrade(o)' => Side(o)' \in {"BUY", "SELL"}
             /\ pc'[o] \notin {"record", "commit"} => pending'[o] = NoWrite
             /\ pc'[o] = "flush" /\ seen'[o] = NoRow => Paying(o)' # {}
             /\ pc'[o] \in {"select", "flush"} /\ seen'[o] # NoRow =>
                  Within(seen[o].price, PricesPaid(KeyOf(o)))'
             /\ pc'[o] \in {"record", "commit"} /\ pending'[o] \notin {NoRow, NoWrite} =>
                  Within(pending[o].price, PricesPaid(KeyOf(o)) \cup Paying(o))'
    <2>1. CASE o = r
        BY <1>1, <2>1
    <2>2. CASE o # r
        <3>1. PricesPaid(KeyOf(o)) \cup Paying(o)
                \subseteq (PricesPaid(KeyOf(o)) \cup Paying(o))'
            BY <1>4, <1>5
        <3>2. pc[o] \in {"select", "flush"} /\ seen[o] # NoRow =>
                Within(seen[o].price, PricesPaid(KeyOf(o)))'
            BY <1>1, <1>5, <2>2 DEF Averages, Within
        <3>3. pc[o] \in {"record", "commit"} /\ pending[o] \notin {NoRow, NoWrite} =>
                Within(pending[o].price, PricesPaid(KeyOf(o)) \cup Paying(o))'
            BY <1>1, <2>2, <3>1 DEF Averages, Within
        <3> QED BY <1>1, <1>4, <2>2, <3>2, <3>3 DEF Averages
    <2> QED BY <2>1, <2>2
<1> QED BY <1>8, <1>9 DEF Averages

LEMMA StepPrices ==
    ASSUME TypeInv, TypeInv', Averages, [Next]_vars
    PROVE  Averages'
<1>1. ASSUME NEW r \in Requests, NEW code, Refuse(r, code) PROVE Averages'
    BY <1>1, RefusePrices
<1>2. ASSUME NEW r \in Requests, Send(r) PROVE Averages'
    <2>1. pending[r] = NoWrite
        BY <1>2 DEF Send, Averages
    <2> QED BY <1>2, <2>1, GotoPrices DEF Send
<1>3. ASSUME NEW r \in Requests, CheckIdempotency(r) PROVE Averages'
    <2>1. CASE Replay(r)
        <3>1. /\ pc'[r] = "done" /\ pending'[r] = NoWrite
              /\ \A o \in Requests \ {r} : pc'[o] = pc[o] /\ pending'[o] = pending[o]
              /\ UNCHANGED <<job, quote, seen, positions, executions>>
            BY <2>1 DEF Replay, Close, TypeInv, TypeOK
        <3> QED BY <3>1, QuietPrices
    <2>2. CASE /\ pc[r] = "check" /\ Side(r) \in {"BUY", "SELL"}
               /\ Goto(r, "quote") /\ UNCHANGED <<quote, seen, pending>>
        <3>1. pending[r] = NoWrite
            BY <2>2 DEF Averages
        <3> QED BY <2>2, <3>1, GotoPrices
    <2> QED BY <1>1, <1>3, <2>1, <2>2 DEF CheckIdempotency
<1>4. ASSUME NEW r \in Requests, FetchQuote(r) PROVE Averages'
    <2>1. ASSUME NEW q, quote' = [quote EXCEPT ![r] = q], Goto(r, "load"),
                 UNCHANGED <<seen, pending>>, pc[r] = "quote"
          PROVE  Averages'
        <3>1. /\ pending[r] = NoWrite
              /\ \A o \in Requests \ {r} : quote'[o] = quote[o]
            BY <2>1 DEF Averages, TypeInv, TypeOK
        <3> QED BY <2>1, <3>1, GotoPrices
    <2> QED BY <1>1, <1>4, <2>1 DEF FetchQuote
<1>5. ASSUME NEW r \in Requests, LoadPortfolio(r) PROVE Averages'
    <2>1. CASE /\ pc[r] = "load"
               /\ job[r].portfolio \in DOMAIN Owner
               /\ seen' = [seen EXCEPT ![r] = positions[KeyOf(r)]]
               /\ Goto(r, "select")
               /\ UNCHANGED <<quote, pending>>
        <3>1. /\ pending[r] = NoWrite
              /\ seen'[r] = positions[KeyOf(r)]
              /\ \A o \in Requests \ {r} : seen'[o] = seen[o]
            BY <2>1 DEF Averages, TypeInv, TypeOK
        <3>2. seen'[r] # NoRow => Within(seen'[r].price, PricesPaid(KeyOf(r)))
            BY <2>1, <3>1, KeyIsOwned DEF Averages, AverageIsWithinPricesPaid, Within
        <3> QED BY <2>1, <3>1, <3>2, GotoPrices
    <2> QED BY <1>1, <1>5, <2>1 DEF LoadPortfolio
<1>6. ASSUME NEW r \in Requests, SelectPosition(r) PROVE Averages'
    <2>1. CASE /\ pc[r] = "select"
               /\ ~Oversells(r, Object(r))
               /\ seen' = [seen EXCEPT ![r] = Object(r)]
               /\ Goto(r, "flush")
               /\ UNCHANGED <<quote, pending>>
        <3>1. /\ pending[r] = NoWrite
              /\ seen'[r] = Object(r)
              /\ \A o \in Requests \ {r} : seen'[o] = seen[o]
            BY <2>1 DEF Averages, TypeInv, TypeOK
        <3>2. Object(r) # NoRow => Within(Object(r).price, PricesPaid(KeyOf(r)))
            <4>1. KeyOf(r) \in Keys
                BY <2>1 DEF TypeInv, Paths
            <4> QED BY <2>1, <4>1
                    DEF Object, Averages, AverageIsWithinPricesPaid, Within
        <3>3. Object(r) = NoRow => Paying(r)' # {}
            BY <2>1 DEF Oversells, Paying, IsTrade, Side, Goto
        <3> QED BY <2>1, <3>1, <3>2, <3>3, GotoPrices
    <2> QED BY <1>1, <1>6, <2>1 DEF SelectPosition
<1>7. ASSUME NEW r \in Requests, RecordExecution(r) PROVE Averages'
    <2>1. CASE /\ pc[r] = "record" /\ Goto(r, "commit")
               /\ UNCHANGED <<quote, seen, pending>>
        <3>1. Paying(r)' = Paying(r)
            BY <2>1 DEF Paying, EntryPrice, IsTrade, Side, Goto
        <3>2. pending[r] \notin {NoRow, NoWrite} =>
                Within(pending[r].price, PricesPaid(KeyOf(r)) \cup Paying(r))
            BY <2>1 DEF Averages
        <3> QED BY <2>1, <3>1, <3>2, GotoPrices
    <2> QED BY <1>1, <1>7, <2>1 DEF RecordExecution
<1>8. ASSUME NEW r \in Requests, Reply(r) PROVE Averages'
    <2>1. CASE /\ Close(r, 201)
               /\ UNCHANGED <<job, quote, seen, positions, executions>>
        <3>1. /\ pc'[r] = "done" /\ pending'[r] = NoWrite
              /\ \A o \in Requests \ {r} : pc'[o] = pc[o] /\ pending'[o] = pending[o]
            BY <2>1 DEF Close, TypeInv, TypeOK
        <3> QED BY <2>1, <3>1, QuietPrices
    <2> QED BY <1>1, <1>8, <2>1 DEF Reply
<1>9. ASSUME NEW r \in Requests, DatabaseError(r) \/ Crash(r) PROVE Averages'
    BY <1>1, <1>9 DEF DatabaseError, Crash
<1>10. CASE UNCHANGED vars
    BY <1>10 DEF vars, Averages, AverageIsWithinPricesPaid, Within, PricesPaid, Paying,
                EntryPrice, IsTrade, Side, KeyOf
<1>11. ASSUME NEW r \in Requests, Step(r) PROVE Averages'
    BY <1>3, <1>4, <1>5, <1>6, <1>7, <1>8, <1>11, FlushPrices, CommitPrices DEF Step
<1> QED BY <1>2, <1>9, <1>10, <1>11 DEF Next, Finished

LEMMA InitPrices == Init => Averages
<1> SUFFICES ASSUME Init PROVE Averages
    OBVIOUS
<1>1. ASSUME NEW k \in Keys, positions[k] # NoRow
      PROVE  \E low, high \in PricesPaid(k) :
                low <= positions[k].price /\ positions[k].price <= high
    <2>1. positions[k].price \in PricesPaid(k) /\ positions[k].price \in Nat
        BY <1>1, RowsAssumption DEF Init, PricesPaid, OptionalRows, Rows, Price
    <2> QED BY <2>1
<1>2. AverageIsWithinPricesPaid
    BY <1>1 DEF AverageIsWithinPricesPaid
<1> QED BY <1>2 DEF Init, Averages

\* Whatever races, crashes or is lost, no position has an average entry price
\* outside of what was paid for its shares.
THEOREM AveragesAreTrue == Spec => []AverageIsWithinPricesPaid
<1>1. Averages => AverageIsWithinPricesPaid
    BY DEF Averages
<1>2. TypeInv /\ TypeInv' /\ Averages /\ [Next]_vars => Averages'
    BY StepPrices
<1> QED BY <1>1, <1>2, TypeCorrect, InitPrices, PTL DEF Spec
=============================================================================
