----------------------- MODULE PortfolioHoldingsProofs -----------------------
(***************************************************************************)
(* Theorems about PortfolioHoldings, for every set of requests, every pair *)
(* of limits and every number of connections: types, the unique index, the *)
(* bounds on the overrun of the limits, the counting of additions, and the *)
(* refinement of HoldingsAccount.                                          *)
(***************************************************************************)
EXTENDS PortfolioHoldings, FiniteSetTheorems, TLAPS

PortfolioIds == {p.id : p \in Portfolios}
Codes == {0, 200, 201, 400, 402, 404, 409, 500}

-----------------------------------------------------------------------------
(* Types.  A row that is inserted has the type of a holding only because   *)
(* the portfolio was found before.                                         *)

Paths ==
    \A r \in Requests :
        /\ pc[r] \in {"list", "count", "quote", "charge", "delete"} =>
              found[r] \in PortfolioIds
        /\ pc[r] \in {"insert", "refresh"} /\ job[r].kind = "add" => found[r] \in PortfolioIds
        /\ pc[r] \in {"count", "charge"} => job[r].kind = "add"
        /\ pc[r] \in {"insert", "refresh"} => job[r].kind \in {"create", "add"}
        /\ pc[r] = "delete" => job[r].kind = "remove"

TypeInv == TypeOK /\ Paths

LEMMA JobType ==
    ASSUME TypeOK, NEW r \in Requests
    PROVE  /\ job[r] \in Jobs
           /\ job[r].user \in Users
           /\ job[r].kind = "add" => job[r].symbol \in Symbols
  BY JobsAssumption DEF TypeOK

\* Ending a request keeps the types, whatever tables of the right type it leaves.
LEMMA AnswerType ==
    ASSUME TypeInv, NEW r \in Requests, NEW code \in Codes, Answer(r, code),
           portfolios' \subseteq Portfolios, holdings' \subseteq Holdings,
           trades' \in [Users -> Nat]
    PROVE  TypeInv'
<1> USE DEF TypeInv, Answer
<1>1. TypeOK'
    BY DEF TypeOK, PCs, Codes
<1>2. Paths'
    BY DEF TypeOK, Paths
<1> QED BY <1>1, <1>2

LEMMA RefuseType ==
    ASSUME TypeInv, NEW r \in Requests, NEW code \in Codes, Refuse(r, code)
    PROVE  TypeInv'
  BY AnswerType DEF Refuse, tables, TypeInv, TypeOK

\* Going on keeps them when the label fits the payload and the portfolio found.
LEMMA GotoType ==
    ASSUME TypeInv, NEW r \in Requests, NEW label \in PCs, Goto(r, label),
           found' = found \/ \E i \in PortfolioIds : found' = [found EXCEPT ![r] = i],
           target' = target \/ \E h \in Holdings : target' = [target EXCEPT ![r] = h],
           portfolios' \subseteq Portfolios, holdings' \subseteq Holdings,
           trades' \in [Users -> Nat],
           label \in {"list", "count", "quote", "charge", "delete"} =>
              found'[r] \in PortfolioIds,
           label \in {"insert", "refresh"} /\ job[r].kind = "add" => found'[r] \in PortfolioIds,
           label \in {"count", "charge"} => job[r].kind = "add",
           label \in {"insert", "refresh"} => job[r].kind \in {"create", "add"},
           label = "delete" => job[r].kind = "remove"
    PROVE  TypeInv'
<1>1. /\ pc' = [pc EXCEPT ![r] = label]
      /\ job' = job /\ status' = status
    BY DEF Goto
<1>2. found' \in [Requests -> PortfolioIds \cup {NoRow}]
    BY DEF TypeInv, TypeOK, PortfolioIds
<1>3. target' \in [Requests -> Holdings \cup {NoRow}]
    BY DEF TypeInv, TypeOK
<1>4. TypeOK'
    BY <1>1, <1>2, <1>3 DEF TypeInv, TypeOK, PCs, PortfolioIds
<1>5. \A o \in Requests \ {r} : pc'[o] = pc[o] /\ found'[o] = found[o]
    BY <1>1 DEF TypeInv, TypeOK
<1>6. pc'[r] = label
    BY <1>1 DEF TypeInv, TypeOK
<1>7. Paths'
    BY <1>1, <1>5, <1>6 DEF TypeInv, Paths
<1> QED BY <1>4, <1>7 DEF TypeInv

LEMMA TypeTables ==
    ASSUME TypeInv
    PROVE  /\ portfolios \subseteq Portfolios
           /\ holdings \subseteq Holdings
           /\ trades \in [Users -> Nat]
  BY DEF TypeInv, TypeOK

LEMMA FindType ==
    ASSUME TypeInv, NEW r \in Requests, FindPortfolio(r)
    PROVE  TypeInv'
<1>1. ASSUME NEW code \in {404, 409, 500}, Refuse(r, code)
      PROVE  TypeInv'
    BY <1>1, RefuseType DEF Codes
<1>2. CASE job[r].kind = "create" /\ Goto(r, "insert") /\ UNCHANGED <<found, target, tables>>
    BY <1>2, TypeTables, GotoType DEF PCs, tables
<1>3. ASSUME NEW p \in PortfoliosOf(job[r].user),
             found' = [found EXCEPT ![r] = p.id],
             Goto(r, "list"), UNCHANGED <<target, tables>>
      PROVE  TypeInv'
    <2>1. p.id \in PortfolioIds
        BY TypeTables DEF PortfoliosOf, PortfolioIds
    <2>2. found'[r] \in PortfolioIds
        BY <1>3, <2>1 DEF TypeInv, TypeOK
    <2> QED BY <1>3, <2>1, <2>2, TypeTables, GotoType DEF PCs, tables
<1> QED BY <1>1, <1>2, <1>3 DEF FindPortfolio

LEMMA ListType ==
    ASSUME TypeInv, NEW r \in Requests, ListHoldings(r)
    PROVE  TypeInv'
<1>1. ASSUME NEW code \in {200, 400, 404, 409}, Refuse(r, code)
      PROVE  TypeInv'
    BY <1>1, RefuseType DEF Codes
<1>2. found[r] \in PortfolioIds
    BY DEF ListHoldings, TypeInv, Paths
<1>3. ASSUME NEW label \in {"quote", "count"}, label = "count" => job[r].kind = "add",
             Goto(r, label), UNCHANGED <<found, target, tables>>
      PROVE  TypeInv'
    BY <1>2, <1>3, TypeTables, GotoType DEF PCs, tables
<1>4. ASSUME job[r].kind = "remove", NEW h \in HoldingsOf(found[r]),
             target' = [target EXCEPT ![r] = h],
             Goto(r, "delete"), UNCHANGED <<found, tables>>
      PROVE  TypeInv'
    <2>1. h \in Holdings
        BY TypeTables DEF HoldingsOf
    <2> QED BY <1>2, <1>4, <2>1, TypeTables, GotoType DEF PCs, tables
<1> QED BY <1>1, <1>3, <1>4 DEF ListHoldings

LEMMA CountType ==
    ASSUME TypeInv, NEW r \in Requests, CountTrades(r)
    PROVE  TypeInv'
<1>1. CASE Refuse(r, 402)
    BY <1>1, RefuseType DEF Codes
<1>2. CASE Goto(r, "quote") /\ UNCHANGED <<found, target, tables>>
    <2>1. found'[r] \in PortfolioIds
        BY <1>2 DEF CountTrades, TypeInv, Paths
    <2> QED BY <1>2, <2>1, TypeTables, GotoType DEF PCs, tables
<1> QED BY <1>1, <1>2 DEF CountTrades

LEMMA QuoteType ==
    ASSUME TypeInv, NEW r \in Requests, FetchQuote(r)
    PROVE  TypeInv'
<1>1. ASSUME NEW code \in {200, 400}, Refuse(r, code)
      PROVE  TypeInv'
    BY <1>1, RefuseType DEF Codes
<1>2. CASE job[r].kind = "add" /\ Goto(r, "insert") /\ UNCHANGED <<found, target, tables>>
    <2>1. found'[r] \in PortfolioIds
        BY <1>2 DEF FetchQuote, TypeInv, Paths
    <2> QED BY <1>2, <2>1, TypeTables, GotoType DEF PCs, tables
<1> QED BY <1>1, <1>2 DEF FetchQuote

LEMMA InsertPortfolioType ==
    ASSUME TypeInv, NEW r \in Requests, InsertPortfolio(r)
    PROVE  TypeInv'
<1>1. /\ portfolios' \subseteq Portfolios
      /\ holdings' \subseteq Holdings
      /\ trades' \in [Users -> Nat]
    BY TypeTables, JobType DEF InsertPortfolio, Portfolios, TypeInv
<1>2. CASE Goto(r, "refresh") /\ UNCHANGED <<found, target>>
    <2>1. job[r].kind = "create"
        BY DEF InsertPortfolio
    <2> QED BY <1>1, <1>2, <2>1, GotoType DEF PCs
<1>3. CASE LoseConfirmation(r)
    BY <1>1, <1>3, AnswerType DEF LoseConfirmation, Codes
<1> QED BY <1>2, <1>3 DEF InsertPortfolio

NewHolding(r) == [id |-> r, portfolio |-> found[r], symbol |-> job[r].symbol]

LEMMA NewHoldingType ==
    ASSUME TypeInv, NEW r \in Requests, InsertHolding(r)
    PROVE  NewHolding(r) \in Holdings
<1>1. found[r] \in PortfolioIds
    BY DEF InsertHolding, TypeInv, Paths
<1>2. job[r].symbol \in Symbols
    BY JobType DEF InsertHolding, TypeInv
<1> QED BY <1>1, <1>2 DEF NewHolding, Holdings, PortfolioIds

\* The two outcomes of the insert of a holding.
LEMMA InsertHoldingCases ==
    ASSUME NEW r \in Requests, InsertHolding(r)
    PROVE  \/ Refuse(r, 500)
           \/ /\ ~IsTaken(found[r], job[r].symbol)
              /\ holdings' = holdings \cup {NewHolding(r)}
              /\ UNCHANGED <<portfolios, trades>>
              /\ \/ /\ target' = [target EXCEPT ![r] = NewHolding(r)]
                    /\ Goto(r, "refresh")
                    /\ UNCHANGED found
                 \/ LoseConfirmation(r)
  BY DEF InsertHolding, NewHolding

LEMMA InsertHoldingType ==
    ASSUME TypeInv, NEW r \in Requests, InsertHolding(r)
    PROVE  TypeInv'
<1>1. CASE Refuse(r, 500)
    BY <1>1, RefuseType DEF Codes
<1>2. CASE /\ holdings' = holdings \cup {NewHolding(r)}
           /\ UNCHANGED <<portfolios, trades>>
           /\ \/ /\ target' = [target EXCEPT ![r] = NewHolding(r)]
                 /\ Goto(r, "refresh")
                 /\ UNCHANGED found
              \/ LoseConfirmation(r)
    <2>1. NewHolding(r) \in Holdings
        BY NewHoldingType
    <2>2. /\ portfolios' \subseteq Portfolios
          /\ holdings' \subseteq Holdings
          /\ trades' \in [Users -> Nat]
        BY <1>2, <2>1, TypeTables
    <2>3. CASE LoseConfirmation(r)
        BY <2>2, <2>3, AnswerType DEF LoseConfirmation, Codes
    <2>4. CASE /\ target' = [target EXCEPT ![r] = NewHolding(r)]
               /\ Goto(r, "refresh")
               /\ UNCHANGED found
        <3>1. job[r].kind = "add" /\ found'[r] \in PortfolioIds
            BY <2>4 DEF InsertHolding, TypeInv, Paths
        <3> QED BY <2>1, <2>2, <2>4, <3>1, GotoType DEF PCs
    <2> QED BY <1>2, <2>3, <2>4
<1> QED BY <1>1, <1>2, InsertHoldingCases

LEMMA RefreshType ==
    ASSUME TypeInv, NEW r \in Requests, Refresh(r)
    PROVE  TypeInv'
<1>1. CASE Refuse(r, 500)
    BY <1>1, RefuseType DEF Codes
<1>2. CASE job[r].kind # "add" /\ Goto(r, "reply") /\ UNCHANGED <<found, target, tables>>
    BY <1>2, TypeTables, GotoType DEF PCs, tables
<1>3. CASE job[r].kind = "add" /\ Goto(r, "charge") /\ UNCHANGED <<found, target, tables>>
    <2>1. found'[r] \in PortfolioIds
        BY <1>3 DEF Refresh, TypeInv, Paths
    <2> QED BY <1>3, <2>1, TypeTables, GotoType DEF PCs, tables
<1> QED BY <1>1, <1>2, <1>3 DEF Refresh

LEMMA ChargeType ==
    ASSUME TypeInv, NEW r \in Requests, ChargeTrade(r)
    PROVE  TypeInv'
<1>1. /\ portfolios' \subseteq Portfolios
      /\ holdings' \subseteq Holdings
      /\ trades' \in [Users -> Nat]
    BY TypeTables, JobType DEF ChargeTrade, TypeInv
<1>2. CASE Goto(r, "reply") /\ UNCHANGED <<found, target>>
    BY <1>1, <1>2, GotoType DEF PCs
<1>3. CASE LoseConfirmation(r)
    BY <1>1, <1>3, AnswerType DEF LoseConfirmation, Codes
<1> QED BY <1>2, <1>3 DEF ChargeTrade

LEMMA DeleteType ==
    ASSUME TypeInv, NEW r \in Requests, DeleteHolding(r)
    PROVE  TypeInv'
<1>1. /\ portfolios' \subseteq Portfolios
      /\ holdings' \subseteq Holdings
      /\ trades' \in [Users -> Nat]
    BY TypeTables DEF DeleteHolding
<1>2. CASE Goto(r, "reply") /\ UNCHANGED <<found, target>>
    BY <1>1, <1>2, GotoType DEF PCs
<1>3. CASE LoseConfirmation(r)
    BY <1>1, <1>3, AnswerType DEF LoseConfirmation, Codes
<1> QED BY <1>2, <1>3 DEF DeleteHolding

LEMMA StepType == TypeInv /\ [Next]_vars => TypeInv'
<1> SUFFICES ASSUME TypeInv, [Next]_vars PROVE TypeInv'
    OBVIOUS
<1>1. ASSUME NEW r \in Requests, Send(r)
      PROVE  TypeInv'
    BY <1>1, TypeTables, GotoType DEF Send, PCs, tables
<1>2. ASSUME NEW r \in Requests, Step(r)
      PROVE  TypeInv'
    <2>1. CASE Reply(r)
        BY <2>1, RefuseType DEF Reply, Codes
    <2> QED BY <1>2, <2>1, FindType, ListType, CountType, QuoteType,
               InsertPortfolioType, InsertHoldingType, RefreshType, ChargeType,
               DeleteType DEF Step
<1>3. ASSUME NEW r \in Requests, DatabaseError(r) \/ Crash(r)
      PROVE  TypeInv'
    BY <1>3, RefuseType DEF DatabaseError, Crash, Codes
<1>4. CASE UNCHANGED vars
    BY <1>4 DEF vars, local, tables, TypeInv, TypeOK, Paths
<1> QED BY <1>1, <1>2, <1>3, <1>4 DEF Next, Finished

LEMMA InitType == Init => TypeInv
<1> SUFFICES ASSUME Init PROVE TypeInv
    OBVIOUS
<1>1. TypeOK
    BY RowsAssumption DEF Init, TypeOK, PCs, Portfolios, Holdings
<1>2. Paths
    BY DEF Init, Paths
<1> QED BY <1>1, <1>2 DEF TypeInv

LEMMA TypesAreCorrect == Spec => []TypeInv
  BY InitType, StepType, PTL DEF Spec

\* Every row and every local has the type of its column.
THEOREM HoldingTypes == Spec => []TypeOK
<1>1. TypeInv => TypeOK
    BY DEF TypeInv
<1> QED BY <1>1, TypesAreCorrect, PTL

-----------------------------------------------------------------------------
(* The unique index.                                                       *)

LEMMA StepDistinct ==
    ASSUME HoldingsAreDistinct, [Next]_vars
    PROVE  HoldingsAreDistinct'
<1>1. ASSUME holdings' \subseteq holdings
      PROVE  HoldingsAreDistinct'
    BY <1>1 DEF HoldingsAreDistinct
<1>2. ASSUME NEW r \in Requests, InsertHolding(r)
      PROVE  HoldingsAreDistinct'
    <2>1. CASE Refuse(r, 500)
        BY <1>1, <2>1 DEF Refuse, tables
    <2>2. CASE /\ ~IsTaken(found[r], job[r].symbol)
               /\ holdings' = holdings \cup {NewHolding(r)}
        BY <2>2 DEF HoldingsAreDistinct, IsTaken, HoldingsOf, NewHolding
    <2> QED BY <1>2, <2>1, <2>2, InsertHoldingCases
<1>3. ASSUME NEW r \in Requests, Send(r) \/ Step(r) \/ DatabaseError(r) \/ Crash(r),
             ~InsertHolding(r)
      PROVE  holdings' \subseteq holdings
    BY <1>3 DEF Send, Step, DatabaseError, Crash, Refuse, tables, FindPortfolio,
                ListHoldings, CountTrades, FetchQuote, InsertPortfolio, Refresh,
                ChargeTrade, DeleteHolding, Reply
<1>4. CASE UNCHANGED vars
    BY <1>1, <1>4 DEF vars, tables
<1> QED BY <1>1, <1>2, <1>3, <1>4 DEF Next, Finished

\* However requests race to add and to remove it, a stock is in a portfolio at
\* most once.
THEOREM StocksAreDistinct == Spec => []HoldingsAreDistinct
<1>1. Init => HoldingsAreDistinct
    BY OpeningAssumption DEF Init, HoldingsAreDistinct
<1> QED BY <1>1, StepDistinct, PTL DEF Spec

-----------------------------------------------------------------------------
(* The overrun of the limit.  Each holding of a portfolio above the limit   *)
(* comes from a request that had passed the check while others had passed   *)
(* it too and were not yet done; these all hold connections.                *)

Sessions == {r \in Requests : InTransaction(r)}

Pool == IsFiniteSet(Sessions) /\ Cardinality(Sessions) <= Connections

\* The holdings of a portfolio and the additions that have passed the check.
Room ==
    /\ IsFiniteSet(holdings)
    /\ \A i \in PortfolioIds :
        Cardinality(HoldingsOf(i)) + Cardinality(Approved(i)) < MaxHoldings + Connections

LEMMA OneMore ==
    ASSUME NEW S, NEW x, IsFiniteSet(S)
    PROVE  /\ IsFiniteSet(S \cup {x})
           /\ Cardinality(S \cup {x}) \in Nat
           /\ Cardinality(S \cup {x}) <= Cardinality(S) + 1
<1>1. Cardinality(S) \in Nat
    BY FS_CardinalityType
<1>2. /\ IsFiniteSet(S \cup {x})
      /\ Cardinality(S \cup {x}) \in {Cardinality(S), Cardinality(S) + 1}
    BY FS_AddElement
<1> QED BY <1>1, <1>2

LEMMA ApprovedAreSessions ==
    ASSUME NEW i
    PROVE  Approved(i) \subseteq Sessions
  BY DEF Approved, Sessions, InTransaction

\* A step of r that opens a transaction finds a free connection.
LEMMA PoolStep ==
    ASSUME Pool, NEW r \in Requests, \A o \in Requests \ {r} : pc'[o] = pc[o],
           InTransaction(r)' => InTransaction(r) \/ FreeConnection
    PROVE  Pool'
<1>1. Sessions' \subseteq Sessions \cup {r}
    BY DEF Sessions, InTransaction
<1>2. CASE InTransaction(r)' /\ ~InTransaction(r)
    <2>1. IsFiniteSet(Sessions) /\ Cardinality(Sessions) < Connections
        BY <1>2 DEF Pool, FreeConnection, Sessions
    <2>2. /\ IsFiniteSet(Sessions \cup {r})
          /\ Cardinality(Sessions \cup {r}) <= Cardinality(Sessions) + 1
        BY <2>1, OneMore
    <2>3. /\ IsFiniteSet(Sessions')
          /\ Cardinality(Sessions') <= Cardinality(Sessions \cup {r})
        BY <1>1, <2>2, FS_Subset
    <2>4. /\ Cardinality(Sessions) \in Nat
          /\ Cardinality(Sessions') \in Nat
          /\ Cardinality(Sessions \cup {r}) \in Nat
        BY <2>1, <2>2, <2>3, FS_CardinalityType
    <2> QED BY <2>1, <2>2, <2>3, <2>4, LimitsAssumption DEF Pool
<1>3. CASE InTransaction(r)' => InTransaction(r)
    <2>1. Sessions' \subseteq Sessions
        BY <1>3 DEF Sessions, InTransaction
    <2>2. IsFiniteSet(Sessions') /\ Cardinality(Sessions') <= Cardinality(Sessions)
        BY <2>1, FS_Subset DEF Pool
    <2>3. Cardinality(Sessions) \in Nat /\ Cardinality(Sessions') \in Nat
        BY <2>2, FS_CardinalityType DEF Pool
    <2> QED BY <2>2, <2>3, LimitsAssumption DEF Pool
<1> QED BY <1>2, <1>3

\* A step that adds no holding, and that approves r at most when there is room.
LEMMA QuietRoom ==
    ASSUME Room, Pool, Pool', NEW r \in Requests, UNCHANGED job, holdings' \subseteq holdings,
           \A o \in Requests \ {r} : pc'[o] = pc[o] /\ found'[o] = found[o],
           \A i \in PortfolioIds : r \in Approved(i)' =>
              r \in Approved(i) \/ Cardinality(HoldingsOf(i)) < MaxHoldings
    PROVE  Room'
<1>1. IsFiniteSet(holdings')
    BY FS_Subset DEF Room
<1>2. ASSUME NEW i \in PortfolioIds
      PROVE  Cardinality(HoldingsOf(i)') + Cardinality(Approved(i)')
                < MaxHoldings + Connections
    <2>1. /\ IsFiniteSet(HoldingsOf(i)) /\ IsFiniteSet(Approved(i))
          /\ Cardinality(HoldingsOf(i)) \in Nat /\ Cardinality(Approved(i)) \in Nat
        BY FS_Subset, FS_CardinalityType, ApprovedAreSessions DEF Room, Pool, HoldingsOf
    <2>2. HoldingsOf(i)' \subseteq HoldingsOf(i)
        BY DEF HoldingsOf
    <2>3. /\ Cardinality(HoldingsOf(i)') \in Nat
          /\ Cardinality(HoldingsOf(i)') <= Cardinality(HoldingsOf(i))
        BY <2>1, <2>2, FS_Subset, FS_CardinalityType
    <2>4. CASE r \in Approved(i)' /\ r \notin Approved(i)
        <3>1. Approved(i)' \subseteq Sessions'
            BY DEF Approved, Sessions, InTransaction
        <3>2. IsFiniteSet(Sessions') /\ Cardinality(Sessions') <= Connections
            BY DEF Pool
        <3>3. /\ Cardinality(Approved(i)') \in Nat
              /\ Cardinality(Approved(i)') <= Connections
            BY <3>1, <3>2, FS_Subset, FS_CardinalityType, LimitsAssumption
        <3>4. Cardinality(HoldingsOf(i)) < MaxHoldings
            BY <2>4
        <3> QED BY <2>1, <2>3, <3>3, <3>4, LimitsAssumption
    <2>5. CASE r \in Approved(i)' => r \in Approved(i)
        <3>1. Approved(i)' \subseteq Approved(i)
            BY <2>5 DEF Approved
        <3>2. /\ Cardinality(Approved(i)') \in Nat
              /\ Cardinality(Approved(i)') <= Cardinality(Approved(i))
            BY <2>1, <3>1, FS_Subset, FS_CardinalityType
        <3> QED BY <2>1, <2>3, <3>2, LimitsAssumption DEF Room
    <2> QED BY <2>4, <2>5
<1> QED BY <1>1, <1>2 DEF Room

\* An insert moves r from the approved additions to the holdings.
LEMMA InsertRoom ==
    ASSUME TypeInv, Room, Pool, NEW r \in Requests, pc[r] = "insert", job[r].kind = "add",
           holdings' = holdings \cup {NewHolding(r)}, UNCHANGED <<job, found>>,
           \A o \in Requests \ {r} : pc'[o] = pc[o],
           pc'[r] \in {"refresh", "done"}
    PROVE  Room'
<1>1. IsFiniteSet(holdings')
    BY FS_AddElement DEF Room
<1>2. ASSUME NEW i \in PortfolioIds
      PROVE  Cardinality(HoldingsOf(i)') + Cardinality(Approved(i)')
                < MaxHoldings + Connections
    <2>1. /\ IsFiniteSet(HoldingsOf(i)) /\ IsFiniteSet(Approved(i))
          /\ Cardinality(HoldingsOf(i)) \in Nat /\ Cardinality(Approved(i)) \in Nat
        BY FS_Subset, FS_CardinalityType, ApprovedAreSessions DEF Room, Pool, HoldingsOf
    <2>2. CASE found[r] = i
        <3>1. HoldingsOf(i)' = HoldingsOf(i) \cup {NewHolding(r)}
            BY <2>2 DEF HoldingsOf, NewHolding
        <3>2. r \in Approved(i) /\ Approved(i)' = Approved(i) \ {r}
            BY <2>2 DEF Approved
        <3>3. /\ Cardinality(HoldingsOf(i)') \in Nat
              /\ Cardinality(HoldingsOf(i)') <= Cardinality(HoldingsOf(i)) + 1
            BY <2>1, <3>1, OneMore
        <3>4. Cardinality(Approved(i)') = Cardinality(Approved(i)) - 1
            BY <2>1, <3>2, FS_RemoveElement
        <3> QED BY <2>1, <3>3, <3>4, LimitsAssumption DEF Room
    <2>3. CASE found[r] # i
        <3>1. HoldingsOf(i)' = HoldingsOf(i)
            BY <2>3 DEF HoldingsOf, NewHolding
        <3>2. Approved(i)' = Approved(i)
            BY <2>3 DEF Approved
        <3> QED BY <3>1, <3>2 DEF Room
    <2> QED BY <2>2, <2>3
<1> QED BY <1>1, <1>2 DEF Room
LEMMA AnswerRoom ==
    ASSUME TypeInv, Pool, Room, NEW r \in Requests, NEW code, Answer(r, code),
           holdings' \subseteq holdings
    PROVE  Pool' /\ Room'
<1>1. /\ pc'[r] = "done"
      /\ \A o \in Requests \ {r} : pc'[o] = pc[o] /\ found'[o] = found[o]
      /\ UNCHANGED job
    BY DEF Answer, TypeInv, TypeOK
<1>2. ~InTransaction(r)'
    BY <1>1 DEF InTransaction
<1>3. Pool'
    BY <1>1, <1>2, PoolStep
<1>4. \A i \in PortfolioIds : r \notin Approved(i)'
    BY <1>1 DEF Approved
<1> QED BY <1>1, <1>3, <1>4, QuietRoom

LEMMA GotoRoom ==
    ASSUME TypeInv, Pool, Room, NEW r \in Requests, NEW label \in PCs, Goto(r, label),
           holdings' \subseteq holdings,
           found' = found \/ \E i \in PortfolioIds : found' = [found EXCEPT ![r] = i],
           label \in {"list", "count", "quote", "insert", "charge", "delete"} =>
              InTransaction(r) \/ FreeConnection,
           label \in {"count", "quote", "insert"} /\ job[r].kind = "add" =>
              /\ found' = found
              /\ \/ pc[r] \in {"count", "quote", "insert"}
                 \/ Cardinality(HoldingsOf(found[r])) < MaxHoldings
    PROVE  Pool' /\ Room'
<1>1. /\ pc'[r] = label
      /\ \A o \in Requests \ {r} : pc'[o] = pc[o] /\ found'[o] = found[o]
      /\ UNCHANGED job
    BY DEF Goto, TypeInv, TypeOK
<1>2. Pool'
    BY <1>1, PoolStep DEF InTransaction
<1>3. ASSUME NEW i \in PortfolioIds, r \in Approved(i)'
      PROVE  r \in Approved(i) \/ Cardinality(HoldingsOf(i)) < MaxHoldings
    BY <1>1, <1>3 DEF Approved
<1> QED BY <1>1, <1>2, <1>3, QuietRoom

LEMMA FindRoom ==
    ASSUME TypeInv, Pool, Room, NEW r \in Requests, FindPortfolio(r)
    PROVE  Pool' /\ Room'
<1>1. ASSUME NEW code, Refuse(r, code)
      PROVE  Pool' /\ Room'
    BY <1>1, AnswerRoom DEF Refuse, tables
<1>2. CASE /\ job[r].kind = "create" /\ FreeConnection
           /\ Goto(r, "insert") /\ UNCHANGED <<found, target, tables>>
    BY <1>2, GotoRoom DEF PCs, tables
<1>3. ASSUME NEW p \in PortfoliosOf(job[r].user), FreeConnection,
             found' = [found EXCEPT ![r] = p.id],
             Goto(r, "list"), UNCHANGED <<target, tables>>
      PROVE  Pool' /\ Room'
    <2>1. p.id \in PortfolioIds
        BY TypeTables DEF PortfoliosOf, PortfolioIds
    <2> QED BY <1>3, <2>1, GotoRoom DEF PCs, tables
<1> QED BY <1>1, <1>2, <1>3 DEF FindPortfolio

LEMMA ListRoom ==
    ASSUME TypeInv, Pool, Room, NEW r \in Requests, ListHoldings(r)
    PROVE  Pool' /\ Room'
<1>1. ASSUME NEW code, Refuse(r, code)
      PROVE  Pool' /\ Room'
    BY <1>1, AnswerRoom DEF Refuse, tables
<1>2. InTransaction(r)
    BY DEF ListHoldings, InTransaction
<1>3. CASE job[r].kind = "get" /\ Goto(r, "quote") /\ UNCHANGED <<found, target, tables>>
    BY <1>2, <1>3, GotoRoom DEF PCs, tables
<1>4. CASE /\ job[r].kind = "add" /\ ~IsFull(HoldingsOf(found[r]))
           /\ Goto(r, "count") /\ UNCHANGED <<found, target, tables>>
    <2>1. IsFiniteSet(HoldingsOf(found[r]))
        BY FS_Subset DEF Room, HoldingsOf
    <2>2. Cardinality(HoldingsOf(found[r])) < MaxHoldings
        BY <1>4, <2>1, FS_CardinalityType, LimitsAssumption DEF IsFull
    <2> QED BY <1>2, <1>4, <2>2, GotoRoom DEF PCs, tables
<1>5. CASE Goto(r, "delete") /\ UNCHANGED <<found, tables>>
    BY <1>2, <1>5, GotoRoom DEF PCs, tables
<1> QED BY <1>1, <1>3, <1>4, <1>5 DEF ListHoldings

LEMMA InsertHoldingRoom ==
    ASSUME TypeInv, Pool, Room, NEW r \in Requests, InsertHolding(r)
    PROVE  Pool' /\ Room'
<1>1. CASE Refuse(r, 500)
    BY <1>1, AnswerRoom DEF Refuse, tables
<1>2. CASE /\ holdings' = holdings \cup {NewHolding(r)}
           /\ \/ Goto(r, "refresh") /\ UNCHANGED found
              \/ LoseConfirmation(r)
    <2>1. /\ pc'[r] \in {"refresh", "done"}
          /\ \A o \in Requests \ {r} : pc'[o] = pc[o]
          /\ UNCHANGED <<job, found>>
        BY <1>2 DEF LoseConfirmation, Goto, Answer, TypeInv, TypeOK
    <2>2. Pool'
        BY <2>1, PoolStep DEF InTransaction
    <2>3. Room'
        BY <1>2, <2>1, InsertRoom DEF InsertHolding
    <2> QED BY <2>2, <2>3
<1> QED BY <1>1, <1>2, InsertHoldingCases

LEMMA StepRoom ==
    ASSUME TypeInv, Pool, Room, [Next]_vars
    PROVE  Pool' /\ Room'
<1>1. ASSUME NEW r \in Requests, NEW code, Refuse(r, code)
      PROVE  Pool' /\ Room'
    BY <1>1, AnswerRoom DEF Refuse, tables
<1>2. ASSUME NEW r \in Requests, Send(r)
      PROVE  Pool' /\ Room'
    BY <1>2, GotoRoom DEF Send, PCs, tables
<1>3. ASSUME NEW r \in Requests, CountTrades(r) \/ FetchQuote(r)
      PROVE  Pool' /\ Room'
    <2>1. InTransaction(r) /\ pc[r] \in {"count", "quote"}
        BY <1>3 DEF CountTrades, FetchQuote, InTransaction
    <2>2. ASSUME NEW label \in {"quote", "insert"}, Goto(r, label),
                 UNCHANGED <<found, target, tables>>
          PROVE  Pool' /\ Room'
        BY <2>1, <2>2, GotoRoom DEF PCs, tables
    <2> QED BY <1>1, <1>3, <2>2 DEF CountTrades, FetchQuote
<1>4. ASSUME NEW r \in Requests, InsertPortfolio(r) \/ ChargeTrade(r) \/ DeleteHolding(r)
      PROVE  Pool' /\ Room'
    <2>1. holdings' \subseteq holdings
        BY <1>4 DEF InsertPortfolio, ChargeTrade, DeleteHolding
    <2>2. CASE LoseConfirmation(r)
        BY <2>1, <2>2, AnswerRoom DEF LoseConfirmation
    <2>3. ASSUME NEW label \in {"refresh", "reply"}, Goto(r, label), UNCHANGED found
          PROVE  Pool' /\ Room'
        BY <2>1, <2>3, GotoRoom DEF PCs
    <2> QED BY <1>4, <2>2, <2>3 DEF InsertPortfolio, ChargeTrade, DeleteHolding
<1>5. ASSUME NEW r \in Requests, Refresh(r)
      PROVE  Pool' /\ Room'
    <2>1. ASSUME NEW label \in {"charge", "reply"}, FreeConnection, Goto(r, label),
                 UNCHANGED <<found, target, tables>>
          PROVE  Pool' /\ Room'
        BY <2>1, GotoRoom DEF PCs, tables
    <2> QED BY <1>1, <1>5, <2>1 DEF Refresh
<1>6. ASSUME NEW r \in Requests, Reply(r) \/ DatabaseError(r) \/ Crash(r)
      PROVE  Pool' /\ Room'
    BY <1>1, <1>6 DEF Reply, DatabaseError, Crash
<1>7. CASE UNCHANGED vars
    BY <1>7 DEF vars, local, tables, Pool, Sessions, InTransaction, Room, HoldingsOf, Approved
<1> QED BY <1>2, <1>3, <1>4, <1>5, <1>6, <1>7, FindRoom, ListRoom, InsertHoldingRoom
        DEF Next, Step, Finished

LEMMA InitRoom == Init => Pool /\ Room
<1> SUFFICES ASSUME Init PROVE Pool /\ Room
    OBVIOUS
<1>1. Sessions = {} /\ \A i : Approved(i) = {}
    BY DEF Init, Sessions, InTransaction, Approved
<1>2. Pool
    BY <1>1, FS_EmptySet, LimitsAssumption DEF Pool
<1>3. ASSUME NEW i \in PortfolioIds
      PROVE  Cardinality(HoldingsOf(i)) + Cardinality(Approved(i)) < MaxHoldings + Connections
    <2>1. CASE i \in {p.id : p \in OpenPortfolios}
        <3>1. Cardinality(HoldingsOf(i)) <= MaxHoldings
            BY <2>1, OpeningAssumption DEF Init, HoldingsOf
        <3>2. Cardinality(HoldingsOf(i)) \in Nat
            BY RowsAssumption, FS_Subset, FS_CardinalityType DEF Init, HoldingsOf
        <3> QED BY <1>1, <3>1, <3>2, FS_EmptySet, LimitsAssumption
    <2>2. CASE i \notin {p.id : p \in OpenPortfolios}
        <3>1. HoldingsOf(i) = {}
            BY <2>2, RowsAssumption DEF Init, HoldingsOf
        <3> QED BY <1>1, <3>1, FS_EmptySet, LimitsAssumption
    <2> QED BY <2>1, <2>2
<1> QED BY <1>2, <1>3, RowsAssumption DEF Room, Init

\* However many additions race past the check of the limit, a portfolio has
\* fewer holdings than the limit and the connections together.
THEOREM OverrunIsLess == Spec => []OverrunIsBounded
<1>1. TypeInv /\ Pool /\ Room => OverrunIsBounded
    <2> SUFFICES ASSUME TypeInv, Pool, Room, NEW p \in portfolios
                 PROVE  Cardinality(HoldingsOf(p.id)) < MaxHoldings + Connections
        BY DEF OverrunIsBounded
    <2>1. p.id \in PortfolioIds
        BY TypeTables DEF PortfolioIds
    <2>2. /\ Cardinality(HoldingsOf(p.id)) \in Nat
          /\ Cardinality(Approved(p.id)) \in Nat
        BY FS_Subset, FS_CardinalityType, ApprovedAreSessions DEF Room, Pool, HoldingsOf
    <2> QED BY <2>1, <2>2, LimitsAssumption DEF Room
<1>2. Init => Pool /\ Room
    BY InitRoom
<1>3. TypeInv /\ Pool /\ Room /\ [Next]_vars => Pool' /\ Room'
    BY StepRoom
<1> QED BY <1>1, <1>2, <1>3, TypesAreCorrect, PTL DEF Spec
-----------------------------------------------------------------------------
(* The counting of additions.  The count of a user lies between the         *)
(* additions that were surely counted and those that may have been.  A      *)
(* request joins the first set only when it is counted, and never leaves    *)
(* the second.                                                              *)

Surely(u) == {r \in Adding(u) : pc[r] = "reply" \/ status[r] = 201}

Maybe(u) ==
    {r \in Adding(u) : pc[r] = "reply" \/ (pc[r] = "done" /\ status[r] \in {0, 201, 500})}

Started == {r \in Requests : pc[r] # "idle"}

Between ==
    \A u \in Registered :
        /\ Cardinality(Surely(u)) <= trades[u] - OpenTrades[u]
        /\ trades[u] - OpenTrades[u] <= Cardinality(Maybe(u))

Count ==
    /\ IsFiniteSet(Started)
    /\ \A r \in Requests : status[r] # 0 => pc[r] = "done"
    /\ Between

LEMMA CountIsFinite ==
    ASSUME Count, NEW u
    PROVE  /\ IsFiniteSet(Surely(u)) /\ Cardinality(Surely(u)) \in Nat
           /\ IsFiniteSet(Maybe(u)) /\ Cardinality(Maybe(u)) \in Nat
<1>1. Surely(u) \subseteq Started /\ Maybe(u) \subseteq Started
    BY DEF Count, Surely, Maybe, Started, Adding
<1> QED BY <1>1, FS_Subset, FS_CardinalityType DEF Count

LEMMA StartedStep ==
    ASSUME Count, NEW r \in Requests, \A o \in Requests \ {r} : pc'[o] = pc[o]
    PROVE  IsFiniteSet(Started')
<1>1. Started' \subseteq Started \cup {r}
    BY DEF Started
<1>2. IsFiniteSet(Started \cup {r})
    BY FS_AddElement DEF Count
<1> QED BY <1>1, <1>2, FS_Subset

\* A step that counts nothing.
LEMMA QuietCount ==
    ASSUME TypeInv, Count, NEW r \in Requests, UNCHANGED <<job, trades>>,
           \A o \in Requests \ {r} : pc'[o] = pc[o] /\ status'[o] = status[o],
           status'[r] # 0 => pc'[r] = "done",
           \A u \in Registered : /\ r \in Surely(u)' => r \in Surely(u)
                                 /\ r \in Maybe(u) => r \in Maybe(u)'
    PROVE  Count'
<1>1. IsFiniteSet(Started')
    BY StartedStep
<1>2. \A o \in Requests : status'[o] # 0 => pc'[o] = "done"
    BY DEF Count
<1>3. ASSUME NEW u \in Registered
      PROVE  /\ Cardinality(Surely(u)') <= trades'[u] - OpenTrades[u]
             /\ trades'[u] - OpenTrades[u] <= Cardinality(Maybe(u)')
    <2>1. Surely(u)' \subseteq Surely(u) /\ Maybe(u) \subseteq Maybe(u)'
        BY DEF Surely, Maybe, Adding
    <2>2. Maybe(u)' \subseteq Started'
        BY DEF Maybe, Started, Adding
    <2>3. IsFiniteSet(Maybe(u)')
        BY <1>1, <2>2, FS_Subset
    <2>4. /\ Cardinality(Surely(u)') <= Cardinality(Surely(u))
          /\ Cardinality(Maybe(u)) <= Cardinality(Maybe(u)')
          /\ Cardinality(Surely(u)') \in Nat /\ Cardinality(Maybe(u)') \in Nat
        BY <2>1, <2>3, CountIsFinite, FS_Subset, FS_CardinalityType
    <2>5. u \in Users /\ trades[u] \in Nat /\ OpenTrades[u] \in Nat
        BY TypeTables, LimitsAssumption, RowsAssumption
    <2> QED BY <2>4, <2>5, CountIsFinite DEF Count, Between
<1> QED BY <1>1, <1>2, <1>3 DEF Count, Between

LEMMA AnswerCount ==
    ASSUME TypeInv, Count, NEW r \in Requests, NEW code \in Codes, Answer(r, code),
           UNCHANGED trades, pc[r] # "done",
           code = 201 => pc[r] = "reply",
           pc[r] = "reply" /\ job[r].kind = "add" => code \in {0, 201}
    PROVE  Count'
<1>1. /\ pc'[r] = "done" /\ status'[r] = code
      /\ \A o \in Requests \ {r} : pc'[o] = pc[o] /\ status'[o] = status[o]
      /\ UNCHANGED job
    BY DEF Answer, TypeInv, TypeOK
<1>2. \A u \in Registered : /\ r \in Surely(u)' => r \in Surely(u)
                            /\ r \in Maybe(u) => r \in Maybe(u)'
    BY <1>1 DEF Surely, Maybe, Adding
<1> QED BY <1>1, <1>2, QuietCount

LEMMA GotoCount ==
    ASSUME TypeInv, Count, NEW r \in Requests, NEW label \in PCs, Goto(r, label),
           UNCHANGED trades, pc[r] \notin {"reply", "done"}, label # "done",
           label = "reply" => job[r].kind # "add"
    PROVE  Count'
<1>1. /\ pc'[r] = label
      /\ \A o \in Requests \ {r} : pc'[o] = pc[o]
      /\ UNCHANGED <<job, status>>
    BY DEF Goto, TypeInv, TypeOK
<1>2. status[r] = 0
    BY DEF Count
<1>3. \A u \in Registered : /\ r \in Surely(u)' => r \in Surely(u)
                            /\ r \in Maybe(u) => r \in Maybe(u)'
    BY <1>1, <1>2 DEF Surely, Maybe, Adding
<1> QED BY <1>1, <1>2, <1>3, QuietCount

LEMMA ChargeCount ==
    ASSUME TypeInv, Count, NEW r \in Requests, ChargeTrade(r)
    PROVE  Count'
<1>1. /\ pc[r] = "charge" /\ status[r] = 0 /\ job[r].kind = "add"
      /\ UNCHANGED job
      /\ \A o \in Requests \ {r} : pc'[o] = pc[o] /\ status'[o] = status[o]
      /\ \/ pc'[r] = "reply" /\ status'[r] = 0
         \/ pc'[r] = "done" /\ status'[r] = 500
    BY DEF ChargeTrade, LoseConfirmation, Goto, Answer, TypeInv, TypeOK, Paths, Count
<1>2. IsFiniteSet(Started')
    BY <1>1, StartedStep
<1>3. \A o \in Requests : status'[o] # 0 => pc'[o] = "done"
    BY <1>1 DEF Count
<1>4. ASSUME NEW u \in Registered
      PROVE  /\ Cardinality(Surely(u)') <= trades'[u] - OpenTrades[u]
             /\ trades'[u] - OpenTrades[u] <= Cardinality(Maybe(u)')
    <2>1. u \in Users /\ trades[u] \in Nat /\ OpenTrades[u] \in Nat
        BY TypeTables, LimitsAssumption, RowsAssumption
    <2>2. CASE job[r].user = u
        <3>1. trades'[u] = trades[u] + 1
            BY <2>1, <2>2, TypeTables DEF ChargeTrade
        <3>2. Surely(u)' \subseteq Surely(u) \cup {r}
            BY <1>1 DEF Surely, Adding
        <3>3. Maybe(u)' = Maybe(u) \cup {r} /\ r \notin Maybe(u)
            BY <1>1, <2>2 DEF Maybe, Adding
        <3>4. /\ IsFiniteSet(Surely(u) \cup {r})
              /\ Cardinality(Surely(u) \cup {r}) \in Nat
              /\ Cardinality(Surely(u) \cup {r}) <= Cardinality(Surely(u)) + 1
            BY CountIsFinite, OneMore
        <3>5. /\ Cardinality(Surely(u)') <= Cardinality(Surely(u) \cup {r})
              /\ Cardinality(Surely(u)') \in Nat
            BY <3>2, <3>4, FS_Subset, FS_CardinalityType
        <3>6. Cardinality(Maybe(u)') = Cardinality(Maybe(u)) + 1
            BY <3>3, CountIsFinite, FS_AddElement
        <3> QED BY <2>1, <3>1, <3>4, <3>5, <3>6, CountIsFinite DEF Count, Between
    <2>3. CASE job[r].user # u
        <3>1. trades'[u] = trades[u]
            BY <2>1, <2>3, TypeTables DEF ChargeTrade
        <3>2. Surely(u)' = Surely(u) /\ Maybe(u)' = Maybe(u)
            BY <1>1, <2>3 DEF Surely, Maybe, Adding
        <3> QED BY <3>1, <3>2 DEF Count, Between
    <2> QED BY <2>2, <2>3
<1> QED BY <1>2, <1>3, <1>4 DEF Count, Between

LEMMA StepCount ==
    ASSUME TypeInv, Count, [Next]_vars
    PROVE  Count'
<1>1. ASSUME NEW r \in Requests, NEW code \in Codes \ {201}, Refuse(r, code),
             pc[r] \notin {"reply", "done"}
      PROVE  Count'
    BY <1>1, AnswerCount DEF Refuse, tables
<1>2. ASSUME NEW r \in Requests, NEW label \in PCs \ {"reply", "done"},
             Goto(r, label), UNCHANGED trades, pc[r] \notin {"reply", "done"}
      PROVE  Count'
    BY <1>2, GotoCount
<1>3. ASSUME NEW r \in Requests,
             \/ Send(r) \/ FindPortfolio(r) \/ ListHoldings(r) \/ CountTrades(r)
             \/ FetchQuote(r)
      PROVE  Count'
    BY <1>1, <1>2, <1>3
       DEF Send, FindPortfolio, ListHoldings, CountTrades, FetchQuote, tables, PCs, Codes
<1>4. ASSUME NEW r \in Requests,
             \/ InsertPortfolio(r) \/ DeleteHolding(r) \/ Refresh(r)
             \/ InsertHolding(r)
      PROVE  Count'
    <2>1. /\ pc[r] \notin {"reply", "done"}
          /\ pc[r] = "delete" => job[r].kind = "remove"
        BY <1>4 DEF InsertPortfolio, DeleteHolding, Refresh, InsertHolding, TypeInv, Paths
    <2>2. CASE LoseConfirmation(r) /\ UNCHANGED trades
        BY <2>1, <2>2, AnswerCount DEF LoseConfirmation, Codes
    <2>3. CASE Goto(r, "reply") /\ job[r].kind # "add" /\ UNCHANGED trades
        BY <2>1, <2>3, GotoCount DEF PCs
    <2>4. CASE Refuse(r, 500)
        BY <1>1, <2>1, <2>4 DEF Codes
    <2>5. ASSUME NEW label \in {"refresh", "charge"}, Goto(r, label), UNCHANGED trades
          PROVE  Count'
        BY <1>2, <2>1, <2>5 DEF PCs
    <2>6. CASE InsertPortfolio(r)
        BY <2>2, <2>5, <2>6 DEF InsertPortfolio
    <2>7. CASE DeleteHolding(r)
        BY <2>1, <2>2, <2>3, <2>7 DEF DeleteHolding
    <2>8. CASE Refresh(r)
        BY <2>3, <2>4, <2>5, <2>8 DEF Refresh, tables
    <2>9. CASE InsertHolding(r)
        BY <2>2, <2>4, <2>5, <2>9, InsertHoldingCases
    <2> QED BY <1>4, <2>6, <2>7, <2>8, <2>9
<1>5. ASSUME NEW r \in Requests, Reply(r)
      PROVE  Count'
    BY <1>5, AnswerCount DEF Reply, Refuse, tables, Codes
<1>6. ASSUME NEW r \in Requests, DatabaseError(r)
      PROVE  Count'
    BY <1>1, <1>6 DEF DatabaseError, Codes
<1>7. ASSUME NEW r \in Requests, Crash(r)
      PROVE  Count'
    BY <1>7, AnswerCount DEF Crash, Refuse, tables, Codes
<1>8. CASE UNCHANGED vars
    BY <1>8 DEF vars, local, tables, Count, Between, Started, Surely, Maybe, Adding
<1> QED BY <1>3, <1>4, <1>5, <1>6, <1>7, <1>8, ChargeCount DEF Next, Step, Finished

LEMMA InitCount == Init => Count
<1> SUFFICES ASSUME Init PROVE Count
    OBVIOUS
<1>1. Started = {}
    BY DEF Init, Started
<1>2. \A u : Surely(u) = {} /\ Maybe(u) = {}
    BY DEF Init, Surely, Maybe, Adding
<1>3. \A u \in Registered : trades[u] - OpenTrades[u] = 0
    BY LimitsAssumption, RowsAssumption DEF Init
<1>4. \A r \in Requests : status[r] = 0
    BY DEF Init
<1> QED BY <1>1, <1>2, <1>3, <1>4, FS_EmptySet DEF Count, Between

LEMMA CountIsKept == Spec => []Count
<1>1. TypeInv /\ Count /\ [Next]_vars => Count'
    BY StepCount
<1> QED BY <1>1, InitCount, TypesAreCorrect, PTL DEF Spec

\* Whatever races, fails or dies, every addition that was answered 201 is in the
\* count of its user, and none that was refused is.
THEOREM AdditionsAreCounted == Spec => []TradesAreCounted
<1>1. TypeInv /\ Count => TradesAreCounted
    <2> SUFFICES ASSUME TypeInv, Count, NEW u \in Registered
                 PROVE  /\ Cardinality({r \in Adding(u) : status[r] = 201})
                              <= trades[u] - OpenTrades[u]
                        /\ trades[u] - OpenTrades[u] <= Cardinality(Maybe(u))
        BY DEF TradesAreCounted, Maybe
    <2> DEFINE answered == {r \in Adding(u) : status[r] = 201}
    <2>1. answered \subseteq Surely(u)
        BY DEF Surely
    <2>2. Cardinality(answered) \in Nat /\ Cardinality(answered) <= Cardinality(Surely(u))
        BY <2>1, CountIsFinite, FS_Subset, FS_CardinalityType
    <2>3. trades[u] \in Nat /\ OpenTrades[u] \in Nat
        BY TypeTables, LimitsAssumption, RowsAssumption
    <2> QED BY <2>2, <2>3, CountIsFinite DEF Count, Between
<1> QED BY <1>1, CountIsKept, TypesAreCorrect, PTL

-----------------------------------------------------------------------------
(* The overrun of the free additions.  An addition that has read the        *)
(* counter and will increment it has a row in the portfolio of its user or  *)
(* holds a connection, and all of them were made by requests that found     *)
(* room in that one portfolio.                                              *)

\* What a step of r does that matters here.
Moved(r) ==
    /\ UNCHANGED job
    /\ \A o \in Requests \ {r} : /\ pc'[o] = pc[o] /\ found'[o] = found[o]
                                 /\ target'[o] = target[o]
    /\ portfolios \subseteq portfolios'
    /\ \A h \in holdings' :
          h \in holdings \/ (pc[r] = "insert" /\ job[r].kind = "add" /\ h = NewHolding(r))
    /\ \/ UNCHANGED trades
       \/ /\ pc[r] = "charge" /\ pc'[r] \in {"reply", "done"}
          /\ trades' = [trades EXCEPT ![job[r].user] =
                          IF job[r].user \in Registered THEN @ + 1 ELSE @]
    /\ job[r].kind = "add" =>
        /\ pc'[r] = "list" => \E p : /\ PortfoliosOf(job[r].user) = {p}
                                     /\ found'[r] = p.id
        /\ pc'[r] \in {"count", "quote", "insert", "refresh", "charge"}
              => found'[r] = found[r]
        /\ pc'[r] = "count" => /\ pc[r] = "list" /\ UNCHANGED holdings
                               /\ Cardinality(HoldingsOf(found[r])) < MaxHoldings
        /\ pc'[r] = "quote" => /\ pc[r] = "count" /\ UNCHANGED <<holdings, trades>>
                               /\ job[r].user \in Registered \ Pro
                                    => trades[job[r].user] < FreeTrades
        /\ pc'[r] = "insert" => pc[r] = "quote" /\ UNCHANGED holdings
        /\ pc'[r] = "refresh" => pc[r] = "insert" /\ target'[r] = NewHolding(r)
        /\ pc'[r] = "charge" => /\ pc[r] = "refresh" /\ UNCHANGED holdings
                                /\ target[r] \in holdings

LEMMA AnswerMoved ==
    ASSUME TypeInv, NEW r \in Requests, NEW code, Refuse(r, code)
    PROVE  Moved(r)
  BY DEF Refuse, Answer, tables, Moved, TypeInv, TypeOK

LEMMA LoseMoved ==
    ASSUME TypeInv, NEW r \in Requests, LoseConfirmation(r), portfolios \subseteq portfolios',
           \/ pc[r] = "insert" /\ job[r].kind = "add" /\ holdings' = holdings \cup {NewHolding(r)}
           \/ holdings' \subseteq holdings,
           \/ UNCHANGED trades
           \/ /\ pc[r] = "charge"
              /\ trades' = [trades EXCEPT ![job[r].user] =
                              IF job[r].user \in Registered THEN @ + 1 ELSE @]
    PROVE  Moved(r)
  BY DEF LoseConfirmation, Answer, Moved, TypeInv, TypeOK

LEMMA ReadMoved ==
    ASSUME TypeInv, Room, NEW r \in Requests,
           Send(r) \/ FindPortfolio(r) \/ ListHoldings(r) \/ CountTrades(r) \/ FetchQuote(r)
    PROVE  Moved(r)
<1>1. ASSUME NEW code, Refuse(r, code) PROVE Moved(r)
    BY <1>1, AnswerMoved
<1>2. CASE Send(r)
    BY <1>2 DEF Send, Goto, tables, Moved, TypeInv, TypeOK
<1>3. CASE FindPortfolio(r)
    <2>1. CASE /\ job[r].kind = "create" /\ Goto(r, "insert")
               /\ UNCHANGED <<found, target, tables>>
        BY <2>1 DEF Goto, tables, Moved, TypeInv, TypeOK
    <2>2. ASSUME NEW p, PortfoliosOf(job[r].user) = {p},
                 found' = [found EXCEPT ![r] = p.id], Goto(r, "list"),
                 UNCHANGED <<target, tables>>
          PROVE  Moved(r)
        BY <2>2 DEF Goto, tables, Moved, TypeInv, TypeOK
    <2> QED BY <1>1, <1>3, <2>1, <2>2 DEF FindPortfolio
<1>4. CASE ListHoldings(r)
    <2>1. CASE /\ job[r].kind = "get" /\ Goto(r, "quote")
               /\ UNCHANGED <<found, target, tables>>
        BY <2>1 DEF Goto, tables, Moved, TypeInv, TypeOK
    <2>2. CASE /\ job[r].kind = "add" /\ ~IsFull(HoldingsOf(found[r])) /\ Goto(r, "count")
               /\ UNCHANGED <<found, target, tables>>
        <3>1. IsFiniteSet(HoldingsOf(found[r]))
            BY FS_Subset DEF Room, HoldingsOf
        <3>2. Cardinality(HoldingsOf(found[r])) < MaxHoldings
            BY <2>2, <3>1, FS_CardinalityType, LimitsAssumption DEF IsFull
        <3> QED BY <1>4, <2>2, <3>2 DEF ListHoldings, Goto, tables, Moved, TypeInv, TypeOK
    <2>3. ASSUME job[r].kind = "remove", NEW h, target' = [target EXCEPT ![r] = h],
                 Goto(r, "delete"), UNCHANGED <<found, tables>>
          PROVE  Moved(r)
        BY <2>3 DEF Goto, tables, Moved, TypeInv, TypeOK
    <2> QED BY <1>1, <1>4, <2>1, <2>2, <2>3 DEF ListHoldings
<1>5. CASE CountTrades(r)
    <2> DEFINE u == job[r].user
               paid == u \in Registered /\ u \notin Pro /\ trades[u] >= FreeTrades
    <2>1. CASE ~paid /\ Goto(r, "quote") /\ UNCHANGED <<found, target, tables>>
        <3>1. u \in Users /\ trades[u] \in Nat /\ FreeTrades \in Nat
            BY JobType, TypeTables, LimitsAssumption DEF TypeInv
        <3>2. u \in Registered \ Pro => trades[u] < FreeTrades
            BY <2>1, <3>1
        <3> QED BY <1>5, <2>1, <3>2 DEF CountTrades, Goto, tables, Moved, TypeInv, TypeOK
    <2> QED BY <1>1, <1>5, <2>1 DEF CountTrades
<1>6. CASE FetchQuote(r)
    <2>1. CASE Goto(r, "insert") /\ UNCHANGED <<found, target, tables>>
        BY <1>6, <2>1 DEF FetchQuote, Goto, tables, Moved, TypeInv, TypeOK
    <2> QED BY <1>1, <1>6, <2>1 DEF FetchQuote
<1> QED BY <1>2, <1>3, <1>4, <1>5, <1>6

LEMMA WriteMoved ==
    ASSUME TypeInv, NEW r \in Requests,
           InsertPortfolio(r) \/ InsertHolding(r) \/ Refresh(r) \/ ChargeTrade(r)
             \/ DeleteHolding(r) \/ Reply(r) \/ DatabaseError(r) \/ Crash(r)
    PROVE  Moved(r)
<1>1. ASSUME NEW code, Refuse(r, code) PROVE Moved(r)
    BY <1>1, AnswerMoved
<1>2. CASE InsertPortfolio(r)
    <2>1. CASE Goto(r, "refresh") /\ UNCHANGED <<found, target>>
        BY <1>2, <2>1 DEF InsertPortfolio, Goto, Moved, TypeInv, TypeOK
    <2> QED BY <1>2, <2>1, LoseMoved DEF InsertPortfolio
<1>3. CASE InsertHolding(r)
    <2>1. CASE /\ holdings' = holdings \cup {NewHolding(r)}
               /\ UNCHANGED <<portfolios, trades>>
               /\ target' = [target EXCEPT ![r] = NewHolding(r)]
               /\ Goto(r, "refresh")
               /\ UNCHANGED found
        BY <1>3, <2>1 DEF InsertHolding, Goto, Moved, TypeInv, TypeOK
    <2>2. CASE /\ holdings' = holdings \cup {NewHolding(r)}
               /\ UNCHANGED <<portfolios, trades>>
               /\ LoseConfirmation(r)
        BY <1>3, <2>2, LoseMoved DEF InsertHolding
    <2> QED BY <1>1, <1>3, <2>1, <2>2, InsertHoldingCases
<1>4. CASE Refresh(r)
    <2>1. CASE job[r].kind # "add" /\ Goto(r, "reply") /\ UNCHANGED <<found, target, tables>>
        BY <2>1 DEF Goto, tables, Moved, TypeInv, TypeOK
    <2>2. CASE /\ target[r] \in holdings /\ Goto(r, "charge")
               /\ UNCHANGED <<found, target, tables>>
        BY <1>4, <2>2 DEF Refresh, Goto, tables, Moved, TypeInv, TypeOK
    <2> QED BY <1>1, <1>4, <2>1, <2>2 DEF Refresh
<1>5. CASE ChargeTrade(r)
    <2>1. CASE Goto(r, "reply") /\ UNCHANGED <<found, target>>
        BY <1>5, <2>1 DEF ChargeTrade, Goto, Moved, TypeInv, TypeOK
    <2> QED BY <1>5, <2>1, LoseMoved DEF ChargeTrade
<1>6. CASE DeleteHolding(r)
    <2>1. CASE Goto(r, "reply") /\ UNCHANGED <<found, target>>
        BY <1>6, <2>1 DEF DeleteHolding, Goto, Moved, TypeInv, TypeOK
    <2> QED BY <1>6, <2>1, LoseMoved DEF DeleteHolding
<1>7. CASE Reply(r) \/ DatabaseError(r) \/ Crash(r)
    BY <1>1, <1>7 DEF Reply, DatabaseError, Crash
<1> QED BY <1>2, <1>3, <1>4, <1>5, <1>6, <1>7

\* A request that has found the portfolio it adds to.  Two of one user have found
\* the same one, for a second portfolio is found by none.
IsAdding(r) ==
    /\ job[r].kind = "add"
    /\ pc[r] \in {"list", "count", "quote", "insert", "refresh", "charge"}

Claims ==
    /\ \A r \in Requests : IsAdding(r) =>
          \E p \in PortfoliosOf(job[r].user) : p.id = found[r]
    /\ \A r, o \in Requests :
          IsAdding(r) /\ IsAdding(o) /\ job[r].user = job[o].user => found[r] = found[o]
    /\ \A r \in Requests : job[r].kind = "add" /\ pc[r] = "refresh" =>
          target[r].id = r /\ target[r].portfolio = found[r]

LEMMA StepClaims ==
    ASSUME Claims, NEW r \in Requests, Moved(r)
    PROVE  Claims'
<1>1. \A u : PortfoliosOf(u) \subseteq PortfoliosOf(u)'
    BY DEF Moved, PortfoliosOf
<1>2. \A o \in Requests \ {r} : /\ IsAdding(o)' <=> IsAdding(o)
                                /\ found'[o] = found[o] /\ job'[o] = job[o]
    BY DEF Moved, IsAdding
<1>3. CASE IsAdding(r)' /\ pc'[r] = "list"
    <2>1. PICK p : PortfoliosOf(job[r].user) = {p} /\ found'[r] = p.id
        BY <1>3 DEF Moved, IsAdding
    <2>2. \A o \in Requests \ {r} :
             IsAdding(o) /\ job[o].user = job[r].user => found[o] = found'[r]
        BY <2>1 DEF Claims
    <2>3. ASSUME NEW o \in Requests, IsAdding(o)'
          PROVE  \E q \in PortfoliosOf(job[o].user)' : q.id = found'[o]
        <3>1. \E q \in PortfoliosOf(job[o].user) : q.id = found'[o]
            BY <1>2, <2>1, <2>3 DEF Claims
        <3>2. PortfoliosOf(job[o].user) \subseteq PortfoliosOf(job[o].user)'
            BY DEF Moved, PortfoliosOf
        <3> QED BY <3>1, <3>2
    <2>4. \A o, q \in Requests :
             IsAdding(o)' /\ IsAdding(q)' /\ job'[o].user = job'[q].user
                => found'[o] = found'[q]
        BY <1>2, <2>2 DEF Claims, Moved
    <2>5. \A o \in Requests : job'[o].kind = "add" /\ pc'[o] = "refresh" =>
             target'[o].id = o /\ target'[o].portfolio = found'[o]
        BY <1>2, <1>3 DEF Claims, Moved
    <2> QED BY <2>3, <2>4, <2>5 DEF Claims, Moved
<1>4. CASE IsAdding(r)' /\ pc'[r] # "list"
    <2>1. IsAdding(r) /\ found'[r] = found[r]
        BY <1>4 DEF Moved, IsAdding
    <2>2. pc'[r] = "refresh" => target'[r].id = r /\ target'[r].portfolio = found'[r]
        BY <1>4, <2>1 DEF Moved, IsAdding, NewHolding
    <2> QED BY <1>1, <1>2, <2>1, <2>2 DEF Claims, Moved, IsAdding
<1>5. CASE ~IsAdding(r)'
    <2>1. ~(job'[r].kind = "add" /\ pc'[r] = "refresh")
        BY <1>5 DEF IsAdding
    <2> QED BY <1>1, <1>2, <1>5, <2>1 DEF Claims, Moved
<1> QED BY <1>3, <1>4, <1>5

\* The places of a portfolio that are taken or about to be, named by requests.
Taking(i) ==
    {r \in Requests : /\ job[r].kind = "add" /\ found[r] = i
                      /\ pc[r] \in {"count", "quote", "insert", "charge"}}
Rows(i) == {h.id : h \in HoldingsOf(i)}
Occupied(i) == Rows(i) \cup Taking(i)

Occupancy ==
    \A i \in PortfolioIds :
        /\ IsFiniteSet(Occupied(i))
        /\ Cardinality(Occupied(i)) < MaxHoldings + Connections

LEMMA RowsAreFew ==
    ASSUME Room, NEW i
    PROVE  /\ IsFiniteSet(Rows(i)) /\ Cardinality(Rows(i)) \in Nat
           /\ Cardinality(HoldingsOf(i)) \in Nat
           /\ Cardinality(Rows(i)) <= Cardinality(HoldingsOf(i))
<1> DEFINE f == [h \in HoldingsOf(i) |-> h.id]
<1>1. IsFiniteSet(HoldingsOf(i))
    BY FS_Subset DEF Room, HoldingsOf
<1>2. f \in Surjection(HoldingsOf(i), Rows(i))
    BY DEF Surjection, Rows
<1>3. IsFiniteSet(Rows(i)) /\ Cardinality(Rows(i)) <= Cardinality(HoldingsOf(i))
    BY <1>1, <1>2, FS_Surjection
<1> QED BY <1>1, <1>3, FS_CardinalityType

\* With the check passed there is room for everyone who holds a connection.
LEMMA JoinOccupied ==
    ASSUME Room, NEW i, Cardinality(HoldingsOf(i)) < MaxHoldings, UNCHANGED holdings, Pool'
    PROVE  /\ IsFiniteSet(Occupied(i)')
           /\ Cardinality(Occupied(i)') < MaxHoldings + Connections
<1>1. Rows(i)' = Rows(i)
    BY DEF Rows, HoldingsOf
<1>2. Taking(i)' \subseteq Sessions'
    BY DEF Taking, Sessions, InTransaction
<1>3. /\ IsFiniteSet(Sessions') /\ Cardinality(Sessions') <= Connections
    BY DEF Pool
<1>4. /\ IsFiniteSet(Taking(i)') /\ Cardinality(Taking(i)') \in Nat
      /\ Cardinality(Taking(i)') <= Connections
    BY <1>2, <1>3, FS_Subset, FS_CardinalityType, LimitsAssumption
<1>5. /\ IsFiniteSet(Rows(i) \cup Taking(i)')
      /\ Cardinality(Rows(i) \cup Taking(i)')
            = Cardinality(Rows(i)) + Cardinality(Taking(i)')
                - Cardinality(Rows(i) \cap Taking(i)')
    BY <1>4, RowsAreFew, FS_Union
<1>6. Cardinality(Rows(i) \cap Taking(i)') \in Nat
    BY <1>4, FS_Subset, FS_CardinalityType
<1>7. Occupied(i)' = Rows(i) \cup Taking(i)'
    BY <1>1 DEF Occupied
<1> QED BY <1>4, <1>5, <1>6, <1>7, RowsAreFew, LimitsAssumption

LEMMA StepRows ==
    ASSUME NEW r \in Requests, Moved(r), NEW i
    PROVE  /\ \A x \in Rows(i)' : x \in Rows(i) \/ x = r
           /\ r \in Rows(i)' => \/ r \in Rows(i)
                                \/ pc[r] = "insert" /\ job[r].kind = "add" /\ found[r] = i
  BY DEF Moved, Rows, HoldingsOf, NewHolding

LEMMA StepOccupancy ==
    ASSUME TypeInv, Room, Pool', Claims, Occupancy, NEW r \in Requests, Moved(r)
    PROVE  Occupancy'
<1> SUFFICES ASSUME NEW i \in PortfolioIds
             PROVE  /\ IsFiniteSet(Occupied(i)')
                    /\ Cardinality(Occupied(i)') < MaxHoldings + Connections
    BY DEF Occupancy
<1>1. CASE r \in Taking(i)' /\ pc'[r] = "count"
    BY <1>1, JoinOccupied DEF Moved, Taking
<1>2. CASE ~(r \in Taking(i)' /\ pc'[r] = "count")
    <2>1. r \in Rows(i)' => r \in Occupied(i)
        BY StepRows DEF Occupied, Taking
    <2>2. r \in Taking(i)' => r \in Occupied(i)
        <3>1. CASE pc'[r] = "charge"
            BY <3>1 DEF Moved, Claims, Occupied, Rows, HoldingsOf, Taking
        <3>2. CASE pc'[r] # "charge"
            BY <1>2, <3>2 DEF Moved, Occupied, Taking
        <3> QED BY <3>1, <3>2
    <2>3. \A o \in Requests \ {r} : o \in Taking(i)' => o \in Taking(i)
        BY DEF Moved, Taking
    <2>4. Occupied(i)' \subseteq Occupied(i)
        BY <2>1, <2>2, <2>3, StepRows DEF Occupied, Taking
    <2>5. IsFiniteSet(Occupied(i)) /\ Cardinality(Occupied(i)) < MaxHoldings + Connections
        BY DEF Occupancy
    <2>6. /\ IsFiniteSet(Occupied(i)')
          /\ Cardinality(Occupied(i)') <= Cardinality(Occupied(i))
        BY <2>4, <2>5, FS_Subset
    <2> QED BY <2>5, <2>6, FS_CardinalityType, LimitsAssumption
<1> QED BY <1>1, <1>2

\* The additions of u that have read the counter and will increment it, unless
\* they fail.
Pledged(u) ==
    {r \in Adding(u) : \/ pc[r] \in {"quote", "insert", "charge"}
                       \/ pc[r] = "refresh" /\ r \in Rows(found[r])}

FreeAt(u) == trades[u] + Cardinality(Pledged(u)) <= FreeTrades + MaxHoldings + Connections - 2

FreeRoom == \A u \in Registered \ Pro : OpenTrades[u] <= FreeTrades => FreeAt(u)

FewPledged ==
    \A u \in Users : /\ IsFiniteSet(Pledged(u)) /\ Cardinality(Pledged(u)) \in Nat
                     /\ Cardinality(Pledged(u)) <= MaxHoldings + Connections - 1

LEMMA PledgedAreFew == TypeInv /\ Claims /\ Occupancy => FewPledged
<1> SUFFICES ASSUME TypeInv, Claims, Occupancy, NEW u \in Users
             PROVE  /\ IsFiniteSet(Pledged(u)) /\ Cardinality(Pledged(u)) \in Nat
                    /\ Cardinality(Pledged(u)) <= MaxHoldings + Connections - 1
    BY DEF FewPledged
<1>1. CASE Pledged(u) = {}
    BY <1>1, FS_EmptySet, LimitsAssumption
<1>2. CASE Pledged(u) # {}
    <2>1. PICK r \in Pledged(u) : TRUE
        BY <1>2
    <2>2. found[r] \in PortfolioIds
        BY <2>1, TypeTables DEF Pledged, Adding, Claims, IsAdding, PortfoliosOf, PortfolioIds
    <2>3. \A o \in Pledged(u) : found[o] = found[r]
        BY <2>1 DEF Pledged, Adding, Claims, IsAdding
    <2>4. Pledged(u) \subseteq Occupied(found[r])
        BY <2>3 DEF Pledged, Adding, Occupied, Taking
    <2>5. /\ IsFiniteSet(Occupied(found[r])) /\ Cardinality(Occupied(found[r])) \in Nat
          /\ Cardinality(Occupied(found[r])) < MaxHoldings + Connections
        BY <2>2, FS_CardinalityType DEF Occupancy
    <2>6. /\ IsFiniteSet(Pledged(u)) /\ Cardinality(Pledged(u)) \in Nat
          /\ Cardinality(Pledged(u)) <= Cardinality(Occupied(found[r]))
        BY <2>4, <2>5, FS_Subset, FS_CardinalityType
    <2> QED BY <2>5, <2>6, LimitsAssumption
<1> QED BY <1>1, <1>2

LEMMA StepFree ==
    ASSUME TypeInv, TypeInv', Claims, FewPledged, FewPledged', FreeRoom,
           NEW r \in Requests, Moved(r)
    PROVE  FreeRoom'
<1> SUFFICES ASSUME NEW u \in Registered \ Pro, OpenTrades[u] <= FreeTrades
             PROVE  FreeAt(u)'
    BY DEF FreeRoom
<1>1. /\ u \in Users /\ trades[u] \in Nat /\ trades'[u] \in Nat
      /\ FreeTrades \in Nat /\ MaxHoldings \in Nat /\ Connections \in Nat
    BY TypeTables, LimitsAssumption DEF TypeInv, TypeOK
<1>2. /\ IsFiniteSet(Pledged(u)) /\ Cardinality(Pledged(u)) \in Nat
    BY <1>1 DEF FewPledged
<1>3. /\ Cardinality(Pledged(u)') \in Nat
      /\ Cardinality(Pledged(u)') <= MaxHoldings + Connections - 1
    BY <1>1 DEF FewPledged
<1>4. FreeAt(u)
    BY DEF FreeRoom
<1>5. CASE r \in Pledged(u)' /\ pc'[r] = "quote"
    <2>1. trades[u] < FreeTrades /\ trades'[u] = trades[u]
        BY <1>5 DEF Moved, Pledged, Adding
    <2> QED BY <1>1, <1>3, <2>1 DEF FreeAt
<1>6. CASE ~(r \in Pledged(u)' /\ pc'[r] = "quote")
    <2>1. Pledged(u)' \subseteq Pledged(u)
        <3>1. \A o \in Requests \ {r} : o \in Pledged(u)' => o \in Pledged(u)
            BY StepRows DEF Moved, Pledged, Adding
        <3>2. r \in Pledged(u)' => r \in Pledged(u)
            <4>1. CASE pc'[r] = "charge"
                BY <4>1 DEF Moved, Pledged, Adding, Claims, Rows, HoldingsOf
            <4>2. CASE pc'[r] # "charge"
                BY <1>6, <4>2 DEF Moved, Pledged, Adding
            <4> QED BY <4>1, <4>2
        <3> QED BY <3>1, <3>2 DEF Pledged, Adding
    <2>2. CASE trades'[u] = trades[u]
        <3>1. Cardinality(Pledged(u)') <= Cardinality(Pledged(u))
            BY <1>2, <2>1, FS_Subset
        <3> QED BY <1>1, <1>2, <1>3, <1>4, <2>2, <3>1 DEF FreeAt
    <2>3. CASE trades'[u] # trades[u]
        <3>1. /\ pc[r] = "charge" /\ pc'[r] \in {"reply", "done"} /\ job[r].user = u
              /\ trades'[u] = trades[u] + 1
            BY <1>1, <2>3, TypeTables, JobType DEF Moved, TypeInv
        <3>2. r \in Pledged(u) /\ r \notin Pledged(u)'
            BY <3>1 DEF Pledged, Adding, TypeInv, Paths
        <3>3. Pledged(u)' \subseteq Pledged(u) \ {r}
            BY <2>1, <3>2
        <3>4. /\ IsFiniteSet(Pledged(u) \ {r})
              /\ Cardinality(Pledged(u) \ {r}) = Cardinality(Pledged(u)) - 1
            BY <1>2, <3>2, FS_RemoveElement
        <3>5. Cardinality(Pledged(u)') <= Cardinality(Pledged(u) \ {r})
            BY <3>3, <3>4, FS_Subset
        <3> QED BY <1>1, <1>2, <1>3, <1>4, <3>1, <3>4, <3>5 DEF FreeAt
    <2> QED BY <2>2, <2>3
<1> QED BY <1>5, <1>6

LEMMA InitFree == Init => Claims /\ Occupancy /\ FreeRoom
<1> SUFFICES ASSUME Init PROVE Claims /\ Occupancy /\ FreeRoom
    OBVIOUS
<1>1. Claims
    BY DEF Init, Claims, IsAdding
<1>2. Room
    BY InitRoom
<1>3. ASSUME NEW i \in PortfolioIds
      PROVE  /\ IsFiniteSet(Occupied(i))
             /\ Cardinality(Occupied(i)) < MaxHoldings + Connections
    <2>1. Occupied(i) = Rows(i) /\ Approved(i) = {}
        BY DEF Init, Occupied, Taking, Approved
    <2>2. Cardinality(HoldingsOf(i)) + 0 < MaxHoldings + Connections
        BY <1>2, <2>1, FS_EmptySet DEF Room
    <2> QED BY <1>2, <2>1, <2>2, RowsAreFew, LimitsAssumption
<1>4. ASSUME NEW u \in Registered \ Pro, OpenTrades[u] <= FreeTrades
      PROVE  FreeAt(u)
    <2>1. Pledged(u) = {}
        BY DEF Init, Pledged, Adding
    <2>2. trades[u] <= FreeTrades /\ trades[u] \in Nat
        BY <1>4, LimitsAssumption, RowsAssumption DEF Init
    <2> QED BY <2>1, <2>2, FS_EmptySet, LimitsAssumption DEF FreeAt
<1> QED BY <1>1, <1>3, <1>4 DEF Occupancy, FreeRoom

LEMMA StepRequest ==
    ASSUME TypeInv, Room, [Next]_vars
    PROVE  (\E r \in Requests : Moved(r)) \/ UNCHANGED vars
  BY ReadMoved, WriteMoved DEF Next, Step, Finished

LEMMA PlacesAreKept ==
    ASSUME TypeInv, Room, Pool', Claims, Occupancy, [Next]_vars
    PROVE  Claims' /\ Occupancy'
<1>1. ASSUME NEW r \in Requests, Moved(r) PROVE Claims' /\ Occupancy'
    BY <1>1, StepClaims, StepOccupancy
<1>2. CASE UNCHANGED vars
    <2>1. Claims'
        BY <1>2 DEF vars, local, tables, Claims, IsAdding, PortfoliosOf
    <2>2. Occupancy'
        BY <1>2 DEF vars, local, tables, Occupancy, Occupied, Rows, Taking, HoldingsOf
    <2> QED BY <2>1, <2>2
<1> QED BY <1>1, <1>2, StepRequest

LEMMA FreeIsKept ==
    ASSUME TypeInv, TypeInv', Room, Claims, FewPledged, FewPledged', FreeRoom, [Next]_vars
    PROVE  FreeRoom'
<1>1. CASE UNCHANGED vars
    BY <1>1 DEF vars, local, tables, FreeRoom, FreeAt, Pledged, Rows, HoldingsOf, Adding
<1> QED BY <1>1, StepRequest, StepFree

\* However many additions of a user overlap, and whatever is removed meanwhile,
\* the count exceeds the free additions by at most the room of one portfolio.
THEOREM FreeOverrunIsLess == Spec => []FreeOverrunIsBounded
<1>1. TypeInv /\ FewPledged /\ FreeRoom => FreeOverrunIsBounded
    <2> SUFFICES ASSUME TypeInv, FewPledged, FreeRoom,
                        NEW u \in Registered \ Pro, OpenTrades[u] <= FreeTrades
                 PROVE  trades[u] <= FreeTrades + MaxHoldings + Connections - 2
        BY DEF FreeOverrunIsBounded
    <2>1. u \in Users /\ trades[u] \in Nat
        BY TypeTables, LimitsAssumption
    <2> QED BY <2>1, LimitsAssumption DEF FreeRoom, FreeAt, FewPledged
<1>2. TypeInv /\ Pool /\ Room /\ [Next]_vars => Pool' /\ Room'
    BY StepRoom
<1>3. TypeInv /\ Room /\ Pool' /\ Claims /\ Occupancy /\ [Next]_vars
        => Claims' /\ Occupancy'
    BY PlacesAreKept
<1>4. TypeInv /\ TypeInv' /\ Room /\ Claims /\ FewPledged /\ FewPledged' /\ FreeRoom
        /\ [Next]_vars => FreeRoom'
    BY FreeIsKept
<1> QED BY <1>1, <1>2, <1>3, <1>4, PledgedAreFew, InitRoom, InitFree, TypesAreCorrect,
           PTL DEF Spec

-----------------------------------------------------------------------------
(* The refinement of HoldingsAccount, when each user sends one request      *)
(* after the other: what a request has checked is still so when it writes,  *)
(* because the requests between are about the portfolios of other users.    *)

\* Primary and foreign keys.  A portfolio is named by the request that made it.
Keyed ==
    /\ \A p, q \in portfolios : p.id = q.id => p = q
    /\ \A p \in portfolios : p.id \in Requests =>
          job[p.id].kind = "create" /\ pc[p.id] \in {"refresh", "reply", "done"}
    /\ \A h \in holdings : \E p \in portfolios : p.id = h.portfolio

\* What a request has read of the portfolio of its user, and still holds.
OwnedAt(r) ==
    /\ pc[r] \in {"list", "count", "quote", "insert", "delete"} /\ job[r].kind # "create"
         => \E p : PortfoliosOf(job[r].user) = {p} /\ p.id = found[r]
    /\ pc[r] = "insert" /\ job[r].kind = "create" => PortfoliosOf(job[r].user) = {}
    /\ pc[r] \in {"count", "quote", "insert"} /\ job[r].kind = "add"
         => Cardinality(HoldingsOf(found[r])) < MaxHoldings
    /\ pc[r] \in {"quote", "insert"} /\ job[r].kind = "add"
         => (job[r].user \in Registered \ Pro => trades[job[r].user] < FreeTrades)
    /\ pc[r] = "delete" => target[r] \in Holdings /\ target[r].portfolio = found[r]

Owned == \A r \in Requests : OwnedAt(r)

SerialInv ==
    TypeInv /\ Room /\ HoldingsAreDistinct /\ OneRequestPerUser /\ Keyed /\ Owned

LEMMA CountOfHoldings ==
    ASSUME SerialInv, NEW i
    PROVE  IsFiniteSet(HoldingsOf(i)) /\ Cardinality(HoldingsOf(i)) \in Nat
<1>1. HoldingsOf(i) \subseteq holdings /\ IsFiniteSet(holdings)
    BY DEF SerialInv, Room, HoldingsOf
<1> QED BY <1>1, FS_Subset, FS_CardinalityType

\* The portfolio of a user is no portfolio of another one.
LEMMA OwnPortfolio ==
    ASSUME SerialInv, NEW u, NEW p, PortfoliosOf(u) = {p}, NEW v, v # u,
           NEW q \in PortfoliosOf(v)
    PROVE  q.id # p.id
  BY DEF SerialInv, Keyed, PortfoliosOf

\* A step of r that is about no other user's portfolio.
LEMMA OthersOwned ==
    ASSUME SerialInv, NEW r \in Requests, Running(r), UNCHANGED job,
           \A o \in Requests \ {r} : /\ pc'[o] = pc[o] /\ found'[o] = found[o]
                                     /\ target'[o] = target[o],
           OwnedAt(r)',
           \A v \in Users \ {job[r].user} :
              /\ PortfoliosOf(v)' = PortfoliosOf(v) /\ trades'[v] = trades[v]
              /\ \A p \in PortfoliosOf(v) : HoldingsOf(p.id)' = HoldingsOf(p.id)
    PROVE  Owned'
<1>1. ASSUME NEW o \in Requests \ {r}, Running(o) PROVE OwnedAt(o)'
    <2>1. job[o].user \in Users \ {job[r].user}
        BY <1>1, JobType DEF SerialInv, OneRequestPerUser, TypeInv
    <2>2. OwnedAt(o)
        BY DEF SerialInv, Owned
    <2>3. ASSUME NEW p, PortfoliosOf(job[o].user) = {p}, p.id = found[o]
          PROVE  HoldingsOf(found[o])' = HoldingsOf(found[o])
        BY <1>1, <2>1, <2>3 DEF HoldingsOf
    <2> QED BY <1>1, <2>1, <2>2, <2>3 DEF OwnedAt
<1>2. ASSUME NEW o \in Requests \ {r}, ~Running(o) PROVE OwnedAt(o)'
    BY <1>2 DEF Running, OwnedAt
<1> QED BY <1>1, <1>2 DEF Owned

\* A step that leaves the tables alone.
LEMMA QuietOwned ==
    ASSUME SerialInv, NEW r \in Requests, UNCHANGED <<job, tables>>,
           \A o \in Requests \ {r} : /\ pc'[o] = pc[o] /\ found'[o] = found[o]
                                     /\ target'[o] = target[o],
           pc[r] \in {"refresh", "reply", "done"} /\ job[r].kind = "create"
              => pc'[r] \in {"refresh", "reply", "done"},
           OwnedAt(r)'
    PROVE  Keyed' /\ Owned'
<1>1. Keyed'
    BY DEF SerialInv, Keyed, tables
<1>2. ASSUME NEW o \in Requests \ {r} PROVE OwnedAt(o)'
    <2>1. OwnedAt(o)
        BY DEF SerialInv, Owned
    <2>2. /\ PortfoliosOf(job[o].user)' = PortfoliosOf(job[o].user)
          /\ HoldingsOf(found[o])' = HoldingsOf(found[o])
        BY <1>2 DEF PortfoliosOf, HoldingsOf, tables
    <2> QED BY <1>2, <2>1, <2>2 DEF OwnedAt, tables
<1> QED BY <1>1, <1>2 DEF Owned

LEMMA AnswerOwned ==
    ASSUME SerialInv, NEW r \in Requests, NEW code, Answer(r, code), UNCHANGED tables
    PROVE  Keyed' /\ Owned'
<1>1. /\ pc'[r] = "done" /\ \A o \in Requests \ {r} : pc'[o] = pc[o]
      /\ UNCHANGED <<job, found, target>>
    BY DEF Answer, SerialInv, TypeInv, TypeOK
<1>2. OwnedAt(r)'
    BY <1>1 DEF OwnedAt
<1> QED BY <1>1, <1>2, QuietOwned

LEMMA GotoOwned ==
    ASSUME SerialInv, NEW r \in Requests, NEW label, Goto(r, label),
           \A o \in Requests \ {r} : found'[o] = found[o] /\ target'[o] = target[o],
           UNCHANGED tables,
           pc[r] = "refresh" => label \in {"charge", "reply"},
           label = "charge" => job[r].kind = "add",
           pc[r] \notin {"reply", "done"},
           pc'[r] = label => OwnedAt(r)'
    PROVE  Keyed' /\ Owned'
<1>1. /\ pc'[r] = label /\ \A o \in Requests \ {r} : pc'[o] = pc[o]
      /\ UNCHANGED job
    BY DEF Goto, SerialInv, TypeInv, TypeOK
<1> QED BY <1>1, QuietOwned

LEMMA FindOwned ==
    ASSUME SerialInv, NEW r \in Requests, FindPortfolio(r)
    PROVE  Keyed' /\ Owned'
<1> DEFINE mine == PortfoliosOf(job[r].user)
<1>1. ASSUME NEW code, Refuse(r, code) PROVE Keyed' /\ Owned'
    BY <1>1, AnswerOwned DEF Refuse
<1>2. CASE /\ mine = {} /\ job[r].kind = "create" /\ Goto(r, "insert")
           /\ UNCHANGED <<found, target, tables>>
    <2>1. PortfoliosOf(job[r].user)' = {}
        BY <1>2 DEF PortfoliosOf, Goto, tables
    <2>2. pc'[r] = "insert" => OwnedAt(r)'
        BY <1>2, <2>1 DEF OwnedAt, Goto
    <2> QED BY <1>2, <2>2, GotoOwned DEF FindPortfolio
<1>3. ASSUME NEW p \in mine, mine = {p}, job[r].kind # "create",
             found' = [found EXCEPT ![r] = p.id], Goto(r, "list"),
             UNCHANGED <<target, tables>>
      PROVE  Keyed' /\ Owned'
    <2>1. PortfoliosOf(job[r].user)' = {p} /\ found'[r] = p.id
        BY <1>3 DEF PortfoliosOf, Goto, tables, SerialInv, TypeInv, TypeOK
    <2>2. pc'[r] = "list" => OwnedAt(r)'
        BY <2>1 DEF OwnedAt
    <2> QED BY <1>3, <2>2, GotoOwned DEF FindPortfolio, SerialInv, TypeInv, TypeOK
<1> QED BY <1>1, <1>2, <1>3 DEF FindPortfolio

LEMMA ReadOwned ==
    ASSUME SerialInv, NEW r \in Requests,
           ListHoldings(r) \/ CountTrades(r) \/ FetchQuote(r)
    PROVE  Keyed' /\ Owned'
<1>1. ASSUME NEW code, Refuse(r, code) PROVE Keyed' /\ Owned'
    BY <1>1, AnswerOwned DEF Refuse
<1>2. /\ pc[r] \in {"list", "count", "quote"} /\ OwnedAt(r)
      /\ job[r].user \in Users /\ MaxHoldings \in Nat /\ FreeTrades \in Nat
      /\ \A u \in Users : trades[u] \in Nat
    BY JobType, TypeTables, LimitsAssumption
       DEF SerialInv, Owned, ListHoldings, CountTrades, FetchQuote, TypeInv
<1>3. ASSUME UNCHANGED <<job, tables>>
      PROVE  /\ PortfoliosOf(job[r].user)' = PortfoliosOf(job[r].user)
             /\ found'[r] = found[r] => HoldingsOf(found[r])' = HoldingsOf(found[r])
    BY <1>3 DEF PortfoliosOf, HoldingsOf, tables
<1>4. CASE ListHoldings(r)
    <2> DEFINE loaded == HoldingsOf(found[r])
    <2>1. CASE job[r].kind = "get" /\ Goto(r, "quote") /\ UNCHANGED <<found, target, tables>>
        <3>1. pc'[r] = "quote" => OwnedAt(r)'
            BY <1>2, <1>3, <1>4, <2>1 DEF ListHoldings, OwnedAt, Goto
        <3> QED BY <1>4, <2>1, <3>1, GotoOwned DEF ListHoldings
    <2>2. CASE /\ job[r].kind = "add" /\ ~IsFull(loaded) /\ Goto(r, "count")
               /\ UNCHANGED <<found, target, tables>>
        <3>1. Cardinality(HoldingsOf(found[r])) < MaxHoldings
            BY <1>2, <2>2, CountOfHoldings DEF IsFull
        <3>2. pc'[r] = "count" => OwnedAt(r)'
            BY <1>2, <1>3, <1>4, <2>2, <3>1 DEF ListHoldings, OwnedAt, Goto
        <3> QED BY <1>4, <2>2, <3>2, GotoOwned DEF ListHoldings
    <2>3. ASSUME job[r].kind = "remove", NEW h \in loaded,
                 target' = [target EXCEPT ![r] = h], Goto(r, "delete"),
                 UNCHANGED <<found, tables>>
          PROVE  Keyed' /\ Owned'
        <3>1. target'[r] = h /\ h \in Holdings /\ h.portfolio = found[r]
            BY <2>3, TypeTables DEF HoldingsOf, SerialInv, TypeInv, TypeOK
        <3>2. pc'[r] = "delete" => OwnedAt(r)'
            BY <1>2, <1>3, <1>4, <2>3, <3>1 DEF ListHoldings, OwnedAt, Goto
        <3> QED BY <1>4, <2>3, <3>2, GotoOwned DEF ListHoldings, SerialInv, TypeInv, TypeOK
    <2> QED BY <1>1, <1>4, <2>1, <2>2, <2>3 DEF ListHoldings
<1>5. CASE CountTrades(r)
    <2> DEFINE u == job[r].user
               paid == u \in Registered /\ u \notin Pro /\ trades[u] >= FreeTrades
    <2>1. CASE ~paid /\ Goto(r, "quote") /\ UNCHANGED <<found, target, tables>>
        <3>1. u \in Registered \ Pro => trades[u] < FreeTrades
            BY <1>2, <2>1
        <3>2. pc'[r] = "quote" => OwnedAt(r)'
            BY <1>2, <1>3, <1>5, <2>1, <3>1 DEF CountTrades, OwnedAt, Goto, tables
        <3> QED BY <1>5, <2>1, <3>2, GotoOwned DEF CountTrades
    <2> QED BY <1>1, <1>5, <2>1 DEF CountTrades
<1>6. CASE FetchQuote(r)
    <2>1. CASE /\ job[r].kind = "add" /\ Goto(r, "insert")
               /\ UNCHANGED <<found, target, tables>>
        <3>1. pc'[r] = "insert" => OwnedAt(r)'
            BY <1>2, <1>3, <1>6, <2>1 DEF FetchQuote, OwnedAt, Goto, tables
        <3> QED BY <1>6, <2>1, <3>1, GotoOwned DEF FetchQuote
    <2> QED BY <1>1, <1>6, <2>1 DEF FetchQuote
<1> QED BY <1>4, <1>5, <1>6

LEMMA InsertPortfolioOwned ==
    ASSUME SerialInv, NEW r \in Requests, InsertPortfolio(r)
    PROVE  Keyed' /\ Owned'
<1> DEFINE row == [id |-> r, user |-> job[r].user]
<1>1. /\ pc[r] = "insert" /\ job[r].kind = "create"
      /\ pc'[r] \in {"refresh", "done"}
      /\ \A o \in Requests \ {r} : /\ pc'[o] = pc[o] /\ found'[o] = found[o]
                                   /\ target'[o] = target[o]
      /\ UNCHANGED <<job, holdings, trades>>
      /\ portfolios' = portfolios \cup {row}
    BY DEF InsertPortfolio, LoseConfirmation, Answer, Goto, SerialInv, TypeInv, TypeOK
<1>2. \A p \in portfolios : p.id # r
    BY <1>1 DEF SerialInv, Keyed
<1>3. Keyed'
    BY <1>1, <1>2 DEF SerialInv, Keyed
<1>4. \A v \in Users \ {job[r].user} :
         /\ PortfoliosOf(v)' = PortfoliosOf(v)
         /\ \A p \in PortfoliosOf(v) : HoldingsOf(p.id)' = HoldingsOf(p.id)
    BY <1>1 DEF PortfoliosOf, HoldingsOf
<1>5. OwnedAt(r)'
    BY <1>1 DEF OwnedAt
<1> QED BY <1>1, <1>3, <1>4, <1>5, OthersOwned DEF Running

\* A write of the holdings of the portfolio that r has found.
LEMMA HoldingsOwned ==
    ASSUME SerialInv, NEW r \in Requests, pc[r] \in {"insert", "delete"},
           job[r].kind # "create", pc'[r] \in {"refresh", "reply", "done"},
           \A o \in Requests \ {r} : /\ pc'[o] = pc[o] /\ found'[o] = found[o]
                                     /\ target'[o] = target[o],
           UNCHANGED <<job, portfolios, trades>>,
           \A h \in holdings' : h \in holdings \/ h.portfolio = found[r],
           \A h \in holdings : h \in holdings' \/ h.portfolio = found[r]
    PROVE  /\ Keyed' /\ Owned'
           /\ \A v \in Users \ {job[r].user} : \A p \in PortfoliosOf(v) :
                 HoldingsOf(p.id)' = HoldingsOf(p.id)
<1>1. PICK p : PortfoliosOf(job[r].user) = {p} /\ p.id = found[r]
    BY DEF SerialInv, Owned, OwnedAt
<1>2. p \in portfolios
    BY <1>1 DEF PortfoliosOf
<1>3. Keyed'
    BY <1>1, <1>2 DEF SerialInv, Keyed
<1>4. ASSUME NEW v \in Users \ {job[r].user}, NEW q \in PortfoliosOf(v)
      PROVE  HoldingsOf(q.id)' = HoldingsOf(q.id)
    <2>1. q.id # found[r]
        BY <1>1, <1>4, OwnPortfolio
    <2> QED BY <2>1 DEF HoldingsOf
<1>5. \A v : PortfoliosOf(v)' = PortfoliosOf(v)
    BY DEF PortfoliosOf
<1>6. OwnedAt(r)'
    BY DEF OwnedAt
<1>7. Owned'
    BY <1>4, <1>5, <1>6, OthersOwned DEF Running
<1> QED BY <1>3, <1>4, <1>7

LEMMA InsertHoldingOwned ==
    ASSUME SerialInv, NEW r \in Requests, InsertHolding(r)
    PROVE  Keyed' /\ Owned'
<1>1. CASE Refuse(r, 500)
    BY <1>1, AnswerOwned DEF Refuse
<1>2. CASE /\ holdings' = holdings \cup {NewHolding(r)}
           /\ UNCHANGED <<portfolios, trades>>
           /\ \/ /\ target' = [target EXCEPT ![r] = NewHolding(r)]
                 /\ Goto(r, "refresh")
                 /\ UNCHANGED found
              \/ LoseConfirmation(r)
    <2>1. /\ pc'[r] \in {"refresh", "done"}
          /\ \A o \in Requests \ {r} : /\ pc'[o] = pc[o] /\ found'[o] = found[o]
                                       /\ target'[o] = target[o]
          /\ UNCHANGED job
        BY <1>2 DEF LoseConfirmation, Answer, Goto, SerialInv, TypeInv, TypeOK
    <2>2. NewHolding(r).portfolio = found[r]
        BY DEF NewHolding
    <2> QED BY <1>2, <2>1, <2>2, HoldingsOwned DEF InsertHolding
<1> QED BY <1>1, <1>2, InsertHoldingCases

LEMMA DeleteOwned ==
    ASSUME SerialInv, NEW r \in Requests, DeleteHolding(r)
    PROVE  /\ Keyed' /\ Owned'
           /\ \A v \in Users \ {job[r].user} : \A p \in PortfoliosOf(v) :
                 HoldingsOf(p.id)' = HoldingsOf(p.id)
<1>1. /\ pc'[r] \in {"reply", "done"}
      /\ \A o \in Requests \ {r} : /\ pc'[o] = pc[o] /\ found'[o] = found[o]
                                   /\ target'[o] = target[o]
      /\ UNCHANGED <<job, portfolios, trades>>
      /\ pc[r] = "delete" /\ holdings' = holdings \ {target[r]}
    BY DEF DeleteHolding, LoseConfirmation, Answer, Goto, SerialInv, TypeInv, TypeOK
<1>2. job[r].kind = "remove" /\ target[r].portfolio = found[r]
    BY <1>1 DEF SerialInv, TypeInv, Paths, Owned, OwnedAt
<1> QED BY <1>1, <1>2, HoldingsOwned

LEMMA ChargeOwned ==
    ASSUME SerialInv, NEW r \in Requests, ChargeTrade(r)
    PROVE  Keyed' /\ Owned'
<1>1. /\ pc[r] = "charge" /\ pc'[r] \in {"reply", "done"} /\ job[r].kind = "add"
      /\ \A o \in Requests \ {r} : /\ pc'[o] = pc[o] /\ found'[o] = found[o]
                                   /\ target'[o] = target[o]
      /\ UNCHANGED <<job, portfolios, holdings>>
      /\ \A v \in Users \ {job[r].user} : trades'[v] = trades[v]
    BY DEF ChargeTrade, LoseConfirmation, Answer, Goto, SerialInv, TypeInv, TypeOK, Paths
<1>2. Keyed'
    BY <1>1 DEF SerialInv, Keyed
<1>3. OwnedAt(r)'
    BY <1>1 DEF OwnedAt
<1>4. /\ \A v : PortfoliosOf(v)' = PortfoliosOf(v)
      /\ \A v : \A p \in PortfoliosOf(v) : HoldingsOf(p.id)' = HoldingsOf(p.id)
    BY <1>1 DEF PortfoliosOf, HoldingsOf
<1> QED BY <1>1, <1>2, <1>3, <1>4, OthersOwned DEF Running

LEMMA RefreshOwned ==
    ASSUME SerialInv, NEW r \in Requests, Refresh(r)
    PROVE  Keyed' /\ Owned'
<1>1. CASE Refuse(r, 500)
    BY <1>1, AnswerOwned DEF Refuse
<1>2. ASSUME NEW label \in {"charge", "reply"}, label = "charge" => job[r].kind = "add",
             Goto(r, label), UNCHANGED <<found, target, tables>>
      PROVE  Keyed' /\ Owned'
    <2>1. pc'[r] = label => OwnedAt(r)'
        BY <1>2 DEF OwnedAt
    <2> QED BY <1>2, <2>1, GotoOwned DEF Refresh
<1> QED BY <1>1, <1>2 DEF Refresh

LEMMA StepOwned ==
    ASSUME SerialInv, [Next]_vars
    PROVE  Keyed' /\ Owned'
<1>1. ASSUME NEW r \in Requests, Reply(r) \/ DatabaseError(r) \/ Crash(r)
      PROVE  Keyed' /\ Owned'
    BY <1>1, AnswerOwned DEF Reply, DatabaseError, Crash, Refuse
<1>2. ASSUME NEW r \in Requests, Send(r)
      PROVE  Keyed' /\ Owned'
    <2>1. pc'[r] = "find" => OwnedAt(r)'
        BY DEF OwnedAt
    <2> QED BY <1>2, <2>1, GotoOwned DEF Send
<1>3. CASE UNCHANGED vars
    <2>1. Keyed'
        BY <1>3 DEF vars, local, tables, SerialInv, Keyed
    <2>2. Owned'
        BY <1>3 DEF vars, local, tables, SerialInv, Owned, OwnedAt, PortfoliosOf, HoldingsOf
    <2> QED BY <2>1, <2>2
<1> QED BY <1>1, <1>2, <1>3, FindOwned, ReadOwned, InsertPortfolioOwned,
           InsertHoldingOwned, RefreshOwned, ChargeOwned, DeleteOwned
        DEF Next, Step, Finished

LEMMA InitOwned == Init => OneRequestPerUser /\ Keyed /\ Owned
<1> SUFFICES ASSUME Init PROVE OneRequestPerUser /\ Keyed /\ Owned
    OBVIOUS
<1>1. OneRequestPerUser
    BY DEF Init, OneRequestPerUser, Running
<1>2. Keyed
    BY OpeningAssumption, RowsAssumption DEF Init, Keyed
<1>3. Owned
    BY DEF Init, Owned, OwnedAt
<1> QED BY <1>1, <1>2, <1>3

LEMMA RoomIsKept == Spec => []Room
<1>1. TypeInv /\ Pool /\ Room /\ [Next]_vars => Pool' /\ Room'
    BY StepRoom
<1> QED BY <1>1, InitRoom, TypesAreCorrect, PTL DEF Spec

LEMMA SerialIsKept == SerialSpec => []SerialInv
<1>1. SerialSpec => Spec
    <2>1. [Next /\ OneRequestPerUser']_vars => [Next]_vars
        OBVIOUS
    <2> QED BY <2>1, PTL DEF SerialSpec, Spec
<1>2. OneRequestPerUser /\ [Next /\ OneRequestPerUser']_vars => OneRequestPerUser'
    BY DEF vars, local, OneRequestPerUser, Running
<1>3. SerialInv /\ [Next /\ OneRequestPerUser']_vars => Keyed' /\ Owned'
    BY StepOwned
<1>4. TypeInv /\ Room /\ HoldingsAreDistinct /\ OneRequestPerUser /\ Keyed /\ Owned
        <=> SerialInv
    BY DEF SerialInv
<1> QED BY <1>1, <1>2, <1>3, <1>4, InitOwned, TypesAreCorrect, RoomIsKept,
           StocksAreDistinct, PTL DEF SerialSpec

-----------------------------------------------------------------------------
(* What the steps are in the account.                                       *)

Stocks == [u \in Users |-> StocksOf(u, portfolios, holdings)]

\* r has added a stock that is not yet counted.
Owes(r) == job[r].kind = "add" /\ pc[r] \in {"refresh", "charge"}

Owing == {u \in Users : \E r \in Requests :
            /\ job[r].kind = "add" /\ job[r].user = u
            /\ pc[r] \in {"refresh", "charge"}}

LEMMA OwingStays ==
    ASSUME NEW r \in Requests, job' = job, \A o \in Requests \ {r} : pc'[o] = pc[o],
           Owes(r)' <=> Owes(r)
    PROVE  Owing' = Owing
  BY DEF Owing, Owes

LEMMA OwingJoins ==
    ASSUME NEW r \in Requests, job' = job, \A o \in Requests \ {r} : pc'[o] = pc[o],
           job[r].user \in Users, Owes(r)'
    PROVE  Owing' = Owing \cup {job[r].user}
  BY DEF Owing, Owes

\* No other request of the user is under way.
LEMMA OwingLeaves ==
    ASSUME OneRequestPerUser, NEW r \in Requests, job' = job,
           \A o \in Requests \ {r} : pc'[o] = pc[o],
           job[r].user \in Users, Owes(r), ~Owes(r)'
    PROVE  job[r].user \in Owing /\ Owing' = Owing \ {job[r].user}
<1>1. ASSUME NEW o \in Requests \ {r}, Owes(o) PROVE job[o].user # job[r].user
    BY <1>1 DEF OneRequestPerUser, Running, Owes
<1> QED BY <1>1 DEF Owing, Owes

LEMMA NothingOwed ==
    ASSUME OneRequestPerUser, NEW r \in Requests, Running(r), ~Owes(r)
    PROVE  job[r].user \notin Owing
  BY DEF OneRequestPerUser, Owing, Owes, Running

LEMMA StocksOfOne ==
    ASSUME NEW u, NEW p, PortfoliosOf(u) = {p}
    PROVE  StocksOf(u, portfolios, holdings) = {h.symbol : h \in HoldingsOf(p.id)}
<1>1. {x \in portfolios : x.user = u} = {p}
    BY DEF PortfoliosOf
<1> QED BY <1>1 DEF StocksOf, HoldingsOf

LEMMA SameStocks ==
    ASSUME NEW v, PortfoliosOf(v)' = PortfoliosOf(v),
           \A p \in PortfoliosOf(v) : HoldingsOf(p.id)' = HoldingsOf(p.id)
    PROVE  StocksOf(v, portfolios, holdings)' = StocksOf(v, portfolios, holdings)
<1> DEFINE ids == {p.id : p \in PortfoliosOf(v)}
           rows == {x \in holdings : x.portfolio \in ids}
<1>1. ids' = ids /\ rows' = rows
    BY DEF HoldingsOf
<1>2. StocksOf(v, portfolios, holdings)
        = IF ids = {} THEN NoRow ELSE {h.symbol : h \in rows}
    BY DEF StocksOf, PortfoliosOf
<1>3. StocksOf(v, portfolios, holdings)'
        = IF ids' = {} THEN NoRow ELSE {h.symbol : h \in rows'}
    BY DEF StocksOf, PortfoliosOf
<1> HIDE DEF ids, rows
<1> QED BY <1>1, <1>2, <1>3

\* Only the stocks of one user change.
LEMMA StocksOfOthers ==
    ASSUME NEW u \in Users, NEW S, StocksOf(u, portfolios, holdings)' = S,
           \A v \in Users \ {u} :
              StocksOf(v, portfolios, holdings)' = StocksOf(v, portfolios, holdings)
    PROVE  Stocks' = [Stocks EXCEPT ![u] = S]
  BY DEF Stocks

AccountVars == <<Stocks, trades, Owing>>

\* A step that leaves the tables alone may forgive the charge of an addition.
LEMMA QuietAccount ==
    ASSUME SerialInv, NEW r \in Requests, UNCHANGED <<job, tables>>,
           \A o \in Requests \ {r} : pc'[o] = pc[o],
           Owes(r)' => Owes(r)
    PROVE  Account!Next \/ UNCHANGED AccountVars
<1>1. Stocks' = Stocks /\ trades' = trades
    BY DEF Stocks, StocksOf, tables
<1>2. CASE Owes(r)' <=> Owes(r)
    BY <1>1, <1>2, OwingStays DEF AccountVars
<1>3. CASE Owes(r) /\ ~Owes(r)'
    <2>1. PICK u \in Users : u = job[r].user
        BY JobType DEF SerialInv, TypeInv
    <2>2. u \in Owing /\ Owing' = Owing \ {u}
        BY <1>3, <2>1, OwingLeaves DEF SerialInv
    <2>3. Account!Forgive(u)
        BY <1>1, <2>2 DEF Account!Forgive, Stocks, Owing
    <2> QED BY <2>1, <2>3 DEF Account!Next
<1> QED BY <1>2, <1>3

LEMMA AnswerAccount ==
    ASSUME SerialInv, NEW r \in Requests, NEW code, Refuse(r, code)
    PROVE  Account!Next \/ UNCHANGED AccountVars
<1>1. /\ pc'[r] = "done" /\ \A o \in Requests \ {r} : pc'[o] = pc[o]
      /\ UNCHANGED job
    BY DEF Refuse, Answer, SerialInv, TypeInv, TypeOK
<1> QED BY <1>1, QuietAccount DEF Refuse, Owes

LEMMA GotoAccount ==
    ASSUME SerialInv, NEW r \in Requests, NEW label, Goto(r, label), UNCHANGED tables,
           label = "charge" => pc[r] = "refresh",
           label # "refresh"
    PROVE  Account!Next \/ UNCHANGED AccountVars
<1>1. /\ pc'[r] = label /\ \A o \in Requests \ {r} : pc'[o] = pc[o]
      /\ UNCHANGED job
    BY DEF Goto, SerialInv, TypeInv, TypeOK
<1> QED BY <1>1, QuietAccount DEF Owes

LEMMA ReadAccount ==
    ASSUME SerialInv, NEW r \in Requests,
           \/ Send(r) \/ FindPortfolio(r) \/ ListHoldings(r) \/ CountTrades(r)
           \/ FetchQuote(r) \/ Refresh(r)
    PROVE  Account!Next \/ UNCHANGED AccountVars
<1>1. ASSUME NEW code, Refuse(r, code) PROVE Account!Next \/ UNCHANGED AccountVars
    BY <1>1, AnswerAccount
<1>2. ASSUME NEW label \in {"find", "list", "count", "quote", "insert", "delete", "reply"},
             Goto(r, label), UNCHANGED tables
      PROVE  Account!Next \/ UNCHANGED AccountVars
    BY <1>2, GotoAccount
<1>3. CASE Refresh(r)
    BY <1>1, <1>2, <1>3, GotoAccount DEF Refresh
<1>4. CASE Send(r) \/ FindPortfolio(r) \/ ListHoldings(r) \/ CountTrades(r) \/ FetchQuote(r)
    BY <1>1, <1>2, <1>4 DEF Send, FindPortfolio, ListHoldings, CountTrades, FetchQuote
<1> QED BY <1>3, <1>4

\* A first portfolio, with nothing in it.
LEMMA AccountOpens ==
    ASSUME SerialInv, NEW r \in Requests, InsertPortfolio(r)
    PROVE  Account!Next
<1>0. PICK u \in Users : u = job[r].user
    BY JobType DEF SerialInv, TypeInv
<1> DEFINE row == [id |-> r, user |-> u]
<1>1. /\ pc[r] = "insert" /\ job[r].kind = "create" /\ u = job[r].user
      /\ \A o \in Requests \ {r} : pc'[o] = pc[o]
      /\ UNCHANGED <<job, holdings, trades>>
      /\ portfolios' = portfolios \cup {row}
    BY <1>0 DEF InsertPortfolio, LoseConfirmation, Answer, Goto, SerialInv, TypeInv, TypeOK
<1>2. PortfoliosOf(u) = {}
    BY <1>1 DEF SerialInv, Owned, OwnedAt
<1>3. \A p \in portfolios : p.id # r
    BY <1>1 DEF SerialInv, Keyed
<1>4. StocksOf(u, portfolios, holdings) = NoRow
    BY <1>2 DEF StocksOf, PortfoliosOf
<1>5. StocksOf(u, portfolios, holdings)' = {}
    <2>1. {x \in portfolios' : x.user = u} = {row}
        BY <1>1, <1>2 DEF PortfoliosOf
    <2>2. {x \in holdings' : x.portfolio \in {p.id : p \in {row}}} = {}
        BY <1>1, <1>3 DEF SerialInv, Keyed
    <2>3. StocksOf(u, portfolios, holdings)' = StocksOf(u, portfolios', holdings')
        BY <1>1 DEF StocksOf
    <2>4. {p.id : p \in {row}} # {}
        OBVIOUS
    <2> HIDE DEF row
    <2> QED BY <2>1, <2>2, <2>3, <2>4 DEF StocksOf
<1>6. ASSUME NEW v \in Users \ {u}
      PROVE  StocksOf(v, portfolios, holdings)' = StocksOf(v, portfolios, holdings)
    BY <1>1, <1>6, SameStocks DEF PortfoliosOf, HoldingsOf
<1>7. Stocks' = [Stocks EXCEPT ![u] = {}] /\ Stocks[u] = NoRow
    BY <1>1, <1>4, <1>5, <1>6, StocksOfOthers DEF Stocks
<1>8. Owing' = Owing
    BY <1>1, OwingStays DEF Owes
<1>9. Account!Open(u)
    BY <1>1, <1>7, <1>8 DEF Account!Open, Stocks, Owing
<1> QED BY <1>1, <1>9 DEF Account!Next

LEMMA StocksAreFewer ==
    ASSUME SerialInv, NEW i
    PROVE  Cardinality({h.symbol : h \in HoldingsOf(i)}) <= Cardinality(HoldingsOf(i))
           /\ Cardinality({h.symbol : h \in HoldingsOf(i)}) \in Nat
<1> DEFINE S == HoldingsOf(i)
           T == {h.symbol : h \in S}
           f == [h \in S |-> h.symbol]
<1>1. f \in Surjection(S, T)
    BY DEF Surjection
<1>2. IsFiniteSet(S)
    BY CountOfHoldings
<1> HIDE DEF f, T, S
<1>3. IsFiniteSet(T) /\ Cardinality(T) <= Cardinality(S)
    BY <1>1, <1>2, FS_Surjection
<1> QED BY <1>3, FS_CardinalityType DEF T, S

LEMMA AccountCounts ==
    ASSUME NEW S
    PROVE  Account!Cardinality(S) = Cardinality(S)
  BY DEF Account!Cardinality, Cardinality

\* An addition finds room, a free addition left, and the stock not yet there.
LEMMA AccountAdds ==
    ASSUME SerialInv, NEW r \in Requests, InsertHolding(r), ~Refuse(r, 500)
    PROVE  Account!Next
<1>0. PICK u, s, old : /\ u = job[r].user /\ s = job[r].symbol
                       /\ old = {h.symbol : h \in HoldingsOf(found[r])}
    OBVIOUS
<1>1. /\ pc[r] = "insert" /\ job[r].kind = "add" /\ u \in Users /\ s \in Symbols
      /\ OwnedAt(r)
    BY <1>0, JobType DEF InsertHolding, SerialInv, TypeInv, Owned
<1>2. /\ ~IsTaken(found[r], s)
      /\ holdings' = holdings \cup {NewHolding(r)}
      /\ UNCHANGED <<portfolios, trades, job, found>>
      /\ pc'[r] \in {"refresh", "done"}
      /\ \A o \in Requests \ {r} : pc'[o] = pc[o]
    BY <1>0, InsertHoldingCases DEF LoseConfirmation, Answer, Goto, SerialInv, TypeInv, TypeOK
<1>3. PICK p : PortfoliosOf(u) = {p} /\ p.id = found[r]
    BY <1>0, <1>1 DEF OwnedAt
<1>4. StocksOf(u, portfolios, holdings) = old
    BY <1>0, <1>3, StocksOfOne
<1>5. HoldingsOf(found[r])' = HoldingsOf(found[r]) \cup {NewHolding(r)}
    BY <1>2 DEF HoldingsOf, NewHolding
<1>6. StocksOf(u, portfolios, holdings)' = old \cup {s}
    <2>1. PortfoliosOf(u)' = {p}
        BY <1>2, <1>3 DEF PortfoliosOf
    <2>2. StocksOf(u, portfolios, holdings)' = {h.symbol : h \in HoldingsOf(p.id)'}
        BY <1>2, <2>1 DEF StocksOf, PortfoliosOf, HoldingsOf
    <2>3. NewHolding(r).symbol = s
        BY <1>0 DEF NewHolding
    <2>4. HoldingsOf(p.id)' = HoldingsOf(found[r]) \cup {NewHolding(r)}
        BY <1>2, <1>3, <1>5 DEF HoldingsOf
    <2> QED BY <1>0, <2>2, <2>3, <2>4
<1>7. ASSUME NEW v \in Users \ {u}
      PROVE  StocksOf(v, portfolios, holdings)' = StocksOf(v, portfolios, holdings)
    <2>1. \A q \in PortfoliosOf(v) : q.id # found[r]
        BY <1>3, <1>7, OwnPortfolio
    <2>2. PortfoliosOf(v)' = PortfoliosOf(v)
        BY <1>2 DEF PortfoliosOf
    <2>3. \A q \in PortfoliosOf(v) : HoldingsOf(q.id)' = HoldingsOf(q.id)
        BY <1>2, <2>1 DEF HoldingsOf, NewHolding
    <2> QED BY <2>2, <2>3, SameStocks
<1>8. Stocks' = [Stocks EXCEPT ![u] = old \cup {s}] /\ Stocks[u] = old
    BY <1>1, <1>4, <1>6, <1>7, StocksOfOthers DEF Stocks
<1>9. s \notin old
    BY <1>0, <1>2 DEF IsTaken
<1>10. old # NoRow
    <2>1. old \subseteq Symbols
        BY <1>0, RowsAssumption, TypeTables DEF SerialInv, HoldingsOf, Holdings
    <2> QED BY <2>1, RowsAssumption
<1>11. Cardinality(old) < MaxHoldings
    BY <1>0, <1>1, StocksAreFewer, CountOfHoldings, LimitsAssumption DEF OwnedAt
<1>12. u \in Registered \ Pro => trades[u] < FreeTrades
    BY <1>0, <1>1 DEF OwnedAt
<1>13. u \notin Owing
    BY <1>0, <1>1, NothingOwed DEF SerialInv, Running, Owes
<1>14. Owing' = Owing \cup {u} \/ Owing' = Owing
    BY <1>0, <1>1, <1>2, OwingJoins, OwingStays DEF Owes
<1>15. /\ Stocks[u] # NoRow /\ Cardinality(Stocks[u]) < MaxHoldings
       /\ \E x \in Symbols \ Stocks[u] :
             Stocks' = [Stocks EXCEPT ![u] = Stocks[u] \cup {x}]
    BY <1>1, <1>8, <1>9, <1>10, <1>11
<1>16. Account!Add(u)
    BY <1>2, <1>12, <1>13, <1>14, <1>15, AccountCounts DEF Account!Add, Stocks, Owing
<1> QED BY <1>1, <1>16 DEF Account!Next

LEMMA AccountCharges ==
    ASSUME SerialInv, NEW r \in Requests, ChargeTrade(r)
    PROVE  Account!Next
<1>0. PICK u \in Users : u = job[r].user
    BY JobType DEF SerialInv, TypeInv
<1>1. /\ Owes(r) /\ u = job[r].user
      /\ UNCHANGED <<job, portfolios, holdings>>
      /\ pc'[r] \in {"reply", "done"}
      /\ \A o \in Requests \ {r} : pc'[o] = pc[o]
    BY <1>0 DEF ChargeTrade, LoseConfirmation, Answer, Goto, SerialInv, TypeInv,
                   TypeOK, Paths, Owes
<1>2. u \in Owing /\ Owing' = Owing \ {u}
    BY <1>1, OwingLeaves DEF SerialInv, Owes
<1>3. Stocks' = Stocks
    BY <1>1 DEF Stocks, StocksOf
<1>4. trades' = [trades EXCEPT ![u] = IF u \in Registered THEN @ + 1 ELSE @]
    BY <1>0 DEF ChargeTrade
<1>5. Account!Charge(u)
    BY <1>2, <1>3, <1>4 DEF Account!Charge, Stocks, Owing
<1> QED BY <1>1, <1>5 DEF Account!Next

LEMMA AccountRemoves ==
    ASSUME SerialInv, NEW r \in Requests, DeleteHolding(r)
    PROVE  Account!Next \/ UNCHANGED AccountVars
<1>0. PICK u, s, old : /\ u = job[r].user /\ s = target[r].symbol
                       /\ old = {h.symbol : h \in HoldingsOf(found[r])}
    OBVIOUS
<1>1. /\ pc[r] = "delete" /\ job[r].kind = "remove" /\ u \in Users /\ OwnedAt(r)
      /\ holdings' = holdings \ {target[r]}
      /\ UNCHANGED <<portfolios, trades, job, found>>
      /\ \A o \in Requests \ {r} : pc'[o] = pc[o]
    BY <1>0, JobType DEF DeleteHolding, LoseConfirmation, Answer, Goto, SerialInv, TypeInv,
                   TypeOK, Paths, Owned
<1>2. Owing' = Owing /\ u \notin Owing
    BY <1>0, <1>1, OwingStays, NothingOwed DEF Owes, SerialInv, Running
<1>3. CASE target[r] \notin holdings
    <2>1. holdings' = holdings
        BY <1>1, <1>3
    <2>2. Stocks' = Stocks
        BY <1>1, <2>1 DEF Stocks, StocksOf
    <2> QED BY <1>1, <1>2, <2>2 DEF AccountVars
<1>4. CASE target[r] \in holdings
    <2>1. PICK p : PortfoliosOf(u) = {p} /\ p.id = found[r]
        BY <1>0, <1>1 DEF OwnedAt
    <2>2. StocksOf(u, portfolios, holdings) = old
        BY <1>0, <2>1, StocksOfOne
    <2>3. target[r] \in HoldingsOf(found[r])
        BY <1>1, <1>4 DEF OwnedAt, HoldingsOf
    <2>4. \A h \in HoldingsOf(found[r]) : h.symbol = s => h = target[r]
        BY <1>0, <2>3 DEF SerialInv, HoldingsAreDistinct, HoldingsOf
    <2>5. {h.symbol : h \in HoldingsOf(found[r]) \ {target[r]}} = old \ {s}
        BY <1>0, <2>3, <2>4
    <2>6. StocksOf(u, portfolios, holdings)' = old \ {s}
        <3>1. PortfoliosOf(u)' = {p}
            BY <1>1, <2>1 DEF PortfoliosOf
        <3>2. StocksOf(u, portfolios, holdings)' = {h.symbol : h \in HoldingsOf(p.id)'}
            BY <1>1, <3>1 DEF StocksOf, PortfoliosOf, HoldingsOf
        <3>3. HoldingsOf(p.id)' = HoldingsOf(found[r]) \ {target[r]}
            BY <1>1, <2>1 DEF HoldingsOf
        <3> QED BY <2>5, <3>2, <3>3
    <2>7. ASSUME NEW v \in Users \ {u}
          PROVE  StocksOf(v, portfolios, holdings)' = StocksOf(v, portfolios, holdings)
        <3>1. PortfoliosOf(v)' = PortfoliosOf(v)
            BY <1>1 DEF PortfoliosOf
        <3> QED BY <1>0, <2>7, <3>1, DeleteOwned, SameStocks
    <2>8. Stocks' = [Stocks EXCEPT ![u] = old \ {s}] /\ Stocks[u] = old
        BY <1>1, <2>2, <2>6, <2>7, StocksOfOthers DEF Stocks
    <2>9. s \in old
        BY <1>0, <2>3
    <2>10. old # NoRow
        <3>1. old \subseteq Symbols
            BY <1>0, RowsAssumption, TypeTables DEF SerialInv, HoldingsOf, Holdings
        <3> QED BY <3>1, RowsAssumption
    <2>11. Account!Remove(u)
        BY <1>1, <1>2, <2>8, <2>9, <2>10 DEF Account!Remove, Stocks, Owing
    <2> QED BY <1>1, <2>11 DEF Account!Next
<1> QED BY <1>3, <1>4

LEMMA AccountStep ==
    ASSUME SerialInv, [Next]_vars
    PROVE  Account!Next \/ UNCHANGED AccountVars
<1>1. ASSUME NEW r \in Requests, Reply(r) \/ DatabaseError(r) \/ Crash(r)
      PROVE  Account!Next \/ UNCHANGED AccountVars
    BY <1>1, AnswerAccount DEF Reply, DatabaseError, Crash
<1>2. ASSUME NEW r \in Requests, InsertHolding(r)
      PROVE  Account!Next \/ UNCHANGED AccountVars
    BY <1>2, AnswerAccount, AccountAdds
<1>3. CASE UNCHANGED vars
    BY <1>3 DEF vars, local, tables, AccountVars, Stocks, StocksOf, Owing
<1> QED BY <1>1, <1>2, <1>3, ReadAccount, AccountOpens, AccountCharges, AccountRemoves
        DEF Next, Step, Finished

\* When each user sends one request after the other, whatever fails, dies or is
\* lost and whatever other users do meanwhile, every step of the handlers is a
\* step of the account the user pictures, or leaves it alone.
THEOREM ImplementsAccount == SerialSpec => AccountSpec
<1>1. Init => Account!Init
    <2> SUFFICES ASSUME Init PROVE Account!Init
        OBVIOUS
    <2>1. Owing = {}
        BY DEF Init, Owing
    <2>2. Stocks = [u \in Users |-> StocksOf(u, OpenPortfolios, OpenHoldings)]
        BY DEF Init, Stocks
    <2> QED BY <2>1, <2>2 DEF Init, Account!Init, Stocks, Owing
<1>2. SerialInv /\ [Next /\ OneRequestPerUser']_vars => [Account!Next]_AccountVars
    BY AccountStep
<1>3. SerialInv /\ [Next /\ OneRequestPerUser']_vars
        => [Account!Next]_<<[u \in Users |-> StocksOf(u, portfolios, holdings)], trades, Owing>>
    BY <1>2 DEF AccountVars, Stocks
<1>4. [Account!Next]_<<[u \in Users |-> StocksOf(u, portfolios, holdings)], trades, Owing>>
        => [Account!Next]_<<[u \in Users |-> StocksOf(u, portfolios, holdings)], trades,
              {u \in Users : \E r \in Requests :
                /\ job[r].kind = "add" /\ job[r].user = u
                /\ pc[r] \in {"refresh", "charge"}}>>
    BY DEF Owing
<1> QED BY <1>1, <1>3, <1>4, SerialIsKept, PTL DEF SerialSpec, AccountSpec, Account!Spec

-----------------------------------------------------------------------------
(* The limits, when each user sends one request after the other.           *)

Metered(u) == u \in Registered \ Pro

\* Besides the limits: an addition that is not counted yet was still free.
WithinLimits ==
    /\ \A u \in Users : OneAtMost(u, OpenPortfolios) => OneAtMost(u, portfolios)
    /\ \A p \in portfolios : Cardinality(HoldingsOf(p.id)) <= MaxHoldings
    /\ \A u \in Users :
          Metered(u) /\ OpenTrades[u] <= FreeTrades => trades[u] <= FreeTrades
    /\ \A r \in Requests :
          Owes(r) /\ Metered(job[r].user) => trades[job[r].user] < FreeTrades

\* A step that leaves the tables alone, and after which r owes nothing that it
\* did not owe before.
LEMMA QuietLimits ==
    ASSUME SerialInv, WithinLimits, NEW r \in Requests, UNCHANGED <<job, tables>>,
           \A o \in Requests \ {r} : pc'[o] = pc[o],
           pc'[r] \in {"refresh", "charge"} => pc[r] \in {"refresh", "charge"}
    PROVE  WithinLimits'
<1>1. \A p : HoldingsOf(p)' = HoldingsOf(p)
    BY DEF HoldingsOf, tables
<1>2. \A o \in Requests : Owes(o)' => Owes(o)
    BY DEF Owes
<1> QED BY <1>1, <1>2 DEF WithinLimits, tables

LEMMA AnswerLimits ==
    ASSUME SerialInv, WithinLimits, NEW r \in Requests, NEW code, Answer(r, code),
           UNCHANGED tables
    PROVE  WithinLimits'
<1>1. pc'[r] = "done" /\ \A o \in Requests \ {r} : pc'[o] = pc[o]
    BY DEF Answer, SerialInv, TypeInv, TypeOK
<1> QED BY <1>1, QuietLimits DEF Answer

LEMMA GotoLimits ==
    ASSUME SerialInv, WithinLimits, NEW r \in Requests, NEW label, Goto(r, label),
           UNCHANGED tables, label = "refresh" \/ label = "charge" => pc[r] = "refresh"
    PROVE  WithinLimits'
<1>1. pc'[r] = label /\ \A o \in Requests \ {r} : pc'[o] = pc[o]
    BY DEF Goto, SerialInv, TypeInv, TypeOK
<1> QED BY <1>1, QuietLimits DEF Goto

\* The check found no portfolio, and none of the user has come since.
LEMMA InsertPortfolioLimits ==
    ASSUME SerialInv, WithinLimits, NEW r \in Requests, InsertPortfolio(r)
    PROVE  WithinLimits'
<1> DEFINE row == [id |-> r, user |-> job[r].user]
<1>1. /\ pc[r] = "insert" /\ job[r].kind = "create"
      /\ \A o \in Requests \ {r} : pc'[o] = pc[o]
      /\ UNCHANGED <<job, holdings, trades>>
      /\ portfolios' = portfolios \cup {row}
    BY DEF InsertPortfolio, LoseConfirmation, Answer, Goto, SerialInv, TypeInv, TypeOK
<1>2. PortfoliosOf(job[r].user) = {}
    BY <1>1 DEF SerialInv, Owned, OwnedAt
<1>3. ASSUME NEW u \in Users, OneAtMost(u, OpenPortfolios) PROVE OneAtMost(u, portfolios)'
    <2>1. OneAtMost(u, portfolios)
        BY <1>3 DEF WithinLimits
    <2> QED BY <1>1, <1>2, <2>1 DEF OneAtMost, PortfoliosOf
<1>4. ASSUME NEW p \in portfolios' PROVE Cardinality(HoldingsOf(p.id))' <= MaxHoldings
    <2>1. HoldingsOf(p.id)' = HoldingsOf(p.id)
        BY <1>1 DEF HoldingsOf
    <2>2. CASE p \in portfolios
        BY <2>1, <2>2 DEF WithinLimits
    <2>3. CASE p = row
        <3>1. \A q \in portfolios : q.id # r
            BY <1>1 DEF SerialInv, Keyed
        <3>2. HoldingsOf(p.id) = {}
            BY <2>3, <3>1 DEF HoldingsOf, SerialInv, Keyed
        <3> QED BY <2>1, <3>2, FS_EmptySet, LimitsAssumption
    <2> QED BY <1>1, <2>2, <2>3
<1>5. \A o \in Requests : Owes(o)' => Owes(o)
    BY <1>1 DEF Owes
<1> QED BY <1>1, <1>3, <1>4, <1>5 DEF WithinLimits

\* The check found room and a free addition, and nothing of the user has come
\* since.
LEMMA InsertHoldingLimits ==
    ASSUME SerialInv, WithinLimits, NEW r \in Requests, InsertHolding(r)
    PROVE  WithinLimits'
<1>1. CASE Refuse(r, 500)
    BY <1>1, AnswerLimits DEF Refuse
<1>2. CASE /\ holdings' = holdings \cup {NewHolding(r)}
           /\ UNCHANGED <<portfolios, trades>>
           /\ \/ /\ target' = [target EXCEPT ![r] = NewHolding(r)]
                 /\ Goto(r, "refresh")
                 /\ UNCHANGED found
              \/ LoseConfirmation(r)
    <2>1. /\ pc[r] = "insert" /\ job[r].kind = "add" /\ UNCHANGED job
          /\ \A o \in Requests \ {r} : pc'[o] = pc[o]
        BY <1>2 DEF InsertHolding, LoseConfirmation, Answer, Goto, SerialInv, TypeInv, TypeOK
    <2>2. /\ Cardinality(HoldingsOf(found[r])) < MaxHoldings
          /\ Metered(job[r].user) => trades[job[r].user] < FreeTrades
        BY <2>1 DEF SerialInv, Owned, OwnedAt, Metered
    <2>3. ASSUME NEW p \in portfolios PROVE Cardinality(HoldingsOf(p.id))' <= MaxHoldings
        <3>1. PICK S : S = HoldingsOf(p.id)
            OBVIOUS
        <3>2. IsFiniteSet(S) /\ Cardinality(S) \in Nat
            BY <3>1, CountOfHoldings
        <3>3. Cardinality(S) <= MaxHoldings
            BY <3>1 DEF WithinLimits
        <3>4. CASE p.id = found[r]
            <4>1. HoldingsOf(p.id)' = S \cup {NewHolding(r)}
                BY <1>2, <3>1, <3>4 DEF HoldingsOf, NewHolding
            <4>2. Cardinality(S) < MaxHoldings
                BY <2>2, <3>1, <3>4
            <4>3. Cardinality(S \cup {NewHolding(r)}) \in Nat
                  /\ Cardinality(S \cup {NewHolding(r)}) <= Cardinality(S) + 1
                BY <3>2, OneMore
            <4> QED BY <3>2, <4>1, <4>2, <4>3, LimitsAssumption
        <3>5. CASE p.id # found[r]
            <4>1. HoldingsOf(p.id)' = S
                BY <1>2, <3>1, <3>5 DEF HoldingsOf, NewHolding
            <4> QED BY <3>3, <4>1
        <3> QED BY <3>4, <3>5
    <2>4. ASSUME NEW o \in Requests, Owes(o)', Metered(job[o].user)'
          PROVE  trades'[job'[o].user] < FreeTrades
        <3>1. o = r \/ Owes(o)
            BY <2>1, <2>4 DEF Owes
        <3>2. Metered(job[o].user)
            BY <2>1, <2>4 DEF Metered
        <3> QED BY <1>2, <2>1, <2>2, <3>1, <3>2 DEF WithinLimits
    <2> QED BY <1>2, <2>3, <2>4 DEF WithinLimits
<1> QED BY <1>1, <1>2, InsertHoldingCases

\* What is counted was free when it was checked.
LEMMA ChargeLimits ==
    ASSUME SerialInv, WithinLimits, NEW r \in Requests, ChargeTrade(r)
    PROVE  WithinLimits'
<1> DEFINE u == job[r].user
<1>1. /\ pc[r] = "charge" /\ pc'[r] \in {"reply", "done"} /\ job[r].kind = "add"
      /\ \A o \in Requests \ {r} : pc'[o] = pc[o]
      /\ UNCHANGED <<job, portfolios, holdings>>
      /\ trades' = [trades EXCEPT ![u] = IF u \in Registered THEN @ + 1 ELSE @]
    BY DEF ChargeTrade, LoseConfirmation, Answer, Goto, SerialInv, TypeInv, TypeOK, Paths
<1>2. /\ u \in Users /\ \A v \in Users : trades[v] \in Nat /\ trades \in [Users -> Nat]
      /\ FreeTrades \in Nat
    BY JobType, TypeTables, LimitsAssumption DEF SerialInv, TypeInv, TypeOK
<1>3. Metered(u) => trades[u] < FreeTrades
    BY <1>1 DEF WithinLimits, Owes
<1>4. \A v \in Users \ {u} : trades'[v] = trades[v]
    BY <1>1, <1>2
<1>5. Metered(u) => trades'[u] <= FreeTrades
    BY <1>1, <1>2, <1>3
<1>6. ASSUME NEW v \in Users, Metered(v), OpenTrades[v] <= FreeTrades
      PROVE  trades'[v] <= FreeTrades
    BY <1>4, <1>5, <1>6 DEF WithinLimits
<1>7. ASSUME NEW o \in Requests, Owes(o)', Metered(job[o].user)'
      PROVE  trades'[job'[o].user] < FreeTrades
    <2>1. o # r /\ Owes(o) /\ Metered(job[o].user)
        BY <1>1, <1>7 DEF Owes, Metered
    <2>2. job[o].user \in Users \ {u}
        BY <1>1, <2>1, JobType
           DEF Owes, SerialInv, TypeInv, OneRequestPerUser, Running
    <2> QED BY <1>1, <1>4, <2>1, <2>2 DEF WithinLimits
<1>8. \A i : HoldingsOf(i)' = HoldingsOf(i)
    BY <1>1 DEF HoldingsOf
<1> QED BY <1>1, <1>6, <1>7, <1>8 DEF WithinLimits

LEMMA DeleteLimits ==
    ASSUME SerialInv, WithinLimits, NEW r \in Requests, DeleteHolding(r)
    PROVE  WithinLimits'
<1>1. /\ pc'[r] \in {"reply", "done"} /\ \A o \in Requests \ {r} : pc'[o] = pc[o]
      /\ UNCHANGED <<job, portfolios, trades>>
      /\ holdings' \subseteq holdings
    BY DEF DeleteHolding, LoseConfirmation, Answer, Goto, SerialInv, TypeInv, TypeOK
<1>2. ASSUME NEW p \in portfolios PROVE Cardinality(HoldingsOf(p.id))' <= MaxHoldings
    <2>1. PICK S : S = HoldingsOf(p.id)
        OBVIOUS
    <2>2. PICK T : T = HoldingsOf(p.id)'
        OBVIOUS
    <2>3. T \subseteq S
        BY <1>1, <2>1, <2>2 DEF HoldingsOf
    <2>4. IsFiniteSet(S) /\ Cardinality(S) \in Nat /\ Cardinality(S) <= MaxHoldings
        BY <2>1, CountOfHoldings DEF WithinLimits
    <2>5. Cardinality(T) \in Nat /\ Cardinality(T) <= Cardinality(S)
        BY <2>3, <2>4, FS_Subset, FS_CardinalityType
    <2> QED BY <2>2, <2>4, <2>5, LimitsAssumption
<1>3. \A o \in Requests : Owes(o)' => Owes(o)
    BY <1>1 DEF Owes
<1> QED BY <1>1, <1>2, <1>3 DEF WithinLimits

LEMMA ReadLimits ==
    ASSUME SerialInv, WithinLimits, NEW r \in Requests,
           FindPortfolio(r) \/ ListHoldings(r) \/ CountTrades(r) \/ FetchQuote(r)
             \/ Refresh(r) \/ Send(r)
    PROVE  WithinLimits'
<1>1. ASSUME NEW code, Refuse(r, code) PROVE WithinLimits'
    BY <1>1, AnswerLimits DEF Refuse
<1>2. ASSUME NEW label, Goto(r, label), UNCHANGED tables,
             label = "refresh" \/ label = "charge" => pc[r] = "refresh"
      PROVE  WithinLimits'
    BY <1>2, GotoLimits
<1>3. CASE FindPortfolio(r)
    BY <1>1, <1>2, <1>3 DEF FindPortfolio
<1>4. CASE ListHoldings(r)
    BY <1>1, <1>2, <1>4 DEF ListHoldings
<1>5. CASE CountTrades(r) \/ FetchQuote(r)
    BY <1>1, <1>2, <1>5 DEF CountTrades, FetchQuote
<1>6. CASE Refresh(r)
    BY <1>1, <1>2, <1>6 DEF Refresh
<1>7. CASE Send(r)
    BY <1>2, <1>7 DEF Send
<1> QED BY <1>3, <1>4, <1>5, <1>6, <1>7

LEMMA StepLimits == SerialInv /\ WithinLimits /\ [Next]_vars => WithinLimits'
<1> SUFFICES ASSUME SerialInv, WithinLimits, [Next]_vars PROVE WithinLimits'
    OBVIOUS
<1>1. ASSUME NEW r \in Requests, Reply(r) \/ DatabaseError(r) \/ Crash(r)
      PROVE  WithinLimits'
    BY <1>1, AnswerLimits DEF Reply, DatabaseError, Crash, Refuse
<1>2. CASE UNCHANGED vars
    BY <1>2 DEF vars, local, tables, WithinLimits, OneAtMost, HoldingsOf, Owes
<1> QED BY <1>1, <1>2, ReadLimits, InsertPortfolioLimits, InsertHoldingLimits,
           ChargeLimits, DeleteLimits
        DEF Next, Step, Finished

LEMMA InitLimits == Init => WithinLimits
  BY OpeningAssumption DEF Init, WithinLimits, HoldingsOf, Owes

\* The additions that succeed are in the count, up to one that is still to be
\* counted, for which there was a free addition left.
LEMMA SucceedingAreFree ==
    ASSUME TypeInv, Count, OneRequestPerUser, WithinLimits,
           NEW u \in Registered \ Pro, OpenTrades[u] <= FreeTrades
    PROVE  OpenTrades[u] + Cardinality(Succeeding(u)) <= FreeTrades
<1>1. /\ u \in Users /\ trades[u] \in Nat /\ OpenTrades[u] \in Nat
      /\ trades[u] <= FreeTrades /\ FreeTrades \in Nat
    BY TypeTables, LimitsAssumption, RowsAssumption DEF WithinLimits, Metered
<1>2. /\ IsFiniteSet(Surely(u)) /\ Cardinality(Surely(u)) \in Nat
      /\ Cardinality(Surely(u)) <= trades[u] - OpenTrades[u]
    BY CountIsFinite DEF Count, Between
<1>3. CASE \E r \in Adding(u) : Owes(r)
    <2>1. PICK r \in Adding(u) : Owes(r)
        BY <1>3
    <2>2. trades[u] < FreeTrades
        BY <2>1 DEF WithinLimits, Adding, Metered
    <2>3. \A o \in Adding(u) : Owes(o) => o = r
        BY <2>1 DEF Adding, Owes, OneRequestPerUser, Running
    <2>4. Succeeding(u) \subseteq Surely(u) \cup {r}
        BY <2>3 DEF Succeeding, Surely, Owes, Adding
    <2>5. /\ IsFiniteSet(Surely(u) \cup {r})
          /\ Cardinality(Surely(u) \cup {r}) \in Nat
          /\ Cardinality(Surely(u) \cup {r}) <= Cardinality(Surely(u)) + 1
        BY <1>2, OneMore
    <2>6. /\ Cardinality(Succeeding(u)) \in Nat
          /\ Cardinality(Succeeding(u)) <= Cardinality(Surely(u) \cup {r})
        BY <2>4, <2>5, FS_Subset, FS_CardinalityType
    <2> QED BY <1>1, <1>2, <2>2, <2>5, <2>6
<1>4. CASE \A r \in Adding(u) : ~Owes(r)
    <2>1. Succeeding(u) \subseteq Surely(u)
        BY <1>4 DEF Succeeding, Surely, Owes, Adding
    <2>2. /\ Cardinality(Succeeding(u)) \in Nat
          /\ Cardinality(Succeeding(u)) <= Cardinality(Surely(u))
        BY <1>2, <2>1, FS_Subset, FS_CardinalityType
    <2> QED BY <1>1, <1>2, <2>2
<1> QED BY <1>3, <1>4

\* A user whose requests do not overlap has one portfolio, at most MaxHoldings
\* stocks in it, and at most FreeTrades additions that succeed, whatever fails,
\* dies or is lost and whatever other users do.  An addition whose request fails
\* between its two commits is not among those that succeed, and not limited.
THEOREM SerialUsersKeepLimits == SerialSpec => []LimitsAreKept
<1>1. SerialInv /\ Count /\ WithinLimits => LimitsAreKept
    BY SucceedingAreFree
       DEF WithinLimits, LimitsAreKept, PortfoliosOf, Metered, SerialInv
<1>2. SerialInv /\ WithinLimits /\ [Next /\ OneRequestPerUser']_vars => WithinLimits'
    BY StepLimits
<1>3. [Next /\ OneRequestPerUser']_vars => [Next]_vars
    OBVIOUS
<1> QED BY <1>1, <1>2, <1>3, InitLimits, SerialIsKept, CountIsKept, PTL
        DEF SerialSpec, Spec
=============================================================================
