--------------------------- MODULE PaperBooksProofs ---------------------------
(***************************************************************************)
(* What the tables of paper trading say after any number of requests,      *)
(* retries, crashes and lost commits: PaperTrading implements TradeJournal; *)
(* a position moves with its execution, and a commit that is not stale is  *)
(* a step of the indivisible ledger; no shares are invented, and only a    *)
(* stale trade puts the books out.                                         *)
(***************************************************************************)
EXTENDS PaperBooks, PaperTradingProofs, TotalsProofs

-----------------------------------------------------------------------------
(* Idempotency, and the journal with receipts.                             *)


Committing(r) == pc[r] = "commit" /\ IsTrade(r)

\* The inductive invariant.  Uniqueness is not inductive by itself: it rests on
\* the keys that sessions have inserted and not yet committed, which differ
\* from those of the table and from each other.
Recordings ==
    /\ OneExecutionPerProposal
    /\ \A r \in Requests : Committing(r) =>
          /\ ~Clashes(r)
          /\ \A o \in Requests \ {r} : Committing(o) => ~SameTrade(job[o], job[r])
    /\ \A e \in executions : /\ pc[e.by] \in {"reply", "done"}
                             /\ status[e.by] \in {0, 201, 500}
    /\ \A r \in Requests : pc[r] = "reply" /\ IsTrade(r) => Execution(r) \in executions
    /\ \A r \in Requests : pc[r] # "done" => status[r] = 0 /\ receipt[r] = NoRow
    /\ ReceiptIsRecorded

\* A step of r that neither records nor answers with a receipt.
LEMMA QuietStep ==
    ASSUME TypeInv, Recordings, NEW r \in Requests, pc[r] # "done",
           UNCHANGED <<job, receipt, executions>>,
           \A o \in Requests \ {r} : /\ pc'[o] = pc[o]
                                     /\ status'[o] = status[o]
                                     /\ quote'[o] = quote[o],
           pc'[r] # "reply",
           pc'[r] # "done" => status'[r] = 0 /\ pc[r] # "reply",
           pc[r] = "reply" => status'[r] \in {0, 201, 500},
           Committing(r)' =>
              /\ ~Clashes(r)
              /\ \A o \in Requests \ {r} : Committing(o) => ~SameTrade(job[o], job[r])
    PROVE  Recordings'
<1>1. \A o \in Requests : IsTrade(o)' = IsTrade(o) /\ Clashes(o)' = Clashes(o)
    BY DEF IsTrade, Clashes, SameTrade
<1>2. OneExecutionPerProposal'
    BY DEF Recordings, OneExecutionPerProposal, SameTrade
<1>3. ASSUME NEW o \in Requests, Committing(o)'
      PROVE  /\ ~Clashes(o)'
             /\ \A p \in Requests \ {o} :
                    Committing(p)' => ~SameTrade(job[p], job[o])'
    BY <1>1, <1>3 DEF Recordings, Committing, SameTrade
<1>4. \A e \in executions' : pc'[e.by] \in {"reply", "done"}
                             /\ status'[e.by] \in {0, 201, 500}
    <2>1. \A e \in executions : e.by \in Requests
        BY DEF TypeInv, TypeOK, Executions
    <2>2. pc'[r] = "done" \/ pc[r] # "reply"
        OBVIOUS
    <2> QED BY <2>1, <2>2 DEF Recordings
<1>5. \A o \in Requests :
        (pc[o] = "reply" /\ IsTrade(o))' => (Execution(o) \in executions)'
    BY <1>1 DEF Recordings, Execution
<1>6. \A o \in Requests : pc'[o] # "done" => status'[o] = 0 /\ receipt'[o] = NoRow
    BY DEF Recordings
<1>7. ReceiptIsRecorded'
    BY DEF Recordings, ReceiptIsRecorded
<1> QED BY <1>2, <1>3, <1>4, <1>5, <1>6, <1>7 DEF Recordings

LEMMA RefuseRecords ==
    ASSUME TypeInv, Recordings, NEW r \in Requests, NEW code,
           Refuse(r, code), pc[r] # "done",
           pc[r] = "reply" => code \in {0, 201, 500}
    PROVE  Recordings'
<1>1. /\ pc'[r] = "done"
      /\ status'[r] = code
      /\ \A o \in Requests \ {r} : pc'[o] = pc[o] /\ status'[o] = status[o]
    BY DEF Refuse, Close, TypeInv, TypeOK
<1> QED BY <1>1, QuietStep DEF Refuse, Committing

LEMMA GotoRecords ==
    ASSUME TypeInv, Recordings, NEW r \in Requests, NEW label, Goto(r, label),
           pc[r] \notin {"reply", "done"}, label \notin {"reply", "done"},
           \A o \in Requests \ {r} : quote'[o] = quote[o],
           label = "commit" /\ IsTrade(r) =>
              /\ ~Clashes(r)
              /\ \A o \in Requests \ {r} : Committing(o) => ~SameTrade(job[o], job[r])
    PROVE  Recordings'
<1>1. /\ pc'[r] = label
      /\ status'[r] = 0
      /\ \A o \in Requests \ {r} : pc'[o] = pc[o] /\ status'[o] = status[o]
    BY DEF Goto, TypeInv, TypeOK, Recordings
<1>2. Committing(r)' => label = "commit" /\ IsTrade(r)
    BY <1>1 DEF Committing, IsTrade, Goto
<1> QED BY <1>1, <1>2, QuietStep DEF Goto

\* An answer with a receipt that repeats an entry of the table.
LEMMA ReceiptRecords ==
    ASSUME TypeInv, Recordings, NEW r \in Requests, pc[r] # "done",
           Close(r, 201), NEW e \in executions, NEW price,
           e.order.proposal = job[r].proposal, e.price = Ticks(price),
           receipt' = [receipt EXCEPT ![r] = [order |-> e.order, price |-> price]],
           UNCHANGED <<job, quote, executions>>
    PROVE  Recordings'
<1>1. /\ pc'[r] = "done"
      /\ status'[r] = 201
      /\ \A o \in Requests \ {r} : pc'[o] = pc[o] /\ status'[o] = status[o]
                                   /\ receipt'[o] = receipt[o]
      /\ receipt'[r] = [order |-> e.order, price |-> price]
    BY DEF Close, TypeInv, TypeOK
<1>2. \A o \in Requests : IsTrade(o)' = IsTrade(o) /\ Clashes(o)' = Clashes(o)
    BY DEF IsTrade, Clashes, SameTrade
<1>3. OneExecutionPerProposal'
    BY DEF Recordings, OneExecutionPerProposal, SameTrade
<1>4. ASSUME NEW o \in Requests, Committing(o)'
      PROVE  /\ ~Clashes(o)'
             /\ \A p \in Requests \ {o} :
                    Committing(p)' => ~SameTrade(job[p], job[o])'
    BY <1>1, <1>2, <1>4 DEF Recordings, Committing, SameTrade
<1>5. \A x \in executions' : pc'[x.by] \in {"reply", "done"}
                             /\ status'[x.by] \in {0, 201, 500}
    <2>1. \A x \in executions : x.by \in Requests
        BY DEF TypeInv, TypeOK, Executions
    <2> QED BY <1>1, <2>1 DEF Recordings
<1>6. \A o \in Requests :
        (pc[o] = "reply" /\ IsTrade(o))' => (Execution(o) \in executions)'
    BY <1>1, <1>2 DEF Recordings, Execution
<1>7. \A o \in Requests : pc'[o] # "done" => status'[o] = 0 /\ receipt'[o] = NoRow
    BY <1>1 DEF Recordings
<1>8. ReceiptIsRecorded'
    BY <1>1 DEF Recordings, ReceiptIsRecorded
<1> QED BY <1>3, <1>4, <1>5, <1>6, <1>7, <1>8 DEF Recordings

\* The row a commit inserts, and the journal's entry for it, is new.
LEMMA ExecutionIsNew ==
    ASSUME TypeInv, Recordings, NEW r \in Requests, Committing(r)
    PROVE  /\ Execution(r) \notin executions
           /\ \A e \in executions : ~SameTrade(e.order, Execution(r).order)
<1>1. \A e \in executions : ~SameTrade(e.order, job[r])
    BY DEF Recordings, Clashes
<1>2. SameTrade(Execution(r).order, job[r])
    BY DEF SameTrade, Execution, Recorded
<1>3. \A e \in executions :
        SameTrade(e.order, Execution(r).order) <=> SameTrade(e.order, job[r])
    BY DEF SameTrade, Execution, Recorded
<1> QED BY <1>1, <1>2, <1>3

LEMMA CommitRecords ==
    ASSUME TypeInv, Recordings, NEW r \in Requests, Commit(r)
    PROVE  Recordings'
<1>1. /\ \/ pc'[r] = "reply" /\ status'[r] = 0
         \/ pc'[r] = "done" /\ status'[r] = 500
      /\ \A o \in Requests \ {r} : pc'[o] = pc[o] /\ status'[o] = status[o]
      /\ pc[r] = "commit"
      /\ UNCHANGED <<job, quote, receipt>>
    BY DEF Commit, LoseConfirmation, Close, TypeInv, TypeOK, Recordings
<1>2. \A o \in Requests : IsTrade(o)' = IsTrade(o) /\ Execution(o)' = Execution(o)
    BY <1>1 DEF IsTrade, Execution
<1>3. executions' = IF IsTrade(r) THEN executions \cup {Execution(r)} ELSE executions
    BY DEF Commit
<1>4. IsTrade(r) => Committing(r)
    BY <1>1 DEF Committing
<1>5. OneExecutionPerProposal'
    <2>1. CASE ~IsTrade(r)
        BY <1>3, <2>1 DEF Recordings, OneExecutionPerProposal, SameTrade
    <2>2. CASE IsTrade(r)
        BY <1>3, <1>4, <2>2, ExecutionIsNew
           DEF Recordings, OneExecutionPerProposal, SameTrade
    <2> QED BY <2>1, <2>2
<1>6. ASSUME NEW o \in Requests, Committing(o)'
      PROVE  /\ ~Clashes(o)'
             /\ \A p \in Requests \ {o} :
                    Committing(p)' => ~SameTrade(job[p], job[o])'
    <2>1. o # r /\ Committing(o)
        BY <1>1, <1>2, <1>6 DEF Committing
    <2>2. \A p \in Requests : Committing(p)' => Committing(p)
        BY <1>1, <1>2 DEF Committing
    <2>3. IsTrade(r) => ~SameTrade(Execution(r).order, job[o])
        BY <1>4, <2>1 DEF Recordings, SameTrade, Execution, Recorded
    <2>4. ~Clashes(o)'
        BY <1>1, <1>3, <2>1, <2>3 DEF Recordings, Clashes, SameTrade
    <2> QED BY <1>1, <2>1, <2>2, <2>4 DEF Recordings, SameTrade
<1>7. \A x \in executions' : pc'[x.by] \in {"reply", "done"}
                             /\ status'[x.by] \in {0, 201, 500}
    <2>1. \A x \in executions : x.by \in Requests
        BY DEF TypeInv, TypeOK, Executions
    <2>2. Execution(r).by = r
        BY DEF Execution
    <2> QED BY <1>1, <1>3, <2>1, <2>2 DEF Recordings
<1>8. \A o \in Requests :
        (pc[o] = "reply" /\ IsTrade(o))' => (Execution(o) \in executions)'
    BY <1>1, <1>2, <1>3 DEF Recordings
<1>9. \A o \in Requests : pc'[o] # "done" => status'[o] = 0 /\ receipt'[o] = NoRow
    BY <1>1 DEF Recordings
<1>10. ReceiptIsRecorded'
    BY <1>1, <1>3 DEF Recordings, ReceiptIsRecorded
<1> QED BY <1>5, <1>6, <1>7, <1>8, <1>9, <1>10 DEF Recordings

LEMMA ReplayRecords ==
    ASSUME TypeInv, Recordings, NEW r \in Requests, pc[r] = "check", Replay(r)
    PROVE  Recordings'
<1>1. PICK e \in executions :
        /\ e.order.proposal = job[r].proposal
        /\ Close(r, 201)
        /\ receipt' = [receipt EXCEPT ![r] =
                         [order |-> e.order, price |-> e.price * SubTicks]]
        /\ UNCHANGED <<job, quote, seen, positions, executions>>
    BY DEF Replay
<1>2. e.price = Ticks(e.price * SubTicks)
    BY TicksOfStoredPrice DEF TypeInv, TypeOK, Executions, Price
<1> QED BY <1>1, <1>2, ReceiptRecords

LEMMA ReplyRecords ==
    ASSUME TypeInv, Recordings, NEW r \in Requests, Reply(r)
    PROVE  Recordings'
<1>1. CASE Refuse(r, 201) \/ Refuse(r, 500)
    BY <1>1, RefuseRecords DEF Reply
<1>2. CASE /\ IsTrade(r)
           /\ Close(r, 201)
           /\ receipt' = [receipt EXCEPT ![r] =
                            [order |-> Recorded(job[r]), price |-> quote[r]]]
           /\ UNCHANGED <<job, quote, seen, positions, executions>>
    <2>1. Execution(r) \in executions
        BY <1>2 DEF Reply, Recordings
    <2>2. /\ Execution(r).order = Recorded(job[r])
          /\ Execution(r).order.proposal = job[r].proposal
          /\ Execution(r).price = Ticks(quote[r])
        BY DEF Execution, Recorded
    <2> HIDE DEF Execution
    <2> QED BY <1>2, <2>1, <2>2, ReceiptRecords DEF Reply
<1> QED BY <1>1, <1>2 DEF Reply

LEMMA FlushRecords ==
    ASSUME TypeInv, Recordings, NEW r \in Requests, FlushPosition(r)
    PROVE  Recordings'
<1>1. ASSUME NEW code, Refuse(r, code) PROVE Recordings'
    BY <1>1, RefuseRecords DEF FlushPosition
<1>2. ASSUME NEW label \in {"record", "commit"}, Goto(r, label),
             label = "commit" => ~IsTrade(r), UNCHANGED quote
      PROVE  Recordings'
    BY <1>2, GotoRecords DEF FlushPosition
<1>3. ASSUME NEW row, Store(r, row) PROVE Recordings'
    BY <1>1, <1>2, <1>3 DEF Store
<1>4. CASE InsertPosition(r)
    BY <1>1, <1>3, <1>4 DEF InsertPosition
<1>5. CASE UpdatePosition(r)
    <2>1. seen[r] # NoRow
        BY <1>5 DEF UpdatePosition
    <2>2. IsTrade(r) => NewQuantity(r) # seen[r].quantity
        BY <2>1, TradesMove
    <2> QED BY <1>1, <1>2, <1>3, <1>5, <2>2 DEF UpdatePosition
<1>6. CASE DeletePosition(r)
    BY <1>2, <1>6 DEF DeletePosition
<1> QED BY <1>4, <1>5, <1>6 DEF FlushPosition

LEMMA RecordRecords ==
    ASSUME TypeInv, Recordings, NEW r \in Requests, RecordExecution(r)
    PROVE  Recordings'
<1>1. CASE Refuse(r, 409)
    BY <1>1, RefuseRecords DEF RecordExecution
<1>2. CASE ~Clashes(r) /\ Goto(r, "commit") /\ UNCHANGED <<quote, seen, pending>>
    BY <1>2, GotoRecords DEF RecordExecution, Committing
<1> QED BY <1>1, <1>2 DEF RecordExecution

LEMMA StepRecords ==
    ASSUME TypeInv, Recordings, [Next]_vars
    PROVE  Recordings'
<1>1. ASSUME NEW r \in Requests, Send(r) PROVE Recordings'
    BY <1>1, GotoRecords DEF Send
<1>2. ASSUME NEW r \in Requests, Step(r) PROVE Recordings'
    <2>1. CASE CheckIdempotency(r)
        <3>1. CASE Refuse(r, 422)
            BY <2>1, <3>1, RefuseRecords DEF CheckIdempotency
        <3>2. CASE Goto(r, "quote") /\ UNCHANGED <<quote, seen, pending>>
            BY <2>1, <3>2, GotoRecords DEF CheckIdempotency
        <3> QED BY <2>1, <3>1, <3>2, ReplayRecords DEF CheckIdempotency
    <2>2. CASE FetchQuote(r)
        <3>1. CASE Refuse(r, 422)
            BY <2>2, <3>1, RefuseRecords DEF FetchQuote
        <3>2. ASSUME NEW q, quote' = [quote EXCEPT ![r] = q], Goto(r, "load")
              PROVE  Recordings'
            BY <2>2, <3>2, GotoRecords DEF FetchQuote, TypeInv, TypeOK
        <3> QED BY <2>2, <3>1, <3>2 DEF FetchQuote
    <2>3. CASE LoadPortfolio(r)
        <3>1. CASE Refuse(r, 404) \/ Refuse(r, 403)
            BY <2>3, <3>1, RefuseRecords DEF LoadPortfolio
        <3>2. CASE Goto(r, "select") /\ UNCHANGED quote
            BY <2>3, <3>2, GotoRecords DEF LoadPortfolio
        <3> QED BY <2>3, <3>1, <3>2 DEF LoadPortfolio
    <2>4. CASE SelectPosition(r)
        <3>1. CASE Refuse(r, 422)
            BY <2>4, <3>1, RefuseRecords DEF SelectPosition
        <3>2. CASE Goto(r, "flush") /\ UNCHANGED quote
            BY <2>4, <3>2, GotoRecords DEF SelectPosition
        <3> QED BY <2>4, <3>1, <3>2 DEF SelectPosition
    <2> QED BY <1>2, <2>1, <2>2, <2>3, <2>4, FlushRecords, RecordRecords,
               CommitRecords, ReplyRecords DEF Step
<1>3. ASSUME NEW r \in Requests, DatabaseError(r) \/ Crash(r) PROVE Recordings'
    BY <1>3, RefuseRecords DEF DatabaseError, Crash
<1>4. CASE UNCHANGED vars
    BY <1>4 DEF vars, Recordings, OneExecutionPerProposal, ReceiptIsRecorded,
                Committing, Clashes, SameTrade, IsTrade, Execution
<1> QED BY <1>1, <1>2, <1>3, <1>4 DEF Next, Finished

LEMMA InitRecords == Init => Recordings
  BY DEF Init, Recordings, OneExecutionPerProposal, ReceiptIsRecorded, Committing

LEMMA RecordingsAreKept == Spec => []Recordings
  BY TypeCorrect, InitRecords, StepRecords, PTL DEF Spec

-----------------------------------------------------------------------------
\* No proposal and no execution id is ever executed twice.
THEOREM Idempotency == Spec => []OneExecutionPerProposal
<1>1. Recordings => OneExecutionPerProposal
    BY DEF Recordings
<1> QED BY <1>1, RecordingsAreKept, PTL

\* Every receipt is about a stored execution of the proposal it answers.
THEOREM ReceiptsAreTrue == Spec => []ReceiptIsRecorded
<1>1. Recordings => ReceiptIsRecorded
    BY DEF Recordings
<1> QED BY <1>1, RecordingsAreKept, PTL

\* A request that was refused has executed nothing.
THEOREM RefusalsAreFinal == Spec => []RefusedTradeLeavesNoTrace
<1>1. Recordings => RefusedTradeLeavesNoTrace
    BY DEF Recordings, RefusedTradeLeavesNoTrace
<1> QED BY <1>1, RecordingsAreKept, PTL

-----------------------------------------------------------------------------
(* The refinement: a commit of a trade enters its execution, the answer of a *)
(* receipt acknowledges one, and every other step stutters.                  *)

JournalVars == <<EntriesOf(executions), [r \in Requests |-> ReceiptEntry(r)]>>

LEMMA JournalInit == Init => Journal!Init
  BY DEF Init, Journal!Init, EntriesOf, ReceiptEntry

\* What a step that changes neither of the two maps to.
LEMMA JournalStutters ==
    ASSUME UNCHANGED <<executions, receipt>>
    PROVE  UNCHANGED JournalVars
  BY DEF JournalVars, EntriesOf, ReceiptEntry, Entry

LEMMA JournalEnters ==
    ASSUME TypeInv, Recordings, NEW r \in Requests, Commit(r), IsTrade(r)
    PROVE  Journal!Enter
<1> DEFINE entry == Entry(Execution(r).order, Execution(r).price)
<1>1. executions' = executions \cup {Execution(r)}
    BY DEF Commit
<1>2. EntriesOf(executions') = EntriesOf(executions) \cup {entry}
    BY <1>1 DEF EntriesOf
<1>3. \A e \in executions : ~SameTrade(e.order, Execution(r).order)
    BY ExecutionIsNew DEF Commit, Committing
<1>4. \A x \in EntriesOf(executions) : ~Journal!SameTrade(x.order, entry.order)
    BY <1>3 DEF EntriesOf, Entry, SameTrade, Journal!SameTrade
<1>5. entry \in EntriesOf(executions')
    BY <1>2
<1>6. UNCHANGED [o \in Requests |-> ReceiptEntry(o)]
    BY DEF Commit, ReceiptEntry, Entry
<1> HIDE DEF entry
<1> QED BY <1>2, <1>4, <1>5, <1>6 DEF Journal!Enter

LEMMA JournalAcknowledges ==
    ASSUME TypeInv, Recordings, NEW r \in Requests, pc[r] # "done",
           NEW e \in executions, NEW price, e.price = Ticks(price),
           receipt' = [receipt EXCEPT ![r] = [order |-> e.order, price |-> price]],
           NoRow # [order |-> e.order, price |-> price],
           UNCHANGED executions
    PROVE  Journal!Acknowledge(r)
<1> DEFINE entry == Entry(e.order, e.price)
           before == [o \in Requests |-> ReceiptEntry(o)]
<1>1. entry \in EntriesOf(executions)
    BY DEF EntriesOf
<1>2. receipt[r] = NoRow
    BY DEF Recordings
<1>3. before[r] = NoRow
    BY <1>2 DEF ReceiptEntry
<1>4. [o \in Requests |-> ReceiptEntry(o)]' = [before EXCEPT ![r] = entry]
    <2>1. ReceiptEntry(r)' = entry
        BY DEF ReceiptEntry, Entry, TypeInv, TypeOK
    <2>2. \A o \in Requests \ {r} : ReceiptEntry(o)' = ReceiptEntry(o)
        BY DEF ReceiptEntry, Entry, TypeInv, TypeOK
    <2> QED BY <2>1, <2>2
<1> QED BY <1>1, <1>3, <1>4 DEF Journal!Acknowledge, ReceiptEntry

LEMMA ReceiptIsNoRow ==
    ASSUME NEW order \in RecordedOrders, NEW price \in Price
    PROVE  NoRow # [order |-> order, price |-> price]
<1>1. [order |-> order, price |-> price] \in Receipts
    BY DEF Receipts
<1> QED BY <1>1, RowsAssumption

LEMMA JournalStep ==
    ASSUME TypeInv, Recordings, [Next]_vars
    PROVE  Journal!Next \/ UNCHANGED JournalVars
<1>1. CASE UNCHANGED <<executions, receipt>>
    BY <1>1, JournalStutters
<1>2. ASSUME NEW r \in Requests, Commit(r) PROVE Journal!Next \/ UNCHANGED JournalVars
    <2>1. CASE IsTrade(r)
        BY <1>2, <2>1, JournalEnters DEF Journal!Next
    <2>2. CASE ~IsTrade(r)
        BY <1>2, <2>2, JournalStutters DEF Commit
    <2> QED BY <2>1, <2>2
<1>3. ASSUME NEW r \in Requests, pc[r] = "check", Replay(r)
      PROVE  Journal!Next
    <2>1. PICK e \in executions :
            /\ e.order.proposal = job[r].proposal
            /\ Close(r, 201)
            /\ receipt' = [receipt EXCEPT ![r] =
                             [order |-> e.order, price |-> e.price * SubTicks]]
            /\ UNCHANGED <<job, quote, seen, positions, executions>>
        BY <1>3 DEF Replay
    <2>2. e.order \in RecordedOrders /\ e.price \in Price
        BY DEF TypeInv, TypeOK, Executions
    <2>3. e.price * SubTicks \in Price
        BY <2>2, SubTicksAssumption, Z3 DEF Price
    <2>4. e.price = Ticks(e.price * SubTicks)
        BY <2>2, TicksOfStoredPrice DEF Price
    <2>5. Journal!Acknowledge(r)
        BY <1>3, <2>1, <2>2, <2>3, <2>4, ReceiptIsNoRow, JournalAcknowledges
    <2> QED BY <2>5 DEF Journal!Next
<1>4. ASSUME NEW r \in Requests, Reply(r), IsTrade(r)
      PROVE  Journal!Next
    <2>1. Execution(r) \in executions
        BY <1>4 DEF Reply, Recordings
    <2>2. /\ Execution(r).order = Recorded(job[r])
          /\ Execution(r).price = Ticks(quote[r])
        BY DEF Execution
    <2>3. Recorded(job[r]) \in RecordedOrders /\ quote[r] \in Price
        BY <1>4, ExecutionType DEF Reply, TypeInv, Paths, Priced
    <2>4. receipt' = [receipt EXCEPT ![r] =
                        [order |-> Recorded(job[r]), price |-> quote[r]]]
        BY <1>4 DEF Reply
    <2>5. pc[r] # "done" /\ UNCHANGED executions
        BY <1>4 DEF Reply, Refuse
    <2>6. Journal!Acknowledge(r)
        <3> HIDE DEF Execution
        <3> QED BY <2>1, <2>2, <2>3, <2>4, <2>5, ReceiptIsNoRow, JournalAcknowledges
    <2> QED BY <2>6 DEF Journal!Next
<1>5. ASSUME NEW r \in Requests, Step(r) PROVE Journal!Next \/ UNCHANGED JournalVars
    <2>1. CASE CheckIdempotency(r)
        BY <1>1, <1>3, <2>1 DEF CheckIdempotency, Refuse, Goto
    <2>2. CASE Reply(r)
        BY <1>1, <1>4, <2>2 DEF Reply, Refuse
    <2>3. CASE FetchQuote(r) \/ LoadPortfolio(r) \/ SelectPosition(r) \/ RecordExecution(r)
        BY <1>1, <2>3 DEF FetchQuote, LoadPortfolio, SelectPosition, RecordExecution,
                         Refuse, Goto
    <2>4. CASE FlushPosition(r)
        BY <1>1, <2>4 DEF FlushPosition, InsertPosition, UpdatePosition,
                         DeletePosition, Store, Refuse, Goto
    <2> QED BY <1>2, <1>5, <2>1, <2>2, <2>3, <2>4 DEF Step
<1>6. ASSUME NEW r \in Requests, Send(r) \/ DatabaseError(r) \/ Crash(r)
      PROVE  UNCHANGED <<executions, receipt>>
    BY <1>6 DEF Send, DatabaseError, Crash, Refuse, Goto
<1>7. CASE UNCHANGED vars
    BY <1>1, <1>7 DEF vars
<1> QED BY <1>1, <1>5, <1>6, <1>7 DEF Next, Finished

\* The executions table and the answers implement the journal.
THEOREM ImplementsJournal == Spec => JournalSpec
<1>1. TypeInv /\ Recordings /\ [Next]_vars
        => [Journal!Next]_<<EntriesOf(executions), [r \in Requests |-> ReceiptEntry(r)]>>
    BY JournalStep DEF JournalVars
<1> QED BY <1>1, TypeCorrect, RecordingsAreKept, JournalInit, PTL
        DEF Spec, JournalSpec, Journal!Spec

-----------------------------------------------------------------------------
(* What a commit may do to the positions, and the indivisible ledger.      *)


\* A row that is written and not yet committed is locked: no other session has
\* written its key, and the committed row is still the one that was written.
Locks ==
    \A r \in Requests : pending[r] # NoWrite =>
        /\ pc[r] \in {"record", "commit"}
        /\ \A o \in Requests \ {r} : pending[o] # NoWrite => KeyOf(o) # KeyOf(r)
        /\ pending[r] # NoRow =>
             pending[r].id = IF positions[KeyOf(r)] = NoRow THEN r
                             ELSE positions[KeyOf(r)].id

\* A step that commits nothing, and that writes at most for r.
LEMMA QuietLocks ==
    ASSUME TypeInv, Locks, NEW r \in Requests, UNCHANGED <<job, positions>>,
           \A o \in Requests \ {r} : pc'[o] = pc[o] /\ pending'[o] = pending[o],
           pending'[r] # NoWrite =>
             /\ pc'[r] \in {"record", "commit"}
             /\ pending[r] # NoWrite \/ ~Busy(r)
             /\ pending'[r] # NoRow =>
                  pending'[r].id = IF positions[KeyOf(r)] = NoRow THEN r
                                   ELSE positions[KeyOf(r)].id
    PROVE  Locks'
<1>1. \A o \in Requests : KeyOf(o)' = KeyOf(o)
    BY DEF KeyOf, IsTrade
<1>2. pending'[r] # NoWrite =>
        \A o \in Requests \ {r} : pending[o] # NoWrite => KeyOf(o) # KeyOf(r)
    BY DEF Locks, Busy
<1> QED BY <1>1, <1>2 DEF Locks

LEMMA RefuseLocks ==
    ASSUME TypeInv, Locks, NEW r \in Requests, NEW code, Refuse(r, code)
    PROVE  Locks'
<1>1. /\ pending'[r] = NoWrite
      /\ \A o \in Requests \ {r} : pc'[o] = pc[o] /\ pending'[o] = pending[o]
    BY DEF Refuse, Close, TypeInv, TypeOK
<1> QED BY <1>1, QuietLocks DEF Refuse

LEMMA GotoLocks ==
    ASSUME TypeInv, Locks, NEW r \in Requests, NEW label, Goto(r, label),
           UNCHANGED pending,
           pc[r] \in {"record", "commit"} => label \in {"record", "commit"}
    PROVE  Locks'
<1>1. pc'[r] = label /\ \A o \in Requests \ {r} : pc'[o] = pc[o]
    BY DEF Goto, TypeInv, TypeOK
<1>2. pending[r] # NoWrite => pc[r] \in {"record", "commit"}
    BY DEF Locks
<1> QED BY <1>1, <1>2, QuietLocks DEF Goto, Locks

LEMMA StoreLocks ==
    ASSUME TypeInv, Locks, NEW r \in Requests, NEW row, Store(r, row), ~Busy(r),
           row.id = IF positions[KeyOf(r)] = NoRow THEN r ELSE positions[KeyOf(r)].id
    PROVE  Locks'
<1>1. ASSUME NEW code, Refuse(r, code) PROVE Locks'
    BY <1>1, RefuseLocks
<1>2. CASE /\ pending' = [pending EXCEPT ![r] = row]
           /\ Goto(r, IF IsTrade(r) THEN "record" ELSE "commit")
    <2>1. /\ pc'[r] \in {"record", "commit"}
          /\ pending'[r] = row
          /\ \A o \in Requests \ {r} : pc'[o] = pc[o] /\ pending'[o] = pending[o]
        BY <1>2 DEF Goto, TypeInv, TypeOK
    <2> QED BY <1>2, <2>1, QuietLocks DEF Goto
<1> QED BY <1>1, <1>2 DEF Store

LEMMA FlushLocks ==
    ASSUME TypeInv, Locks, NEW r \in Requests, FlushPosition(r)
    PROVE  Locks'
<1>1. pc[r] = "flush" /\ KeyOf(r) \in Keys
    BY DEF FlushPosition, TypeInv, Paths
<1>2. ASSUME NEW code, Refuse(r, code) PROVE Locks'
    BY <1>2, RefuseLocks
<1>3. CASE InsertPosition(r)
    <2> DEFINE row == [id |-> r, quantity |-> job[r].quantity,
                       price |-> Ticks(EntryPrice(r))]
    <2>1. \/ Refuse(r, Violation(r))
          \/ positions[KeyOf(r)] = NoRow /\ ~Busy(r) /\ Store(r, row)
        BY <1>3 DEF InsertPosition
    <2>2. row.id = r
        OBVIOUS
    <2> HIDE DEF row
    <2> QED BY <1>2, <2>1, <2>2, StoreLocks
<1>4. CASE UpdatePosition(r)
    <2>1. CASE Goto(r, "commit") /\ UNCHANGED pending
        BY <2>1, GotoLocks
    <2>2. ASSUME NEW priceToo, IsStored(r), ~Busy(r), Store(r, Updated(r, priceToo))
          PROVE  Locks'
        <3>1. positions[KeyOf(r)] \in Rows /\ positions[KeyOf(r)] # NoRow
            BY <1>1, <2>2 DEF IsStored, TypeInv, TypeOK, OptionalRows
        <3>2. Updated(r, priceToo).id = positions[KeyOf(r)].id
            BY <3>1 DEF Updated, Rows
        <3> QED BY <2>2, <3>1, <3>2, StoreLocks
    <2> QED BY <1>2, <1>4, <2>1, <2>2 DEF UpdatePosition
<1>5. CASE DeletePosition(r)
    <2>1. CASE UNCHANGED pending
        BY <1>5, <2>1, GotoLocks DEF DeletePosition
    <2>2. CASE ~Busy(r) /\ pending' = [pending EXCEPT ![r] = NoRow]
        <3>1. /\ pc'[r] = "record"
              /\ pending'[r] = NoRow
              /\ \A o \in Requests \ {r} : pc'[o] = pc[o] /\ pending'[o] = pending[o]
            BY <1>5, <2>2 DEF DeletePosition, Goto, TypeInv, TypeOK
        <3> QED BY <1>5, <2>2, <3>1, QuietLocks DEF DeletePosition, Goto
    <2> QED BY <1>5, <2>1, <2>2 DEF DeletePosition
<1> QED BY <1>3, <1>4, <1>5 DEF FlushPosition

LEMMA CommitLocks ==
    ASSUME TypeInv, Locks, NEW r \in Requests, Commit(r)
    PROVE  Locks'
<1>1. /\ pending'[r] = NoWrite
      /\ \A o \in Requests \ {r} : pc'[o] = pc[o] /\ pending'[o] = pending[o]
      /\ job' = job
    BY DEF Commit, LoseConfirmation, Close, TypeInv, TypeOK
<1>2. \A o \in Requests : KeyOf(o)' = KeyOf(o)
    BY <1>1 DEF KeyOf, IsTrade
<1>3. ASSUME NEW o \in Requests \ {r}, pending[o] # NoWrite
      PROVE  positions'[KeyOf(o)] = positions[KeyOf(o)]
    <2>1. pending[r] # NoWrite => KeyOf(o) # KeyOf(r)
        BY <1>3 DEF Locks
    <2>2. KeyOf(o) \in Keys
        BY <1>3 DEF Locks, TypeInv, Paths
    <2> QED BY <2>1, <2>2 DEF Commit, TypeInv, TypeOK
<1> QED BY <1>1, <1>2, <1>3 DEF Locks

LEMMA StepLocks ==
    ASSUME TypeInv, Locks, [Next]_vars
    PROVE  Locks'
<1>1. ASSUME NEW r \in Requests, NEW code, Refuse(r, code) PROVE Locks'
    BY <1>1, RefuseLocks
<1>2. ASSUME NEW r \in Requests, NEW label, Goto(r, label), UNCHANGED pending,
             pc[r] \in {"idle", "check", "quote", "load", "select"}
      PROVE  Locks'
    BY <1>2, GotoLocks
<1>3. ASSUME NEW r \in Requests, Close(r, 201), UNCHANGED <<job, positions>>
      PROVE  Locks'
    <2>1. /\ pending'[r] = NoWrite
          /\ \A o \in Requests \ {r} : pc'[o] = pc[o] /\ pending'[o] = pending[o]
        BY <1>3 DEF Close, TypeInv, TypeOK
    <2> QED BY <1>3, <2>1, QuietLocks
<1>4. ASSUME NEW r \in Requests, Step(r) PROVE Locks'
    <2>1. CASE CheckIdempotency(r)
        BY <1>1, <1>2, <1>3, <2>1 DEF CheckIdempotency, Replay
    <2>2. CASE FetchQuote(r) \/ LoadPortfolio(r) \/ SelectPosition(r)
        BY <1>1, <1>2, <2>2 DEF FetchQuote, LoadPortfolio, SelectPosition
    <2>3. CASE RecordExecution(r)
        BY <1>1, <2>3, GotoLocks DEF RecordExecution
    <2>4. CASE Reply(r)
        BY <1>1, <1>3, <2>4 DEF Reply
    <2> QED BY <1>4, <2>1, <2>2, <2>3, <2>4, FlushLocks, CommitLocks DEF Step
<1>5. ASSUME NEW r \in Requests, Send(r) \/ DatabaseError(r) \/ Crash(r)
      PROVE  Locks'
    BY <1>1, <1>2, <1>5 DEF Send, DatabaseError, Crash
<1>6. CASE UNCHANGED vars
    BY <1>6 DEF vars, Locks, KeyOf, IsTrade
<1> QED BY <1>4, <1>5, <1>6 DEF Next, Finished

LEMMA InitLocks == Init => Locks
  BY DEF Init, Locks

LEMMA LocksAreKept == Spec => []Locks
  BY TypeCorrect, InitLocks, StepLocks, PTL DEF Spec

-----------------------------------------------------------------------------
(* A step that moves a position is the commit of a request about it.       *)

\* No deadlock: a session that is waited for is about to commit, or it holds a
\* position and waits at most for the commit of an execution with its ids.
THEOREM NoDeadlock == Spec => []LockChainsEnd
<1>1. TypeInv /\ Locks => LockChainsEnd
    <2> SUFFICES ASSUME TypeInv, Locks, NEW r \in Requests, NEW o \in Requests,
                        Blocks(o, r), ~CanGoOn(o)
                 PROVE  \E p \in Requests : Blocks(p, o) /\ CanGoOn(p)
        BY DEF LockChainsEnd
    <2>1. \A p \in Requests : pc[p] = "commit" => CanGoOn(p)
        BY DEF Blocks, CanGoOn
    <2>2. pc[o] = "record"
        BY <2>1 DEF Locks, Blocks
    <2>3. PICK p \in Requests : Blocks(p, o)
        BY <2>2 DEF CanGoOn
    <2>4. pc[p] = "commit"
        BY <2>2, <2>3 DEF Blocks
    <2> QED BY <2>1, <2>3, <2>4
<1> QED BY <1>1, TypeCorrect, LocksAreKept, PTL

LEMMA MovesByCommit ==
    ASSUME TypeInv, [Next]_vars, NEW k \in Keys, positions'[k] # positions[k]
    PROVE  \E r \in Requests :
             Commit(r) /\ KeyOf(r) = k /\ pending[r] # NoWrite /\ positions'[k] = pending[r]
<1>1. PICK r \in Requests : Commit(r)
    <2>3. positions' # positions
        OBVIOUS
    <2>4. ASSUME NEW r \in Requests, Step(r) PROVE Commit(r)
        <3>1. CASE CheckIdempotency(r) \/ FetchQuote(r)
            BY <2>3, <3>1 DEF CheckIdempotency, FetchQuote, Replay, Refuse, Goto
        <3>2. CASE LoadPortfolio(r) \/ SelectPosition(r) \/ RecordExecution(r)
            BY <2>3, <3>2 DEF LoadPortfolio, SelectPosition, RecordExecution, Refuse, Goto
        <3>3. CASE FlushPosition(r)
            BY <2>3, <3>3 DEF FlushPosition, InsertPosition, UpdatePosition,
                              DeletePosition, Store, Refuse, Goto
        <3>4. CASE Reply(r)
            BY <2>3, <3>4 DEF Reply, Refuse
        <3> QED BY <2>4, <3>1, <3>2, <3>3, <3>4 DEF Step
    <2> QED BY <2>3, <2>4 DEF Next, Finished, Send, DatabaseError, Crash,
                              Refuse, Goto, vars
<1>2. positions' = IF pending[r] = NoWrite THEN positions
                   ELSE [positions EXCEPT ![KeyOf(r)] = pending[r]]
    BY <1>1 DEF Commit
<1>3. pending[r] # NoWrite /\ KeyOf(r) = k
    BY <1>2 DEF TypeInv, TypeOK
<1>4. positions'[k] = pending[r]
    BY <1>2, <1>3 DEF TypeInv, TypeOK
<1> QED BY <1>1, <1>3, <1>4

\* A position moves only in the commit that records its execution, or in the
\* commit of an edit of it.
THEOREM MovesAreRecorded == Spec => PositionMovesWithExecution
<1>1. ASSUME TypeInv, Recordings, [Next]_vars, NEW k \in Keys,
             positions'[k] # positions[k]
      PROVE  \/ \E e \in executions' \ executions :
                   <<e.order.portfolio, e.order.symbol>> = k
             \/ \E r \in Requests : ~IsTrade(r) /\ KeyOf(r) = k /\ pc[r] = "commit"
    <2>1. PICK r \in Requests : Commit(r) /\ KeyOf(r) = k
        BY <1>1, MovesByCommit
    <2>2. CASE IsTrade(r)
        <3>1. Execution(r) \in executions' \ executions
            BY <1>1, <2>1, <2>2, ExecutionIsNew DEF Commit, Committing
        <3>2. <<Execution(r).order.portfolio, Execution(r).order.symbol>> = KeyOf(r)
            BY <2>2 DEF Execution, Recorded, KeyOf
        <3> QED BY <2>1, <3>1, <3>2
    <2> QED BY <2>1, <2>2 DEF Commit
<1>2. TypeInv /\ Recordings /\ [Next]_vars =>
        [\A k \in Keys : positions'[k] # positions[k] =>
          \/ \E e \in executions' \ executions :
                <<e.order.portfolio, e.order.symbol>> = k
          \/ \E r \in Requests : ~IsTrade(r) /\ KeyOf(r) = k /\ pc[r] = "commit"
        ]_vars
    BY <1>1
<1> QED BY <1>2, TypeCorrect, RecordingsAreKept, PTL
        DEF Spec, PositionMovesWithExecution

\* No session brings back or replaces a row that it does not hold locked: a new
\* row is stored only where there is none, by the insert of its own request.
THEOREM SoldRowsAreGone == Spec => SoldRowsStaySold
<1>1. ASSUME TypeInv, Locks, [Next]_vars, NEW k \in Keys,
             positions'[k] # NoRow,
             positions[k] # NoRow => positions[k].id # positions'[k].id
      PROVE  positions[k] = NoRow /\ positions'[k].id \in {r \in Requests : pc[r] = "commit"}
    <2>1. positions'[k] # positions[k]
        BY <1>1
    <2>2. PICK r \in Requests : /\ Commit(r) /\ KeyOf(r) = k
                               /\ pending[r] # NoWrite /\ positions'[k] = pending[r]
        BY <1>1, <2>1, MovesByCommit
    <2>3. pending[r].id = IF positions[k] = NoRow THEN r ELSE positions[k].id
        BY <1>1, <2>2 DEF Locks
    <2> QED BY <1>1, <2>2, <2>3 DEF Commit
<1>2. TypeInv /\ Locks /\ [Next]_vars =>
        [\A k \in Keys :
          /\ positions'[k] # NoRow
          /\ positions[k] # NoRow => positions[k].id # positions'[k].id
          => positions[k] = NoRow /\ positions'[k].id \in {r \in Requests : pc[r] = "commit"}
        ]_vars
    BY <1>1
<1> QED BY <1>2, TypeCorrect, LocksAreKept, PTL DEF Spec, SoldRowsStaySold

-----------------------------------------------------------------------------
(* The refinement of PaperLedger.  A session computes what it writes from  *)
(* the object it has; the row is locked from the write to the commit.  So  *)
(* when the object is the stored row at the commit, it was at the write,   *)
(* and what is written is what the ledger computes in one step.            *)

Settled(id) == id \in Requests => pc[id] \in {"reply", "done"}

\* The rows of the table and the objects of the sessions are committed ones.
Ids ==
    /\ \A k \in Keys : positions[k] # NoRow => Settled(positions[k].id)
    /\ \A r \in Requests : seen[r] # NoRow => Settled(seen[r].id)

\* The position that the ledger has after the request of r, from the object.
NewShares(r) ==
    IF seen[r] = NoRow
    THEN [quantity |-> job[r].quantity, price |-> Ticks(EntryPrice(r))]
    ELSE IF NewQuantity(r) = 0 THEN NoRow
    ELSE [quantity |-> NewQuantity(r),
          price |-> IF IsTrade(r) /\ Side(r) = "SELL" THEN seen[r].price ELSE NewPrice(r)]

Fresh(r) == seen[r] = positions[KeyOf(r)]

OrderlyAt(r) ==
    /\ pc[r] \in {"quote", "load", "select", "flush", "record", "commit"} /\ IsTrade(r)
         => Side(r) \in {"BUY", "SELL"}
    /\ pc[r] \in {"flush", "record", "commit"} => ~Oversells(r, seen[r])
    /\ pc[r] \in {"record", "commit"} /\ pending[r] # NoWrite /\ Fresh(r)
         => SharesOnly(pending[r]) = NewShares(r)
    /\ pc[r] \in {"record", "commit"} /\ pending[r] = NoWrite /\ IsTrade(r)
         => ~Fresh(r) /\ ~IsStored(r) /\ seen[r] # NoRow

Orderly == \A r \in Requests : OrderlyAt(r)

LedgerInv == TypeInv /\ Locks /\ Ids /\ Orderly

LEMMA SameSession ==
    ASSUME NEW r \in Requests, job' = job, quote'[r] = quote[r], seen'[r] = seen[r]
    PROVE  /\ KeyOf(r)' = KeyOf(r) /\ IsTrade(r)' = IsTrade(r) /\ Side(r)' = Side(r)
           /\ NewShares(r)' = NewShares(r)
           /\ Oversells(r, seen[r])' = Oversells(r, seen[r])
  BY DEF KeyOf, IsTrade, Side, NewShares, Oversells, NewQuantity, NewPrice, EntryPrice

\* A step of r that commits nothing.
LEMMA QuietOrder ==
    ASSUME LedgerInv, NEW r \in Requests, UNCHANGED <<job, positions>>,
           \A o \in Requests \ {r} : /\ pc'[o] = pc[o] /\ pending'[o] = pending[o]
                                     /\ quote'[o] = quote[o] /\ seen'[o] = seen[o],
           pc[r] \in {"reply", "done"} => pc'[r] \in {"reply", "done"},
           seen'[r] # NoRow => Settled(seen'[r].id),
           OrderlyAt(r)'
    PROVE  Ids' /\ Orderly'
<1>1. \A id : Settled(id) => Settled(id)'
    BY DEF Settled
<1>2. Ids'
    BY <1>1 DEF LedgerInv, Ids
<1>3. ASSUME NEW o \in Requests \ {r} PROVE OrderlyAt(o)'
    <2>1. OrderlyAt(o)
        BY DEF LedgerInv, Orderly
    <2>2. Fresh(o)' = Fresh(o) /\ IsStored(o)' = IsStored(o)
        BY <1>3, SameSession DEF Fresh, IsStored
    <2> QED BY <1>3, <2>1, <2>2, SameSession DEF OrderlyAt
<1> QED BY <1>2, <1>3 DEF Orderly

LEMMA CloseOrder ==
    ASSUME LedgerInv, NEW r \in Requests, NEW code, Close(r, code),
           UNCHANGED <<job, quote, seen, positions>>
    PROVE  Ids' /\ Orderly'
<1>1. /\ pc'[r] = "done"
      /\ \A o \in Requests \ {r} : pc'[o] = pc[o] /\ pending'[o] = pending[o]
    BY DEF Close, LedgerInv, TypeInv, TypeOK
<1>2. OrderlyAt(r)'
    BY <1>1 DEF OrderlyAt
<1> QED BY <1>1, <1>2, QuietOrder DEF LedgerInv, Ids

LEMMA RefuseOrder ==
    ASSUME LedgerInv, NEW r \in Requests, NEW code, Refuse(r, code)
    PROVE  Ids' /\ Orderly'
  BY CloseOrder DEF Refuse

\* The steps before the write.
LEMMA EarlyOrder ==
    ASSUME LedgerInv, NEW r \in Requests,
           Send(r) \/ CheckIdempotency(r) \/ FetchQuote(r) \/ LoadPortfolio(r)
             \/ SelectPosition(r)
    PROVE  Ids' /\ Orderly'
<1> USE DEF LedgerInv
<1>1. OrderlyAt(r)
    BY DEF Orderly
<1>2. ASSUME NEW label \in {"check", "quote", "load", "select", "flush"}, Goto(r, label),
             UNCHANGED pending, pc[r] \notin {"record", "commit", "reply", "done"},
             \A o \in Requests \ {r} : quote'[o] = quote[o] /\ seen'[o] = seen[o],
             seen'[r] # NoRow => Settled(seen'[r].id),
             label \in {"quote", "load", "select", "flush"} /\ IsTrade(r)
               => Side(r) \in {"BUY", "SELL"},
             label = "flush" => ~Oversells(r, seen[r])'
      PROVE  Ids' /\ Orderly'
    <2>1. pc'[r] = label /\ \A o \in Requests \ {r} : pc'[o] = pc[o]
        BY <1>2 DEF Goto, TypeInv, TypeOK
    <2>2. IsTrade(r)' = IsTrade(r) /\ Side(r)' = Side(r)
        BY <1>2 DEF Goto, IsTrade, Side
    <2>3. OrderlyAt(r)'
        BY <1>2, <2>1, <2>2 DEF OrderlyAt
    <2> QED BY <1>2, <2>1, <2>3, QuietOrder DEF Goto
<1>3. seen[r] # NoRow => Settled(seen[r].id)
    BY DEF Ids
<1>4. CASE Send(r)
    BY <1>2, <1>3, <1>4 DEF Send
<1>5. CASE CheckIdempotency(r)
    <2>1. CASE Replay(r)
        BY <2>1, CloseOrder DEF Replay
    <2>2. CASE /\ Side(r) \in {"BUY", "SELL"}
               /\ Goto(r, "quote")
               /\ UNCHANGED <<quote, seen, pending>>
        BY <1>2, <1>3, <1>5, <2>2 DEF CheckIdempotency
    <2> QED BY <1>5, <2>1, <2>2, RefuseOrder DEF CheckIdempotency
<1>6. CASE FetchQuote(r)
    <2>1. ASSUME NEW q, quote' = [quote EXCEPT ![r] = q], Goto(r, "load"),
                 UNCHANGED <<seen, pending>>
          PROVE  Ids' /\ Orderly'
        BY <1>1, <1>2, <1>3, <1>6, <2>1 DEF FetchQuote, OrderlyAt, TypeInv, TypeOK
    <2> QED BY <1>6, <2>1, RefuseOrder DEF FetchQuote
<1>7. CASE LoadPortfolio(r)
    <2>1. CASE /\ job[r].portfolio \in DOMAIN Owner
               /\ seen' = [seen EXCEPT ![r] = positions[KeyOf(r)]]
               /\ Goto(r, "select")
               /\ UNCHANGED <<quote, pending>>
        <3>1. KeyOf(r) \in Keys
            BY <2>1, KeyIsOwned
        <3>2. seen'[r] # NoRow => Settled(seen'[r].id)
            BY <2>1, <3>1 DEF Ids, TypeInv, TypeOK
        <3> QED BY <1>1, <1>2, <1>7, <2>1, <3>2
                DEF LoadPortfolio, OrderlyAt, TypeInv, TypeOK
    <2> QED BY <1>7, <2>1, RefuseOrder DEF LoadPortfolio
<1>8. CASE SelectPosition(r)
    <2>1. CASE /\ ~Oversells(r, Object(r))
               /\ seen' = [seen EXCEPT ![r] = Object(r)]
               /\ Goto(r, "flush")
               /\ UNCHANGED <<quote, pending>>
        <3>1. KeyOf(r) \in Keys /\ pc[r] = "select"
            BY <1>8 DEF SelectPosition, TypeInv, Paths
        <3>2. seen'[r] = Object(r)
            BY <2>1 DEF TypeInv, TypeOK
        <3>3. seen'[r] # NoRow => Settled(seen'[r].id)
            BY <3>1, <3>2 DEF Ids, Object
        <3>4. ~Oversells(r, seen[r])'
            BY <2>1, <3>2 DEF Oversells, IsTrade, Side, Goto
        <3> QED BY <1>1, <1>2, <2>1, <3>1, <3>3, <3>4 DEF OrderlyAt, TypeInv, TypeOK
    <2> QED BY <1>8, <2>1, RefuseOrder DEF SelectPosition
<1> QED BY <1>4, <1>5, <1>6, <1>7, <1>8

\* A write of r, and the record that follows it.
LEMMA WrittenOrder ==
    ASSUME LedgerInv, NEW r \in Requests, pc[r] \in {"flush", "record"},
           NEW label \in {"record", "commit"}, Goto(r, label), UNCHANGED <<quote, seen>>,
           \A o \in Requests \ {r} : pending'[o] = pending[o],
           pending'[r] # NoWrite /\ Fresh(r) => SharesOnly(pending'[r]) = NewShares(r),
           pending'[r] = NoWrite /\ IsTrade(r) => ~Fresh(r) /\ ~IsStored(r) /\ seen[r] # NoRow
    PROVE  Ids' /\ Orderly'
<1>1. pc'[r] = label /\ \A o \in Requests \ {r} : pc'[o] = pc[o]
    BY DEF Goto, LedgerInv, TypeInv, TypeOK
<1>2. OrderlyAt(r)
    BY DEF LedgerInv, Orderly
<1>3. Fresh(r)' = Fresh(r) /\ IsStored(r)' = IsStored(r)
    BY DEF Goto, Fresh, IsStored, KeyOf, IsTrade
<1>4. OrderlyAt(r)'
    BY <1>1, <1>2, <1>3, SameSession DEF Goto, OrderlyAt
<1> QED BY <1>1, <1>4, QuietOrder DEF Goto, LedgerInv, Ids

LEMMA StoreOrder ==
    ASSUME LedgerInv, NEW r \in Requests, pc[r] = "flush", NEW row, Store(r, row),
           row.quantity <= MaxInt /\ row.price > 0 => row \notin {NoRow, NoWrite},
           Fresh(r) => NewShares(r) = [quantity |-> row.quantity, price |-> row.price]
    PROVE  Ids' /\ Orderly'
<1>1. ASSUME NEW code, Refuse(r, code) PROVE Ids' /\ Orderly'
    BY <1>1, RefuseOrder
<1>2. CASE /\ row.quantity <= MaxInt /\ row.price > 0
           /\ pending' = [pending EXCEPT ![r] = row]
           /\ Goto(r, IF IsTrade(r) THEN "record" ELSE "commit")
           /\ UNCHANGED <<quote, seen>>
    <2>1. pending'[r] = row /\ \A o \in Requests \ {r} : pending'[o] = pending[o]
        BY <1>2 DEF LedgerInv, TypeInv, TypeOK
    <2>2. SharesOnly(row) = [quantity |-> row.quantity, price |-> row.price]
        BY <1>2 DEF SharesOnly
    <2> QED BY <1>2, <2>1, <2>2, WrittenOrder
<1> QED BY <1>1, <1>2 DEF Store

LEMMA IsARow ==
    ASSUME NEW row \in Candidates, row.quantity <= MaxInt, row.price > 0
    PROVE  row \in Rows /\ row \notin {NoRow, NoWrite}
<1>1. row.quantity \in 1 .. MaxInt /\ row.price \in Price
    BY NumbersAssumption DEF Candidates, Price
<1>2. row \in Rows
    BY <1>1 DEF Candidates, Rows
<1> QED BY <1>2, RowsAssumption DEF OptionalRows

\* An average that is merged with itself stays what it is.
LEMMA MergedWithItself ==
    ASSUME NEW held \in Nat, NEW average \in Nat, NEW bought \in Nat \ {0}
    PROVE  MergedPrice(held, average, bought, average * SubTicks) = average
<1>1. average * SubTicks \in Nat /\ Ticks(average * SubTicks) = average
    BY SubTicksAssumption, TicksOfStoredPrice
<1>2. MergedPrice(held, average, bought, average * SubTicks) \in Nat
    BY <1>1, MergedPriceType
<1>3. /\ average <= MergedPrice(held, average, bought, average * SubTicks)
      /\ MergedPrice(held, average, bought, average * SubTicks) <= average
    BY <1>1, MergedPriceIsBetween
<1> QED BY <1>2, <1>3

\* Whether or not the ORM writes the price column, the row gets that price.
LEMMA PriceIsWritten ==
    ASSUME TypeInv, NEW r \in Requests, seen[r] # NoRow,
           IsTrade(r) => Side(r) \in {"BUY", "SELL"},
           NEW priceToo \in PriceIsDirty(r)
    PROVE  (IF priceToo THEN NewPrice(r) ELSE seen[r].price)
             = IF IsTrade(r) /\ Side(r) = "SELL" THEN seen[r].price ELSE NewPrice(r)
<1>1. seen[r].quantity \in Nat /\ seen[r].price \in Nat /\ job[r].quantity \in Nat \ {0}
    BY JobType, NumbersAssumption DEF TypeInv, TypeOK, OptionalRows, Rows, Price
<1>2. CASE IsTrade(r) /\ Side(r) = "SELL"
    BY <1>2 DEF PriceIsDirty
<1>3. CASE ~(IsTrade(r) /\ Side(r) = "SELL") /\ ~priceToo
    <2>1. EntryPrice(r) = seen[r].price * SubTicks
        BY <1>3 DEF PriceIsDirty
    <2>2. NewPrice(r) = seen[r].price
        BY <1>1, <2>1, MergedWithItself, TicksOfStoredPrice DEF NewPrice, EntryPrice
    <2> QED BY <1>3, <2>2
<1>4. CASE ~(IsTrade(r) /\ Side(r) = "SELL") /\ priceToo
    BY <1>4
<1>5. priceToo \in BOOLEAN
    BY DEF PriceIsDirty
<1> QED BY <1>2, <1>3, <1>4, <1>5

LEMMA FlushOrder ==
    ASSUME LedgerInv, NEW r \in Requests, FlushPosition(r)
    PROVE  Ids' /\ Orderly'
<1> USE DEF LedgerInv
<1>1. /\ pc[r] = "flush" /\ KeyOf(r) \in Keys /\ pending[r] = NoWrite
      /\ IsTrade(r) => Side(r) \in {"BUY", "SELL"}
      /\ ~Oversells(r, seen[r])
    BY DEF FlushPosition, TypeInv, Paths, Locks, Orderly, OrderlyAt
<1>2. ASSUME NEW code, Refuse(r, code) PROVE Ids' /\ Orderly'
    BY <1>2, RefuseOrder
<1>3. job[r].quantity \in Price /\ Ticks(EntryPrice(r)) \in Nat
    BY JobType, QuoteType DEF TypeInv
<1>4. CASE InsertPosition(r)
    <2> DEFINE row == [id |-> r, quantity |-> job[r].quantity,
                       price |-> Ticks(EntryPrice(r))]
    <2>1. row \in Candidates
        BY <1>3 DEF Candidates
    <2>2. NewShares(r) = [quantity |-> row.quantity, price |-> row.price]
        BY <1>4 DEF InsertPosition, NewShares
    <2>3. Refuse(r, Violation(r)) \/ Store(r, row)
        BY <1>4 DEF InsertPosition
    <2> HIDE DEF row
    <2> QED BY <1>1, <1>2, <2>1, <2>2, <2>3, IsARow, StoreOrder
<1>5. CASE UpdatePosition(r)
    <2>1. seen[r] # NoRow /\ NewQuantity(r) > 0
        BY <1>5 DEF UpdatePosition
    <2>2. CASE NewQuantity(r) = seen[r].quantity /\ Goto(r, "commit")
               /\ UNCHANGED <<quote, seen, pending>>
        <3>1. ~IsTrade(r)
            BY <2>1, <2>2, TradesMove
        <3> QED BY <1>1, <2>2, <3>1, WrittenOrder
    <2>3. ASSUME NEW priceToo \in PriceIsDirty(r), IsStored(r),
                 Store(r, Updated(r, priceToo))
          PROVE  Ids' /\ Orderly'
        <3>1. seen[r] \in Rows /\ positions[KeyOf(r)] \in Rows
            BY <1>1, <2>1, <2>3 DEF IsStored, TypeInv, TypeOK, OptionalRows
        <3> DEFINE row == Updated(r, priceToo)
        <3>2. /\ row.quantity = IF NewQuantity(r) # seen[r].quantity THEN NewQuantity(r)
                                ELSE positions[KeyOf(r)].quantity
              /\ row.price = IF priceToo THEN NewPrice(r) ELSE positions[KeyOf(r)].price
            BY <3>1 DEF Updated, Rows
        <3>3. row \in Candidates
            <4>1. priceToo \in BOOLEAN
                BY <2>3 DEF PriceIsDirty
            <4> QED BY <1>1, <2>1, <2>3, <4>1, UpdatedType
        <3>4. Fresh(r) => NewShares(r) = [quantity |-> row.quantity, price |-> row.price]
            <4> HIDE DEF row
            <4> QED BY <1>1, <2>1, <2>3, <3>2, PriceIsWritten DEF Fresh, NewShares
        <3> QED BY <1>1, <2>3, <3>3, <3>4, IsARow, StoreOrder
    <2> QED BY <1>2, <1>5, <2>2, <2>3 DEF UpdatePosition
<1>6. CASE DeletePosition(r)
    <2>1. seen[r] # NoRow /\ NewQuantity(r) = 0 /\ Goto(r, "record")
          /\ UNCHANGED <<quote, seen>>
        BY <1>6 DEF DeletePosition
    <2>2. CASE ~IsStored(r) /\ UNCHANGED pending
        <3>1. ~Fresh(r)
            BY <2>1, <2>2 DEF Fresh, IsStored
        <3> QED BY <1>1, <2>1, <2>2, <3>1, WrittenOrder
    <2>3. CASE pending' = [pending EXCEPT ![r] = NoRow]
        <3>1. pending'[r] = NoRow /\ \A o \in Requests \ {r} : pending'[o] = pending[o]
            BY <2>3 DEF TypeInv, TypeOK
        <3>2. SharesOnly(NoRow) = NoRow /\ NewShares(r) = NoRow /\ NoRow # NoWrite
            BY <2>1, RowsAssumption DEF SharesOnly, NewShares, OptionalRows
        <3> QED BY <1>1, <2>1, <3>1, <3>2, WrittenOrder
    <2> QED BY <1>6, <2>2, <2>3 DEF DeletePosition
<1> QED BY <1>4, <1>5, <1>6 DEF FlushPosition

LEMMA RecordOrder ==
    ASSUME LedgerInv, NEW r \in Requests, RecordExecution(r)
    PROVE  Ids' /\ Orderly'
<1>1. CASE Refuse(r, 409)
    BY <1>1, RefuseOrder
<1>2. CASE Goto(r, "commit") /\ UNCHANGED <<quote, seen, pending>>
    <2>1. pc[r] = "record" /\ OrderlyAt(r)
        BY DEF RecordExecution, LedgerInv, Orderly
    <2>2. pending'[r] = pending[r]
        BY <1>2
    <2> QED BY <1>2, <2>1, <2>2, WrittenOrder DEF OrderlyAt
<1> QED BY <1>1, <1>2 DEF RecordExecution

\* A commit leaves the rows that others have written, and gives no row the id
\* of an object that another session has.
LEMMA CommitOrder ==
    ASSUME LedgerInv, NEW r \in Requests, Commit(r)
    PROVE  Ids' /\ Orderly'
<1> USE DEF LedgerInv
<1>1. /\ pc[r] = "commit" /\ pc'[r] \in {"reply", "done"}
      /\ \A o \in Requests \ {r} : pc'[o] = pc[o] /\ pending'[o] = pending[o]
      /\ UNCHANGED <<job, quote, seen>>
    BY DEF Commit, LoseConfirmation, Close, TypeInv, TypeOK
<1>2. KeyOf(r) \in Keys
    BY <1>1 DEF TypeInv, Paths
<1>3. \A k \in Keys : positions'[k] = IF pending[r] # NoWrite /\ k = KeyOf(r)
                                      THEN pending[r] ELSE positions[k]
    BY DEF Commit, TypeInv, TypeOK
<1>4. pending[r] \notin {NoWrite, NoRow} =>
        pending[r].id = IF positions[KeyOf(r)] = NoRow THEN r ELSE positions[KeyOf(r)].id
    BY DEF Locks
<1>5. \A id : Settled(id) => Settled(id)'
    BY <1>1 DEF Settled
<1>6. Settled(r)' /\ ~Settled(r)
    BY <1>1 DEF Settled
<1>7. Ids'
    BY <1>1, <1>2, <1>3, <1>4, <1>5, <1>6 DEF Ids
<1>8. ASSUME NEW o \in Requests \ {r} PROVE OrderlyAt(o)'
    <2>1. OrderlyAt(o)
        BY DEF Orderly
    <2>2. /\ pc'[o] = pc[o] /\ pending'[o] = pending[o]
          /\ job' = job /\ quote'[o] = quote[o] /\ seen'[o] = seen[o]
        BY <1>1, <1>8
    <2>3. KeyOf(o)' = KeyOf(o)
        BY <2>2, SameSession
    <2>4. ASSUME pc[o] \in {"record", "commit"}, pending[o] # NoWrite
          PROVE  Fresh(o)' = Fresh(o)
        <3>1. pending[r] # NoWrite => KeyOf(o) # KeyOf(r)
            BY <1>8, <2>4 DEF Locks
        <3>2. KeyOf(o) \in Keys
            BY <2>4 DEF TypeInv, Paths
        <3> QED BY <1>3, <2>2, <2>3, <3>1, <3>2 DEF Fresh
    <2>5. ASSUME pc[o] \in {"record", "commit"},
                 ~Fresh(o) /\ ~IsStored(o) /\ seen[o] # NoRow
          PROVE  ~Fresh(o)' /\ ~IsStored(o)' /\ seen'[o] # NoRow
        <3>1. KeyOf(o) \in Keys
            BY <2>5 DEF TypeInv, Paths
        <3>2. seen[o].id # r
            BY <1>6, <2>5 DEF Ids
        <3>3. positions'[KeyOf(o)] = NoRow \/ positions'[KeyOf(o)].id # seen[o].id
            BY <1>3, <1>4, <2>5, <3>1, <3>2 DEF IsStored
        <3> QED BY <2>2, <2>3, <2>5, <3>3 DEF Fresh, IsStored
    <2> QED BY <2>1, <2>2, <2>4, <2>5, SameSession DEF OrderlyAt
<1>9. OrderlyAt(r)'
    BY <1>1 DEF OrderlyAt
<1> QED BY <1>7, <1>8, <1>9 DEF Orderly

LEMMA StepOrder ==
    ASSUME LedgerInv, [Next]_vars
    PROVE  Ids' /\ Orderly'
<1>1. ASSUME NEW r \in Requests, Step(r) PROVE Ids' /\ Orderly'
    <2>1. CASE Reply(r)
        BY <2>1, CloseOrder, RefuseOrder DEF Reply
    <2> QED BY <1>1, <2>1, EarlyOrder, FlushOrder, RecordOrder, CommitOrder DEF Step
<1>2. ASSUME NEW r \in Requests, DatabaseError(r) \/ Crash(r) PROVE Ids' /\ Orderly'
    BY <1>2, RefuseOrder DEF DatabaseError, Crash
<1>3. CASE UNCHANGED vars
    <2>1. Ids'
        BY <1>3 DEF vars, LedgerInv, Ids, Settled
    <2>2. Orderly'
        BY <1>3, SameSession
           DEF vars, LedgerInv, Orderly, OrderlyAt, Fresh, IsStored
    <2> QED BY <2>1, <2>2
<1> QED BY <1>1, <1>2, <1>3, EarlyOrder DEF Next, Finished

LEMMA InitOrder == Init => Ids /\ Orderly
<1> SUFFICES ASSUME Init PROVE Ids /\ Orderly
    OBVIOUS
<1>1. Ids
    BY RowsAssumption DEF Init, Ids, Settled
<1>2. Orderly
    BY DEF Init, Orderly, OrderlyAt
<1> QED BY <1>1, <1>2

LEMMA OrderIsKept == Spec => [](Ids /\ Orderly)
<1>1. TypeInv /\ Locks /\ Ids /\ Orderly /\ [Next]_vars => Ids' /\ Orderly'
    BY StepOrder DEF LedgerInv
<1> QED BY <1>1, TypeCorrect, LocksAreKept, InitOrder, PTL DEF Spec

-----------------------------------------------------------------------------
(* The steps of the ledger.                                                *)

LedgerShares == [k \in Keys |-> SharesOnly(positions[k])]

LEMMA SharesOfRow ==
    ASSUME NEW row \in OptionalRows
    PROVE  /\ SharesOnly(row) = NoRow <=> row = NoRow
           /\ row # NoRow => SharesOnly(row) = [quantity |-> row.quantity, price |-> row.price]
<1>1. row # NoRow => [quantity |-> row.quantity, price |-> row.price]
                       \in [quantity : Nat, price : Nat]
    BY NumbersAssumption DEF OptionalRows, Rows, Price
<1> QED BY <1>1, SharesAssumption DEF SharesOnly

LEMMA LedgerArithmetic ==
    /\ \A price : Ledger!Ticks(price) = Ticks(price)
    /\ \A held, average, bought, price :
         Ledger!MergedPrice(held, average, bought, price)
           = MergedPrice(held, average, bought, price)
  BY DEF Ledger!Ticks, Ticks, Ledger!MergedPrice, MergedPrice,
         Ledger!RoundDiv, RoundDiv

\* A commit computed from the stored row puts the position of the ledger.
LEMMA CommitPuts ==
    ASSUME LedgerInv, NEW r \in Requests, Commit(r), Fresh(r), pending[r] # NoWrite
    PROVE  LedgerShares' = [LedgerShares EXCEPT ![KeyOf(r)] = NewShares(r)]
<1>1. SharesOnly(pending[r]) = NewShares(r)
    BY DEF Commit, LedgerInv, Orderly, OrderlyAt
<1>2. \A k \in Keys : positions'[k] = IF k = KeyOf(r) THEN pending[r] ELSE positions[k]
    BY DEF Commit, LedgerInv, TypeInv, TypeOK
<1>3. \A k \in Keys : SharesOnly(positions[k])' = SharesOnly(positions'[k])
    BY DEF SharesOnly
<1> QED BY <1>1, <1>2, <1>3 DEF LedgerShares

LEMMA LedgerPut ==
    ASSUME NEW k, NEW quantity, NEW price,
           LedgerShares' = [LedgerShares EXCEPT ![k] =
                              IF quantity = 0 THEN NoRow
                              ELSE [quantity |-> quantity, price |-> price]]
    PROVE  Ledger!Put(k, quantity, price)
  BY DEF Ledger!Put, LedgerShares

LEMMA LedgerHolds ==
    ASSUME TypeInv, NEW k \in Keys
    PROVE  /\ LedgerShares[k] = NoRow <=> positions[k] = NoRow
           /\ Ledger!Held(k) = IF positions[k] = NoRow THEN 0 ELSE positions[k].quantity
           /\ positions[k] # NoRow => LedgerShares[k].price = positions[k].price
<1>1. LedgerShares[k] = SharesOnly(positions[k]) /\ positions[k] \in OptionalRows
    BY DEF LedgerShares, TypeInv, TypeOK
<1>2. Ledger!Held(k) = IF LedgerShares[k] = NoRow THEN 0 ELSE LedgerShares[k].quantity
    BY DEF Ledger!Held, LedgerShares
<1> QED BY <1>1, <1>2, SharesOfRow

LEMMA LedgerBuy ==
    ASSUME TypeInv, NEW r \in Requests, KeyOf(r) \in Keys, Fresh(r), IsTrade(r),
           Side(r) = "BUY", NewQuantity(r) # 0 \/ seen[r] = NoRow,
           LedgerShares' = [LedgerShares EXCEPT ![KeyOf(r)] = NewShares(r)]
    PROVE  Ledger!Buy(KeyOf(r), job[r].quantity, quote[r])
<1> DEFINE k == KeyOf(r)
           price == IF seen[r] = NoRow THEN Ticks(quote[r]) ELSE NewPrice(r)
           quantity == Ledger!Held(k) + job[r].quantity
<1>1. job[r].quantity \in Nat \ {0}
    BY JobType DEF TypeInv, Price
<1>2. /\ LedgerShares[k] = NoRow <=> seen[r] = NoRow
      /\ Ledger!Held(k) = IF seen[r] = NoRow THEN 0 ELSE seen[r].quantity
      /\ seen[r] # NoRow => LedgerShares[k].price = seen[r].price
    BY LedgerHolds DEF Fresh
<1>3. NewShares(r) = IF quantity = 0 THEN NoRow
                     ELSE [quantity |-> quantity, price |-> price]
    <2>1. CASE seen[r] = NoRow
        BY <1>1, <1>2, <2>1 DEF NewShares, EntryPrice
    <2>2. CASE seen[r] # NoRow
        BY <1>2, <2>2 DEF NewShares, NewQuantity
    <2> QED BY <2>1, <2>2
<1>4. Ledger!Put(k, quantity, price)
    <2> HIDE DEF quantity, price, k
    <2> QED BY <1>3, LedgerPut DEF k
<1>5. price = IF LedgerShares[k] = NoRow THEN Ledger!Ticks(quote[r])
              ELSE Ledger!MergedPrice(Ledger!Held(k), LedgerShares[k].price,
                                      job[r].quantity, quote[r])
    BY <1>2, LedgerArithmetic DEF NewPrice
<1> QED BY <1>4, <1>5 DEF Ledger!Buy, LedgerShares

LEMMA LedgerSell ==
    ASSUME TypeInv, NEW r \in Requests, KeyOf(r) \in Keys, Fresh(r), IsTrade(r),
           Side(r) = "SELL", ~Oversells(r, seen[r]),
           LedgerShares' = [LedgerShares EXCEPT ![KeyOf(r)] = NewShares(r)]
    PROVE  Ledger!Sell(KeyOf(r), job[r].quantity)
<1> DEFINE k == KeyOf(r)
           quantity == Ledger!Held(k) - job[r].quantity
<1>1. seen[r] # NoRow /\ job[r].quantity <= seen[r].quantity
    BY DEF Oversells
<1>2. /\ LedgerShares[k] # NoRow
      /\ Ledger!Held(k) = seen[r].quantity
      /\ LedgerShares[k].price = seen[r].price
    BY <1>1, LedgerHolds DEF Fresh
<1>3. NewShares(r) = IF quantity = 0 THEN NoRow
                     ELSE [quantity |-> quantity, price |-> LedgerShares[k].price]
    BY <1>1, <1>2 DEF NewShares, NewQuantity
<1>4. Ledger!Put(k, quantity, LedgerShares[k].price)
    <2> HIDE DEF quantity, k
    <2> QED BY <1>3, LedgerPut DEF k
<1> QED BY <1>1, <1>2, <1>4 DEF Ledger!Sell, LedgerShares

\* A trade that commits what it computed from the stored row.
LEMMA LedgerTrades ==
    ASSUME LedgerInv, Recordings, NEW r \in Requests, Commit(r), Fresh(r), IsTrade(r)
    PROVE  Ledger!Next
<1> DEFINE order == Recorded(job[r])
<1>1. /\ pc[r] = "commit" /\ KeyOf(r) \in Keys /\ OrderlyAt(r)
      /\ quote[r] \in Price /\ job[r].quantity \in Price /\ job[r] \in Orders
    BY JobType DEF Commit, LedgerInv, TypeInv, Paths, Priced, Orderly
<1>2. /\ Side(r) \in {"BUY", "SELL"} /\ ~Oversells(r, seen[r]) /\ pending[r] # NoWrite
    BY <1>1 DEF OrderlyAt
<1>3. order \in RecordedOrders /\ quote[r] \in Quotes
    BY <1>1 DEF RecordedOrders, LedgerInv, TypeInv, TypeOK, Price
<1>4. /\ order.action = Side(r) /\ order.quantity = job[r].quantity
      /\ <<order.portfolio, order.symbol>> = KeyOf(r)
    BY DEF Recorded, Side, KeyOf
<1>5. LedgerShares' = [LedgerShares EXCEPT ![KeyOf(r)] = NewShares(r)]
    BY <1>2, CommitPuts
<1>6. \A e \in EntriesOf(executions) : /\ e.order.proposal # order.proposal
                                       /\ e.order.execution # order.execution
    <2>1. Execution(r).order = order
        BY DEF Execution
    <2>2. \A e \in executions : ~SameTrade(e.order, order)
        BY <1>1, <2>1, ExecutionIsNew DEF Committing, LedgerInv
    <2> QED BY <2>2 DEF EntriesOf, Entry, SameTrade
<1>7. EntriesOf(executions)' = EntriesOf(executions)
                                 \cup {[order |-> order, price |-> Ticks(quote[r])]}
    <2>1. executions' = executions \cup {Execution(r)}
        BY DEF Commit
    <2>2. EntriesOf(executions') = EntriesOf(executions)
                                     \cup {Entry(Execution(r).order, Execution(r).price)}
        BY <2>1 DEF EntriesOf
    <2>3. Entry(Execution(r).order, Execution(r).price)
            = [order |-> order, price |-> Ticks(quote[r])]
        BY DEF Entry, Execution
    <2> QED BY <2>2, <2>3
<1>8. \/ Side(r) = "BUY" /\ Ledger!Buy(KeyOf(r), job[r].quantity, quote[r])
      \/ Side(r) = "SELL" /\ Ledger!Sell(KeyOf(r), job[r].quantity)
    <2>1. CASE Side(r) = "BUY"
        <3>1. seen[r] # NoRow => NewQuantity(r) # 0
            BY <1>1, <2>1, NumbersAssumption
               DEF NewQuantity, LedgerInv, TypeInv, TypeOK, OptionalRows, Rows, Price
        <3> QED BY <1>1, <1>5, <2>1, <3>1, LedgerBuy DEF LedgerInv
    <2>2. CASE Side(r) = "SELL"
        BY <1>1, <1>2, <1>5, <2>2, LedgerSell DEF LedgerInv
    <2> QED BY <1>2, <2>1, <2>2
<1> HIDE DEF order
<1>9. Ledger!Trade(order, quote[r])
    BY <1>4, <1>6, <1>7, <1>8, LedgerArithmetic DEF Ledger!Trade
<1> QED BY <1>3, <1>9 DEF Ledger!Next

\* An edit that commits what it set in the stored row.
LEMMA LedgerReplaces ==
    ASSUME LedgerInv, NEW r \in Requests, Commit(r), Fresh(r), ~IsTrade(r),
           pending[r] # NoWrite
    PROVE  Ledger!Next
<1> DEFINE edit == <<KeyOf(r), job[r].quantity, job[r].price>>
<1>1. /\ KeyOf(r) \in Keys /\ job[r] \in Edits /\ job[r].quantity \in Nat \ {0}
      /\ KeyOf(r) = <<job[r].portfolio, Canonical[job[r].symbol]>>
    BY JobType DEF Commit, LedgerInv, TypeInv, Paths, Price, KeyOf
<1>2. job[r].portfolio \in DOMAIN Owner
    BY <1>1 DEF Keys
<1>3. edit \in {<< <<j.portfolio, Canonical[j.symbol]>>, j.quantity, j.price>> :
                  j \in {x \in Edits : x.portfolio \in DOMAIN Owner}}
    BY <1>1, <1>2
<1>4. NewShares(r) = IF job[r].quantity = 0 THEN NoRow
                     ELSE [quantity |-> job[r].quantity, price |-> Ticks(job[r].price)]
    BY <1>1 DEF NewShares, NewQuantity, NewPrice, EntryPrice
<1>5. Ledger!Put(KeyOf(r), job[r].quantity, Ticks(job[r].price))
    BY <1>4, CommitPuts, LedgerPut
<1>6. UNCHANGED EntriesOf(executions)
    BY DEF Commit, EntriesOf
<1>7. edit[1] = KeyOf(r) /\ edit[2] = job[r].quantity /\ edit[3] = job[r].price
    OBVIOUS
<1> HIDE DEF edit
<1>8. Ledger!Replace(edit)
    BY <1>5, <1>6, <1>7, LedgerArithmetic DEF Ledger!Replace
<1> QED BY <1>3, <1>8 DEF Ledger!Next

LEMMA RecordsByCommit ==
    ASSUME [Next]_vars, executions' # executions
    PROVE  \E r \in Requests : Commit(r)
<1>1. ASSUME NEW r \in Requests, Step(r) PROVE Commit(r)
    <2>1. CASE CheckIdempotency(r) \/ FetchQuote(r)
        BY <2>1 DEF CheckIdempotency, FetchQuote, Replay, Refuse, Goto
    <2>2. CASE LoadPortfolio(r) \/ SelectPosition(r) \/ RecordExecution(r)
        BY <2>2 DEF LoadPortfolio, SelectPosition, RecordExecution, Refuse, Goto
    <2>3. CASE FlushPosition(r)
        BY <2>3 DEF FlushPosition, InsertPosition, UpdatePosition,
                    DeletePosition, Store, Refuse, Goto
    <2>4. CASE Reply(r)
        BY <2>4 DEF Reply, Refuse
    <2> QED BY <1>1, <2>1, <2>2, <2>3, <2>4 DEF Step
<1> QED BY <1>1 DEF Next, Finished, Send, DatabaseError, Crash, Refuse, Goto, vars

LEMMA LedgerStep ==
    ASSUME LedgerInv, Recordings, [Next]_vars
    PROVE  [Ledger!Next \/ StaleCommit]_<<positions, executions>>
<1>1. CASE \A r \in Requests : ~Commit(r)
    <2>1. executions' = executions
        BY <1>1, RecordsByCommit
    <2>2. positions' = positions
        <3>1. \A k \in Keys : positions'[k] = positions[k]
            BY <1>1, MovesByCommit DEF LedgerInv
        <3>2. TypeOK'
            BY StepType DEF LedgerInv, TypeInv
        <3> QED BY <3>1, <3>2 DEF LedgerInv, TypeInv, TypeOK
    <2> QED BY <2>1, <2>2
<1>2. ASSUME NEW r \in Requests, Commit(r)
      PROVE  [Ledger!Next \/ StaleCommit]_<<positions, executions>>
    <2>1. CASE ~Fresh(r)
        <3>1. pc'[r] # "commit"
            BY <1>2 DEF Commit, LoseConfirmation, Close, LedgerInv, TypeInv, TypeOK
        <3> QED BY <1>2, <2>1, <3>1 DEF StaleCommit, Fresh, Commit
    <2>2. CASE ~IsTrade(r) /\ pending[r] = NoWrite
        BY <1>2, <2>2 DEF Commit
    <2> QED BY <1>2, <2>1, <2>2, LedgerTrades, LedgerReplaces
<1> QED BY <1>1, <1>2

\* Every step of the sessions, whatever interleaves, is a step of the indivisible
\* ledger or leaves both tables alone, except a commit of columns that were
\* computed from a row that has changed since.
THEOREM ImplementsLedger == Spec => LedgerUnlessStale
<1>1. Init => Ledger!Init
    BY DEF Init, Ledger!Init, EntriesOf
<1>2. TypeInv /\ Locks /\ Ids /\ Orderly /\ Recordings /\ [Next]_vars =>
        [Ledger!Next \/ StaleCommit]_<<positions, executions>>
    BY LedgerStep DEF LedgerInv
<1> QED BY <1>1, <1>2, TypeCorrect, LocksAreKept, OrderIsKept, RecordingsAreKept, PTL
        DEF Spec, LedgerUnlessStale

-----------------------------------------------------------------------------
(* The shares on the books.  A position is bounded by what was there, was  *)
(* bought or was set because every object a session still holds is, and    *)
(* every row it is about to commit is up to what that commit brings in.    *)

Active == {r \in Requests : pc[r] # "idle"}

OnTheBooks(k) == SharesOf(Opening[k]) + Traded(k, "BUY") + Placed(k)

\* What the commit of r brings in.
Adding(r) == IF IsTrade(r) /\ Side(r) = "SELL" THEN 0 ELSE job[r].quantity

Supplies ==
    /\ IsFiniteSet(executions) /\ IsFiniteSet(Active)
    /\ NoInventedShares
    /\ \A r \in Requests :
        /\ pc[r] \in {"select", "flush"} => SharesOf(seen[r]) <= OnTheBooks(KeyOf(r))
        /\ pc[r] \in {"record", "commit"} /\ pending[r] # NoWrite =>
             SharesOf(pending[r]) <= OnTheBooks(KeyOf(r)) + Adding(r)

LEMMA SharesType ==
    ASSUME NEW row \in OptionalRows
    PROVE  SharesOf(row) \in Nat
  BY NumbersAssumption DEF SharesOf, OptionalRows, Rows

LEMMA TradedType ==
    ASSUME TypeInv, IsFiniteSet(executions), NEW k, NEW action
    PROVE  /\ IsFiniteSet(Fills(k, action))
           /\ \A e \in Fills(k, action) : e.order.quantity \in Nat
           /\ Traded(k, action) \in Nat
<1>1. IsFiniteSet(Fills(k, action))
    BY FS_Subset DEF Fills
<1>2. ASSUME NEW e \in executions PROVE e.order.quantity \in Nat
    <2>1. e.order \in RecordedOrders
        BY DEF TypeInv, TypeOK, Executions
    <2> QED BY <2>1, PayloadAssumption DEF RecordedOrders, Recorded, Price
<1>3. PICK f : f = [e \in Fills(k, action) |-> e.order.quantity]
    OBVIOUS
<1>4. DOMAIN f = Fills(k, action) /\ \A e \in DOMAIN f : f[e] \in Nat
    BY <1>2, <1>3 DEF Fills
<1>5. Total(f) \in Nat
    BY <1>1, <1>4, TotalType
<1> QED BY <1>1, <1>2, <1>3, <1>5 DEF Traded, Fills

LEMMA PlacedType ==
    ASSUME TypeInv, IsFiniteSet(Active), NEW k
    PROVE  /\ IsFiniteSet(Placing(k))
           /\ \A r \in Placing(k) : job[r].quantity \in Nat
           /\ Placed(k) \in Nat
<1>1. IsFiniteSet(Placing(k))
    BY FS_Subset DEF Placing, Active
<1>2. \A r \in Placing(k) : job[r].quantity \in Nat
    BY JobType DEF Placing, TypeInv, Price
<1>3. PICK f : f = [r \in Placing(k) |-> job[r].quantity]
    OBVIOUS
<1>4. DOMAIN f = Placing(k) /\ \A r \in DOMAIN f : f[r] \in Nat
    BY <1>2, <1>3
<1>5. Total(f) \in Nat
    BY <1>1, <1>4, TotalType
<1> QED BY <1>1, <1>2, <1>3, <1>5 DEF Placed

\* A new execution counts for its key and its action, and for nothing else.
LEMMA TradedByCommit ==
    ASSUME TypeInv, Recordings, IsFiniteSet(executions), NEW r \in Requests,
           Commit(r), IsTrade(r), NEW k, NEW action
    PROVE  Traded(k, action)' =
             Traded(k, action)
             + IF k = KeyOf(r) /\ action = Side(r) THEN job[r].quantity ELSE 0
<1>1. PICK x : x = Execution(r)
    OBVIOUS
<1>2. /\ x \notin executions /\ executions' = executions \cup {x}
      /\ x.order.action = Side(r)
      /\ <<x.order.portfolio, x.order.symbol>> = KeyOf(r)
      /\ x.order.quantity = job[r].quantity
    <2>1. x \notin executions
        BY <1>1, ExecutionIsNew DEF Commit, Committing
    <2> QED BY <1>1, <2>1 DEF Commit, Execution, Recorded, Side, KeyOf
<1>3. PICK S, T : S = Fills(k, action) /\ T = Fills(k, action)'
    OBVIOUS
<1>4. PICK f, g : f = [e \in S |-> e.order.quantity] /\ g = [e \in T |-> e.order.quantity]
    OBVIOUS
<1>5. Traded(k, action) = Total(f) /\ Traded(k, action)' = Total(g)
    BY <1>3, <1>4 DEF Traded
<1>6. T = IF k = KeyOf(r) /\ action = Side(r) THEN S \cup {x} ELSE S
    BY <1>2, <1>3 DEF Fills
<1>7. CASE k = KeyOf(r) /\ action = Side(r)
    <2>1. job[r].quantity \in Nat
        BY JobType DEF TypeInv, Price
    <2>2. /\ IsFiniteSet(DOMAIN f) /\ x \notin DOMAIN f
          /\ \A e \in DOMAIN f : f[e] \in Nat /\ g[e] = f[e]
          /\ DOMAIN g = DOMAIN f \cup {x} /\ g[x] = job[r].quantity
        <3>1. IsFiniteSet(S) /\ \A e \in S : e.order.quantity \in Nat
            BY <1>3, TradedType
        <3>2. x \notin S
            BY <1>2, <1>3 DEF Fills
        <3>3. T = S \cup {x}
            BY <1>6, <1>7
        <3> QED BY <1>2, <1>4, <3>1, <3>2, <3>3
    <2>3. Total(g) = Total(f) + g[x]
        BY <2>1, <2>2, TotalAdds
    <2> QED BY <1>5, <1>7, <2>2, <2>3
<1>8. CASE ~(k = KeyOf(r) /\ action = Side(r))
    <2>1. f = g
        BY <1>4, <1>6, <1>8
    <2>2. Traded(k, action) \in Nat
        BY TradedType
    <2> QED BY <1>5, <1>8, <2>1, <2>2
<1> QED BY <1>7, <1>8

\* The edits that are through stay so.
LEMMA PlacedGrows ==
    ASSUME TypeInv, TypeInv', IsFiniteSet(Active'), UNCHANGED job, NEW k,
           \A o \in Requests : pc[o] \in {"reply", "done"} => pc'[o] \in {"reply", "done"}
    PROVE  Placed(k) <= Placed(k)'
<1>1. Placing(k) \subseteq Placing(k)'
    BY DEF Placing, IsTrade, KeyOf
<1>2. IsFiniteSet(Placing(k)') /\ \A r \in Placing(k)' : job[r].quantity \in Nat
    <2>1. Placing(k)' \subseteq Active' /\ Placing(k)' \subseteq Requests
        BY DEF Placing, Active
    <2> QED BY <2>1, FS_Subset, JobType DEF TypeInv, Price
<1>3. PICK f, g : f = [r \in Placing(k) |-> job[r].quantity]
                  /\ g = [r \in Placing(k) |-> job[r].quantity]'
    OBVIOUS
<1>4. Placed(k) = Total(f) /\ Placed(k)' = Total(g)
    BY <1>3 DEF Placed
<1>5. /\ DOMAIN g = Placing(k)' /\ DOMAIN f = Placing(k)
      /\ \A r \in DOMAIN g : g[r] = job[r].quantity
      /\ \A r \in DOMAIN f : f[r] = job[r].quantity
    BY <1>3
<1>6. Total(f) <= Total(g)
    <2>1. \A r \in DOMAIN g : g[r] \in Nat
        BY <1>2, <1>5
    <2>2. DOMAIN f \subseteq DOMAIN g /\ \A r \in DOMAIN f : f[r] \in Nat /\ f[r] <= g[r]
        BY <1>1, <1>5, <2>1
    <2> QED BY <1>2, <1>5, <2>1, <2>2, TotalGrows
<1> QED BY <1>4, <1>6

\* The commit of an edit places its shares.
LEMMA PlacedByCommit ==
    ASSUME TypeInv, IsFiniteSet(Active), NEW r \in Requests, Commit(r), ~IsTrade(r)
    PROVE  Placed(KeyOf(r))' = Placed(KeyOf(r)) + job[r].quantity
<1>1. PICK k : k = KeyOf(r)
    OBVIOUS
<1>2. /\ pc[r] = "commit" /\ pc'[r] \in {"reply", "done"} /\ UNCHANGED job
      /\ \A o \in Requests \ {r} : pc'[o] = pc[o]
    BY DEF Commit, LoseConfirmation, Close, TypeInv, TypeOK
<1>3. \A o \in Requests : IsTrade(o)' = IsTrade(o) /\ KeyOf(o)' = KeyOf(o)
    BY <1>2 DEF IsTrade, KeyOf
<1>4. PICK S, T : S = Placing(k) /\ T = Placing(k)'
    OBVIOUS
<1>5. r \notin S /\ T = S \cup {r}
    BY <1>1, <1>2, <1>3, <1>4 DEF Placing
<1>6. PICK f, g : f = [o \in S |-> job[o].quantity] /\ g = [o \in T |-> job[o].quantity]
    OBVIOUS
<1>7. Placed(k) = Total(f) /\ Placed(k)' = Total(g)
    BY <1>2, <1>4, <1>6 DEF Placed
<1>8. /\ IsFiniteSet(DOMAIN f) /\ r \notin DOMAIN f
      /\ \A o \in DOMAIN f : f[o] \in Nat /\ g[o] = f[o]
      /\ DOMAIN g = DOMAIN f \cup {r} /\ g[r] = job[r].quantity
    BY <1>4, <1>5, <1>6, PlacedType
<1>9. job[r].quantity \in Nat
    BY JobType DEF TypeInv, Price
<1>10. Total(g) = Total(f) + g[r]
    BY <1>8, <1>9, TotalAdds
<1>11. Placed(KeyOf(r))' = Placed(k)'
    BY <1>1, <1>3 DEF Placed, Placing
<1> QED BY <1>1, <1>7, <1>8, <1>10, <1>11

-----------------------------------------------------------------------------
(* What one step does to the sessions.                                     *)

Acts(r) == Send(r) \/ Step(r) \/ DatabaseError(r) \/ Crash(r)

\* A step of r leaves the sessions of the others alone.
LEMMA OthersWait ==
    ASSUME TypeInv, NEW r \in Requests, Acts(r), NEW o \in Requests \ {r}
    PROVE  pc'[o] = pc[o] /\ seen'[o] = seen[o] /\ pending'[o] = pending[o]
<1> USE DEF TypeInv, TypeOK
<1>1. ASSUME NEW code, Refuse(r, code)
      PROVE  pc'[o] = pc[o] /\ seen'[o] = seen[o] /\ pending'[o] = pending[o]
    BY <1>1 DEF Refuse, Close
<1>2. ASSUME NEW label, Goto(r, label) PROVE pc'[o] = pc[o]
    BY <1>2 DEF Goto
<1>3. CASE CheckIdempotency(r)
    BY <1>1, <1>2, <1>3 DEF CheckIdempotency, Replay, Close
<1>4. CASE FetchQuote(r) \/ LoadPortfolio(r) \/ SelectPosition(r) \/ RecordExecution(r)
    BY <1>1, <1>2, <1>4 DEF FetchQuote, LoadPortfolio, SelectPosition, RecordExecution
<1>5. CASE FlushPosition(r)
    BY <1>1, <1>2, <1>5
       DEF FlushPosition, InsertPosition, UpdatePosition, DeletePosition, Store
<1>6. CASE Commit(r)
    BY <1>6 DEF Commit, LoseConfirmation, Close
<1>7. CASE Reply(r)
    BY <1>1, <1>7 DEF Reply, Close
<1>8. CASE Send(r) \/ DatabaseError(r) \/ Crash(r)
    BY <1>1, <1>2, <1>8 DEF Send, DatabaseError, Crash
<1> QED BY <1>3, <1>4, <1>5, <1>6, <1>7, <1>8 DEF Acts, Step

\* A step of r keeps all payloads, goes on from "idle", and goes back nowhere.
LEMMA ActGoesOn ==
    ASSUME TypeInv, NEW r \in Requests, Acts(r)
    PROVE  /\ UNCHANGED job
           /\ pc[r] \in {"reply", "done"} => pc'[r] \in {"reply", "done"}
<1> USE DEF TypeInv, TypeOK
<1>1. ASSUME NEW code, Refuse(r, code) PROVE UNCHANGED job /\ pc'[r] = "done"
    BY <1>1 DEF Refuse, Close
<1>2. ASSUME NEW label, Goto(r, label) PROVE UNCHANGED job
    BY <1>2 DEF Goto
<1>3. CASE CheckIdempotency(r)
    BY <1>1, <1>2, <1>3 DEF CheckIdempotency, Replay, Close
<1>4. CASE FetchQuote(r) \/ LoadPortfolio(r) \/ SelectPosition(r) \/ RecordExecution(r)
    BY <1>1, <1>2, <1>4 DEF FetchQuote, LoadPortfolio, SelectPosition, RecordExecution
<1>5. CASE FlushPosition(r)
    BY <1>1, <1>2, <1>5
       DEF FlushPosition, InsertPosition, UpdatePosition, DeletePosition, Store
<1>6. CASE Commit(r)
    BY <1>6 DEF Commit, LoseConfirmation, Close
<1>7. CASE Reply(r)
    BY <1>1, <1>7 DEF Reply, Close
<1>8. CASE Send(r) \/ DatabaseError(r) \/ Crash(r)
    BY <1>1, <1>2, <1>8 DEF Send, DatabaseError, Crash
<1> QED BY <1>3, <1>4, <1>5, <1>6, <1>7, <1>8 DEF Acts, Step

\* Only a commit touches the tables.
LEMMA TablesStay ==
    ASSUME TypeInv, [Next]_vars, \A r \in Requests : ~Commit(r)
    PROVE  UNCHANGED <<positions, executions>>
<1>1. executions' = executions
    BY RecordsByCommit
<1>2. \A k \in Keys : positions'[k] = positions[k]
    BY MovesByCommit
<1>3. TypeOK'
    BY StepType DEF TypeInv
<1> QED BY <1>1, <1>2, <1>3 DEF TypeInv, TypeOK

\* The object of a session is the one it had, or the stored row.
LEMMA ObjectOfSession ==
    ASSUME TypeInv, NEW r \in Requests, Acts(r), pc'[r] \in {"select", "flush"}
    PROVE  \/ pc[r] \in {"select", "flush"} /\ seen'[r] = seen[r]
           \/ KeyOf(r) \in Keys /\ seen'[r] = positions[KeyOf(r)]
<1> USE DEF TypeInv, TypeOK
<1>1. ASSUME NEW code, Refuse(r, code) PROVE FALSE
    BY <1>1 DEF Refuse, Close
<1>2. ASSUME NEW label, Goto(r, label) PROVE pc'[r] = label
    BY <1>2 DEF Goto
<1>3. CASE CheckIdempotency(r)
    BY <1>1, <1>2, <1>3 DEF CheckIdempotency, Replay, Close
<1>4. CASE FetchQuote(r) \/ RecordExecution(r)
    BY <1>1, <1>2, <1>4 DEF FetchQuote, RecordExecution
<1>5. CASE LoadPortfolio(r)
    BY <1>1, <1>5, KeyIsOwned DEF LoadPortfolio
<1>6. CASE SelectPosition(r)
    BY <1>1, <1>6 DEF SelectPosition, Object, Paths
<1>7. CASE FlushPosition(r)
    BY <1>1, <1>2, <1>7
       DEF FlushPosition, InsertPosition, UpdatePosition, DeletePosition, Store
<1>8. CASE Commit(r)
    BY <1>8 DEF Commit, LoseConfirmation, Close
<1>9. CASE Reply(r)
    BY <1>1, <1>9 DEF Reply, Close
<1>10. CASE Send(r) \/ DatabaseError(r) \/ Crash(r)
    BY <1>1, <1>2, <1>10 DEF Send, DatabaseError, Crash
<1> QED BY <1>3, <1>4, <1>5, <1>6, <1>7, <1>8, <1>9, <1>10 DEF Acts, Step

\* A row is written at the flush, or it was written before.
LEMMA WriteOfSession ==
    ASSUME TypeInv, Locks, NEW r \in Requests, Acts(r), pending'[r] # NoWrite
    PROVE  \/ pc[r] \in {"record", "commit"} /\ pending'[r] = pending[r]
           \/ FlushPosition(r)
<1>1. ASSUME NEW code, Refuse(r, code) PROVE FALSE
    BY <1>1 DEF Refuse, Close, TypeInv, TypeOK
<1>2. CASE pending'[r] = pending[r]
    BY <1>2 DEF Locks
<1>3. CASE CheckIdempotency(r)
    BY <1>1, <1>2, <1>3 DEF CheckIdempotency, Replay, Close, TypeInv, TypeOK
<1>4. CASE FetchQuote(r) \/ LoadPortfolio(r) \/ SelectPosition(r) \/ RecordExecution(r)
    BY <1>1, <1>2, <1>4 DEF FetchQuote, LoadPortfolio, SelectPosition, RecordExecution
<1>5. CASE Commit(r)
    BY <1>5 DEF Commit, LoseConfirmation, Close, TypeInv, TypeOK
<1>6. CASE Reply(r)
    BY <1>1, <1>6 DEF Reply, Close, TypeInv, TypeOK
<1>7. CASE Send(r) \/ DatabaseError(r) \/ Crash(r)
    BY <1>1, <1>2, <1>7 DEF Send, DatabaseError, Crash
<1> QED BY <1>3, <1>4, <1>5, <1>6, <1>7 DEF Acts, Step

\* What a flush writes is covered by the books and by what the commit brings in.
LEMMA FlushIsCovered ==
    ASSUME TypeInv, Locks, Orderly, Supplies, NEW r \in Requests, FlushPosition(r),
           pending'[r] # NoWrite
    PROVE  SharesOf(pending'[r]) <= OnTheBooks(KeyOf(r)) + Adding(r)
<1>1. pc[r] = "flush" /\ KeyOf(r) \in Keys /\ pending[r] = NoWrite
    BY DEF FlushPosition, TypeInv, Paths, Locks
<1>2. PICK k : k = KeyOf(r)
    OBVIOUS
<1>3. PICK books : books = OnTheBooks(k)
    OBVIOUS
<1>4. books \in Nat
    <2>1. SharesOf(Opening[k]) \in Nat
        BY <1>1, <1>2, RowsAssumption, SharesType
    <2> QED BY <1>3, <2>1, TradedType, PlacedType DEF OnTheBooks, Supplies
<1>5. job[r].quantity \in Nat \ {0}
    BY JobType DEF TypeInv, Price
<1>6. Side(r) \in {"BUY", "SELL"} \/ ~IsTrade(r)
    BY <1>1 DEF Orderly, OrderlyAt
<1>7. SharesOf(seen[r]) <= books /\ SharesOf(positions[k]) <= books
    BY <1>1, <1>2, <1>3 DEF Supplies, NoInventedShares, OnTheBooks
<1>8. ASSUME NEW code, Refuse(r, code) PROVE FALSE
    BY <1>8 DEF Refuse, Close, TypeInv, TypeOK
<1>9. ASSUME NEW row, Store(r, row) PROVE pending'[r] = row
    BY <1>8, <1>9 DEF Store, TypeInv, TypeOK
<1>10. CASE InsertPosition(r)
    <2>1. PICK row : row = [id |-> r, quantity |-> job[r].quantity,
                            price |-> Ticks(EntryPrice(r))]
        OBVIOUS
    <2>2. pending'[r] = row
        BY <1>8, <1>9, <1>10, <2>1 DEF InsertPosition
    <2>3. SharesOf(row) \in {0, job[r].quantity}
        BY <1>5, <2>1 DEF SharesOf
    <2>4. Adding(r) = job[r].quantity
        BY <1>1, <1>10 DEF Adding, InsertPosition, Orderly, OrderlyAt, Oversells
    <2> QED BY <1>2, <1>3, <1>4, <1>5, <2>2, <2>3, <2>4
<1>11. CASE UpdatePosition(r)
    <2>1. PICK priceToo : pending'[r] = Updated(r, priceToo) /\ IsStored(r)
        BY <1>1, <1>8, <1>9, <1>11 DEF UpdatePosition
    <2>2. /\ seen[r] # NoRow /\ seen[r].quantity \in Nat
          /\ SharesOf(seen[r]) = seen[r].quantity
          /\ positions[k] \in Rows /\ SharesOf(positions[k]) = positions[k].quantity
        BY <1>1, <1>2, <1>11, <2>1, NumbersAssumption
           DEF UpdatePosition, IsStored, SharesOf, TypeInv, TypeOK, OptionalRows, Rows
    <2>3. Updated(r, priceToo).quantity \in {NewQuantity(r), positions[k].quantity}
        BY <1>2, <2>2 DEF Updated, Rows
    <2>4. NewQuantity(r) <= books + Adding(r)
        BY <1>4, <1>5, <1>6, <1>7, <2>2 DEF NewQuantity, Adding
    <2>5. positions[k].quantity <= books + Adding(r)
        BY <1>4, <1>5, <1>7, <2>2, NumbersAssumption DEF Adding, Rows
    <2>6. PICK row : row = Updated(r, priceToo)
        OBVIOUS
    <2>7. NewQuantity(r) \in Int /\ NewQuantity(r) > 0
        BY <1>5, <1>11, <2>2 DEF NewQuantity, UpdatePosition
    <2>8. SharesOf(row) <= books + Adding(r)
        <3>1. SharesOf(row) = 0 \/ SharesOf(row) = row.quantity
            BY DEF SharesOf
        <3>2. 0 <= books + Adding(r)
            BY <1>4, <1>5 DEF Adding
        <3> QED BY <2>3, <2>4, <2>5, <2>6, <3>1, <3>2
    <2> QED BY <1>2, <1>3, <2>1, <2>6, <2>8
<1>12. CASE DeletePosition(r)
    <2>1. pending'[r] = NoRow
        BY <1>1, <1>12 DEF DeletePosition, TypeInv, TypeOK
    <2>2. SharesOf(pending'[r]) = 0
        BY <2>1 DEF SharesOf
    <2>3. 0 <= books + Adding(r)
        BY <1>4, <1>5 DEF Adding
    <2> QED BY <1>2, <1>3, <2>2, <2>3
<1> QED BY <1>10, <1>11, <1>12 DEF FlushPosition

-----------------------------------------------------------------------------
(* The books grow, by at least what a commit brings in.                    *)

LEMMA CommitIsOwn ==
    ASSUME TypeInv, NEW r \in Requests, Acts(r), NEW o \in Requests, Commit(o)
    PROVE  o = r
<1>1. pc'[o] # pc[o]
    BY DEF Commit, LoseConfirmation, Close, TypeInv, TypeOK
<1> QED BY <1>1, OthersWait

LEMMA ActIsStep ==
    ASSUME NEW r \in Requests, Acts(r)
    PROVE  Next
  BY DEF Acts, Next

LEMMA FinitelyMany ==
    ASSUME TypeInv, Supplies, NEW r \in Requests, Acts(r)
    PROVE  IsFiniteSet(executions') /\ IsFiniteSet(Active')
<1>1. executions' = executions \/ Commit(r)
    BY RecordsByCommit, CommitIsOwn, ActIsStep
<1>2. IsFiniteSet(executions')
    BY <1>1, FS_AddElement DEF Supplies, Commit
<1>3. Active' \subseteq Active \cup {r}
    BY OthersWait DEF Active
<1>4. IsFiniteSet(Active \cup {r})
    BY FS_AddElement DEF Supplies
<1> QED BY <1>2, <1>3, <1>4, FS_Subset

LEMMA BooksGrow ==
    ASSUME TypeInv, Orderly, Recordings, Supplies,
           NEW r \in Requests, Acts(r), NEW k \in Keys
    PROVE  /\ OnTheBooks(k) \in Nat /\ OnTheBooks(k)' \in Nat
           /\ OnTheBooks(k) <= OnTheBooks(k)'
           /\ Commit(r) /\ k = KeyOf(r) => OnTheBooks(k) + Adding(r) <= OnTheBooks(k)'
<1> DEFINE B == Traded(k, "BUY")
           P == Placed(k)
           O == SharesOf(Opening[k])
<1>1. TypeInv' /\ IsFiniteSet(Active') /\ IsFiniteSet(executions')
    BY StepType, ActIsStep, FinitelyMany
<1>2. O \in Nat /\ O' = O
    BY RowsAssumption, SharesType DEF SharesOf
<1>3. B \in Nat /\ P \in Nat
    BY TradedType, PlacedType DEF Supplies
<1>4. executions' = executions \/ (Commit(r) /\ IsTrade(r))
    BY RecordsByCommit, CommitIsOwn, ActIsStep DEF Commit
<1>5. job[r].quantity \in Nat \ {0}
    BY JobType DEF TypeInv, Price
<1>6. /\ B' = B \/ B' = B + job[r].quantity
      /\ Commit(r) /\ IsTrade(r) /\ k = KeyOf(r) /\ Side(r) = "BUY"
           => B' = B + job[r].quantity
    <2>1. CASE Commit(r) /\ IsTrade(r)
        <3>1. B' = B + IF k = KeyOf(r) /\ "BUY" = Side(r) THEN job[r].quantity ELSE 0
            BY <2>1, TradedByCommit DEF Supplies
        <3> QED BY <1>3, <3>1
    <2>2. CASE executions' = executions /\ ~(Commit(r) /\ IsTrade(r))
        BY <2>2 DEF Traded, Fills
    <2> QED BY <1>4, <2>1, <2>2
<1>7. P <= P'
    <2>1. \A o \in Requests : pc[o] \in {"reply", "done"} => pc'[o] \in {"reply", "done"}
        BY ActGoesOn, OthersWait
    <2> QED BY <1>1, <2>1, ActGoesOn, PlacedGrows
<1>8. P' \in Nat
    <2>1. Placing(k)' \subseteq Active' /\ Placing(k)' \subseteq Requests
        BY DEF Placing, Active
    <2>2. PICK g : g = [o \in Placing(k) |-> job[o].quantity]'
        OBVIOUS
    <2>3. P' = Total(g)
        BY <2>2 DEF Placed
    <2>4. DOMAIN g = Placing(k)' /\ \A o \in DOMAIN g : g[o] = job[o].quantity
        BY <2>2, ActGoesOn
    <2>5. IsFiniteSet(DOMAIN g) /\ \A o \in DOMAIN g : g[o] \in Nat
        BY <1>1, <2>1, <2>4, FS_Subset, JobType DEF TypeInv, Price
    <2> QED BY <2>3, <2>5, TotalType
<1>9. Commit(r) /\ ~IsTrade(r) /\ k = KeyOf(r) => P' = P + job[r].quantity
    <2>1. ASSUME k = KeyOf(r) PROVE Placed(k) = Placed(KeyOf(r))
        BY <2>1
    <2>2. ASSUME k = KeyOf(r), Commit(r) PROVE Placed(k)' = Placed(KeyOf(r))'
        <3>1. KeyOf(r)' = KeyOf(r)
            BY ActGoesOn DEF KeyOf, IsTrade
        <3> QED BY <2>2, <3>1 DEF Placed, Placing
    <2> QED BY <2>1, <2>2, PlacedByCommit DEF Supplies
<1>10. Commit(r) /\ IsTrade(r) => Side(r) \in {"BUY", "SELL"}
    BY DEF Commit, Orderly, OrderlyAt
<1>11. Adding(r) = IF IsTrade(r) /\ Side(r) = "SELL" THEN 0 ELSE job[r].quantity
    BY DEF Adding
<1>12. OnTheBooks(k) = O + B + P /\ OnTheBooks(k)' = O' + B' + P'
    BY DEF OnTheBooks
<1> HIDE DEF O, B, P
<1>13. OnTheBooks(k) \in Nat /\ OnTheBooks(k)' \in Nat /\ OnTheBooks(k) <= OnTheBooks(k)'
    BY <1>2, <1>3, <1>5, <1>6, <1>7, <1>8, <1>12
<1>14. ASSUME Commit(r), k = KeyOf(r) PROVE OnTheBooks(k) + Adding(r) <= OnTheBooks(k)'
    <2>1. CASE IsTrade(r) /\ Side(r) = "SELL"
        BY <1>11, <1>13, <2>1
    <2>2. CASE IsTrade(r) /\ Side(r) = "BUY"
        BY <1>2, <1>3, <1>5, <1>6, <1>7, <1>8, <1>11, <1>12, <1>14, <2>2
    <2>3. CASE ~IsTrade(r)
        BY <1>2, <1>3, <1>5, <1>6, <1>8, <1>9, <1>11, <1>12, <1>14, <2>3
    <2> QED BY <1>10, <1>14, <2>1, <2>2, <2>3
<1> QED BY <1>13, <1>14

LEMMA ActSupplies ==
    ASSUME TypeInv, Locks, Orderly, Recordings, Supplies, NEW r \in Requests, Acts(r)
    PROVE  Supplies'
<1>1. IsFiniteSet(executions') /\ IsFiniteSet(Active')
    BY FinitelyMany
<1>2. [Next]_vars
    BY ActIsStep
<1>3. TypeInv'
    BY <1>2, StepType
<1>4. ASSUME NEW o \in Requests
      PROVE  KeyOf(o)' = KeyOf(o) /\ Adding(o)' = Adding(o) /\ Adding(o) \in Nat
    <2>1. job[o].quantity \in Nat
        BY JobType DEF TypeInv, Price
    <2> QED BY <2>1, ActGoesOn DEF KeyOf, IsTrade, Adding, Side
<1>5. ASSUME NEW k \in Keys PROVE SharesOf(positions[k])' <= OnTheBooks(k)'
    <2>1. /\ SharesOf(positions[k]) <= OnTheBooks(k)
          /\ SharesOf(positions[k]) \in Nat
        BY SharesType DEF Supplies, NoInventedShares, OnTheBooks, TypeInv, TypeOK
    <2>2. CASE positions'[k] = positions[k]
        BY <2>1, <2>2, BooksGrow DEF SharesOf
    <2>3. CASE positions'[k] # positions[k]
        <3>1. PICK o \in Requests : /\ Commit(o) /\ KeyOf(o) = k
                                    /\ pending[o] # NoWrite /\ positions'[k] = pending[o]
            BY <1>2, <2>3, MovesByCommit
        <3>2. o = r
            BY <3>1, CommitIsOwn
        <3>3. pending[r] \in OptionalRows
            BY <3>1, <3>2 DEF TypeInv, TypeOK
        <3>4. SharesOf(pending[r]) <= OnTheBooks(k) + Adding(r)
            BY <3>1, <3>2 DEF Supplies, Commit
        <3>5. OnTheBooks(k) + Adding(r) <= OnTheBooks(k)'
            BY <3>1, <3>2, BooksGrow
        <3>6. SharesOf(positions[k])' = SharesOf(pending[r])
            BY <3>1, <3>2 DEF SharesOf
        <3> QED BY <1>4, <3>3, <3>4, <3>5, <3>6, SharesType, BooksGrow
    <2> QED BY <2>2, <2>3
<1>6. NoInventedShares'
    BY <1>5 DEF NoInventedShares, OnTheBooks
<1>7. ASSUME NEW o \in Requests, pc'[o] \in {"select", "flush"}
      PROVE  SharesOf(seen[o])' <= OnTheBooks(KeyOf(o))'
    <2>1. PICK k : k = KeyOf(o)
        OBVIOUS
    <2>2. k \in Keys \/ pc[o] = "load"
        <3>1. CASE o = r
            BY <1>7, <2>1, <3>1, ObjectOfSession DEF TypeInv, Paths
        <3>2. CASE o # r
            BY <1>7, <2>1, <3>2, OthersWait DEF TypeInv, Paths
        <3> QED BY <3>1, <3>2
    <2>3. k \in Keys /\ OnTheBooks(KeyOf(o))' = OnTheBooks(k)'
        <3>1. KeyOf(o)' \in Keys
            BY <1>3, <1>7 DEF TypeInv, Paths
        <3> QED BY <1>4, <2>1, <3>1 DEF OnTheBooks, Traded, Fills, Placed, Placing
    <2>4. PICK row : row = seen'[o]
        OBVIOUS
    <2>5. row \in OptionalRows /\ SharesOf(seen[o])' = SharesOf(row)
        BY <1>3, <2>4 DEF TypeInv, TypeOK, SharesOf
    <2>6. SharesOf(row) <= OnTheBooks(k)
        <3>1. CASE o = r
            BY <1>7, <2>1, <2>4, <3>1, ObjectOfSession
               DEF Supplies, NoInventedShares, OnTheBooks
        <3>2. CASE o # r
            BY <1>7, <2>1, <2>4, <3>2, OthersWait DEF Supplies
        <3> QED BY <3>1, <3>2
    <2> QED BY <2>3, <2>5, <2>6, SharesType, BooksGrow
<1>8. ASSUME NEW o \in Requests, pc'[o] \in {"record", "commit"}, pending'[o] # NoWrite
      PROVE  SharesOf(pending[o])' <= OnTheBooks(KeyOf(o))' + Adding(o)'
    <2>1. PICK k : k = KeyOf(o)
        OBVIOUS
    <2>2. k \in Keys /\ OnTheBooks(KeyOf(o))' = OnTheBooks(k)'
        <3>1. KeyOf(o)' \in Keys
            BY <1>3, <1>8 DEF TypeInv, Paths
        <3> QED BY <1>4, <2>1, <3>1 DEF OnTheBooks, Traded, Fills, Placed, Placing
    <2>3. PICK row : row = pending'[o]
        OBVIOUS
    <2>4. row \in OptionalRows /\ SharesOf(pending[o])' = SharesOf(row)
        BY <1>3, <1>8, <2>3 DEF TypeInv, TypeOK, SharesOf
    <2>5. SharesOf(row) <= OnTheBooks(k) + Adding(o)
        <3>1. CASE o = r
            BY <1>8, <2>1, <2>3, <3>1, WriteOfSession, FlushIsCovered DEF Supplies
        <3>2. CASE o # r
            BY <1>8, <2>1, <2>3, <3>2, OthersWait DEF Supplies
        <3> QED BY <3>1, <3>2
    <2> QED BY <1>4, <2>2, <2>4, <2>5, SharesType, BooksGrow
<1> QED BY <1>1, <1>6, <1>7, <1>8 DEF Supplies

LEMMA InitSupplies == Init => Supplies
<1> SUFFICES ASSUME Init PROVE Supplies
    OBVIOUS
<1>1. executions = {} /\ Active = {}
    BY DEF Init, Active
<1>2. IsFiniteSet(executions) /\ IsFiniteSet(Active)
    BY <1>1, FS_EmptySet
<1>3. ASSUME NEW k \in Keys PROVE SharesOf(positions[k]) <= OnTheBooks(k)
    <2>1. TypeInv
        BY InitType
    <2>2. SharesOf(Opening[k]) \in Nat /\ positions[k] = Opening[k]
        BY RowsAssumption, SharesType DEF Init
    <2>3. Traded(k, "BUY") \in Nat /\ Placed(k) \in Nat
        BY <1>2, <2>1, TradedType, PlacedType
    <2> QED BY <2>2, <2>3 DEF OnTheBooks
<1> QED BY <1>2, <1>3 DEF Init, Supplies, NoInventedShares, OnTheBooks

LEMMA SuppliesAreKept == Spec => []Supplies
<1>1. ASSUME Supplies, UNCHANGED vars PROVE Supplies'
    <2> USE <1>1 DEF vars
    <2>1. \A r \in Requests : KeyOf(r)' = KeyOf(r) /\ Adding(r)' = Adding(r)
        BY DEF KeyOf, IsTrade, Adding, Side
    <2>2. ASSUME NEW k PROVE OnTheBooks(k)' = OnTheBooks(k)
        BY DEF OnTheBooks, Traded, Fills, Placed, Placing, KeyOf, IsTrade
    <2>3. \A r \in Requests : OnTheBooks(KeyOf(r))' = OnTheBooks(KeyOf(r))
        BY <2>1 DEF OnTheBooks, Traded, Fills, Placed, Placing, IsTrade
    <2>4. NoInventedShares'
        BY <2>2 DEF Supplies, NoInventedShares, OnTheBooks, SharesOf
    <2>5. Active' = Active
        BY DEF Active
    <2> QED BY <2>1, <2>3, <2>4, <2>5 DEF Supplies, SharesOf
<1>2. TypeInv /\ Locks /\ Ids /\ Orderly /\ Recordings /\ Supplies /\ [Next]_vars => Supplies'
    BY <1>1, ActSupplies DEF Next, Acts, Finished
<1> QED BY <1>2, TypeCorrect, LocksAreKept, OrderIsKept, RecordingsAreKept, InitSupplies,
           PTL DEF Spec

\* However trades and edits of a position race, are refused, crash or lose their
\* commits, it never holds more than was there, was bought or was set.
THEOREM SharesAreReal == Spec => []NoInventedShares
<1>1. Supplies => NoInventedShares
    BY DEF Supplies
<1> QED BY <1>1, SuppliesAreKept, PTL

-----------------------------------------------------------------------------
(* The books balance but for edits and stale trades.                       *)

LEMMA NoRowIsNone ==
    ASSUME NEW quantity \in Nat, NEW price \in Nat
    PROVE  [quantity |-> quantity, price |-> price] # NoRow
  BY SharesAssumption

\* A trade computed from the stored row moves the position by its quantity.
LEMMA FreshTradeMoves ==
    ASSUME LedgerInv, NEW r \in Requests, Commit(r), Fresh(r), IsTrade(r)
    PROVE  LET k == KeyOf(r)
           IN  SharesOf(positions[k])' =
                 SharesOf(positions[k])
                 + IF Side(r) = "BUY" THEN job[r].quantity ELSE -job[r].quantity
<1>1. PICK k : k = KeyOf(r)
    OBVIOUS
<1>2. /\ pc[r] = "commit" /\ k \in Keys /\ KeyOf(r)' = KeyOf(r)
      /\ job[r].quantity \in Nat \ {0}
    BY <1>1, JobType DEF Commit, LedgerInv, TypeInv, Paths, Price, KeyOf, IsTrade
<1>3. /\ pending[r] # NoWrite /\ SharesOnly(pending[r]) = NewShares(r)
      /\ Side(r) \in {"BUY", "SELL"} /\ ~Oversells(r, seen[r])
    BY <1>2 DEF LedgerInv, Orderly, OrderlyAt
<1>4. positions'[k] = pending[r] /\ pending[r] \in OptionalRows
    BY <1>1, <1>2, <1>3 DEF Commit, LedgerInv, TypeInv, TypeOK
<1>5. SharesOf(pending[r]) = SharesOf(NewShares(r))
    BY <1>3, <1>4, SharesOfRow DEF SharesOf
<1>6. seen[r] = positions[k] /\ seen[r] \in OptionalRows
    BY <1>1, <1>2 DEF Fresh, LedgerInv, TypeInv, TypeOK
<1>7. seen[r] # NoRow => seen[r].quantity \in Nat
    BY <1>6, NumbersAssumption DEF OptionalRows, Rows
<1>8. SharesOf(NewShares(r))
        = SharesOf(seen[r]) + IF Side(r) = "BUY" THEN job[r].quantity ELSE -job[r].quantity
    <2>1. CASE seen[r] = NoRow
        <3>1. Side(r) = "BUY"
            BY <1>3, <2>1 DEF Oversells
        <3>2. Ticks(EntryPrice(r)) \in Nat
            BY QuoteType DEF LedgerInv, TypeInv
        <3>3. NewShares(r) = [quantity |-> job[r].quantity, price |-> Ticks(EntryPrice(r))]
            BY <2>1 DEF NewShares
        <3>4. NewShares(r) # NoRow
            BY <1>2, <3>2, <3>3, NoRowIsNone
        <3>5. SharesOf(NewShares(r)) = job[r].quantity /\ SharesOf(seen[r]) = 0
            BY <2>1, <3>3, <3>4 DEF SharesOf
        <3> QED BY <1>2, <3>1, <3>5
    <2>2. CASE seen[r] # NoRow
        <3>1. NewQuantity(r) = SharesOf(seen[r])
                 + IF Side(r) = "BUY" THEN job[r].quantity ELSE -job[r].quantity
            BY <1>2, <1>3, <1>7, <2>2 DEF NewQuantity, SharesOf
        <3>2. CASE NewQuantity(r) = 0
            BY <2>2, <3>1, <3>2 DEF NewShares, SharesOf
        <3>3. CASE NewQuantity(r) # 0
            <4>1. NewQuantity(r) \in Nat
                BY <1>2, <1>3, <1>7, <2>2 DEF NewQuantity, Oversells
            <4>2. PICK price \in Nat :
                    NewShares(r) = [quantity |-> NewQuantity(r), price |-> price]
                <5>1. NewPrice(r) \in Nat /\ seen[r].price \in Nat
                    BY <1>6, <2>2, NewPriceType DEF LedgerInv, OptionalRows, Rows, Price
                <5> QED BY <2>2, <3>3, <5>1 DEF NewShares
            <4>3. NewShares(r) # NoRow
                BY <4>1, <4>2, NoRowIsNone
            <4> QED BY <3>1, <4>2, <4>3 DEF SharesOf
        <3> QED BY <3>2, <3>3
    <2> QED BY <2>1, <2>2
<1>9. SharesOf(positions[KeyOf(r)])' = SharesOf(positions'[k])
    BY <1>1, <1>2 DEF SharesOf
<1> QED BY <1>1, <1>4, <1>5, <1>6, <1>8, <1>9

LEMMA CommitBalances ==
    ASSUME LedgerInv, Recordings, Supplies, NEW r \in Requests, Commit(r), NEW k \in Keys,
           KeyOf(r) = k => IsTrade(r) /\ Fresh(r)
    PROVE  Imbalance(k)' = Imbalance(k)
<1> DEFINE P == SharesOf(positions[k])
           B == Traded(k, "BUY")
           S == Traded(k, "SELL")
           O == SharesOf(Opening[k])
<1>1. P \in Nat /\ O \in Nat /\ O' = O
    BY RowsAssumption, SharesType DEF SharesOf, LedgerInv, TypeInv, TypeOK
<1>2. B \in Nat /\ S \in Nat
    BY TradedType DEF Supplies, LedgerInv
<1>3. job[r].quantity \in Nat
    BY JobType DEF LedgerInv, TypeInv, Price
<1>4. Imbalance(k) = P - (O + B - S) /\ Imbalance(k)' = P' - (O' + B' - S')
    BY DEF Imbalance
<1>5. CASE KeyOf(r) = k
    <2>1. Side(r) \in {"BUY", "SELL"}
        BY <1>5 DEF LedgerInv, Orderly, OrderlyAt, Commit
    <2>2. P' = P + IF Side(r) = "BUY" THEN job[r].quantity ELSE -job[r].quantity
        <3>1. KeyOf(r)' = KeyOf(r)
            BY DEF Commit, KeyOf, IsTrade
        <3>2. SharesOf(positions[KeyOf(r)])' = SharesOf(positions[k])'
            BY <1>5, <3>1
        <3> QED BY <1>5, <3>2, FreshTradeMoves
    <2>3. /\ B' = B + IF Side(r) = "BUY" THEN job[r].quantity ELSE 0
          /\ S' = S + IF Side(r) = "SELL" THEN job[r].quantity ELSE 0
        BY <1>5, TradedByCommit DEF Supplies, LedgerInv
    <2> HIDE DEF P, B, S, O
    <2> QED BY <1>1, <1>2, <1>3, <1>4, <2>1, <2>2, <2>3
<1>6. CASE KeyOf(r) # k
    <2>1. P' = P
        BY <1>6 DEF Commit, SharesOf, LedgerInv, TypeInv, TypeOK
    <2>2. B' = B /\ S' = S
        <3>1. CASE IsTrade(r)
            BY <1>2, <1>6, <3>1, TradedByCommit DEF Supplies, LedgerInv
        <3>2. CASE ~IsTrade(r)
            BY <3>2 DEF Commit, Traded, Fills
        <3> QED BY <3>1, <3>2
    <2> HIDE DEF P, B, S, O
    <2> QED BY <1>1, <1>4, <2>1, <2>2
<1> QED BY <1>5, <1>6

\* The difference between a position and the sum of its recorded trades changes
\* by nothing but an edit or a trade that commits on top of a row it never saw.
THEOREM OnlyRacesUnbalance == Spec => OnlyStaleTradesUnbalance
<1>1. ASSUME LedgerInv, Recordings, Supplies, [Next]_vars, NEW k \in Keys,
             Imbalance(k)' # Imbalance(k)
      PROVE  \E r \in Requests :
               /\ pc[r] = "commit" /\ pc'[r] # "commit" /\ KeyOf(r) = k
               /\ ~IsTrade(r) \/ seen[r] # positions[k]
    <2>1. PICK r \in Requests : Commit(r)
        <3>1. CASE \A r \in Requests : ~Commit(r)
            <4>1. UNCHANGED <<positions, executions>>
                BY <1>1, <3>1, TablesStay DEF LedgerInv
            <4>2. Imbalance(k)' = Imbalance(k)
                BY <4>1 DEF Imbalance, Traded, Fills, SharesOf
            <4> QED BY <1>1, <4>2
        <3> QED BY <3>1
    <2>2. KeyOf(r) = k /\ ~(IsTrade(r) /\ Fresh(r))
        BY <1>1, <2>1, CommitBalances
    <2>3. pc[r] = "commit" /\ pc'[r] # "commit"
        BY <1>1, <2>1 DEF Commit, LoseConfirmation, Close, LedgerInv, TypeInv, TypeOK
    <2> QED BY <2>2, <2>3 DEF Fresh
<1>2. LedgerInv /\ Recordings /\ Supplies /\ [Next]_vars =>
        [\A k \in Keys : Imbalance(k)' # Imbalance(k) =>
           \E r \in Requests :
               /\ pc[r] = "commit" /\ pc'[r] # "commit" /\ KeyOf(r) = k
               /\ ~IsTrade(r) \/ seen[r] # positions[k]
        ]_vars
    BY <1>1
<1>3. TypeInv /\ Locks /\ Ids /\ Orderly => LedgerInv
    BY DEF LedgerInv
<1> QED BY <1>2, <1>3, TypeCorrect, LocksAreKept, OrderIsKept, RecordingsAreKept,
           SuppliesAreKept, PTL DEF Spec, OnlyStaleTradesUnbalance
=============================================================================
