----------------------------- MODULE MarketFeed -----------------------------
(***************************************************************************)
(* The market feed: Celery beat sends update_market_price every ten        *)
(* seconds through a Redis queue, the processes of the worker pods run it, *)
(* and each run writes the quotes of the watchlist and then the analysis   *)
(* that the dashboard and the sockets show.  A run may take longer than    *)
(* the ten seconds, and nothing keeps two runs apart.                      *)
(*                                                                         *)
(* A quote is represented by the moment at which the provider gave it: the *)
(* number of times the market had moved.  Trend[s][m] says how s then      *)
(* stood to its previous close.  Messages are acknowledged when their run  *)
(* has ended, so a message whose worker is lost is delivered again.        *)
(*                                                                         *)
(* A definition marked `Bug` is a faulty variant of the one below it.      *)
(***************************************************************************)
EXTENDS Integers, FiniteSets, Sequences

CONSTANTS
    Tasks,       \* the messages beat sends, numbered in their order
    Workers,     \* the worker processes of all pods
    Watchlist,   \* the symbols, in the order of the code
    Trend,       \* Trend[s][m] is "up", "down", or "flat"
    MaxMoment,   \* bound of the moments
    MaxLosses,   \* bound of the number of workers that are lost
    Nothing,     \* no quote, no data, no task
    Pending      \* a quote that is still being fetched

Symbols == {Watchlist[i] : i \in DOMAIN Watchlist}
Moments == 0 .. MaxMoment
Entries == Symbols \X Moments

ASSUME FeedAssumption ==
    /\ Tasks \subseteq Nat
    /\ MaxMoment \in Nat /\ MaxLosses \in Nat
    /\ Watchlist \in Seq(Symbols)
    /\ Trend \in [Symbols -> [Moments -> {"up", "down", "flat"}]]
    /\ {Nothing, Pending} \cap (Moments \cup Tasks) = {}
    /\ Nothing # Pending

VARIABLES
    moment,     \* how often the market has moved
    message,    \* message[t]: where the message of t is
    sent,       \* sent[t]: the moment beat sent t
    losses,     \* how many workers were lost
    pc,         \* pc[w]: the stage of the run of w
    task,       \* task[w]: what w runs
    quotes,     \* quotes[w][s]: the result of the fetch of s
    position,   \* position[w]: index of the loop over the symbols
    movers,     \* movers[w]: the entries of gainers and losers so far
    data,       \* the keys market:{symbol}
    analysis,   \* the key market:analysis, and who published it
    alone,      \* alone[w]: w is at work, and no other worker was meanwhile
    apart       \* no two runs have ever been under way at once (both histories)

runs == <<pc, task, quotes, position, movers>>
histories == <<alone, apart>>
vars == <<moment, message, sent, losses, runs, data, analysis, histories>>

NoData == [s \in Symbols |-> Nothing]
NoQuotes == [s \in Symbols |-> Pending]
Rising(entries) == {e \in entries : Trend[e[1]][e[2]] = "up"}
Falling(entries) == {e \in entries : Trend[e[1]][e[2]] = "down"}

-----------------------------------------------------------------------------
\* The market moves.
Move ==
    /\ moment < MaxMoment
    /\ moment' = moment + 1
    /\ UNCHANGED <<message, sent, losses, runs, data, analysis, histories>>

\* beat_schedule: the only replica of beat sends the next message.
Beat ==
    \E t \in Tasks :
        /\ message[t] = "unsent"
        /\ \A o \in Tasks : message[o] = "unsent" => t <= o
        /\ message' = [message EXCEPT ![t] = "queued"]
        /\ sent' = [sent EXCEPT ![t] = moment]
        /\ UNCHANGED <<moment, losses, runs, data, analysis, histories>>

\* A free process takes a message.
Receive(w) ==
    /\ pc[w] = "idle"
    /\ pc' = [pc EXCEPT ![w] = "fetch"]
    /\ \E t \in Tasks :
        /\ message[t] = "queued"
        /\ message' = [message EXCEPT ![t] = "running"]
        /\ task' = [task EXCEPT ![w] = t]
    /\ LET others == \E v \in Workers : pc[v] # "idle"
       IN  /\ alone' = [v \in Workers |-> v = w /\ ~others]
           /\ apart' = (apart /\ ~others)
    /\ UNCHANGED <<moment, sent, losses, quotes, position, movers, data, analysis>>

\* The fetches of the watchlist run side by side and end in any order; one that
\* fails gives None, which the loop over the symbols trips over and skips.
FetchQuote(w) ==
    /\ pc[w] = "fetch"
    /\ \/ \E s \in Symbols :
            /\ quotes[w][s] = Pending
            /\ \E q \in {moment, Nothing} : quotes' = [quotes EXCEPT ![w][s] = q]
            /\ UNCHANGED pc
       \/ /\ \A s \in Symbols : quotes[w][s] # Pending
          /\ pc' = [pc EXCEPT ![w] = "save"]
          /\ UNCHANGED quotes
    /\ UNCHANGED <<moment, message, sent, losses, task, position, movers, data,
                   analysis, histories>>

Entry(w, s) == <<s, quotes[w][s]>>

\* Bug: the lists are filled before the quote is saved.
SaveNextAfterListing(w) ==
    /\ pc[w] = "save"
    /\ position[w] \in DOMAIN Watchlist
    /\ position' = [position EXCEPT ![w] = @ + 1]
    /\ LET s == Watchlist[position[w]]
       IN  /\ movers' = [movers EXCEPT ![w] =
                @ \cup Rising({Entry(w, s)} \cap Entries) \cup Falling({Entry(w, s)} \cap Entries)]
           /\ \/ UNCHANGED data
              \/ quotes[w][s] # Nothing /\ data' = [data EXCEPT ![s] = quotes[w][s]]
    /\ UNCHANGED <<moment, message, sent, losses, pc, task, quotes, analysis, histories>>

\* One round of the loop: the quote is saved, then listed.  A round that fails,
\* for lack of a quote or of Redis, is skipped; its quote may be saved then, but
\* not listed.
SaveNext(w) ==
    /\ pc[w] = "save"
    /\ position[w] \in DOMAIN Watchlist
    /\ position' = [position EXCEPT ![w] = @ + 1]
    /\ LET s == Watchlist[position[w]]
       IN  \/ UNCHANGED <<data, movers>>
           \/ /\ quotes[w][s] # Nothing
              /\ data' = [data EXCEPT ![s] = quotes[w][s]]
              /\ \/ UNCHANGED movers
                 \/ movers' = [movers EXCEPT ![w] =
                      @ \cup Rising({Entry(w, s)}) \cup Falling({Entry(w, s)})]
    /\ UNCHANGED <<moment, message, sent, losses, pc, task, quotes, analysis, histories>>

\* save_market_analysis: what the run has listed replaces the analysis, also
\* when that is nothing.  A run that fails here is over, and not retried.
Publish(w) ==
    /\ pc[w] = "save"
    /\ position[w] \notin DOMAIN Watchlist
    /\ pc' = [pc EXCEPT ![w] = "ack"]
    /\ \/ analysis' = [gainers |-> Rising(movers[w]), losers |-> Falling(movers[w]),
                       by |-> task[w]]
       \/ UNCHANGED analysis
    /\ UNCHANGED <<moment, message, sent, losses, task, quotes, position,
                   movers, data, histories>>

\* Bug: the quotes outlive the run.
EndKeepingQuotes(w, place) ==
    /\ message' = [message EXCEPT ![task[w]] = place]
    /\ pc' = [pc EXCEPT ![w] = "idle"]
    /\ task' = [task EXCEPT ![w] = Nothing]
    /\ position' = [position EXCEPT ![w] = 1]
    /\ movers' = [movers EXCEPT ![w] = {}]
    /\ alone' = [alone EXCEPT ![w] = FALSE]
    /\ UNCHANGED <<moment, sent, quotes, data, analysis, apart>>

\* The locals of a run go with it.
End(w, place) ==
    /\ message' = [message EXCEPT ![task[w]] = place]
    /\ pc' = [pc EXCEPT ![w] = "idle"]
    /\ task' = [task EXCEPT ![w] = Nothing]
    /\ quotes' = [quotes EXCEPT ![w] = NoQuotes]
    /\ position' = [position EXCEPT ![w] = 1]
    /\ movers' = [movers EXCEPT ![w] = {}]
    /\ alone' = [alone EXCEPT ![w] = FALSE]
    /\ UNCHANGED <<moment, sent, data, analysis, apart>>

\* task_acks_late: the message leaves the queue when its run has ended.
Acknowledge(w) == pc[w] = "ack" /\ End(w, "done") /\ UNCHANGED losses

\* A time limit ends the run; the message is acknowledged as after a failure.
TimeOut(w) == pc[w] \in {"fetch", "save"} /\ End(w, "done") /\ UNCHANGED losses

\* Bug: messages are acknowledged when they are received.
LoseAcknowledged(w) ==
    /\ pc[w] # "idle"
    /\ losses < MaxLosses
    /\ losses' = losses + 1
    /\ End(w, "lost")

\* task_reject_on_worker_lost: the message goes back to the queue.
Lose(w) ==
    /\ pc[w] # "idle"
    /\ losses < MaxLosses
    /\ losses' = losses + 1
    /\ End(w, "queued")

Work(w) ==
    \/ Receive(w) \/ FetchQuote(w) \/ SaveNext(w) \/ Publish(w) \/ Acknowledge(w)

Finished ==
    /\ \A t \in Tasks : message[t] = "done"
    /\ moment = MaxMoment
    /\ UNCHANGED vars

-----------------------------------------------------------------------------
Init ==
    /\ moment = 0
    /\ message = [t \in Tasks |-> "unsent"]
    /\ sent = [t \in Tasks |-> 0]
    /\ losses = 0
    /\ pc = [w \in Workers |-> "idle"]
    /\ task = [w \in Workers |-> Nothing]
    /\ quotes = [w \in Workers |-> NoQuotes]
    /\ position = [w \in Workers |-> 1]
    /\ movers = [w \in Workers |-> {}]
    /\ data = NoData
    /\ analysis = Nothing
    /\ alone = [w \in Workers |-> FALSE]
    /\ apart = TRUE

Next ==
    \/ Move \/ Beat \/ Finished
    \/ \E w \in Workers : Work(w) \/ TimeOut(w) \/ Lose(w)

Spec == Init /\ [][Next]_vars

\* A worker process that has something to do does it.
FairSpec == Spec /\ \A w \in Workers : WF_vars(Work(w))

-----------------------------------------------------------------------------
(* Properties.                                                             *)

TypeOK ==
    /\ moment \in Moments /\ losses \in 0 .. MaxLosses
    /\ message \in [Tasks -> {"unsent", "queued", "running", "done"}]
    /\ sent \in [Tasks -> Moments]
    /\ pc \in [Workers -> {"idle", "fetch", "save", "ack"}]
    /\ task \in [Workers -> Tasks \cup {Nothing}]
    /\ quotes \in [Workers -> [Symbols -> Moments \cup {Nothing, Pending}]]
    /\ position \in [Workers -> 1 .. Len(Watchlist) + 1]
    /\ movers \in [Workers -> SUBSET Entries]
    /\ data \in [Symbols -> Moments \cup {Nothing}]
    /\ analysis \in {Nothing} \cup
         [gainers : SUBSET Entries, losers : SUBSET Entries, by : Tasks]
    /\ alone \in [Workers -> BOOLEAN] /\ apart \in BOOLEAN

Published == IF analysis = Nothing THEN {} ELSE analysis.gainers \cup analysis.losers

\* However runs overlap and are repeated, the analysis shows a symbol once, and
\* only with a quote fetched after its message was sent.
AnalysisIsOfOneRun ==
    /\ \A e, f \in Published : e[1] = f[1] => e = f
    /\ \A e \in Published : sent[analysis.by] <= e[2]

\* A message never gets lost with its worker: the update is delivered again until
\* a run of it ends, with a publication, a failure or a time-out.
EveryUpdateEnds == \A t \in Tasks : message[t] = "queued" ~> message[t] = "done"

\* A key goes forward, or a run that overlaps another one stores an older quote,
\* which is not older than its message.
KeyStep(s) ==
    \/ data[s] = Nothing
    \/ data'[s] # Nothing /\ data[s] <= data'[s]
    \/ \E w \in Workers : /\ pc[w] = "save" /\ ~alone[w]
                          /\ data'[s] = quotes[w][s]
                          /\ sent[task[w]] <= data'[s]

\* No key goes away, and only a run that overlaps another one may take it back to an
\* older quote.  A run that is alone brings every key forward, also one that takes
\* up the message of a lost worker or follows runs that overlapped.
DataGoesBackInOverlaps == [][\A s \in Symbols : KeyStep(s)]_vars

\* No symbol of the analysis gets an older quote, or a run that overlaps another one
\* publishes its own quotes, none older than its message.
GoesForward(before, after) ==
    \A e \in before, f \in after : e[1] = f[1] => e[2] <= f[2]
AnalysisStep ==
    \/ GoesForward(Published, Published')
    \/ \E w \in Workers : /\ pc[w] = "save" /\ ~alone[w]
                          /\ analysis'.by = task[w]
                          /\ \A f \in Published' : /\ f[2] = quotes[w][f[1]]
                                                   /\ sent[task[w]] <= f[2]

\* Only a run that overlaps another one may publish an older quote of a symbol than
\* the analysis had, and none that is older than its message; a run that is alone
\* never does, whatever ran before it.
AnalysisGoesBackInOverlaps == [][AnalysisStep]_vars

\* What the analysis lists is stored, also where a round of the loop fails or runs
\* overlap; and with that quote or a later one until runs have overlapped.
ListedSymbolsAreStored ==
    \A e \in Published : data[e[1]] # Nothing /\ (apart => e[2] <= data[e[1]])
=============================================================================
