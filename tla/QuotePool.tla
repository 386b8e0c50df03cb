----------------------------- MODULE QuotePool -----------------------------
(***************************************************************************)
(* What the requests of one API replica share besides the tables: the pool *)
(* of database connections, and the threads of asyncio.to_thread in which  *)
(* every quote is fetched.  A request that fetches quotes keeps the        *)
(* connection of its first SELECT meanwhile.  GET /portfolio gives its     *)
(* quotes up after 2.5 s; a trade and an addition have no such limit, nor  *)
(* has a look at the dashboard, which needs a thread and no connection.    *)
(*                                                                         *)
(* Time is counted in ticks.  Statements and the steps of a handler take   *)
(* none: it passes only while every handler and every thread waits for the *)
(* provider, for a connection or for a time-out that is not due yet.  What *)
(* the requests do to the tables is in PaperTrading and PortfolioHoldings. *)
(*                                                                         *)
(* A definition marked `Bug` is a faulty variant of the one below it.      *)
(***************************************************************************)
EXTENDS Integers, FiniteSets, Sequences

CONSTANTS
    Requests,       \* the requests that arrive at the replica
    Jobs,           \* what they are: [kind |-> ..., quotes |-> ...]
    Connections,    \* db_pool_size + db_max_overflow
    Threads,        \* the size of the default executor
    QuoteTimeout,   \* 2.5 s, in ticks
    PoolTimeout     \* db_pool_timeout, in ticks

ASSUME JobsAssumption ==
    \A j \in Jobs : /\ j.kind \in {"get", "trade", "add", "look"}
                    /\ j.quotes \in Nat
                    /\ j.kind # "get" => j.quotes = 1

ASSUME LimitsAssumption ==
    /\ Connections \in Nat \ {0} /\ Threads \in Nat \ {0}
    /\ QuoteTimeout \in Nat \ {0} /\ PoolTimeout \in Nat
    /\ QuoteTimeout <= PoolTimeout

VARIABLES
    pc,       \* pc[r]: what the handler of r waits for
    job,      \* job[r]: what r asks for
    age,      \* age[r]: the ticks of its present wait, where that has a limit
    since,    \* since[r]: the ticks since a reader was sent
    answer,   \* answer[r]: how r was answered
    delayed,  \* delayed[r]: time passed while r waited for a connection and
              \* another request fetched without a time limit
    fetches,  \* fetches[f]: the state of a work item of the executor
    queue     \* the work items that wait for a thread

vars == <<pc, job, age, since, answer, delayed, fetches, queue>>

Fetches == UNION {{r} \X (1 .. j.quotes) : r \in Requests, j \in Jobs}
FetchesOf(r) == {r} \X (1 .. job[r].quotes)
Running == {f \in Fetches : fetches[f] = "running"}
IsReader(r) == job[r].kind = "get"

\* The connections: a request that uses the database holds one while it fetches.
Holding == {r \in Requests : pc[r] = "fetch" /\ job[r].kind # "look"}
FreeConnection == Cardinality(Holding) < Connections
WaitsForConnection(r) == pc[r] \in {"wait", "again"}

\* The readers other than r that fetch or have got past the pool.
Crowd(r) ==
    {o \in Requests \ {r} :
        /\ IsReader(o)
        /\ pc[o] = "fetch" \/ (pc[o] = "done" /\ answer[o] # "refused")}

Done(r, how) ==
    /\ pc' = [pc EXCEPT ![r] = "done"]
    /\ answer' = [answer EXCEPT ![r] = how]

Rest(r, label) ==
    /\ pc' = [pc EXCEPT ![r] = label]
    /\ age' = [age EXCEPT ![r] = 0]
    /\ UNCHANGED <<job, since, answer>>

-----------------------------------------------------------------------------
\* to_thread, for each quote in the order of the holdings.
Fetch(r) ==
    /\ Rest(r, "fetch")
    /\ fetches' = [f \in Fetches |->
                     IF f \in FetchesOf(r) THEN "queued" ELSE fetches[f]]
    /\ queue' = queue \o [i \in 1 .. job[r].quotes |-> <<r, i>>]
    /\ UNCHANGED delayed

Send(r) ==
    /\ pc[r] = "idle"
    /\ \/ /\ job[r].kind # "look"
          /\ Rest(r, "wait")
          /\ UNCHANGED <<delayed, fetches, queue>>
       \/ job[r].kind = "look" /\ Fetch(r)

\* The first statement takes a connection.  Then the quotes are fetched, or the
\* request ends without any: nothing to price, a replay, an error.
Connect(r) ==
    /\ pc[r] = "wait"
    /\ FreeConnection
    /\ \/ /\ Done(r, "answered")
          /\ UNCHANGED <<job, age, since, delayed, fetches, queue>>
       \/ job[r].quotes > 0 /\ Fetch(r)

\* All quotes are there.  An addition commits, which gives its connection back,
\* and needs another one for what follows; any other request ends.
Resume(r) ==
    /\ pc[r] = "fetch"
    /\ \A f \in FetchesOf(r) : fetches[f] = "ended"
    /\ \/ Done(r, "answered") /\ UNCHANGED <<job, age, since, delayed>>
       \/ /\ job[r].kind = "add"
          /\ Rest(r, "again")
          /\ delayed' = [delayed EXCEPT ![r] = FALSE]
    /\ UNCHANGED <<fetches, queue>>

\* refresh and the count of the trade: a transaction without a wait in it.
Connect2(r) ==
    /\ pc[r] = "again"
    /\ FreeConnection
    /\ Done(r, "answered")
    /\ UNCHANGED <<job, age, since, delayed, fetches, queue>>

\* Bug: the quotes of a portfolio are waited for without a limit.
DueForConnections(r) == WaitsForConnection(r) /\ age[r] = PoolTimeout

\* The time-outs: of the pool, and of wait_for in get_portfolio.
Due(r) ==
    \/ WaitsForConnection(r) /\ age[r] = PoolTimeout
    \/ pc[r] = "fetch" /\ IsReader(r) /\ age[r] = QuoteTimeout

\* Bug: the work items that still wait for a thread are left in the queue.
GiveUpKeepingFetches(r) ==
    /\ pc[r] = "fetch" /\ Due(r)
    /\ Done(r, "unpriced")
    /\ UNCHANGED <<job, age, since, delayed, fetches, queue>>

\* Bug: every work item that waits for a thread is cancelled, whoever needs it.
GiveUpCancellingAll(r) ==
    /\ pc[r] = "fetch" /\ Due(r)
    /\ Done(r, "unpriced")
    /\ fetches' = [f \in Fetches |->
                     IF fetches[f] = "queued" THEN "cancelled" ELSE fetches[f]]
    /\ UNCHANGED <<job, age, since, delayed, queue>>

\* wait_for cancels the fetches.  One that no thread has taken is marked, and
\* passed over later; one that runs cannot be stopped, and its result is lost.
GiveUp(r) ==
    /\ pc[r] = "fetch" /\ Due(r)
    /\ Done(r, "unpriced")
    /\ fetches' = [f \in Fetches |->
                     IF f \in FetchesOf(r) /\ fetches[f] = "queued"
                     THEN "cancelled" ELSE fetches[f]]
    /\ UNCHANGED <<job, age, since, delayed, queue>>

\* QueuePool limit reached: the request is answered 500.
RefuseConnection(r) ==
    /\ WaitsForConnection(r) /\ Due(r)
    /\ Done(r, "refused")
    /\ UNCHANGED <<job, age, since, delayed, fetches, queue>>

Handle(r) ==
    Connect(r) \/ Resume(r) \/ Connect2(r) \/ GiveUp(r) \/ RefuseConnection(r)

CanTakeFetch == queue # <<>> /\ Cardinality(Running) < Threads

\* Bug: a thread does not pass over a work item that was cancelled.
TakeFetchUnlessCancelled ==
    /\ CanTakeFetch
    /\ fetches[Head(queue)] = "queued"
    /\ fetches' = [fetches EXCEPT ![Head(queue)] = "running"]
    /\ queue' = Tail(queue)
    /\ UNCHANGED <<pc, job, age, since, answer, delayed>>

\* A free thread takes the oldest work item, and drops it if it was cancelled.
TakeFetch ==
    /\ CanTakeFetch
    /\ fetches' = [fetches EXCEPT ![Head(queue)] =
                     IF @ = "queued" THEN "running" ELSE @]
    /\ queue' = Tail(queue)
    /\ UNCHANGED <<pc, job, age, since, answer, delayed>>

\* The provider answers or fails, when it likes, whoever still waits for it.
EndFetch(f) ==
    /\ fetches[f] = "running"
    /\ fetches' = [fetches EXCEPT ![f] = "ended"]
    /\ UNCHANGED <<pc, job, age, since, answer, delayed, queue>>

CanHandle(r) ==
    \/ Due(r)
    \/ WaitsForConnection(r) /\ FreeConnection
    \/ pc[r] = "fetch" /\ \A f \in FetchesOf(r) : fetches[f] = "ended"

Counts(r) == WaitsForConnection(r) \/ (pc[r] = "fetch" /\ IsReader(r))

\* Time passes when nothing else is to be done.
Tick ==
    /\ ~CanTakeFetch
    /\ \A r \in Requests : ~CanHandle(r)
    /\ age' = [r \in Requests |-> IF Counts(r) THEN age[r] + 1 ELSE age[r]]
    /\ since' = [r \in Requests |->
                   IF Counts(r) /\ IsReader(r) THEN since[r] + 1 ELSE since[r]]
    /\ delayed' = [r \in Requests |->
                     \/ delayed[r]
                     \/ WaitsForConnection(r) /\ \E o \in Holding : ~IsReader(o)]
    /\ UNCHANGED <<pc, job, answer, fetches, queue>>

-----------------------------------------------------------------------------
Init ==
    /\ pc = [r \in Requests |-> "idle"]
    /\ job \in [Requests -> Jobs]
    /\ age = [r \in Requests |-> 0]
    /\ since = [r \in Requests |-> 0]
    /\ answer = [r \in Requests |-> "none"]
    /\ delayed = [r \in Requests |-> FALSE]
    /\ fetches = [f \in Fetches |-> "none"]
    /\ queue = <<>>

Next ==
    \/ \E r \in Requests : Send(r) \/ Handle(r)
    \/ TakeFetch
    \/ \E f \in Fetches : EndFetch(f)
    \/ Tick

Spec == Init /\ [][Next]_vars

\* The event loop, the threads and the clock go on; whether the provider does
\* is left open.
FairSpec ==
    /\ Spec
    /\ \A r \in Requests : WF_vars(Handle(r))
    /\ WF_vars(TakeFetch)
    /\ WF_vars(Tick)

-----------------------------------------------------------------------------
(* Properties.                                                             *)

TypeOK ==
    /\ pc \in [Requests -> {"idle", "wait", "fetch", "again", "done"}]
    /\ job \in [Requests -> Jobs]
    /\ age \in [Requests -> 0 .. PoolTimeout]
    /\ since \in [Requests -> Nat]
    /\ answer \in [Requests -> {"none", "answered", "unpriced", "refused"}]
    /\ delayed \in [Requests -> BOOLEAN]
    /\ fetches \in [Fetches -> {"none", "queued", "running", "cancelled", "ended"}]
    /\ queue \in Seq(Fetches)

\* GET /portfolio is answered within the two time-outs, whatever the provider
\* does, however many threads hang and whoever holds the connections.
ReadersAnswerInTime ==
    \A r \in Requests : IsReader(r) => since[r] <= PoolTimeout + QuoteTimeout

\* The threads do not work off fetches that a reader has given up before they
\* began: a thread begins a fetch only while its request waits for it.
AbandonedFetchesNeverStart ==
    [][\A f \in Fetches : fetches[f] # "running" /\ fetches'[f] = "running"
          => pc[f[1]] = "fetch"]_vars

\* A request is refused a connection only when a trade or an addition, whose
\* fetch has no limit, has held one meanwhile, or when the other readers that
\* got one were enough to keep every connection busy for the whole time-out.
RefusalsHaveHolders ==
    \A r \in Requests : answer[r] = "refused" =>
        delayed[r] \/ Connections * PoolTimeout <= QuoteTimeout * Cardinality(Crowd(r))

\* The two pools never wait for each other: when no handler and no free thread
\* can go on and a request has not ended, the provider has yet to answer a fetch.
OnlyTheProviderHoldsUp ==
    /\ ~CanTakeFetch /\ \A r \in Requests : ~CanHandle(r)
    /\ \E r \in Requests : pc[r] \notin {"idle", "done"}
    => Running # {}

\* No request is passed over for ever by the threads or by the pool: if every
\* fetch that begins ends, every request does.
EveryRequestEnds ==
    (\A f \in Fetches : []<>(fetches[f] # "running"))
    => \A r \in Requests : pc[r] # "idle" ~> pc[r] = "done"
=============================================================================
